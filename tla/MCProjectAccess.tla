-------------------------- MODULE MCProjectAccess --------------------------
EXTENDS ProjectAccess, TLC

Symmetry == Permutations(Employees) \cup Permutations(Calls) \cup Permutations(Readers)

\* Bound: no call asks for a row whose table has no number left for it, and not
\* both tables use up their numbers; nobody reads while the last two notices are written.
Coming(ops) == {c \in Calls : call[c].pc \notin {"idle", "inserted"} /\ call[c].op \in ops}
MembersToCome == lastMember + Cardinality(Coming({"add", "approved"}))
RequestsToCome == lastRequest + Cardinality(Coming({"request"}))
Bound ==
  /\ MembersToCome <= MaxId /\ RequestsToCome <= MaxId
  /\ MembersToCome + RequestsToCome < 2 * MaxId
  /\ lastNotice + 1 >= MaxNotices => \A r \in Readers : Closed(r)

ReadLists == {[of |-> "members", filter |-> "any"], [of |-> "queue", filter |-> "any"],
  [of |-> "queue", filter |-> "pending"]}
=============================================================================
