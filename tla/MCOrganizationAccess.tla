------------------------ MODULE MCOrganizationAccess ------------------------
(* Small instances of OrganizationAccess for the model checker. *)
EXTENDS OrganizationAccess, TLC

ShippedNames == {"organization.manage", "user.manage", "role.manage", "expense.create"}
CapNames == ShippedNames \cup {"expense.audit"}
ShortLists == {{}, {"expense.create", "user.manage", "expense.audit"}, {"employee"}}

Alphabet == [x \in {"admin", "auditor", "employee"} |->
               CASE x = "admin" -> 1 [] x = "auditor" -> 2 [] x = "employee" -> 3]

\* Two requests of any kind, or more that grant and revoke the platform's
\* rights, in an organization of administrators that nobody has changed.
Started == {r \in Requests : job[r].pc # "new"}
Untouched ==
  /\ \A u \in Users : AdminHere(u)
  /\ active = Users /\ permissions = Shipped /\ roles = CatalogRoles
  /\ listed = Shipped \cup CatalogRoles
  /\ \A x \in CatalogRoles : catalog[x] = StandardGrants(x) /\ RoleGrants(x) = StandardGrants(x)
  /\ \A g \in grants : g.by = "setup"
  /\ \A r \in Started : InFlight(r) => job[r].op = "set_superuser"
MayStart ==
  IF Cardinality(Started) < 2 THEN Ops ELSE IF Untouched THEN {"set_superuser"} ELSE {}

MCNext ==
  \/ \E op \in MayStart, r \in Requests \ Started, u \in Users : Authorize(r, u, op)
  \/ \E r \in Started : Handle(r)
  \/ Rest

MCSpec == Init /\ [][MCNext]_vars

Symmetry == Permutations(Users) \cup Permutations(Requests)
=============================================================================
