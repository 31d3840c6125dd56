---------------------- MODULE OrganizationAccess_proofs ----------------------
(***************************************************************************)
(* Proofs about OrganizationAccess, for every set of accounts, roles,      *)
(* capabilities and requests.                                              *)
(*                                                                         *)
(* The argument: a request under way knows something about the tables      *)
(* (Fits): the administrators it has locked are administrators, the member *)
(* it has read is one still or has left, the rows it is about to commit    *)
(* hang on a membership or a role that exists.  Unless it was overtaken,   *)
(* the rows it has deleted are all there are, the rows it has inserted are *)
(* what it was sent, and the role it is installing is bare.  One that is   *)
(* to change the platform's administrators speaks for one of them, unless  *)
(* it has lapsed.  A commit is Gentle: it leaves the others with what they *)
(* know.                                                                   *)
(***************************************************************************)
EXTENDS OrganizationAccess, FiniteSetTheorems, TLAPS

Rows(o) == {g \in grants : g.owner = o}
Owners == ({"member_roles"} \X Users) \cup ({"role_grants"} \X Roles)
            \cup ({"member_permissions"} \X Users)

\* What a row hangs on, given the roles and capabilities there are.
Hangs(g, someRoles, someCaps) ==
  /\ g.owner[1] = "member_roles" => member[g.owner[2]] # "none" /\ g.item \in someRoles
  /\ g.owner[1] = "role_grants" => g.owner[2] \in someRoles /\ g.item \in someCaps

Reading(j) == j.pc \in {"read", "locked"}
Replacing(j) == j.pc \in {"deleting", "deleted", "inserted"}
Installs(j) == j.pc \in {"installing", "granting"}

\* What a request knows in state j of its own.
Fresh(j) == j.pc = "authorized" => j.new = {}

KnowsTarget(j) ==
  Reading(j) =>
    /\ j.op = "remove_member" /\ j.owner \in {"remove_member"} \X Users
    /\ j.seen # "none"
    /\ j.seen = "member" => member[j.owner[2]] = "member" \/ j.owner[2] \in departed

HoldsAdmins(j) ==
  j.pc = "locked" => j.count = Cardinality(j.held) /\ \A u \in j.held : AdminHere(u)

KnowsOwner(j) ==
  Replacing(j) =>
    /\ j.op \in Replacements /\ j.owner \in Owners /\ j.owner[1] = j.op
    /\ j.op = "role_grants" => j.owner[2] \in roles
    /\ \A g \in j.out : g.owner = j.owner

KnowsRows(j) ==
  j.pc = "inserted" =>
    \A g \in j.new : g.owner = j.owner /\ Hangs(g, roles, permissions)

KnowsList(r, j) ==
  Replacing(j) /\ <<r, j.owner>> \notin overtaken =>
    /\ j.out = Rows(j.owner)
    /\ j.op = "member_roles" => member[j.owner[2]] # "none"
    /\ j.pc = "inserted" => LET names == {g.item : g \in j.new} IN
                               names \subseteq j.sent /\ j.sent \cap j.known \subseteq names

KnowsNames(j) ==
  j.pc = "authorized" \/ Replacing(j) =>
    /\ j.op = "member_roles" => j.known \subseteq roles
    /\ j.op # "member_roles" => j.known \subseteq permissions

\* This list was without rows when it was last looked at.
Bare(r, o) == <<r, o>> \notin overtaken => Rows(o) = {}

KnowsRoles(r, j) ==
  Installs(j) =>
    /\ j.op = "install"
    /\ \A g \in j.new : /\ g.owner \in {"role_grants"} \X Roles /\ Bare(r, g.owner)
                        /\ Hangs(g, roles \cup j.made, permissions \cup j.caps)
    /\ j.pc = "granting" => /\ j.owner \in {"role_grants"} \X Roles
                            /\ j.owner[2] \in roles \cup j.made
                            /\ Bare(r, j.owner)

Rights(j) == j.pc \in {"authorized", "listed"} /\ j.op = "set_superuser"
KnowsRights(r, j) ==
  /\ Rights(j) => j.actor \in superusers \/ r \in lapsed
  /\ j.pc = "listed" => /\ j.op = "set_superuser" /\ j.owner \in {"set_superuser"} \X Users
                        /\ ~j.flag /\ j.owner[2] = j.actor => r \in lapsed

Fits(r, j) ==
  /\ Fresh(j) /\ KnowsTarget(j) /\ HoldsAdmins(j)
  /\ KnowsOwner(j) /\ KnowsRows(j) /\ KnowsList(r, j) /\ KnowsNames(j)
  /\ KnowsRoles(r, j) /\ KnowsRights(r, j)

\* Who comes back as an administrator after leaving as a member is noted.
ReturnsAreNoted == \A u \in departed : AdminHere(u) => u \in comeback
OneAdmin == comeback = {} => \E u \in Users : AdminHere(u)
RolesAreThere == CatalogRoles \subseteq roles

\* The inductive invariant.
IInv ==
  /\ TypeOK /\ RolesHangOnMemberships /\ RolesAreThere
  /\ ReturnsAreNoted /\ OneAdmin
  /\ \A r \in Requests : Fits(r, job[r])

-----------------------------------------------------------------------------
LEMMA Active ==
  ASSUME TypeOK, NEW r \in Requests, job[r].pc \notin {"new", "done"}
  PROVE  job[r] \in Job
  BY DEF TypeOK, New, Done

LEMMA RowsAreTyped ==
  /\ \A u \in Users, items \in SUBSET Roles, w \in Writers :
        RowsFor(<<"member_roles", u>>, items, w) \subseteq Row
  /\ \A x \in Roles, items \in SUBSET Caps, w \in Writers :
        RowsFor(<<"role_grants", x>>, items, w) \subseteq Row
  /\ \A u \in Users, items \in SUBSET Caps, w \in Writers :
        RowsFor(<<"member_permissions", u>>, items, w) \subseteq Row
  BY DEF RowsFor, Row

LEMMA RowsOfAnOwner ==
  ASSUME NEW o, NEW items, NEW w
  PROVE  \A g \in RowsFor(o, items, w) : g.owner = o /\ g.item \in items /\ g.by = w
  BY DEF RowsFor

LEMMA ItemsOfRows ==
  ASSUME NEW o, NEW items, NEW w
  PROVE  \A i : i \in items <=> \E g \in RowsFor(o, items, w) : g.item = i
  <1>1. ASSUME NEW i \in items
        PROVE  \E g \in RowsFor(o, items, w) : g.item = i
    <2>1. [owner |-> o, item |-> i, by |-> w] \in RowsFor(o, items, w)
      BY DEF RowsFor
    <2> QED
      BY <2>1
  <1> QED
    BY <1>1, RowsOfAnOwner

LEMMA RequestsWrite == \A r \in Requests : r \in Writers
  BY DEF Writers

-----------------------------------------------------------------------------
(* Steps that write no table. *)

LEMMA JobStep ==
  ASSUME IInv, UNCHANGED <<tables, history>>,
         NEW r \in Requests, NEW s \in Job \cup {New, Done},
         job' = [job EXCEPT ![r] = s], Fits(r, s)
  PROVE  IInv'
  <1>1. /\ job' \in [Requests -> Job \cup {New, Done}]
        /\ job'[r] = s /\ \A q \in Requests \ {r} : job'[q] = job[q]
    BY DEF IInv, TypeOK
  <1>2. TypeOK' /\ RolesHangOnMemberships' /\ RolesAreThere' /\ ReturnsAreNoted' /\ OneAdmin'
    BY <1>1 DEF IInv, TypeOK, tables, history, RolesHangOnMemberships, RolesAreThere, ReturnsAreNoted,
                OneAdmin, AdminHere
  <1>3. ASSUME NEW q \in Requests
        PROVE  Fits(q, job[q])'
    <2>1. Fits(q, job'[q])
      BY <1>1 DEF IInv
    <2> QED
      BY <2>1 DEF tables, history, Fits, Fresh, KnowsTarget, HoldsAdmins, KnowsOwner, KnowsRows, KnowsList,
           KnowsNames, KnowsRights, Rights, Bare,
                  KnowsRoles, Hangs, Rows, AdminHere
  <1> QED
    BY <1>2, <1>3 DEF IInv

LEMMA Nothing == \A r : Fits(r, Done)
  BY DEF Fits, Done, Fresh, KnowsTarget, HoldsAdmins, KnowsOwner, KnowsRows, KnowsList, KnowsNames,
       KnowsRights, Rights, Bare, KnowsRoles,
         Reading, Replacing, Installs

LEMMA GiveUpKeeps ==
  ASSUME IInv, NEW r \in Requests, GiveUp(r)
  PROVE  IInv'
  <1>1. UNCHANGED <<tables, history>> /\ job' = [job EXCEPT ![r] = Done]
    BY DEF GiveUp, Finish
  <1> QED
    BY <1>1, Nothing, JobStep

\* The state a request was in, where it is under way.
LEMMA UnderWay ==
  ASSUME IInv, NEW r \in Requests, job[r].pc \notin {"new", "done"}
  PROVE  job[r] \in Job /\ Fits(r, job[r]) /\ TypeOK
  BY Active DEF IInv

LEMMA AuthorizeKeeps ==
  ASSUME IInv, NEW r \in Requests, NEW u \in Users, NEW op \in Ops, Authorize(r, u, op)
  PROVE  IInv'
  <1> DEFINE s == [pc |-> "authorized", op |-> op, actor |-> u, super |-> u \in superusers,
                   owner |-> <<op, u>>, seen |-> "none", count |-> 0, held |-> {}, flag |-> FALSE,
                   known |-> IF op = "member_roles" THEN roles ELSE permissions, sent |-> {},
                   out |-> {}, new |-> {}, plan |-> catalog, todo |-> {}, caps |-> {}, made |-> {}]
  <1>1. s \in Job
    <2>1. <<op, u>> \in AllOps \X (Users \cup Roles)
      BY OpsAreKnown
    <2>2. 0 \in 0 .. Cardinality(Users)
      BY UsersFinite, FS_CardinalityType
    <2>3. catalog \in Catalogs
      BY DEF IInv, TypeOK
    <2>4. (IF op = "member_roles" THEN roles ELSE permissions) \in SUBSET (Caps \cup Roles)
      BY DEF IInv, TypeOK
    <2> QED
      BY <2>1, <2>2, <2>3, <2>4 DEF Job
  <1>0. op = "set_superuser" => u \in superusers
    BY DEF Authorize, MayAsk, SystemOps
  <1>2. Fits(r, s)
    BY <1>0 DEF Fits, Fresh, KnowsTarget, HoldsAdmins, KnowsOwner, KnowsRows, KnowsList, KnowsNames,
         KnowsRights, Rights, Bare, KnowsRoles,
           Reading, Replacing, Installs
  <1>3. UNCHANGED <<tables, history>> /\ job' = [job EXCEPT ![r] = s]
    BY DEF Authorize
  <1> HIDE DEF s
  <1> QED
    BY <1>1, <1>2, <1>3, JobStep

LEMMA ReadTargetKeeps ==
  ASSUME IInv, NEW r \in Requests, NEW u \in Users, ReadTarget(r, u)
  PROVE  IInv'
  <1> DEFINE s == [job[r] EXCEPT !.owner = <<"remove_member", u>>, !.seen = member[u], !.pc = "read"]
  <1>1. job[r] \in Job /\ job[r].op = "remove_member" /\ member[u] \in {"member", "admin"} /\ TypeOK
    BY UnderWay DEF ReadTarget, At, TypeOK
  <1>2. <<"remove_member", u>> \in AllOps \X (Users \cup Roles)
    BY DEF AllOps, MemberOps
  <1>3. s \in Job
    BY <1>1, <1>2 DEF Job
  <1>4. /\ s.pc = "read" /\ s.op = "remove_member" /\ s.owner = <<"remove_member", u>>
        /\ s.seen = member[u]
    BY <1>1 DEF Job
  <1>5. UNCHANGED <<tables, history>> /\ job' = [job EXCEPT ![r] = s]
    BY <1>1 DEF ReadTarget, Goto, Job
  <1> HIDE DEF s
  <1>6. Fits(r, s)
    BY <1>1, <1>4 DEF Fits, Fresh, KnowsTarget, HoldsAdmins, KnowsOwner, KnowsRows, KnowsList, KnowsNames,
         KnowsRights, Rights, Bare, KnowsRoles,
           Reading, Replacing, Installs
  <1> QED
    BY <1>3, <1>5, <1>6, JobStep

LEMMA LockAdminsKeeps ==
  ASSUME IInv, NEW r \in Requests, LockAdmins(r)
  PROVE  IInv'
  <1> DEFINE admins == {u \in Users : AdminHere(u)}
  <1> DEFINE s == [job[r] EXCEPT !.count = Cardinality(admins), !.held = admins, !.pc = "locked"]
  <1>1. job[r] \in Job /\ job[r].op = "remove_member" /\ job[r].pc = "read" /\ Fits(r, job[r])
    BY UnderWay DEF LockAdmins, At
  <1>2. Cardinality(admins) \in 0 .. Cardinality(Users)
    <2>1. admins \subseteq Users
      OBVIOUS
    <2>2. IsFiniteSet(admins) /\ Cardinality(admins) <= Cardinality(Users)
      BY <2>1, UsersFinite, FS_Subset
    <2> QED
      BY <2>2, UsersFinite, FS_CardinalityType
  <1>3. s \in Job
    BY <1>1, <1>2 DEF Job
  <1>4. /\ s.pc = "locked" /\ s.op = "remove_member" /\ s.owner = job[r].owner
        /\ s.seen = job[r].seen /\ s.count = Cardinality(s.held) /\ \A u \in s.held : AdminHere(u)
    BY <1>1 DEF Job
  <1>5. UNCHANGED <<tables, history>> /\ job' = [job EXCEPT ![r] = s]
    BY <1>1 DEF LockAdmins, Goto, Job
  <1> HIDE DEF s
  <1>6. Fits(r, s)
    BY <1>1, <1>4 DEF Fits, Fresh, KnowsTarget, HoldsAdmins, KnowsOwner, KnowsRows, KnowsList, KnowsNames,
         KnowsRights, Rights, Bare, KnowsRoles,
           Reading, Replacing, Installs
  <1> QED
    BY <1>3, <1>5, <1>6, JobStep

-----------------------------------------------------------------------------
(* Replacing a list, up to the commit. *)

LEMMA OwnersAreTyped ==
  \A o \in Owners : o[1] \in Replacements => o \in AllOps \X (Users \cup Roles)
  BY DEF Owners, Replacements, AllOps

LEMMA StartDeleteKeeps ==
  ASSUME IInv, NEW r \in Requests, NEW x, StartDelete(r, x), job[r].pc = "authorized",
         job[r].op \in Replacements, <<job[r].op, x>> \in Owners,
         job[r].op = "role_grants" => x \in roles, job[r].op = "member_roles" => member[x] # "none"
  PROVE  IInv'
  <1> DEFINE o == <<job[r].op, x>>
  <1> DEFINE s == [job[r] EXCEPT !.owner = o, !.out = Rows(o), !.pc = "deleting"]
  <1>1. job[r] \in Job /\ Fits(r, job[r]) /\ TypeOK
    BY UnderWay
  <1>2. o \in AllOps \X (Users \cup Roles) /\ Rows(o) \subseteq Row
    BY <1>1, OwnersAreTyped DEF TypeOK, Rows
  <1>3. s \in Job
    BY <1>1, <1>2 DEF Job
  <1>4. /\ s.pc = "deleting" /\ s.op = job[r].op /\ s.owner = o /\ s.out = Rows(o)
        /\ s.known = job[r].known
    BY <1>1 DEF Job
  <1>5. UNCHANGED <<tables, history>> /\ job' = [job EXCEPT ![r] = s]
    BY <1>1 DEF StartDelete, Goto, Job, Rows
  <1> HIDE DEF s
  <1>6. Fits(r, s)
    BY <1>1, <1>4 DEF Fits, Fresh, KnowsTarget, HoldsAdmins, KnowsOwner, KnowsRows, KnowsList, KnowsNames,
         KnowsRights, Rights, Bare, KnowsRoles,
           Reading, Replacing, Installs, Rows
  <1> QED
    BY <1>3, <1>5, <1>6, JobStep

LEMMA SetKeeps ==
  ASSUME IInv, NEW r \in Requests,
         \/ \E x \in Roles : SetRoleGrants(r, x)
         \/ \E u \in Users : SetMemberRoles(r, u) \/ SetMemberPermissions(r, u)
  PROVE  IInv'
  <1>1. ASSUME NEW x \in Roles, SetRoleGrants(r, x)
        PROVE  IInv'
    BY <1>1, StartDeleteKeeps DEF SetRoleGrants, At, Owners, Replacements
  <1>2. ASSUME NEW u \in Users, SetMemberRoles(r, u)
        PROVE  IInv'
    BY <1>2, StartDeleteKeeps DEF SetMemberRoles, At, Owners, Replacements
  <1>3. ASSUME NEW u \in Users, SetMemberPermissions(r, u)
        PROVE  IInv'
    BY <1>3, StartDeleteKeeps DEF SetMemberPermissions, At, Owners, Replacements
  <1> QED
    BY <1>1, <1>2, <1>3

LEMMA FinishDeleteKeeps ==
  ASSUME IInv, NEW r \in Requests, FinishDelete(r)
  PROVE  IInv'
  <1> DEFINE s == [job[r] EXCEPT !.out = @ \cap grants, !.pc = "deleted"]
  <1>1. job[r] \in Job /\ job[r].pc = "deleting" /\ Fits(r, job[r])
    BY UnderWay DEF FinishDelete, At
  <1>2. s \in Job
    BY <1>1 DEF Job
  <1>3. /\ s.pc = "deleted" /\ s.op = job[r].op /\ s.owner = job[r].owner
        /\ s.out = job[r].out \cap grants /\ s.known = job[r].known
    BY <1>1 DEF Job
  <1>4. UNCHANGED <<tables, history>> /\ job' = [job EXCEPT ![r] = s]
    BY <1>1 DEF FinishDelete, Goto, Job
  <1> HIDE DEF s
  <1>5. KnowsOwner(s) /\ KnowsList(r, s) /\ KnowsNames(s)
    BY <1>1, <1>3 DEF Fits, KnowsOwner, KnowsList, KnowsNames, Replacing, Rows
  <1>6. Fits(r, s)
    BY <1>3, <1>5 DEF Fits, Fresh, KnowsTarget, HoldsAdmins, KnowsRows, KnowsRoles, KnowsRights, Rights,
                      Reading, Installs
  <1> QED
    BY <1>2, <1>4, <1>6, JobStep

\* What an INSERT may name hangs on what is there.
LEMMA KnownHangs ==
  ASSUME TypeOK, NEW o \in Owners, o[1] \in Replacements, NEW names,
         o[1] = "role_grants" => o[2] \in roles,
         NEW items \in SUBSET Known(o[1], o[2], names), NEW w \in Requests
  PROVE  /\ RowsFor(o, items, w) \subseteq Row
         /\ \A g \in RowsFor(o, items, w) :
              g.owner = o /\ Hangs(g, roles, permissions)
  <1>1. w \in Writers
    BY RequestsWrite
  <1>2. CASE o[1] = "member_roles"
    <2>1. PICK u \in Users : o = <<"member_roles", u>>
      BY <1>2 DEF Owners
    <2>2. items \subseteq roles /\ (items # {} => member[u] # "none")
      BY <1>2, <2>1 DEF Known
    <2> QED
      BY <1>1, <2>1, <2>2, RowsAreTyped, RowsOfAnOwner DEF TypeOK, Hangs
  <1>3. CASE o[1] = "role_grants"
    <2>1. PICK x \in Roles : o = <<"role_grants", x>>
      BY <1>3 DEF Owners
    <2>2. items \subseteq permissions
      BY <1>3, <2>1 DEF Known
    <2> QED
      BY <1>1, <2>1, <2>2, RowsAreTyped, RowsOfAnOwner DEF TypeOK, Hangs
  <1>4. CASE o[1] = "member_permissions"
    <2>1. PICK u \in Users : o = <<"member_permissions", u>>
      BY <1>4 DEF Owners
    <2>2. items \subseteq permissions
      BY <1>4, <2>1 DEF Known
    <2> QED
      BY <1>1, <2>1, <2>2, RowsAreTyped, RowsOfAnOwner DEF TypeOK, Hangs
  <1> QED
    BY <1>2, <1>3, <1>4 DEF Replacements

LEMMA InsertKeeps ==
  ASSUME IInv, NEW r \in Requests, NEW names \in Payloads, Insert(r, names)
  PROVE  IInv'
  <1> DEFINE o == job[r].owner
             wanted == Known(job[r].op, o[2], names)
             equal == {g \in (grants \ job[r].out) \cup OthersInsert(r) :
                         g.owner = o /\ g.item \in wanted}
             rows == RowsFor(o, wanted \ {g.item : g \in equal}, r)
             s == [job[r] EXCEPT !.sent = names, !.new = rows, !.pc = "inserted"]
  <1>1. job[r] \in Job /\ job[r].pc = "deleted" /\ Fits(r, job[r]) /\ TypeOK
    BY UnderWay DEF Insert, At
  <1>2. o \in Owners /\ o[1] = job[r].op /\ job[r].op \in Replacements
        /\ (job[r].op = "role_grants" => o[2] \in roles)
    BY <1>1 DEF Fits, KnowsOwner, Replacing
  <1>3. /\ rows \subseteq Row
        /\ \A g \in rows : g.owner = o /\ Hangs(g, roles, permissions)
    <2>1. wanted \ {g.item : g \in equal} \in SUBSET Known(o[1], o[2], names)
      BY <1>2
    <2> HIDE DEF wanted, equal
    <2> QED
      BY <1>1, <1>2, <2>1, KnownHangs
  <1>4. UNCHANGED <<tables, history>> /\ job' = [job EXCEPT ![r] = s]
    BY <1>1 DEF Insert, Goto, Job
  <1>0. ASSUME <<r, o>> \notin overtaken
        PROVE  LET items == {g.item : g \in rows} IN
               items \subseteq names /\ names \cap job[r].known \subseteq items
    <2>1. /\ job[r].out = Rows(o)
          /\ job[r].op = "member_roles" => member[o[2]] # "none"
          /\ job[r].op = "member_roles" => job[r].known \subseteq roles
          /\ job[r].op # "member_roles" => job[r].known \subseteq permissions
      BY <1>0, <1>1 DEF Fits, KnowsList, KnowsNames, Replacing
    <2>2. wanted \subseteq names /\ names \cap job[r].known \subseteq wanted
      BY <2>1 DEF Known
    <2>3. equal \cap OthersInsert(r) = {}
      BY DEF Insert
    <2>4. equal = {}
      BY <2>1, <2>3 DEF Rows
    <2>5. rows = RowsFor(o, wanted, r)
      BY <2>4
    <2> HIDE DEF wanted, rows, equal
    <2>6. \A i : i \in wanted <=> \E g \in rows : g.item = i
      BY <2>5, ItemsOfRows
    <2> QED
      BY <2>2, <2>6
  <1> HIDE DEF rows
  <1>5. s \in Job
    BY <1>1, <1>3, NamesAreGiven DEF Job
  <1>6. /\ s.pc = "inserted" /\ s.op = job[r].op /\ s.owner = o
        /\ s.out = job[r].out /\ s.new = rows /\ s.sent = names /\ s.known = job[r].known
    BY <1>1 DEF Job
  <1> HIDE DEF s
  <1>7. KnowsOwner(s) /\ KnowsNames(s)
    BY <1>1, <1>6 DEF Fits, KnowsOwner, KnowsNames, Replacing
  <1>8. KnowsList(r, s)
    BY <1>0, <1>1, <1>6 DEF Fits, KnowsList, Replacing
  <1>9. Fits(r, s)
    BY <1>3, <1>6, <1>7, <1>8
       DEF Fits, Fresh, KnowsTarget, HoldsAdmins, KnowsRows, KnowsRoles, KnowsRights, Rights, Reading, Installs
  <1> QED
    BY <1>4, <1>5, <1>9, JobStep

-----------------------------------------------------------------------------
(* An installation, up to the commit. *)

LEMMA InstallPermissionsKeeps ==
  ASSUME IInv, NEW r \in Requests, InstallPermissions(r)
  PROVE  IInv'
  <1> DEFINE s == [job[r] EXCEPT !.plan = catalog, !.caps = (listed \cap Caps) \ permissions,
                                 !.todo = listed \cap Roles, !.pc = "installing"]
  <1>1. job[r] \in Job /\ job[r].op = "install" /\ job[r].pc = "authorized" /\ TypeOK
    BY UnderWay DEF InstallPermissions, At
  <1>2. catalog \in Catalogs
    BY <1>1 DEF TypeOK
  <1>3. s \in Job
    BY <1>1, <1>2 DEF Job
  <1>4. s.pc = "installing" /\ s.op = "install" /\ s.new = job[r].new
    BY <1>1 DEF Job
  <1>5. job' = [job EXCEPT ![r] = s] /\ UNCHANGED <<tables, history>>
    BY <1>1 DEF InstallPermissions, Goto, Job
  <1> HIDE DEF s
  <1>6. job[r].new = {}
    BY <1>1, UnderWay DEF Fits, Fresh
  <1>7. Fits(r, s)
    BY <1>4, <1>6 DEF Fits, Fresh, KnowsTarget, HoldsAdmins, KnowsOwner, KnowsRows, KnowsList, KnowsNames,
         KnowsRights, Rights, Bare, KnowsRoles,
           Reading, Replacing, Installs
  <1> QED
    BY <1>3, <1>5, <1>7, JobStep

LEMMA InstallRoleKeeps ==
  ASSUME IInv, NEW r \in Requests, NEW x \in Roles, InstallRole(r, x)
  PROVE  IInv'
  <1> DEFINE o == <<"role_grants", x>>
             configured == Items(grants, o) # {}
             s == [job[r] EXCEPT !.owner = o,
                                 !.todo = IF configured THEN @ \ {x} ELSE @,
                                 !.made = IF x \in roles THEN @ ELSE @ \cup {x},
                                 !.pc = IF configured THEN "installing" ELSE "granting"]
  <1>1. job[r] \in Job /\ job[r].pc = "installing" /\ Fits(r, job[r])
    BY UnderWay DEF InstallRole, At
  <1>2. o \in AllOps \X (Users \cup Roles)
    BY DEF AllOps, Replacements
  <1>3. s \in Job
    BY <1>1, <1>2 DEF Job
  <1>4. /\ s.pc = (IF configured THEN "installing" ELSE "granting")
        /\ s.op = job[r].op /\ s.owner = o
        /\ s.made = (IF x \in roles THEN job[r].made ELSE job[r].made \cup {x})
        /\ s.new = job[r].new /\ s.caps = job[r].caps
    BY <1>1 DEF Job
  <1>5. job' = [job EXCEPT ![r] = s] /\ UNCHANGED <<tables, history>>
    BY <1>1 DEF InstallRole, Goto, Job
  <1>6. ~configured => Bare(r, o)
    BY DEF Bare, Rows, Items
  <1> HIDE DEF s, configured
  <1>7. job[r].made \subseteq s.made /\ x \in roles \cup s.made
    BY <1>4
  <1>8. KnowsRoles(r, s)
    BY <1>1, <1>4, <1>6, <1>7 DEF Fits, KnowsRoles, Installs, Hangs
  <1>9. Fits(r, s)
    BY <1>4, <1>8 DEF Fits, Fresh, KnowsTarget, HoldsAdmins, KnowsOwner, KnowsRows, KnowsList, KnowsNames,
           KnowsRights, Rights, Reading, Replacing
  <1> QED
    BY <1>3, <1>5, <1>9, JobStep

LEMMA InstallGrantsKeeps ==
  ASSUME IInv, NEW r \in Requests, InstallGrants(r)
  PROVE  IInv'
  <1> DEFINE o == job[r].owner
             x == o[2]
             standard == job[r].plan[x] \cap listed \cap (permissions \cup job[r].caps)
             equal == {g \in grants \cup OthersInsert(r) : g.owner = o /\ g.item \in standard}
             items == standard \ {g.item : g \in equal}
             rows == RowsFor(o, items, r)
             s == [job[r] EXCEPT !.todo = @ \ {x}, !.new = @ \cup rows, !.pc = "installing"]
  <1>1. job[r] \in Job /\ job[r].pc = "granting" /\ Fits(r, job[r]) /\ TypeOK
    BY UnderWay DEF InstallGrants, At
  <1>2. /\ o \in {"role_grants"} \X Roles /\ x \in roles \cup job[r].made /\ Bare(r, o)
        /\ job[r].op = "install"
    BY <1>1 DEF Fits, KnowsRoles, Installs
  <1>3. o = <<"role_grants", x>> /\ x \in Roles
    BY <1>2
  <1>4. items \subseteq permissions \cup job[r].caps /\ items \in SUBSET Caps
    BY <1>1 DEF TypeOK, Job
  <1>5. job' = [job EXCEPT ![r] = s] /\ UNCHANGED <<tables, history>>
    BY <1>1 DEF InstallGrants, Goto, Job
  <1> HIDE DEF items
  <1>6. /\ rows \subseteq Row
        /\ \A g \in rows : g.owner = o /\ g.item \in items
    <2>1. PICK y \in Roles : o = <<"role_grants", y>>
      BY <1>2
    <2>2. RowsFor(<<"role_grants", y>>, items, r) \subseteq Row
      BY <1>4, RowsAreTyped, RequestsWrite
    <2> QED
      BY <2>1, <2>2, RowsOfAnOwner, RequestsWrite
  <1> HIDE DEF rows
  <1>7. s \in Job
    BY <1>1, <1>6 DEF Job
  <1>8. /\ s.pc = "installing" /\ s.op = "install" /\ s.made = job[r].made
        /\ s.new = job[r].new \cup rows /\ s.caps = job[r].caps
    BY <1>1, <1>2 DEF Job
  <1> HIDE DEF s
  <1>9. \A g \in rows : /\ g.owner \in {"role_grants"} \X Roles /\ Bare(r, g.owner)
                        /\ Hangs(g, roles \cup s.made, permissions \cup s.caps)
    BY <1>2, <1>3, <1>4, <1>6, <1>8 DEF Hangs
  <1>10. KnowsRoles(r, s)
    BY <1>1, <1>8, <1>9 DEF Fits, KnowsRoles, Installs
  <1>11. Fits(r, s)
    BY <1>8, <1>10 DEF Fits, Fresh, KnowsTarget, HoldsAdmins, KnowsOwner, KnowsRows, KnowsList, KnowsNames,
           KnowsRights, Rights, Reading, Replacing
  <1> QED
    BY <1>5, <1>7, <1>11, JobStep

LEMMA ListSuperusersKeeps ==
  ASSUME IInv, NEW r \in Requests, NEW u \in Users, NEW flag \in BOOLEAN, ListSuperusers(r, u, flag)
  PROVE  IInv'
  <1> DEFINE s == [job[r] EXCEPT !.owner = <<"set_superuser", u>>, !.flag = flag, !.pc = "listed"]
  <1>1. /\ job[r] \in Job /\ job[r].pc = "authorized" /\ job[r].op = "set_superuser" /\ Fits(r, job[r])
        /\ ~(~flag /\ u = job[r].actor /\ u \in superusers)
    BY UnderWay DEF ListSuperusers, At
  <1>2. <<"set_superuser", u>> \in AllOps \X (Users \cup Roles)
    BY DEF AllOps, SystemOps
  <1>3. s \in Job
    BY <1>1, <1>2 DEF Job
  <1>4. /\ s.pc = "listed" /\ s.op = "set_superuser" /\ s.owner = <<"set_superuser", u>>
        /\ s.flag = flag /\ s.actor = job[r].actor
    BY <1>1 DEF Job
  <1>5. UNCHANGED <<tables, history>> /\ job' = [job EXCEPT ![r] = s]
    BY <1>1 DEF ListSuperusers, Goto, Job
  <1> HIDE DEF s
  <1>6. KnowsRights(r, s)
    BY <1>1, <1>4 DEF Fits, KnowsRights, Rights
  <1>7. Fits(r, s)
    BY <1>4, <1>6 DEF Fits, Fresh, KnowsTarget, HoldsAdmins, KnowsOwner, KnowsRows, KnowsList, KnowsNames,
           KnowsRoles, Reading, Replacing, Installs
  <1> QED
    BY <1>3, <1>5, <1>7, JobStep

-----------------------------------------------------------------------------
(* Commits. *)

\* Whether a request relies on what it knows of this owner's rows.
Tracks(q, o) ==
  \/ Replacing(job[q]) /\ job[q].owner = o
  \/ Installs(job[q]) /\ o \in {"role_grants"} \X (roles \cup job[q].made)

\* What a commit of r may do to the tables others have read.
Gentle(r) ==
  /\ roles \subseteq roles' /\ permissions \subseteq permissions' /\ departed \subseteq departed'
  /\ overtaken \subseteq overtaken' /\ lapsed \subseteq lapsed'
  /\ \A u \in Users : member'[u] # member[u] =>
        /\ u \notin LockedForUpdate(r)
        /\ member[u] # "none" => u \notin LockedByKey(r)
        /\ member[u] = "member" => u \in departed'
  /\ \A q \in Requests \ {r} :
        /\ Rights(job[q]) /\ job[q].actor \in superusers \ superusers' => q \in lapsed'
        /\ \A o : Tracks(q, o) /\ <<q, o>> \notin overtaken' =>
              {g \in grants' : g.owner = o} = {g \in grants : g.owner = o}
        /\ \A u \in Users : Tracks(q, <<"member_roles", u>>) /\ member'[u] # member[u] =>
              <<q, <<"member_roles", u>>>> \in overtaken'

LEMMA OthersKeep ==
  ASSUME IInv, NEW r \in Requests, Finish(r), Gentle(r), NEW q \in Requests
  PROVE  Fits(q, job[q])'
  <1>1. job' \in [Requests -> Job \cup {New, Done}]
        /\ job'[r] = Done /\ \A p \in Requests \ {r} : job'[p] = job[p]
    BY DEF Finish, IInv, TypeOK
  <1>2. CASE q = r
    BY <1>1, <1>2 DEF Done, Fits, Fresh, KnowsTarget, HoldsAdmins, KnowsOwner, KnowsRows, KnowsList,
         KnowsNames, KnowsRights, Rights, Bare,
           KnowsRoles, Reading, Replacing, Installs
  <1>3. CASE q # r
    <2> DEFINE j == job[q]
    <2>1. j' = j /\ Fits(q, j) /\ j \in Job \cup {New, Done}
      BY <1>1, <1>3 DEF IInv, TypeOK
    <2>2. KnowsTarget(j)'
      BY <2>1 DEF Fits, KnowsTarget, Reading, Gentle
    <2>3. HoldsAdmins(j)'
      <3> SUFFICES ASSUME j.pc = "locked"
                   PROVE  j.count = Cardinality(j.held) /\ \A u \in j.held : member'[u] = "admin"
        BY <2>1 DEF HoldsAdmins, AdminHere
      <3>1. /\ j.op = "remove_member" /\ j.count = Cardinality(j.held)
            /\ \A u \in j.held : member[u] = "admin"
        BY <2>1 DEF Fits, KnowsTarget, HoldsAdmins, Reading, AdminHere
      <3>2. j.held \subseteq Users
        BY <2>1 DEF Job, New, Done
      <3>3. j.held \subseteq LockedForUpdate(r)
        BY <1>3, <3>1 DEF LockedForUpdate, At
      <3> QED
        BY <3>1, <3>2, <3>3 DEF Gentle
    <2>4. KnowsOwner(j)'
      BY <2>1 DEF Fits, KnowsOwner, Replacing, Gentle
    <2>5. KnowsRows(j)'
      <3> SUFFICES ASSUME j.pc = "inserted", NEW g \in j.new
                   PROVE  g.owner = j.owner /\ Hangs(g, roles, permissions)'
        BY <2>1 DEF KnowsRows
      <3>1. /\ g.owner = j.owner /\ Hangs(g, roles, permissions)
            /\ j.owner[1] = j.op /\ j.owner \in Owners
        BY <2>1 DEF Fits, KnowsRows, KnowsOwner, Replacing
      <3>2. ASSUME j.owner[1] = "member_roles"
            PROVE  member'[j.owner[2]] = member[j.owner[2]]
        <4>1. j.owner[2] \in LockedByKey(r)
          BY <1>3, <3>1, <3>2 DEF LockedByKey, At
        <4>2. j.owner[2] \in Users /\ member[j.owner[2]] # "none"
          BY <3>1, <3>2 DEF Hangs, Owners
        <4> QED
          BY <4>1, <4>2 DEF Gentle
      <3> QED
        BY <3>1, <3>2 DEF Hangs, Gentle
    <2>6. KnowsList(q, j)'
      <3> SUFFICES ASSUME Replacing(j), <<q, j.owner>> \notin overtaken'
                   PROVE  /\ j.out = {g \in grants' : g.owner = j.owner}
                          /\ j.op = "member_roles" => member'[j.owner[2]] # "none"
                          /\ j.pc = "inserted" => LET names == {g.item : g \in j.new} IN
                               names \subseteq j.sent /\ j.sent \cap j.known \subseteq names
        BY <2>1 DEF KnowsList, Replacing, Rows
      <3>1. Tracks(q, j.owner) /\ <<q, j.owner>> \notin overtaken
        BY DEF Tracks, Gentle
      <3>2. j.out = {g \in grants' : g.owner = j.owner}
        BY <1>3, <2>1, <3>1 DEF Fits, KnowsList, Gentle, Rows
      <3>3. ASSUME j.op = "member_roles"
            PROVE  member'[j.owner[2]] # "none"
        <4>1. PICK u \in Users : j.owner = <<"member_roles", u>>
          BY <2>1, <3>3 DEF Fits, KnowsOwner, Owners
        <4>2. member[u] # "none"
          BY <2>1, <3>1, <3>3, <4>1 DEF Fits, KnowsList
        <4> QED
          BY <1>3, <3>1, <4>1, <4>2 DEF Gentle
      <3> QED
        BY <2>1, <3>1, <3>2, <3>3 DEF Fits, KnowsList
    <2>7. KnowsRoles(q, j)'
      <3>1. ASSUME NEW o \in {"role_grants"} \X (roles \cup j.made), Installs(j), Bare(q, o)
            PROVE  Bare(q, o)'
        <4>1. Tracks(q, o)
          BY <3>1 DEF Tracks
        <4> QED
          BY <1>3, <3>1, <4>1 DEF Gentle, Bare, Rows
      <3>2. ASSUME Installs(j), NEW g \in j.new
            PROVE  g.owner \in {"role_grants"} \X (roles \cup j.made)
        BY <2>1, <3>2 DEF Fits, KnowsRoles, Hangs
      <3>3. ASSUME j.pc = "granting"
            PROVE  j.owner \in {"role_grants"} \X (roles \cup j.made)
        BY <2>1, <3>3 DEF Fits, KnowsRoles, Installs
      <3> QED
        BY <2>1, <3>1, <3>2, <3>3 DEF Fits, KnowsRoles, Installs, Gentle, Hangs
    <2>8. Fresh(j)' /\ KnowsNames(j)'
      BY <2>1 DEF Fits, Fresh, KnowsNames, Replacing, Gentle
    <2>9. KnowsRights(q, j)'
      BY <1>3, <2>1 DEF Fits, KnowsRights, Rights, Gentle
    <2> QED
      BY <2>2, <2>3, <2>4, <2>5, <2>6, <2>7, <2>8, <2>9 DEF Fits
  <1> QED
    BY <1>2, <1>3

LEMMA Commit ==
  ASSUME IInv, NEW r \in Requests, Finish(r), Gentle(r),
         member' \in [Users -> {"none", "member", "admin"}], active' \subseteq Users,
         superusers' \subseteq Users, permissions' \subseteq Caps, roles' \subseteq Roles,
         listed' \subseteq Caps \cup Roles, catalog' \in Catalogs, grants' \subseteq Row,
         comeback' \subseteq Users, departed' \subseteq Users, lapsed' \subseteq Requests,
         overtaken' \subseteq Requests \X (AllOps \X (Users \cup Roles)),
         RolesHangOnMemberships', ReturnsAreNoted', OneAdmin'
  PROVE  IInv'
  <1>1. job' \in [Requests -> Job \cup {New, Done}]
    BY DEF Finish, IInv, TypeOK
  <1>2. TypeOK'
    BY <1>1 DEF TypeOK
  <1>3. RolesAreThere'
    BY DEF IInv, RolesAreThere, Gentle
  <1> QED
    BY <1>2, <1>3, OthersKeep DEF IInv

\* Most commits leave the memberships and the grants alone.
LEMMA Quiet ==
  ASSUME IInv, NEW r \in Requests, Finish(r),
         UNCHANGED <<member, grants, roles, comeback, departed, overtaken>>,
         permissions \subseteq permissions', permissions' \subseteq Caps,
         active' \subseteq Users, superusers' \subseteq Users,
         lapsed \subseteq lapsed', lapsed' \subseteq Requests,
         \A q \in Requests \ {r} :
            Rights(job[q]) /\ job[q].actor \in superusers \ superusers' => q \in lapsed',
         listed' \subseteq Caps \cup Roles, catalog' \in Catalogs
  PROVE  IInv'
  <1>1. Gentle(r)
    BY DEF Gentle
  <1>2. RolesHangOnMemberships' /\ ReturnsAreNoted' /\ OneAdmin'
    BY DEF IInv, RolesHangOnMemberships, ReturnsAreNoted, OneAdmin, AdminHere
  <1> QED
    BY <1>1, <1>2, Commit DEF IInv, TypeOK

\* A commit to some owners' lists overtakes whoever relies on them.
LEMMA Overtaking ==
  ASSUME TypeOK, NEW r \in Requests, NEW S \in SUBSET (AllOps \X (Users \cup Roles)), Overtakes(r, S)
  PROVE  /\ overtaken \subseteq overtaken'
         /\ overtaken' \subseteq Requests \X (AllOps \X (Users \cup Roles))
         /\ \A q \in Requests \ {r}, o \in S : Tracks(q, o) => <<q, o>> \in overtaken'
  <1>1. \A q \in Requests \ {r}, o \in S : Tracks(q, o) => Writing(q, o)
    BY DEF Tracks, Writing, Replacing, Installs
  <1> QED
    BY <1>1 DEF Overtakes, TypeOK

LEMMA RemoveKeeps ==
  ASSUME IInv, NEW r \in Requests, Remove(r)
  PROVE  IInv'
  <1> DEFINE u == job[r].owner[2]
  <1>1. job[r] \in Job /\ job[r].pc = "locked" /\ Fits(r, job[r]) /\ TypeOK
    BY UnderWay DEF Remove, At
  <1>2. /\ u \in Users /\ job[r].seen \in {"member", "admin"}
        /\ job[r].seen = "member" => member[u] = "member" \/ u \in departed
        /\ job[r].count = Cardinality(job[r].held) /\ \A a \in job[r].held : AdminHere(a)
        /\ job[r].held \subseteq Users
    BY <1>1 DEF Fits, KnowsTarget, HoldsAdmins, Reading, Job
  <1>3. /\ ~(job[r].seen = "admin" /\ job[r].count <= 1)
        /\ u \notin LockedForUpdate(r) \cup LockedByKey(r)
        /\ member' = [member EXCEPT ![u] = "none"]
        /\ grants' = {g \in grants : g.owner # <<"member_roles", u>>}
        /\ departed' = (IF member[u] = "member" THEN departed \cup {u} ELSE departed)
        /\ Overtakes(r, {<<"member_roles", u>>})
        /\ Finish(r)
        /\ UNCHANGED <<active, superusers, permissions, roles, listed, catalog, comeback, lapsed>>
    BY DEF Remove
  <1> HIDE DEF u
  <1>4. \A a \in Users : member'[a] = IF a = u THEN "none" ELSE member[a]
    BY <1>1, <1>2, <1>3 DEF TypeOK
  <1>10. /\ overtaken \subseteq overtaken'
         /\ overtaken' \subseteq Requests \X (AllOps \X (Users \cup Roles))
         /\ \A q \in Requests \ {r} : Tracks(q, <<"member_roles", u>>) =>
               <<q, <<"member_roles", u>>>> \in overtaken'
    <2>1. {<<"member_roles", u>>} \in SUBSET (AllOps \X (Users \cup Roles))
      BY <1>2 DEF AllOps, Replacements
    <2> QED
      BY <1>1, <1>3, <2>1, Overtaking
  <1>5. Gentle(r)
    BY <1>2, <1>3, <1>4, <1>10 DEF Gentle
  <1>6. RolesHangOnMemberships'
    <2>1. ASSUME NEW g \in grants'
          PROVE  Hangs(g, roles, permissions)'
      <3>1. g \in grants /\ g.owner # <<"member_roles", u>> /\ Hangs(g, roles, permissions) /\ g \in Row
        BY <1>1, <1>3, <2>1 DEF IInv, RolesHangOnMemberships, Hangs, TypeOK
      <3>2. ASSUME g.owner[1] = "member_roles"
            PROVE  g.owner[2] \in Users /\ g.owner[2] # u
        <4>1. PICK a \in Users : g.owner = <<"member_roles", a>>
          BY <3>1, <3>2 DEF Row
        <4> QED
          BY <3>1, <4>1
      <3> QED
        BY <1>3, <1>4, <3>1, <3>2 DEF Hangs
    <2> QED
      BY <2>1 DEF RolesHangOnMemberships, Hangs
  <1>7. ReturnsAreNoted'
    BY <1>1, <1>3, <1>4 DEF IInv, TypeOK, ReturnsAreNoted, AdminHere
  <1>8. OneAdmin'
    <2> SUFFICES ASSUME comeback = {}
                 PROVE  \E a \in Users : a # u /\ AdminHere(a)
      BY <1>3, <1>4 DEF OneAdmin, AdminHere
    <2>1. PICK b \in Users : AdminHere(b)
      BY DEF IInv, OneAdmin
    <2>2. CASE job[r].seen = "admin"
      <3>1. IsFiniteSet(job[r].held) /\ Cardinality(job[r].held) \in Nat
        BY <1>2, UsersFinite, FS_Subset, FS_CardinalityType
      <3>2. job[r].held \subseteq {u} => Cardinality(job[r].held) <= 1
        <4>1. IsFiniteSet({u}) /\ Cardinality({u}) = 1
          BY FS_Singleton
        <4> QED
          BY <4>1, FS_Subset
      <3>3. Cardinality(job[r].held) > 1
        BY <1>2, <1>3, <2>2, <3>1
      <3>4. ~(job[r].held \subseteq {u})
        BY <3>1, <3>2, <3>3
      <3> QED
        BY <1>2, <3>4
    <2>3. CASE job[r].seen = "member"
      <3>1. ~AdminHere(u)
        BY <1>2, <2>3 DEF IInv, ReturnsAreNoted, AdminHere
      <3> QED
        BY <2>1, <3>1
    <2> QED
      BY <1>2, <2>2, <2>3
  <1>9. grants' \subseteq Row /\ departed' \subseteq Users
        /\ member' \in [Users -> {"none", "member", "admin"}]
    BY <1>1, <1>2, <1>3 DEF TypeOK
  <1> QED
    BY <1>1, <1>3, <1>5, <1>6, <1>7, <1>8, <1>9, <1>10, Commit DEF TypeOK

LEMMA AddKeeps ==
  ASSUME IInv, NEW r \in Requests, NEW u \in Users, NEW status \in {"member", "admin"}, NEW names,
         Add(r, u, status, names)
  PROVE  IInv'
  <1> DEFINE o == <<"member_roles", u>>
             items == IF names = {} THEN {RoleOf(status)} ELSE names
             rows == RowsFor(o, items, r)
  <1>1. TypeOK /\ member[u] = "none"
    BY DEF IInv, Add
  <1>2. /\ member' = [member EXCEPT ![u] = status]
        /\ grants' = grants \cup rows
        /\ comeback' = (IF status = "admin" /\ u \in departed THEN comeback \cup {u} ELSE comeback)
        /\ Overtakes(r, {o}) /\ Finish(r)
        /\ UNCHANGED <<active, superusers, permissions, roles, listed, catalog, departed, lapsed>>
    BY DEF Add
  <1>3. items \subseteq roles
    BY DEF Add, RoleOf, IInv, RolesAreThere, CatalogRoles
  <1>4. /\ rows \subseteq Row
        /\ \A g \in rows : g.owner = o /\ g.item \in items
    <2>1. items \in SUBSET Roles
      BY <1>1, <1>3 DEF TypeOK
    <2> HIDE DEF items
    <2> QED
      BY <2>1, RowsAreTyped, RowsOfAnOwner, RequestsWrite
  <1> HIDE DEF items, rows
  <1>5. \A a \in Users : member'[a] = IF a = u THEN status ELSE member[a]
    BY <1>1, <1>2 DEF TypeOK
  <1>6. u \notin LockedForUpdate(r)
    <2> SUFFICES ASSUME NEW q \in Requests \ {r}, At(q, "locked", {"remove_member"}), u \in job[q].held
                 PROVE  FALSE
      BY DEF LockedForUpdate
    <2>1. HoldsAdmins(job[q])
      BY DEF IInv, Fits
    <2> QED
      BY <1>1, <2>1 DEF At, HoldsAdmins, AdminHere
  <1>11. /\ overtaken \subseteq overtaken'
         /\ overtaken' \subseteq Requests \X (AllOps \X (Users \cup Roles))
         /\ \A q \in Requests \ {r} : Tracks(q, o) => <<q, o>> \in overtaken'
    <2>1. {o} \in SUBSET (AllOps \X (Users \cup Roles))
      BY DEF AllOps, Replacements
    <2> QED
      BY <1>1, <1>2, <2>1, Overtaking
  <1>7. Gentle(r)
    BY <1>1, <1>2, <1>4, <1>5, <1>6, <1>11 DEF Gentle
  <1>8. RolesHangOnMemberships'
    <2>1. ASSUME NEW g \in grants
          PROVE  Hangs(g, roles, permissions)'
      <3>1. g \in Row /\ Hangs(g, roles, permissions)
        BY <1>1 DEF TypeOK, IInv, RolesHangOnMemberships, Hangs
      <3>2. g.owner[1] = "member_roles" => g.owner[2] \in Users
        BY <3>1 DEF Row
      <3> QED
        BY <1>2, <1>5, <3>1, <3>2 DEF Hangs
    <2>2. ASSUME NEW g \in rows
          PROVE  Hangs(g, roles, permissions)'
      BY <1>2, <1>3, <1>4, <1>5 DEF Hangs
    <2> QED
      BY <1>2, <2>1, <2>2 DEF RolesHangOnMemberships, Hangs
  <1>9. ReturnsAreNoted' /\ OneAdmin'
    BY <1>1, <1>2, <1>5 DEF IInv, TypeOK, ReturnsAreNoted, OneAdmin, AdminHere
  <1>10. grants' \subseteq Row /\ comeback' \subseteq Users
         /\ member' \in [Users -> {"none", "member", "admin"}]
    BY <1>1, <1>2, <1>4 DEF TypeOK
  <1> QED
    BY <1>1, <1>2, <1>7, <1>8, <1>9, <1>10, <1>11, Commit DEF TypeOK

\* Other commits leave the memberships as they are; what they add hangs on
\* what is there by then.
LEMMA GrantStep ==
  ASSUME IInv, NEW r \in Requests, Finish(r), NEW old, NEW new \in SUBSET Row,
         UNCHANGED <<member, active, superusers, listed, catalog, comeback, departed, lapsed>>,
         roles \subseteq roles', roles' \subseteq Roles,
         permissions \subseteq permissions', permissions' \subseteq Caps,
         grants' = (grants \ old) \cup new,
         \A g \in new : Hangs(g, roles', permissions'),
         overtaken \subseteq overtaken',
         overtaken' \subseteq Requests \X (AllOps \X (Users \cup Roles)),
         \A q \in Requests \ {r}, g \in old \cup new :
            Tracks(q, g.owner) => <<q, g.owner>> \in overtaken'
  PROVE  IInv'
  <1>1. Gentle(r)
    BY DEF Gentle
  <1>2. RolesHangOnMemberships'
    BY DEF IInv, RolesHangOnMemberships, Hangs
  <1>3. ReturnsAreNoted' /\ OneAdmin'
    BY DEF IInv, ReturnsAreNoted, OneAdmin, AdminHere
  <1>4. grants' \subseteq Row
    BY DEF IInv, TypeOK
  <1> QED
    BY <1>1, <1>2, <1>3, <1>4, Commit DEF IInv, TypeOK

LEMMA ReplaceKeeps ==
  ASSUME IInv, NEW r \in Requests, Replace(r)
  PROVE  IInv'
  <1>1. job[r] \in Job /\ job[r].pc = "inserted" /\ Fits(r, job[r]) /\ TypeOK
    BY UnderWay DEF Replace, At
  <1>2. /\ job[r].new \in SUBSET Row
        /\ \A g \in job[r].new : g.owner = job[r].owner /\ Hangs(g, roles, permissions)
        /\ \A g \in job[r].out : g.owner = job[r].owner
        /\ job[r].owner \in AllOps \X (Users \cup Roles)
    BY <1>1 DEF Job, Fits, KnowsRows, KnowsOwner, Replacing
  <1>3. /\ grants' = (grants \ job[r].out) \cup job[r].new
        /\ Overtakes(r, {job[r].owner}) /\ Finish(r)
        /\ UNCHANGED <<member, active, superusers, permissions, roles, listed, catalog, comeback,
                     departed, lapsed>>
    BY DEF Replace
  <1>4. /\ overtaken \subseteq overtaken'
        /\ overtaken' \subseteq Requests \X (AllOps \X (Users \cup Roles))
        /\ \A q \in Requests \ {r} : Tracks(q, job[r].owner) => <<q, job[r].owner>> \in overtaken'
    BY <1>1, <1>2, <1>3, Overtaking
  <1>5. \A q \in Requests \ {r}, g \in job[r].out \cup job[r].new :
           Tracks(q, g.owner) => <<q, g.owner>> \in overtaken'
    BY <1>2, <1>4
  <1>6. /\ roles \subseteq roles' /\ roles' \subseteq Roles
        /\ permissions \subseteq permissions' /\ permissions' \subseteq Caps
    BY <1>3 DEF IInv, TypeOK
  <1>7. \A g \in job[r].new : Hangs(g, roles', permissions')
    BY <1>2, <1>3
  <1> QED
    BY <1>2, <1>3, <1>4, <1>5, <1>6, <1>7, GrantStep

LEMMA InsertRoleKeeps ==
  ASSUME IInv, NEW r \in Requests, NEW x \in Roles, NEW names, InsertRole(r, x, names)
  PROVE  IInv'
  <1> DEFINE rows == RowsFor(<<"role_grants", x>>, names \cap permissions, r)
  <1>1. TypeOK
    BY DEF IInv
  <1>2. /\ rows \in SUBSET Row
        /\ \A g \in rows : g.owner = <<"role_grants", x>> /\ g.item \in permissions
    <2>1. names \cap permissions \in SUBSET Caps
      BY <1>1 DEF TypeOK
    <2> QED
      BY <2>1, RowsAreTyped, RowsOfAnOwner, RequestsWrite
  <1>3. /\ roles' = roles \cup {x} /\ x \notin roles /\ x \notin OthersMade(r)
        /\ grants' = grants \cup rows /\ Finish(r)
        /\ UNCHANGED <<member, active, superusers, permissions, listed, catalog, history>>
    BY DEF InsertRole
  <1> HIDE DEF rows
  <1>4. \A q \in Requests \ {r} : ~Tracks(q, <<"role_grants", x>>)
    <2> SUFFICES ASSUME NEW q \in Requests \ {r}, Tracks(q, <<"role_grants", x>>)
                 PROVE  FALSE
      OBVIOUS
    <2>1. KnowsOwner(job[q])
      BY DEF IInv, Fits
    <2>2. ~Replacing(job[q]) \/ job[q].owner # <<"role_grants", x>>
      BY <1>3, <2>1 DEF KnowsOwner
    <2>3. Installs(job[q]) /\ x \in job[q].made
      BY <1>3, <2>2 DEF Tracks
    <2> QED
      BY <1>3, <2>3 DEF OthersMade, Installing, Installs
  <1>5. grants' = (grants \ {}) \cup rows
    BY <1>3
  <1>6. \A g \in rows : Hangs(g, roles', permissions')
    BY <1>2, <1>3 DEF Hangs
  <1>7. \A q \in Requests \ {r}, g \in {} \cup rows :
           Tracks(q, g.owner) => <<q, g.owner>> \in overtaken'
    BY <1>2, <1>4
  <1>8. /\ roles \subseteq roles' /\ roles' \subseteq Roles
        /\ permissions \subseteq permissions' /\ permissions' \subseteq Caps
        /\ overtaken \subseteq overtaken'
        /\ overtaken' \subseteq Requests \X (AllOps \X (Users \cup Roles))
    BY <1>1, <1>3 DEF TypeOK, history
  <1>9. /\ UNCHANGED <<member, active, superusers, listed, catalog, comeback, departed, lapsed>>
        /\ Finish(r) /\ rows \in SUBSET Row
    BY <1>2, <1>3 DEF history
  <1> QED
    BY <1>5, <1>6, <1>7, <1>8, <1>9, GrantStep

LEMMA CommitInstallKeeps ==
  ASSUME IInv, NEW r \in Requests, CommitInstall(r)
  PROVE  IInv'
  <1> DEFINE owners == {g.owner : g \in job[r].new}
  <1>1. job[r] \in Job /\ job[r].pc = "installing" /\ Fits(r, job[r]) /\ TypeOK
    BY UnderWay DEF CommitInstall, At
  <1>2. /\ job[r].new \in SUBSET Row
        /\ \A g \in job[r].new :
              /\ g.owner \in {"role_grants"} \X Roles
              /\ Hangs(g, roles \cup job[r].made, permissions \cup job[r].caps)
        /\ job[r].made \subseteq Roles /\ job[r].caps \subseteq Caps
    BY <1>1 DEF Job, Fits, KnowsRoles, Installs
  <1>3. /\ permissions' = permissions \cup job[r].caps
        /\ roles' = roles \cup job[r].made
        /\ grants' = (grants \ {}) \cup job[r].new
        /\ Overtakes(r, owners) /\ Finish(r)
        /\ UNCHANGED <<member, active, superusers, listed, catalog, comeback, departed, lapsed>>
    BY DEF CommitInstall
  <1>4. owners \in SUBSET (AllOps \X (Users \cup Roles))
    BY <1>2 DEF AllOps, Replacements
  <1>5. /\ overtaken \subseteq overtaken'
        /\ overtaken' \subseteq Requests \X (AllOps \X (Users \cup Roles))
        /\ \A q \in Requests \ {r}, o \in owners : Tracks(q, o) => <<q, o>> \in overtaken'
    <2> HIDE DEF owners
    <2> QED
      BY <1>1, <1>3, <1>4, Overtaking
  <1>6. \A q \in Requests \ {r}, g \in {} \cup job[r].new :
           Tracks(q, g.owner) => <<q, g.owner>> \in overtaken'
    BY <1>5
  <1>7. roles' \subseteq Roles /\ permissions' \subseteq Caps
    BY <1>1, <1>2, <1>3 DEF TypeOK
  <1>8. \A g \in job[r].new : Hangs(g, roles', permissions')
    BY <1>2, <1>3
  <1> QED
    BY <1>2, <1>3, <1>5, <1>6, <1>7, <1>8, GrantStep

LEMMA SingleWritesKeep ==
  ASSUME IInv, NEW r \in Requests, SingleWrites(r)
  PROVE  IInv'
  <1> TypeOK
    BY DEF IInv
  <1>1. ASSUME NEW p \in Caps, CreatePermission(r, p)
        PROVE  IInv'
    BY <1>1, Quiet DEF CreatePermission, TypeOK, history
  <1>2. ASSUME NEW x \in Roles, NEW names, CreateRole(r, x, names) \/ CreateBareRole(r, x)
        PROVE  IInv'
    BY <1>2, InsertRoleKeeps DEF CreateRole, CreateBareRole
  <1>3. ASSUME NEW u \in Users, SetAccountStatus(r, u)
        PROVE  IInv'
    BY <1>3, Quiet DEF SetAccountStatus, TypeOK, history
  <1>4. ASSUME SetSuperuser(r)
        PROVE  IInv'
    <2> DEFINE u == job[r].owner[2]
    <2>1. u \in Users
      BY <1>4, UnderWay DEF SetSuperuser, At, Fits, KnowsRights
    <2>2. superusers' \subseteq Users /\ lapsed \subseteq lapsed' /\ lapsed' \subseteq Requests
      BY <1>4, <2>1 DEF SetSuperuser, TypeOK
    <2>3. \A q \in Requests \ {r} :
             Rights(job[q]) /\ job[q].actor \in superusers \ superusers' => q \in lapsed'
      BY <1>4 DEF SetSuperuser, Rights
    <2> QED
      BY <1>4, <2>2, <2>3, Quiet DEF SetSuperuser, TypeOK
  <1>5. ASSUME NEW op, NEW n \in Caps \cup Roles, NEW names \in SUBSET (Caps \cup Roles),
               WriteCatalog(r, op, n, names)
        PROVE  IInv'
    <2>1. catalog' \in Catalogs /\ listed' \subseteq Caps \cup Roles
      BY <1>5 DEF WriteCatalog, TypeOK, Catalogs
    <2> QED
      BY <1>5, <2>1, Quiet DEF WriteCatalog, TypeOK, history
  <1>6. ASSUME NEW n \in Roles, NEW names \in Payloads, CreateEntry(r, n, names) \/ UpdateEntry(r, n, names)
        PROVE  IInv'
    BY <1>5, <1>6, NamesAreGiven DEF CreateEntry, UpdateEntry
  <1>7. ASSUME NEW p \in Caps, CreateEntry(r, p, {})
        PROVE  IInv'
    BY <1>5, <1>7 DEF CreateEntry
  <1>8. ASSUME NEW n \in Roles \cup Caps, DeleteEntry(r, n)
        PROVE  IInv'
    BY <1>5, <1>8 DEF DeleteEntry
  <1> QED
    BY <1>1, <1>2, <1>3, <1>4, <1>6, <1>7, <1>8, ListSuperusersKeeps DEF SingleWrites

-----------------------------------------------------------------------------
LEMMA InitIInv ==
  Init => IInv
  <1> SUFFICES ASSUME Init
               PROVE  IInv
    OBVIOUS
  <1>1. /\ member \in [Users -> {"none", "member", "admin"}]
        /\ permissions = Shipped /\ roles = CatalogRoles /\ listed = Shipped \cup CatalogRoles
        /\ \A u \in Users : RoleOf(member[u]) \in CatalogRoles
        /\ \A x \in CatalogRoles : StandardGrants(x) \subseteq Shipped
        /\ "setup" \in Writers
    BY DEF Init, RoleOf, CatalogRoles, StandardGrants, Writers
  <1>2. ASSUME NEW g \in grants
        PROVE  g \in Row /\ Hangs(g, roles, permissions)
    <2>1. CASE \E x \in CatalogRoles : g \in RowsFor(<<"role_grants", x>>, StandardGrants(x), "setup")
      <3>1. PICK x \in CatalogRoles : g \in RowsFor(<<"role_grants", x>>, StandardGrants(x), "setup")
        BY <2>1
      <3>2. x \in Roles /\ StandardGrants(x) \in SUBSET Caps
        BY <1>1, NamesAreGiven
      <3> QED
        BY <1>1, <3>1, <3>2, RowsAreTyped, RowsOfAnOwner DEF Hangs
    <2>2. CASE \E u \in {v \in Users : member[v] # "none"} :
                 g \in RowsFor(<<"member_roles", u>>, {RoleOf(member[u])}, "setup")
      <3>1. PICK u \in {v \in Users : member[v] # "none"} :
                 g \in RowsFor(<<"member_roles", u>>, {RoleOf(member[u])}, "setup")
        BY <2>2
      <3>2. u \in Users /\ {RoleOf(member[u])} \in SUBSET Roles /\ RoleOf(member[u]) \in roles
        BY <1>1, NamesAreGiven
      <3> QED
        BY <1>1, <3>1, <3>2, RowsAreTyped, RowsOfAnOwner DEF Hangs
    <2>3. \/ g \in UNION {RowsFor(<<"role_grants", x>>, StandardGrants(x), "setup") : x \in CatalogRoles}
          \/ g \in UNION {RowsFor(<<"member_roles", u>>, {RoleOf(member[u])}, "setup") :
                            u \in {v \in Users : member[v] # "none"}}
      BY <1>2 DEF Init
    <2> QED
      BY <2>1, <2>2, <2>3
  <1>3. catalog \in Catalogs
    <2> DEFINE S == SUBSET (Caps \cup Roles)
    <2>1. \A n \in Caps \cup Roles : (IF n \in CatalogRoles THEN StandardGrants(n) ELSE {}) \in S
      BY <1>1, NamesAreGiven
    <2>2. catalog = [n \in Caps \cup Roles |-> IF n \in CatalogRoles THEN StandardGrants(n) ELSE {}]
      BY DEF Init
    <2> HIDE DEF S
    <2>3. catalog \in [Caps \cup Roles -> S]
      BY <2>1, <2>2
    <2> QED
      BY <2>3 DEF Catalogs, S
  <1>4. TypeOK
    BY <1>1, <1>2, <1>3, NamesAreGiven DEF Init, TypeOK
  <1>5. RolesHangOnMemberships /\ RolesAreThere /\ ReturnsAreNoted /\ OneAdmin
    BY <1>1, <1>2 DEF Init, RolesHangOnMemberships, Hangs, RolesAreThere, ReturnsAreNoted, OneAdmin, AdminHere
  <1>6. \A r \in Requests : Fits(r, job[r])
    BY DEF Init, New, Fits, Fresh, KnowsTarget, HoldsAdmins, KnowsOwner, KnowsRows, KnowsList, KnowsNames,
         KnowsRights, Rights, Bare, KnowsRoles,
           Reading, Replacing, Installs
  <1> QED
    BY <1>4, <1>5, <1>6 DEF IInv

\* What request r does in a step.
Step(r) == Start(r) \/ Handle(r)

LEMMA StepKeeps ==
  ASSUME IInv, NEW r \in Requests, Step(r)
  PROVE  IInv'
  <1>1. Memberships(r) => IInv'
    BY ReadTargetKeeps, LockAdminsKeeps, RemoveKeeps, AddKeeps DEF Memberships
  <1>2. ReplaceGrants(r) => IInv'
    BY SetKeeps, FinishDeleteKeeps, InsertKeeps, ReplaceKeeps DEF ReplaceGrants
  <1>3. Installation(r) => IInv'
    BY InstallPermissionsKeeps, InstallRoleKeeps, InstallGrantsKeeps, CommitInstallKeeps DEF Installation
  <1> QED
    BY <1>1, <1>2, <1>3, AuthorizeKeeps, SingleWritesKeep, GiveUpKeeps DEF Step, Start, Handle

LEMMA NextIInv ==
  IInv /\ [Next]_vars => IInv'
  <1> SUFFICES ASSUME IInv, [Next]_vars
               PROVE  IInv'
    OBVIOUS
  <1>1. CASE UNCHANGED vars
    BY <1>1 DEF vars, tables, history, IInv, TypeOK, RolesHangOnMemberships, RolesAreThere, ReturnsAreNoted,
                OneAdmin, AdminHere, Fits, Fresh, KnowsTarget, HoldsAdmins, KnowsOwner, KnowsRows, KnowsList,
                KnowsNames, KnowsRights, Rights, Bare, KnowsRoles, Hangs, Rows
  <1>2. ASSUME NEW r \in Requests, Step(r)
        PROVE  IInv'
    BY <1>2, StepKeeps
  <1> QED
    BY <1>1, <1>2 DEF Next, Rest, Step

\* However requests overlap: the tables, and what those under way know of them.
THEOREM Invariant == Spec => []IInv
  BY InitIInv, NextIInv, PTL DEF Spec

-----------------------------------------------------------------------------
(* The properties. *)

\* An organization keeps an administrator, and roles and grants hang on
\* memberships, roles and capabilities that exist (remove_member, add_member,
\* the replacements and the installation of roles).
THEOREM AdministratorStays == Spec => []AdministratorRemains
  <1>1. IInv => AdministratorRemains
    BY DEF IInv, AdministratorRemains, OneAdmin
  <1> QED
    BY <1>1, Invariant, PTL

\* A step of one request leaves the others where they are.
LEMMA OneMoves ==
  ASSUME TypeOK, NEW r \in Requests, Step(r), NEW q \in Requests, job'[q] # job[q]
  PROVE  q = r
  BY DEF TypeOK, Step, Start, Handle, Authorize, Memberships, ReadTarget, LockAdmins, Remove, Add,
       ReplaceGrants,
         SetRoleGrants, SetMemberRoles, SetMemberPermissions, StartDelete, FinishDelete, Insert, Replace,
         SingleWrites, CreatePermission, CreateRole, CreateBareRole, InsertRole, SetAccountStatus,
         ListSuperusers, SetSuperuser, CreateEntry, UpdateEntry, DeleteEntry, WriteCatalog, Installation,
         InstallPermissions, InstallRole, InstallGrants, CommitInstall, GiveUp, Goto, Finish

\* A replacement that nobody overtakes commits "exactly" the names it was sent,
\* as far as they exist (replace_role_grants, replace_member_roles,
\* replace_user_grants).
THEOREM ExactReplacement == Spec => ExactUnlessOvertaken
  <1>1. ASSUME IInv, [Next]_vars, NEW r \in Requests,
               At(r, "inserted", Replacements), job'[r] = Done,
               <<r, job[r].owner>> \notin overtaken,
               grants' # grants \/ job[r].out \cup job[r].new = {}
        PROVE  /\ Items(grants', job[r].owner) \subseteq job[r].sent
               /\ job[r].sent \cap job[r].known \subseteq Items(grants', job[r].owner)
    <2>1. job[r].pc = "inserted" /\ Fits(r, job[r]) /\ TypeOK
      BY <1>1, UnderWay DEF At
    <2>2. job'[r] # job[r]
      BY <1>1, <2>1 DEF Done
    <2>3. PICK q \in Requests : Step(q)
      BY <1>1, <2>2 DEF Next, Rest, vars, Step
    <2>4. Step(r)
      BY <2>1, <2>2, <2>3, OneMoves
    <2>5. Replace(r) \/ GiveUp(r)
      BY <1>1, <2>1, <2>4
         DEF At, Step, Start, Handle, Authorize, Memberships, ReadTarget, LockAdmins, Remove, Add,
         ReplaceGrants,
             SetRoleGrants, SetMemberRoles, SetMemberPermissions, FinishDelete, Insert,
             SingleWrites, CreatePermission, CreateRole, CreateBareRole, SetAccountStatus,
             ListSuperusers, SetSuperuser, CreateEntry, UpdateEntry, DeleteEntry, WriteCatalog, Installation,
             InstallPermissions, InstallRole, InstallGrants, CommitInstall
    <2>6. job[r].out = Rows(job[r].owner) /\ \A g \in job[r].new : g.owner = job[r].owner
      BY <1>1, <2>1 DEF Fits, KnowsList, KnowsRows, Replacing
    <2>7. \A g : g \in grants' /\ g.owner = job[r].owner <=> g \in job[r].new
      BY <1>1, <2>5, <2>6 DEF Replace, GiveUp, tables, Rows
    <2>8. Items(grants', job[r].owner) = {g.item : g \in job[r].new}
      BY <2>7 DEF Items
    <2> QED
      BY <1>1, <2>1, <2>8 DEF Fits, KnowsList, Replacing
  <1>2. IInv /\ [Next]_vars =>
          [\A r \in Requests :
             LET j == job[r] IN
             At(r, "inserted", Replacements) /\ job'[r] = Done /\ <<r, j.owner>> \notin overtaken
               /\ (grants' # grants \/ j.out \cup j.new = {})
             => /\ Items(grants', j.owner) \subseteq j.sent
                /\ j.sent \cap j.known \subseteq Items(grants', j.owner)]_vars
    BY <1>1
  <1> QED
    BY <1>2, Invariant, PTL DEF Spec, ExactUnlessOvertaken

\* An installation leaves every role alone that has grants, unless somebody
\* else has written them since the installation began ("exactly as the
\* organization has configured them").
THEOREM ConfigurationStays == Spec => InstallRespectsConfiguration
  <1>1. ASSUME IInv, [Next]_vars, NEW x \in Roles, NEW r \in Requests,
               At(r, "installing", {"install"}), job'[r] = Done,
               Items(grants, <<"role_grants", x>>) # {},
               <<r, <<"role_grants", x>>>> \notin overtaken
        PROVE  {g \in grants' : g.owner = <<"role_grants", x>>}
                 = {g \in grants : g.owner = <<"role_grants", x>>}
    <2>1. job[r].pc = "installing" /\ job[r].op = "install" /\ Fits(r, job[r]) /\ TypeOK
      BY <1>1, UnderWay DEF At
    <2>2. job'[r] # job[r]
      BY <1>1, <2>1 DEF Done
    <2>3. PICK q \in Requests : Step(q)
      BY <1>1, <2>2 DEF Next, Rest, vars, Step
    <2>4. Step(r)
      BY <2>1, <2>2, <2>3, OneMoves
    <2>5. CommitInstall(r) \/ grants' = grants
      BY <2>1, <2>4
         DEF At, Step, Start, Handle, Authorize, Memberships, ReadTarget, LockAdmins, Remove, Add,
         ReplaceGrants,
             SetRoleGrants, SetMemberRoles, SetMemberPermissions, FinishDelete, Insert, Replace, Replacements,
             SingleWrites, CreatePermission, CreateRole, CreateBareRole, SetAccountStatus,
             ListSuperusers, SetSuperuser, CreateEntry, UpdateEntry, DeleteEntry, WriteCatalog, Installation,
             InstallPermissions, InstallRole, InstallGrants, GiveUp, tables
    <2>6. ASSUME NEW g \in job[r].new
          PROVE  g.owner # <<"role_grants", x>>
      <3>1. Bare(r, g.owner)
        BY <2>1 DEF Fits, KnowsRoles, Installs
      <3>2. PICK h \in grants : h.owner = <<"role_grants", x>>
        BY <1>1 DEF Items
      <3> QED
        BY <1>1, <3>1, <3>2 DEF Bare, Rows
    <2> QED
      BY <2>5, <2>6 DEF CommitInstall
  <1>2. IInv /\ [Next]_vars =>
          [\A r \in Requests, x \in Roles :
             LET owner == <<"role_grants", x>> IN
             /\ At(r, "installing", {"install"}) /\ job'[r] = Done
             /\ Items(grants, owner) # {}
             /\ <<r, owner>> \notin overtaken
             => {g \in grants' : g.owner = owner} = {g \in grants : g.owner = owner}]_vars
    BY <1>1
  <1> QED
    BY <1>2, Invariant, PTL DEF Spec, InstallRespectsConfiguration

\* The last super administrator of the platform falls to a request only whose
\* caller was revoked after it was checked (set_superuser).
THEOREM LastSuperuser == Spec => LastSuperuserFallsToAStaleCheck
  <1>1. ASSUME IInv, Next, superusers # {}, superusers' = {}
        PROVE  \E r \in lapsed : At(r, "listed", {"set_superuser"}) /\ job'[r] = Done
    <2>1. PICK r \in Requests : Step(r)
      BY <1>1 DEF Next, Rest, vars, tables, Step
    <2>2. SetSuperuser(r)
      BY <1>1, <2>1
         DEF Step, Start, Handle, Authorize, Memberships, ReadTarget, LockAdmins, Remove, Add, ReplaceGrants,
             SetRoleGrants, SetMemberRoles, SetMemberPermissions, StartDelete, FinishDelete, Insert, Replace,
             SingleWrites, CreatePermission, CreateRole, CreateBareRole, InsertRole, SetAccountStatus,
             ListSuperusers, CreateEntry, UpdateEntry, DeleteEntry, WriteCatalog, Installation,
             InstallPermissions, InstallRole, InstallGrants, CommitInstall, GiveUp, tables
    <2>3. At(r, "listed", {"set_superuser"}) /\ job'[r] = Done
      BY <1>1, <2>2 DEF SetSuperuser, Finish, IInv, TypeOK
    <2>4. KnowsRights(r, job[r]) /\ Rights(job[r])
      BY <1>1, <2>3 DEF IInv, Fits, At, Rights
    <2>5. ~job[r].flag /\ superusers \subseteq {job[r].owner[2]}
      BY <1>1, <2>2 DEF SetSuperuser
    <2>6. r \in lapsed
      BY <2>3, <2>4, <2>5 DEF KnowsRights, At
    <2> QED
      BY <2>3, <2>6
  <1>2. IInv /\ [Next]_vars =>
          [superusers # {} /\ superusers' = {}
           => \E r \in lapsed : At(r, "listed", {"set_superuser"}) /\ job'[r] = Done]_vars
    BY <1>1
  <1> QED
    BY <1>2, Invariant, PTL DEF Spec, LastSuperuserFallsToAStaleCheck
=============================================================================
