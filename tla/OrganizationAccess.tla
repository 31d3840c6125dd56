------------------------- MODULE OrganizationAccess -------------------------
(***************************************************************************)
(* Who belongs to an organization and who may do what in it: memberships,  *)
(* roles, capabilities, direct grants, the platform's catalogue and its    *)
(* super administrators.                                                   *)
(*                                                                         *)
(* Every request is one transaction (READ COMMITTED): each statement sees  *)
(* what was committed when it started, and its own writes.  A list of      *)
(* grants is replaced by a DELETE and an INSERT; the rows in between are   *)
(* its own until the commit.  A DELETE works on the rows of its snapshot   *)
(* and waits for other transactions that have deleted some of them; an     *)
(* INSERT waits for the fate of an equal row.  A write that takes one      *)
(* statement and the commit after it are one step.                         *)
(*                                                                         *)
(* There is one organization: its tables share no row with another one's.  *)
(***************************************************************************)
EXTENDS Naturals, FiniteSets

CONSTANTS
  Users,      \* registered accounts
  Roles,      \* names a role of the organization may have
  Rank,       \* their places in the alphabet, which is the order of installation
  Caps,       \* names a capability may have
  Shipped,    \* the capabilities the platform comes with
  Requests,   \* requests, each of which runs at most once: bounds a behaviour
  Ops,        \* the operations callers ask for
  Payloads    \* the lists of names of capabilities and roles callers send

ADMIN_ROLE == "admin"
DEFAULT_MEMBER_ROLE == "employee"
CatalogRoles == {ADMIN_ROLE, DEFAULT_MEMBER_ROLE}

ASSUME UsersFinite == IsFiniteSet(Users)
ASSUME NamesAreGiven ==
  /\ CatalogRoles \subseteq Roles /\ Shipped \subseteq Caps
  /\ Payloads \subseteq SUBSET (Caps \cup Roles) /\ Rank \in [Roles -> Nat]

MemberOps == {"add_member", "remove_member", "create_bare_role"}
Creations == {"create_permission", "create_role"}
Replacements == {"role_grants", "member_roles", "member_permissions"}
SystemOps == {"create_entry", "update_entry", "delete_entry", "install", "set_superuser"}
AllOps == MemberOps \cup Creations \cup Replacements \cup SystemOps \cup {"update_user"}
ASSUME OpsAreKnown == Ops \subseteq AllOps

VARIABLES
  member,       \* memberships: "none", "member" or "admin" (is_admin) per user
  active,       \* users whose account_status is 'active'
  superusers,   \* users with is_superuser
  permissions,  \* capabilities of the organization
  roles,        \* roles of the organization
  listed,       \* names of the entries of access_catalog
  catalog,      \* the grants of its roles; those of a capability are never read
  grants,       \* role_permissions, membership_roles and user_permissions: rows
                \* [owner, item, by], the owner with its kind, by its writer
  job,          \* the requests
  comeback,     \* history: users added as administrators who had been removed
                \* as plain members before
  departed,     \* history: users removed as plain members
  overtaken,    \* history: <<request, owner>>, lists of grants committed by others
                \* after the request had begun to write them
  lapsed        \* history: requests to grant or revoke the platform's rights whose
                \* caller has lost them since they were checked

tables == <<member, active, superusers, permissions, roles, listed, catalog, grants>>
history == <<comeback, departed, overtaken, lapsed>>
vars == <<tables, job, history>>

-----------------------------------------------------------------------------
Items(rows, owner) == {g.item : g \in {h \in rows : h.owner = owner}}
RowsFor(owner, items, by) ==
  {[owner |-> owner, item |-> i, by |-> by] : i \in items}

RoleGrants(x) == Items(grants, <<"role_grants", x>>)
MemberRoles(u) == IF member[u] = "none" THEN {} ELSE Items(grants, <<"member_roles", u>>)
DirectGrants(u) == Items(grants, <<"member_permissions", u>>)

\* What the capability check reads: roles through the membership, direct
\* grants without it.
Granted(u) ==
  {p \in permissions :
     (\E x \in MemberRoles(u) : p \in RoleGrants(x)) \/ p \in DirectGrants(u)}

New == [pc |-> "new"]
Done == [pc |-> "done"]
InFlight(r) == job[r].pc \notin {"new", "done"}
At(r, pc, ops) == job[r].pc = pc /\ job[r].op \in ops

\* Rows a request has deleted or inserted, and not committed.
Deletes(r) == IF job[r].pc \in {"deleted", "inserted"} THEN job[r].out ELSE {}
Inserts(r) ==
  IF job[r].pc \in {"inserted", "installing", "granting"} THEN job[r].new ELSE {}
OthersDelete(r) == UNION {Deletes(q) : q \in Requests \ {r}}
OthersInsert(r) == UNION {Inserts(q) : q \in Requests \ {r}}

\* Membership rows locked by others: FOR UPDATE by a removal, FOR KEY SHARE by
\* the foreign key of membership_roles.
LockedForUpdate(r) ==
  UNION {job[q].held : q \in {p \in Requests \ {r} : At(p, "locked", {"remove_member"})}}
LockedByKey(r) ==
  {job[q].owner[2] : q \in {p \in Requests \ {r} :
      At(p, "inserted", {"member_roles"}) /\ job[p].new # {}}}

Goto(r, pc, changes) == job' = [job EXCEPT ![r] = [changes EXCEPT !.pc = pc]]
Finish(r) == job' = [job EXCEPT ![r] = Done]

\* Whether a request has begun to write this owner's grants.
Writing(q, owner) ==
  \/ job[q].pc \in {"deleting", "deleted", "inserted"} /\ job[q].owner = owner
  \/ job[q].pc \in {"installing", "granting"} /\ owner[1] = "role_grants"

\* A commit to these owners overtakes whoever is writing their grants.
Overtakes(r, owners) ==
  overtaken' = overtaken \cup
    {qo \in (Requests \ {r}) \X owners : Writing(qo[1], qo[2])}

-----------------------------------------------------------------------------
(* The organization as create_organization leaves it, some time later: its *)
(* creator is still an administrator, others have been added, the platform *)
(* has super administrators.                                               *)

RoleOf(status) == IF status = "admin" THEN ADMIN_ROLE ELSE DEFAULT_MEMBER_ROLE

StandardGrants(x) == IF x = ADMIN_ROLE THEN Shipped ELSE Shipped \cap {"expense.create"}

Init ==
  /\ member \in [Users -> {"none", "member", "admin"}]
  /\ \E u \in Users : member[u] = "admin"
  /\ active = Users
  /\ superusers \in (SUBSET Users) \ {{}}
  /\ permissions = Shipped
  /\ roles = CatalogRoles
  /\ listed = Shipped \cup CatalogRoles
  /\ catalog = [n \in Caps \cup Roles |->
                  IF n \in CatalogRoles THEN StandardGrants(n) ELSE {}]
  /\ grants = (UNION {RowsFor(<<"role_grants", x>>, StandardGrants(x), "setup") :
                        x \in CatalogRoles})
        \cup (UNION {RowsFor(<<"member_roles", u>>, {RoleOf(member[u])}, "setup") :
                        u \in {v \in Users : member[v] # "none"}})
  /\ job = [r \in Requests |-> New]
  /\ comeback = {}
  /\ departed = {}
  /\ overtaken = {}
  /\ lapsed = {}

-----------------------------------------------------------------------------
(* Authorization: the account's state, then what the endpoint asks for.    *)

AdminHere(u) == member[u] = "admin"

\* The service asks for an administrator, the route for a capability in the
\* organization of its path; administrators of the platform pass the former
\* only in the access service.
HoldsCapability(u, op) ==
  (IF op = "create_bare_role" THEN "role.manage" ELSE "organization.manage") \in Granted(u)
ConfiguresAccess(u) == u \in superusers \/ AdminHere(u)
ManagesUsers(u) == member[u] # "none" /\ "user.manage" \in Granted(u)

MayAsk(u, op) ==
  /\ u \in active
  /\ op \in MemberOps => AdminHere(u) /\ HoldsCapability(u, op)
  /\ op \in Creations \cup Replacements => ConfiguresAccess(u)
  /\ op \in SystemOps => u \in superusers
  /\ op = "update_user" => ManagesUsers(u)

Authorize(r, u, op) ==
  /\ job[r].pc = "new"
  /\ MayAsk(u, op)
  /\ job' = [job EXCEPT ![r] =
       [pc |-> "authorized", op |-> op, actor |-> u, super |-> u \in superusers,
        owner |-> <<op, u>>, seen |-> "none", count |-> 0, held |-> {}, flag |-> FALSE,
        known |-> IF op = "member_roles" THEN roles ELSE permissions, sent |-> {},
        out |-> {}, new |-> {}, plan |-> catalog, todo |-> {}, caps |-> {}, made |-> {}]]
  /\ UNCHANGED <<tables, history>>

\* A refusal, a failed statement, the victim of a deadlock, a crash: the
\* transaction is rolled back.
GiveUp(r) ==
  /\ InFlight(r)
  /\ Finish(r)
  /\ UNCHANGED <<tables, history>>

-----------------------------------------------------------------------------
(* remove_member reads the target, locks every administrator's row, and    *)
(* deletes; the roles of the membership go with it, direct grants stay.    *)

ReadTarget(r, u) ==
  /\ At(r, "authorized", {"remove_member"})
  /\ member[u] # "none"
  /\ Goto(r, "read", [job[r] EXCEPT !.owner = <<"remove_member", u>>, !.seen = member[u]])
  /\ UNCHANGED <<tables, history>>

\* Mutant: the administrators are counted without a lock.
CountAdmins(r) ==
  /\ At(r, "read", {"remove_member"})
  /\ Goto(r, "locked", [job[r] EXCEPT !.count = Cardinality({u \in Users : AdminHere(u)})])
  /\ UNCHANGED <<tables, history>>

LockAdmins(r) ==
  LET admins == {u \in Users : AdminHere(u)} IN
  /\ At(r, "read", {"remove_member"})
  /\ admins \cap (LockedForUpdate(r) \cup LockedByKey(r)) = {}
  /\ Goto(r, "locked", [job[r] EXCEPT !.count = Cardinality(admins), !.held = admins])
  /\ UNCHANGED <<tables, history>>

Remove(r) ==
  LET u == job[r].owner[2] IN
  /\ At(r, "locked", {"remove_member"})
  /\ ~(job[r].seen = "admin" /\ job[r].count <= 1)
  /\ u \notin LockedForUpdate(r) \cup LockedByKey(r)
  /\ ~\E g \in OthersDelete(r) : g.owner = <<"member_roles", u>>
  /\ member' = [member EXCEPT ![u] = "none"]
  /\ grants' = {g \in grants : g.owner # <<"member_roles", u>>}
  /\ departed' = IF member[u] = "member" THEN departed \cup {u} ELSE departed
  /\ Overtakes(r, {<<"member_roles", u>>})
  /\ Finish(r)
  /\ UNCHANGED <<active, superusers, permissions, roles, listed, catalog, comeback, lapsed>>

\* add_member finds no membership (and the UNIQUE pair agrees), inserts one
\* and its roles: those asked for, which must exist, or the default.
Add(r, u, status, names) ==
  /\ At(r, "authorized", {"add_member"})
  /\ member[u] = "none"
  /\ names \subseteq roles
  /\ member' = [member EXCEPT ![u] = status]
  /\ grants' = grants \cup
       RowsFor(<<"member_roles", u>>, IF names = {} THEN {RoleOf(status)} ELSE names, r)
  /\ comeback' = IF status = "admin" /\ u \in departed THEN comeback \cup {u} ELSE comeback
  /\ Overtakes(r, {<<"member_roles", u>>})
  /\ Finish(r)
  /\ UNCHANGED <<active, superusers, permissions, roles, listed, catalog, departed, lapsed>>

-----------------------------------------------------------------------------
(* Replacing a list of grants: of a role, of a membership (its roles), of  *)
(* a person. The role or the member is looked up, the present list is read *)
(* for the audit, and the DELETE starts.                                   *)

StartDelete(r, x) ==
  LET owner == <<job[r].op, x>> IN
  /\ Goto(r, "deleting",
          [job[r] EXCEPT !.owner = owner, !.out = {g \in grants : g.owner = owner}])
  /\ UNCHANGED <<tables, history>>

SetRoleGrants(r, x) ==
  At(r, "authorized", {"role_grants"}) /\ x \in roles /\ StartDelete(r, x)

SetMemberRoles(r, u) ==
  At(r, "authorized", {"member_roles"}) /\ member[u] # "none" /\ StartDelete(r, u)

SetMemberPermissions(r, u) ==
  At(r, "authorized", {"member_permissions"}) /\ member[u] # "none" /\ StartDelete(r, u)

\* Rows that another transaction has deleted meanwhile are skipped; rows that
\* it has inserted are not in the snapshot.
FinishDelete(r) ==
  /\ At(r, "deleting", Replacements)
  /\ job[r].out \cap OthersDelete(r) = {}
  /\ Goto(r, "deleted", [job[r] EXCEPT !.out = @ \cap grants])
  /\ UNCHANGED <<tables, history>>

\* The names asked for that exist; a member who is gone gets no row.
Known(op, x, names) ==
  CASE op = "member_roles" -> IF member[x] = "none" THEN {} ELSE names \cap roles
    [] op # "member_roles" -> names \cap permissions

\* Mutant: the DELETE is forgotten.
InsertMore(r, names) ==
  LET wanted == Known(job[r].op, job[r].owner[2], names)
      present == Items(grants, job[r].owner) IN
  /\ At(r, "deleted", Replacements)
  /\ Goto(r, "inserted", [job[r] EXCEPT !.sent = names, !.out = {},
            !.new = RowsFor(job[r].owner, wanted \ present, r)])
  /\ UNCHANGED <<tables, history>>

Insert(r, names) ==
  LET owner == job[r].owner
      wanted == Known(job[r].op, owner[2], names)
      equal == {g \in (grants \ job[r].out) \cup OthersInsert(r) :
                  g.owner = owner /\ g.item \in wanted} IN
  /\ At(r, "deleted", Replacements)
  /\ wanted # {} /\ job[r].op = "member_roles" => owner[2] \notin LockedForUpdate(r)
  /\ equal \cap (OthersDelete(r) \cup OthersInsert(r)) = {}
  /\ Goto(r, "inserted", [job[r] EXCEPT
            !.sent = names, !.new = RowsFor(owner, wanted \ {g.item : g \in equal}, r)])
  /\ UNCHANGED <<tables, history>>

\* The member's access is read back for the answer, with all its checks.
MayAnswer(r) ==
  job[r].op # "role_grants" =>
    /\ job[r].super \/ AdminHere(job[r].actor)
    /\ member[job[r].owner[2]] # "none"

Replace(r) ==
  /\ At(r, "inserted", Replacements)
  /\ MayAnswer(r)
  /\ grants' = (grants \ job[r].out) \cup job[r].new
  /\ Overtakes(r, {job[r].owner})
  /\ Finish(r)
  /\ UNCHANGED <<member, active, superusers, permissions, roles, listed, catalog, comeback, departed, lapsed>>

-----------------------------------------------------------------------------
(* Writes of one statement, or of several that nobody else can see apart.  *)

\* What installations have inserted and not committed: an equal name waits.
Installing(q) == job[q].pc \in {"installing", "granting"}
OthersCaps(r) == UNION {job[q].caps : q \in {p \in Requests \ {r} : Installing(p)}}
OthersMade(r) == UNION {job[q].made : q \in {p \in Requests \ {r} : Installing(p)}}

CreatePermission(r, p) ==
  /\ At(r, "authorized", {"create_permission"})
  /\ p \notin permissions \cup OthersCaps(r)
  /\ permissions' = permissions \cup {p}
  /\ Finish(r)
  /\ UNCHANGED <<member, active, superusers, roles, listed, catalog, grants, history>>

\* The name of a role is unique in its organization.
InsertRole(r, x, names) ==
  /\ x \notin roles \cup OthersMade(r)
  /\ roles' = roles \cup {x}
  /\ grants' = grants \cup RowsFor(<<"role_grants", x>>, names \cap permissions, r)
  /\ Finish(r)
  /\ UNCHANGED <<member, active, superusers, permissions, listed, catalog, history>>

CreateRole(r, x, names) == At(r, "authorized", {"create_role"}) /\ InsertRole(r, x, names)
CreateBareRole(r, x) == At(r, "authorized", {"create_bare_role"}) /\ InsertRole(r, x, {})

\* update_user asks for a membership of the target, not of what kind.
SetAccountStatus(r, u) ==
  /\ At(r, "authorized", {"update_user"})
  /\ member[u] # "none"
  /\ active' \in {active \cup {u}, active \ {u}}
  /\ Finish(r)
  /\ UNCHANGED <<member, superusers, permissions, roles, listed, catalog, grants, history>>

\* set_superuser lists the super administrators, so that nobody revokes his
\* own rights; the UPDATE and the commit come later. The UPDATE reads nothing,
\* names one row, waits for another one of that row, and is seen at the commit.
\* Mutant: the caller's own rights are not protected.
ListNobody(r, u, flag) ==
  /\ At(r, "authorized", {"set_superuser"})
  /\ Goto(r, "listed", [job[r] EXCEPT !.owner = <<"set_superuser", u>>, !.flag = flag])
  /\ UNCHANGED <<tables, history>>

ListSuperusers(r, u, flag) ==
  /\ At(r, "authorized", {"set_superuser"})
  /\ ~(~flag /\ u = job[r].actor /\ u \in superusers)
  /\ Goto(r, "listed", [job[r] EXCEPT !.owner = <<"set_superuser", u>>, !.flag = flag])
  /\ UNCHANGED <<tables, history>>

SetSuperuser(r) ==
  LET u == job[r].owner[2] IN
  /\ At(r, "listed", {"set_superuser"})
  /\ superusers' = IF job[r].flag THEN superusers \cup {u} ELSE superusers \ {u}
  /\ lapsed' = IF job[r].flag THEN lapsed ELSE lapsed \cup
       {q \in Requests \ {r} : /\ job[q].pc \in {"authorized", "listed"}
                               /\ job[q].op = "set_superuser" /\ job[q].actor = u}
  /\ Finish(r)
  /\ UNCHANGED <<member, active, permissions, roles, listed, catalog, grants, comeback, departed, overtaken>>

-----------------------------------------------------------------------------
(* The catalogue and its installation. ats_install_roles goes through the  *)
(* catalogue's roles: it creates the missing ones and gives the standard   *)
(* grants to those it finds without any. Each check is a statement before  *)
(* the INSERT that relies on it.                                           *)

WriteCatalog(r, op, n, names) ==
  /\ At(r, "authorized", {op})
  /\ listed' = IF op = "delete_entry" THEN listed \ {n} ELSE listed \cup {n}
  /\ catalog' = [catalog EXCEPT ![n] = names]
  /\ Finish(r)
  /\ UNCHANGED <<member, active, superusers, permissions, roles, grants, history>>

CreateEntry(r, n, names) == n \notin listed /\ WriteCatalog(r, "create_entry", n, names)
UpdateEntry(r, n, names) == n \in listed /\ WriteCatalog(r, "update_entry", n, names)
DeleteEntry(r, n) == n \in listed /\ WriteCatalog(r, "delete_entry", n, {})

\* ats_install_permissions adds the capabilities that are missing; then
\* ats_install_roles opens its loop, whose query has one snapshot.
InstallPermissions(r) ==
  LET missing == (listed \cap Caps) \ permissions IN
  /\ At(r, "authorized", {"install"})
  /\ missing \cap OthersCaps(r) = {}
  /\ Goto(r, "installing", [job[r] EXCEPT !.plan = catalog, !.caps = missing,
                                         !.todo = listed \cap Roles])
  /\ UNCHANGED <<tables, history>>

IsNext(r, x) == x \in job[r].todo /\ \A y \in job[r].todo : Rank[x] <= Rank[y]

\* Mutant: standard grants are given to configured roles as well.
InstallEveryRole(r, x) ==
  /\ At(r, "installing", {"install"})
  /\ IsNext(r, x)
  /\ x \notin roles => x \notin OthersMade(r)
  /\ Goto(r, "granting", [job[r] EXCEPT
            !.owner = <<"role_grants", x>>,
            !.made = IF x \in roles THEN @ ELSE @ \cup {x}])
  /\ UNCHANGED <<tables, history>>

\* A missing role is created; one without grants is to take the catalogue's.
InstallRole(r, x) ==
  LET owner == <<"role_grants", x>>
      configured == Items(grants, owner) # {} IN
  /\ At(r, "installing", {"install"})
  /\ IsNext(r, x)
  /\ x \notin roles => x \notin OthersMade(r)
  /\ Goto(r, IF configured THEN "installing" ELSE "granting", [job[r] EXCEPT
            !.owner = owner,
            !.todo = IF configured THEN @ \ {x} ELSE @,
            !.made = IF x \in roles THEN @ ELSE @ \cup {x}])
  /\ UNCHANGED <<tables, history>>

\* The grants of the loop's snapshot, as far as they are in the catalogue now
\* and among the organization's capabilities, the new ones included.
InstallGrants(r) ==
  LET owner == job[r].owner
      x == owner[2]
      standard == job[r].plan[x] \cap listed \cap (permissions \cup job[r].caps)
      equal == {g \in grants \cup OthersInsert(r) : g.owner = owner /\ g.item \in standard} IN
  /\ At(r, "granting", {"install"})
  /\ equal \cap (OthersDelete(r) \cup OthersInsert(r)) = {}
  /\ Goto(r, "installing", [job[r] EXCEPT
            !.todo = @ \ {x},
            !.new = @ \cup RowsFor(owner, standard \ {g.item : g \in equal}, r)])
  /\ UNCHANGED <<tables, history>>

CommitInstall(r) ==
  /\ At(r, "installing", {"install"})
  /\ job[r].todo = {}
  /\ permissions' = permissions \cup job[r].caps
  /\ roles' = roles \cup job[r].made
  /\ grants' = grants \cup job[r].new
  /\ Overtakes(r, {g.owner : g \in job[r].new})
  /\ Finish(r)
  /\ UNCHANGED <<member, active, superusers, listed, catalog, comeback, departed, lapsed>>

-----------------------------------------------------------------------------
Memberships(r) ==
  \/ \E u \in Users : ReadTarget(r, u)
  \/ LockAdmins(r)
  \/ Remove(r)
  \/ \E u \in Users, status \in {"member", "admin"}, names \in Payloads :
        Add(r, u, status, names)

ReplaceGrants(r) ==
  \/ \E x \in Roles : SetRoleGrants(r, x)
  \/ \E u \in Users : SetMemberRoles(r, u) \/ SetMemberPermissions(r, u)
  \/ FinishDelete(r)
  \/ \E names \in Payloads : Insert(r, names)
  \/ Replace(r)

SingleWrites(r) ==
  \/ \E p \in Caps : CreatePermission(r, p)
  \/ \E x \in Roles, names \in Payloads : CreateRole(r, x, names)
  \/ \E x \in Roles : CreateBareRole(r, x)
  \/ \E u \in Users : SetAccountStatus(r, u)
  \/ \E u \in Users, flag \in BOOLEAN : ListSuperusers(r, u, flag)
  \/ SetSuperuser(r)
  \/ \E n \in Roles, names \in Payloads : CreateEntry(r, n, names) \/ UpdateEntry(r, n, names)
  \/ \E p \in Caps : CreateEntry(r, p, {})
  \/ \E n \in Roles \cup Caps : DeleteEntry(r, n)

Installation(r) ==
  \/ InstallPermissions(r)
  \/ \E x \in Roles : InstallRole(r, x)
  \/ InstallGrants(r)
  \/ CommitInstall(r)

Handle(r) ==
  \/ Memberships(r)
  \/ ReplaceGrants(r)
  \/ SingleWrites(r)
  \/ Installation(r)
  \/ GiveUp(r)

\* Nothing is in flight (and perhaps nobody is left who may ask for anything).
Rest == (\A r \in Requests : ~InFlight(r)) /\ UNCHANGED vars

Start(r) == \E u \in Users, op \in Ops : Authorize(r, u, op)

Next ==
  \/ \E r \in Requests : Start(r) \/ Handle(r)
  \/ Rest

Spec == Init /\ [][Next]_vars

-----------------------------------------------------------------------------
(* Properties *)

Writers == Requests \cup {"setup"}
Row == [owner : {"member_roles"} \X Users, item : Roles, by : Writers]
  \cup [owner : ({"role_grants"} \X Roles) \cup ({"member_permissions"} \X Users),
        item : Caps, by : Writers]

Catalogs == [Caps \cup Roles -> SUBSET (Caps \cup Roles)]

Job == [pc : {"authorized", "read", "locked", "deleting", "deleted", "inserted",
              "listed", "installing", "granting"},
        op : Ops, actor : Users, super : BOOLEAN,
        owner : AllOps \X (Users \cup Roles),
        seen : {"none", "member", "admin"}, count : 0 .. Cardinality(Users), held : SUBSET Users,
        flag : BOOLEAN, known : SUBSET (Caps \cup Roles), sent : SUBSET (Caps \cup Roles),
        out : SUBSET Row, new : SUBSET Row,
        plan : Catalogs, todo : SUBSET Roles, caps : SUBSET Caps, made : SUBSET Roles]

\* The types of all variables.
TypeOK ==
  /\ member \in [Users -> {"none", "member", "admin"}]
  /\ active \subseteq Users
  /\ superusers \subseteq Users
  /\ permissions \subseteq Caps
  /\ roles \subseteq Roles
  /\ listed \subseteq Caps \cup Roles
  /\ catalog \in Catalogs
  /\ grants \subseteq Row
  /\ job \in [Requests -> Job \cup {New, Done}]
  /\ comeback \subseteq Users
  /\ departed \subseteq Users
  /\ overtaken \subseteq Requests \X (AllOps \X (Users \cup Roles))
  /\ lapsed \subseteq Requests

RolesHangOnMemberships ==
  \A g \in grants :
    /\ g.owner[1] = "member_roles" => member[g.owner[2]] # "none" /\ g.item \in roles
    /\ g.owner[1] = "role_grants" => g.owner[2] \in roles /\ g.item \in permissions

\* An organization is never left without an administrator, however removals
\* overlap (remove_member counts under a lock), as long as nobody who was
\* removed as a plain member comes back as an administrator: the target's flag
\* is read before the lock. And rows of membership_roles belong to members and
\* name roles, however removals, replacements, new roles and installations
\* interleave, so whoever is added again starts with the roles he is given.
AdministratorRemains ==
  /\ TypeOK /\ RolesHangOnMemberships
  /\ comeback = {} => \E u \in Users : AdminHere(u)

\* The docstrings of replace_role_grants, replace_member_roles and
\* replace_user_grants promise "exactly" the names that were sent. A replacement
\* that no other commit to the same list overtakes leaves all of them that
\* existed when the request began, and nothing that was not sent: names that do
\* not exist are dropped without a word. (A commit is told from a rollback by
\* what it changes, unless there is nothing to delete and nothing to insert.)
ExactUnlessOvertaken ==
  [][\A r \in Requests :
       LET j == job[r] IN
       At(r, "inserted", Replacements) /\ job'[r] = Done /\ <<r, j.owner>> \notin overtaken
         /\ (grants' # grants \/ j.out \cup j.new = {})
       => /\ Items(grants', j.owner) \subseteq j.sent
          /\ j.sent \cap j.known \subseteq Items(grants', j.owner)]_vars

\* install_catalog is said to leave "exactly as the organization has configured
\* them" what it finds: an installation changes nothing about a role that has
\* grants, whoever gave them and when, unless they have been written by another
\* request since the installation began.
InstallRespectsConfiguration ==
  [][\A r \in Requests, x \in Roles :
       LET owner == <<"role_grants", x>> IN
       /\ At(r, "installing", {"install"}) /\ job'[r] = Done
       /\ Items(grants, owner) # {}
       /\ <<r, owner>> \notin overtaken
       => {g \in grants' : g.owner = owner} = {g \in grants : g.owner = owner}]_vars

\* The platform's last super administrator is not taken away by somebody who
\* is one all along: only by a request whose caller was revoked after it was
\* checked (he may have been reinstated since).
LastSuperuserFallsToAStaleCheck ==
  [][superusers # {} /\ superusers' = {}
     => \E r \in lapsed : At(r, "listed", {"set_superuser"}) /\ job'[r] = Done]_vars
=============================================================================
