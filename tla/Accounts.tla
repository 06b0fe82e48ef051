------------------------------ MODULE Accounts ------------------------------
(***************************************************************************)
(* Users, roles and invitations: app/services/user_service.py, role_       *)
(* service.py and the registration of auth_service.py over app/            *)
(* repositories/auth.py, behind the dependencies of app/api/deps.py.       *)
(*                                                                         *)
(* A request authenticates its actor, loads its target, checks and then    *)
(* commits the transaction of its session (READ COMMITTED): what it checks *)
(* is what had been committed when it looked.  Columns are written one by  *)
(* one, and only when they differ from the row that was loaded.  A flush   *)
(* that waits for the row lock of another request is a later commit here.  *)
(***************************************************************************)
EXTENDS Integers, FiniteSets

CONSTANTS
    User,        \* user names
    CustomRole,  \* roles that an administrator may add
    Grantable,   \* bound: the roles that requests name
    Code,        \* invitation codes
    Call,        \* requests that may be in flight at the same time
    MaxCalls     \* bound: requests sent

Admin == "admin"
Viewer == "viewer"
Builtin == {Admin, "analyst", Viewer}
Role == Builtin \cup CustomRole
Keep == "keep"          \* a field that a PATCH does not name
Nobody == "nobody"      \* the actor of a registration
NoCode == "no_code"

ASSUME AccountsAssumption ==
    /\ IsFiniteSet(User) /\ Nobody \notin User
    /\ Keep \notin Role /\ "none" \notin Role
    /\ Grantable \subseteq Role
    /\ NoCode \notin Code
    /\ MaxCalls \in Nat

\* Rows; an absent one has no role.
Row == [role : Role, enabled : BOOLEAN]
NoRow == [role |-> "none", enabled |-> FALSE]
Invite == [role : Role, used : BOOLEAN, revoked : BOOLEAN, expired : BOOLEAN]
NoInvite == [role |-> "none", used |-> FALSE, revoked |-> FALSE,
             expired |-> FALSE]

VARIABLES
    users,       \* [name -> row]
    roles,       \* names of the role rows
    invitations, \* [code -> row]
    calls,       \* [request -> what it asks and where it is]
    \* --- bounds and observability
    begun,       \* requests sent
    crossed,     \* kinds of check-then-write sections that have overlapped
    served       \* [code -> users registered with it]

accounts == <<users, roles, invitations>>
accountsVars == <<accounts, calls, begun, crossed, served>>

-----------------------------------------------------------------------------
(* What is asked. *)

Ask(op, actor, target, role, enabled, code) ==
    [op |-> op, actor |-> actor, target |-> target, role |-> role,
     enabled |-> enabled, code |-> code]

Patches ==
    {Ask("patch", a, u, r, e, NoCode) :
        a \in User, u \in User, r \in Grantable \cup {Keep},
        e \in {"on", "off", Keep}}
Addable == CustomRole \cap Grantable
Asks ==
    {q \in Patches : q.role # Keep \/ q.enabled # Keep}
    \cup {Ask("create", a, u, r, "on", NoCode) :
              a \in User, u \in User, r \in Grantable}
    \cup {Ask("delete", a, u, Keep, Keep, NoCode) : a \in User, u \in User}
    \cup {Ask("add_role", a, Nobody, r, Keep, NoCode) :
              a \in User, r \in Addable}
    \cup {Ask("drop_role", a, Nobody, r, Keep, NoCode) :
              a \in User, r \in Addable}
    \cup {Ask("invite", a, Nobody, r, Keep, c) :
              a \in User, r \in Grantable, c \in Code}
    \cup {Ask("revoke", a, Nobody, Keep, Keep, c) : a \in User, c \in Code}
    \cup {Ask("register", Nobody, u, Keep, "on", c) :
              u \in User, c \in Code \cup {NoCode}}

\* was: the row as loaded, row: with the fields assigned since.
Idle == [ask |-> Ask("none", Nobody, Nobody, Keep, Keep, NoCode),
         step |-> "idle", was |-> NoRow, row |-> NoRow, code |-> NoInvite]
InSection(c) == calls[c].step \in {"role", "enabled", "commit"}

\* What the check-then-write section of a request depends on and changes.
Touches(q) ==
    {k \in {"admins", "roles", q.code} :
        \/ k = "admins" /\ q.op \in {"patch", "delete"}
        \/ k = "roles" /\ \/ q.op \in {"create", "register", "drop_role"}
                          \/ q.op = "patch" /\ q.role # Keep
        \/ k \in Code /\ q.op \in {"register", "revoke"}}

AccountsInit ==
    /\ users \in {f \in [User -> {NoRow, [role |-> Admin, enabled |-> TRUE]}] :
                    Cardinality({u \in User : f[u] # NoRow}) \in 1 .. 2}
    /\ roles = Builtin
    /\ invitations = [c \in Code |-> NoInvite]
    /\ calls = [c \in Call |-> Idle]
    /\ begun = 0
    /\ crossed = {}
    /\ served = [c \in Code |-> {}]

-----------------------------------------------------------------------------
(* Checks. *)

Exists(u) == users[u] # NoRow
IsEnabledAdmin(row) == row.enabled /\ row.role = Admin

\* get_current_user and require_admin; require_page(settings) lets admins pass.
Authorised(u) == IsEnabledAdmin(users[u])

\* Faulty variant: a code that has been used is taken again.
UsableAgain(i) == i # NoInvite /\ ~i.revoked /\ ~i.expired

\* InvitationService.consume.
Usable(i) == i # NoInvite /\ ~i.revoked /\ ~i.used /\ ~i.expired

\* count_enabled_admins, which sees what the request itself has flushed.
SeenBy(c, u) ==
    IF calls[c].ask.op = "patch" /\ u = calls[c].ask.target /\ Exists(u)
       /\ calls[c].row.role # calls[c].was.role
    THEN [users[u] EXCEPT !.role = calls[c].row.role]
    ELSE users[u]
EnabledAdmins(c) == {u \in User : IsEnabledAdmin(SeenBy(c, u))}

\* Faulty variant: no administrator is ever the last one.
LastAdminUnprotected(c, row) == FALSE

\* _forbid_last_admin refuses to take an administrator away.
LastAdmin(c, row) ==
    /\ row.enabled /\ row.role = Admin
    /\ Cardinality(EnabledAdmins(c)) <= 1

\* UserRepository.list_by_role.
InUse(role) == \E u \in User : users[u].role = role

\* What a request finds before it changes anything; it ends if this fails.
Admitted(q) ==
    CASE q.op = "create"    -> ~Exists(q.target) /\ q.role \in roles
      [] q.op = "patch"     -> Exists(q.target)
      [] q.op = "delete"    -> Exists(q.target) /\ q.actor # q.target
      [] q.op = "add_role"  -> q.role \notin roles
      [] q.op = "drop_role" -> q.role \in roles \ Builtin /\ ~InUse(q.role)
      [] q.op = "invite"    -> q.role \in roles
      [] q.op = "revoke"    -> invitations[q.code] # NoInvite
      [] q.op = "register"  ->
            /\ ~Exists(q.target)
            /\ q.code # NoCode => Usable(invitations[q.code])

-----------------------------------------------------------------------------
(* The steps of a request. *)

Authenticate(c) ==
    /\ calls[c] = Idle /\ begun < MaxCalls
    /\ \E q \in Asks :
         /\ q.op # "register" => Authorised(q.actor)
         /\ q.op = "invite" => invitations[q.code] = NoInvite
         /\ calls' = [calls EXCEPT ![c] = [Idle EXCEPT !.ask = q, !.step = "load"]]
    /\ begun' = begun + 1
    /\ UNCHANGED <<accounts, crossed, served>>

Reply(c) == calls' = [calls EXCEPT ![c] = Idle]

Refuse(c) ==
    /\ calls[c].step = "load" /\ ~Admitted(calls[c].ask)
    /\ Reply(c)
    /\ UNCHANGED <<accounts, begun, crossed, served>>

Load(c) ==
    LET q == calls[c].ask
        row == IF q.op \in {"patch", "delete"} THEN users[q.target] ELSE NoRow
        i == IF q.op = "register" /\ q.code # NoCode THEN invitations[q.code]
                                                     ELSE NoInvite
        others == {d \in Call \ {c} : InSection(d)}
    IN /\ calls[c].step = "load" /\ Admitted(q)
       /\ calls' = [calls EXCEPT ![c] =
                      [@ EXCEPT !.step = IF q.op = "patch" THEN "role"
                                         ELSE IF q.op = "delete" THEN "enabled"
                                         ELSE "commit",
                                !.was = row, !.row = row, !.code = i]]
       /\ crossed' = crossed
             \cup UNION {Touches(q) \cap Touches(calls[d].ask) : d \in others}
       /\ UNCHANGED <<accounts, begun, served>>

\* UserService.update_role, when the request names a role.
SetRole(c) ==
    LET q == calls[c].ask
        row == calls[c].row
        refused == \/ q.actor = q.target
                   \/ q.role \notin roles
                   \/ row.role # q.role /\ LastAdmin(c, row)
    IN /\ calls[c].step = "role"
       /\ IF q.role = Keep
             THEN calls' = [calls EXCEPT ![c].step = "enabled"]
             ELSE IF refused THEN Reply(c)
             ELSE calls' = [calls EXCEPT ![c] =
                     [@ EXCEPT !.step = "enabled", !.row.role = q.role]]
       /\ UNCHANGED <<accounts, begun, crossed, served>>

\* UserService.set_enabled and the check of delete_user.
SetEnabled(c) ==
    LET q == calls[c].ask
        row == calls[c].row
        refused == \/ q.actor = q.target
                   \/ q.enabled # "on" /\ LastAdmin(c, row)
    IN /\ calls[c].step = "enabled"
       /\ IF q.op = "patch" /\ q.enabled = Keep
             THEN calls' = [calls EXCEPT ![c].step = "commit"]
             ELSE IF refused THEN Reply(c)
             ELSE calls' = [calls EXCEPT ![c] =
                     [@ EXCEPT !.step = "commit",
                               !.row.enabled = (q.enabled = "on")]]
       /\ UNCHANGED <<accounts, begun, crossed, served>>

\* The columns that differ from the loaded row.
Patched(c, row) ==
    [role |-> IF calls[c].row.role # calls[c].was.role
              THEN calls[c].row.role ELSE row.role,
     enabled |-> IF calls[c].row.enabled # calls[c].was.enabled
                 THEN calls[c].row.enabled ELSE row.enabled]

\* The row of the user after the commit: an UPDATE of a row that is gone and an
\* INSERT of a name that is taken roll the whole request back.
CommitUser(c) ==
    LET q == calls[c].ask
        i == calls[c].code
        given == IF q.op = "create" THEN q.role
                 ELSE IF i = NoInvite THEN Viewer ELSE i.role
        fails == IF q.op \in {"create", "register"} THEN Exists(q.target)
                                                    ELSE ~Exists(q.target)
        now == CASE q.op = "patch"  -> Patched(c, users[q.target])
                 [] q.op = "delete" -> NoRow
                 [] OTHER -> [role |-> given, enabled |-> TRUE]
    IN /\ calls[c].step = "commit"
       /\ q.op \in {"create", "patch", "delete", "register"}
       /\ users' = IF fails THEN users ELSE [users EXCEPT ![q.target] = now]
       /\ IF i = NoInvite \/ fails
             THEN UNCHANGED <<invitations, served>>
             ELSE /\ invitations' = [invitations EXCEPT ![q.code].used = TRUE]
                  /\ served' = [served EXCEPT ![q.code] = @ \cup {q.target}]
       /\ Reply(c)
       /\ UNCHANGED <<roles, begun, crossed>>

CommitRole(c) ==
    LET q == calls[c].ask
    IN /\ calls[c].step = "commit"
       /\ \/ q.op = "add_role" /\ roles' = roles \cup {q.role}
          \/ q.op = "drop_role" /\ roles' = roles \ {q.role}
       /\ Reply(c)
       /\ UNCHANGED <<users, invitations, begun, crossed, served>>

CommitInvitation(c) ==
    LET q == calls[c].ask
    IN /\ calls[c].step = "commit"
       /\ \/ /\ q.op = "invite" /\ invitations[q.code] = NoInvite
             /\ invitations' = [invitations EXCEPT ![q.code] =
                                  [NoInvite EXCEPT !.role = q.role]]
          \/ /\ q.op = "revoke"
             /\ invitations' = [invitations EXCEPT ![q.code].revoked = TRUE]
          \/ \* the random code of the other request is another one
             /\ q.op = "invite" /\ invitations[q.code] # NoInvite
             /\ UNCHANGED invitations
       /\ Reply(c)
       /\ UNCHANGED <<users, roles, begun, crossed, served>>

\* The 1 to 365 days of an invitation are over.
Expire(i) ==
    /\ invitations[i] # NoInvite /\ ~invitations[i].expired
    /\ invitations' = [invitations EXCEPT ![i].expired = TRUE]
    /\ UNCHANGED <<users, roles, calls, begun, crossed, served>>

AccountsNext ==
    \/ \E c \in Call :
         \/ Authenticate(c) \/ Refuse(c) \/ Load(c) \/ SetRole(c)
         \/ SetEnabled(c) \/ CommitUser(c) \/ CommitRole(c)
         \/ CommitInvitation(c)
    \/ \E i \in Code : Expire(i)

AccountsSpec == AccountsInit /\ [][AccountsNext]_accountsVars

-----------------------------------------------------------------------------
AccountsTypeOK ==
    /\ users \in [User -> Row \cup {NoRow}]
    /\ roles \subseteq Role
    /\ invitations \in [Code -> Invite \cup {NoInvite}]
    /\ \A c \in Call :
         /\ {calls[c].ask.actor, calls[c].ask.target} \subseteq User \cup {Nobody}
         /\ calls[c].step \in {"idle", "load", "role", "enabled", "commit"}
         /\ calls[c].was \in Row \cup {NoRow}
         /\ calls[c].row \in Row \cup {NoRow}
         /\ calls[c].code \in Invite \cup {NoInvite}
    /\ begun \in 0 .. MaxCalls
    /\ crossed \subseteq {"admins", "roles"} \cup Code
    /\ served \in [Code -> SUBSET User]

\* user_service.py:3-6: an enabled administrator is always left, unless the
\* sections of two requests have overlapped: the actor may itself have been
\* demoted since it was authenticated.
AnAdminRemains ==
    "admins" \in crossed \/ \E u \in User : Authorised(u)

\* delete_role refuses a role in use, but looks at users only: as long as no
\* two sections overlap, a user whose role is gone registered with an invitation
\* to it.
RolesOutliveTheirUsers ==
    "roles" \in crossed
        \/ \A u \in User : \/ ~Exists(u) \/ users[u].role \in roles
                           \/ \E c \in Code : u \in served[c]

\* An administration that works: someone may act, and every user has a role.
AdministrationHolds == AnAdminRemains /\ RolesOutliveTheirUsers

\* role_service.py:5: an invitation serves one registration, unless two that
\* present it overlap.
InvitationsServeOnce ==
    \A c \in Code : c \in crossed \/ Cardinality(served[c]) <= 1
=============================================================================
