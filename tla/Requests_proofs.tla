--------------------------- MODULE Requests_proofs ---------------------------
(***************************************************************************)
(* Proofs about what overlapping requests read, check and write: accounts, *)
(* the guards before the logins, and the conversations with the agent with *)
(* the confirmations they leave, for any users, roles, invitations,        *)
(* limits, budgets, tokens and requests.                                   *)
(***************************************************************************)
EXTENDS Accounts, RequestLimits, Assistant, FiniteSetTheorems, TLAPS

-----------------------------------------------------------------------------
(***************************************************************************)
(* Accounts, for any users, roles, invitations and requests.               *)
(*                                                                         *)
(* The argument: a kind of check-then-write section that has never         *)
(* overlapped has at most one request inside, so that what this request    *)
(* has checked still holds when it commits: another administrator is       *)
(* there, the role exists or is not in use, the invitation is unused.      *)
(* Requests of the other kinds do not touch it: a registration adds a row, *)
(* and a PATCH writes the columns that it names only.                      *)
(***************************************************************************)

Inside(c, op) == InSection(c) /\ calls[c].ask.op = op
Alters(c) == Inside(c, "patch") \/ Inside(c, "delete")

AccountCall ==
    [ask : Asks \cup {Idle.ask}, step : {"idle", "load", "role", "enabled", "commit"},
     was : Row \cup {NoRow}, row : Row \cup {NoRow}, code : Invite \cup {NoInvite}]

AccountsShape ==
    /\ users \in [User -> Row \cup {NoRow}]
    /\ Builtin \subseteq roles
    /\ invitations \in [Code -> Invite \cup {NoInvite}]
    /\ calls \in [Call -> AccountCall]
    /\ served \in [Code -> SUBSET User]

\* What a request carries at each step.
CallPlaceInv ==
    \A c \in Call :
        /\ calls[c].step # "idle" => calls[c].ask \in Asks
        /\ calls[c].step = "role" => calls[c].ask.op = "patch" /\ calls[c].row = calls[c].was
        /\ calls[c].step = "enabled" => /\ calls[c].ask.op \in {"patch", "delete"}
                                        /\ calls[c].row.enabled = calls[c].was.enabled
        /\ Inside(c, "patch") /\ calls[c].ask.role = Keep =>
             calls[c].row.role = calls[c].was.role
        /\ Alters(c) => calls[c].was \in Row /\ calls[c].row \in Row
        /\ Inside(c, "drop_role") => calls[c].ask.role \notin Builtin
        /\ Inside(c, "revoke") => invitations[calls[c].ask.code] # NoInvite
        /\ calls[c].code # NoInvite => /\ calls[c].ask.op = "register"
                                       /\ calls[c].ask.code \in Code
                                       /\ invitations[calls[c].ask.code] # NoInvite

\* One request at a time is in a section that has never overlapped.
SectionInv ==
    \A k \in {"admins", "roles"} \cup Code : k \notin crossed =>
        \A c, d \in Call :
            /\ InSection(c) /\ k \in Touches(calls[c].ask)
            /\ InSection(d) /\ k \in Touches(calls[d].ask)
            => c = d

AdminInv ==
    "admins" \notin crossed =>
        /\ \E u \in User : Authorised(u)
        /\ \A c \in Call : Alters(c) =>
             /\ users[calls[c].ask.target] = calls[c].was
             /\ calls[c].step = "commit" /\ calls[c].ask.op = "delete" => ~calls[c].row.enabled
             /\ IsEnabledAdmin(calls[c].was) /\ ~IsEnabledAdmin(calls[c].row) =>
                  \E v \in User : v # calls[c].ask.target /\ Authorised(v)

RoleInv ==
    "roles" \notin crossed =>
        /\ \A u \in User : \/ ~Exists(u) \/ users[u].role \in roles
                           \/ \E i \in Code : u \in served[i]
        /\ \A c \in Call :
             /\ Inside(c, "create") => calls[c].ask.role \in roles
             /\ Inside(c, "drop_role") => ~InUse(calls[c].ask.role)
             /\ Inside(c, "patch") /\ calls[c].ask.role # Keep /\ calls[c].step # "role" =>
                  calls[c].row.role \in roles

InviteInv ==
    \A i \in Code : i \notin crossed =>
        /\ served[i] # {} => invitations[i].used /\ \E x : served[i] = {x}
        /\ \A c \in Call : Inside(c, "register") /\ calls[c].ask.code = i =>
             ~invitations[i].used

AccountsInv == AccountsShape /\ CallPlaceInv /\ SectionInv /\ AdminInv /\ RoleInv /\ InviteInv

\* Nobody is inside who was not, with what he carried; overlaps are not forgotten.
Left ==
    /\ \A c \in Call : InSection(c)' => calls'[c] = calls[c]
    /\ crossed \subseteq crossed'

\* No invitation disappears: revoked ones are marked.
InvitesStay == \A i \in Code : invitations[i] # NoInvite => invitations'[i] # NoInvite

-----------------------------------------------------------------------------
(* Data. *)

\* What the requests of each kind name.
LEMMA AskFacts ==
    ASSUME NEW q \in Asks
    PROVE  /\ q.op \in {"patch", "create", "delete", "add_role", "drop_role",
                        "invite", "revoke", "register"}
           /\ q.op \in {"patch", "create", "delete", "register"} => q.target \in User
           /\ q.op \in {"create", "invite"} => q.role \in Role
           /\ q.op = "patch" => q.role \in Role \cup {Keep}
           /\ q.op = "delete" => q.enabled = Keep
           /\ q.op = "drop_role" => q.role \in Role
           /\ q.op \in {"invite", "revoke"} => q.code \in Code
           /\ q.op = "register" => q.code \in Code \cup {NoCode}
<1>1. CASE q \in Patches
  <2>1. PICK a \in User, u \in User, r \in Grantable \cup {Keep}, e \in {"on", "off", Keep} :
          q = Ask("patch", a, u, r, e, NoCode)
      BY <1>1 DEF Patches
  <2> QED BY <2>1, AccountsAssumption DEF Ask
<1>2. CASE q \in {Ask("create", a, u, r, "on", NoCode) :
                    a \in User, u \in User, r \in Grantable}
  <2>1. PICK a \in User, u \in User, r \in Grantable : q = Ask("create", a, u, r, "on", NoCode)
      BY <1>2
  <2> QED BY <2>1, AccountsAssumption DEF Ask
<1>3. CASE q \in {Ask("delete", a, u, Keep, Keep, NoCode) : a \in User, u \in User}
  <2>1. PICK a \in User, u \in User : q = Ask("delete", a, u, Keep, Keep, NoCode)
      BY <1>3
  <2> QED BY <2>1 DEF Ask
<1>4. CASE q \in {Ask("add_role", a, Nobody, r, Keep, NoCode) :
                    a \in User, r \in Addable}
  <2>1. PICK a \in User, r \in Addable :
          q = Ask("add_role", a, Nobody, r, Keep, NoCode)
      BY <1>4
  <2> QED BY <2>1 DEF Ask
<1>5. CASE q \in {Ask("drop_role", a, Nobody, r, Keep, NoCode) :
                    a \in User, r \in Addable}
  <2>1. PICK a \in User, r \in Addable :
          q = Ask("drop_role", a, Nobody, r, Keep, NoCode)
      BY <1>5
  <2> QED BY <2>1 DEF Ask, Addable, Role
<1>6. CASE q \in {Ask("invite", a, Nobody, r, Keep, c) : a \in User, r \in Grantable, c \in Code}
  <2>1. PICK a \in User, r \in Grantable, c \in Code : q = Ask("invite", a, Nobody, r, Keep, c)
      BY <1>6
  <2> QED BY <2>1, AccountsAssumption DEF Ask
<1>7. CASE q \in {Ask("revoke", a, Nobody, Keep, Keep, c) : a \in User, c \in Code}
  <2>1. PICK a \in User, c \in Code : q = Ask("revoke", a, Nobody, Keep, Keep, c)
      BY <1>7
  <2> QED BY <2>1 DEF Ask
<1>8. CASE q \in {Ask("register", Nobody, u, Keep, "on", c) : u \in User, c \in Code \cup {NoCode}}
  <2>1. PICK u \in User, c \in Code \cup {NoCode} : q = Ask("register", Nobody, u, Keep, "on", c)
      BY <1>8
  <2> QED BY <2>1 DEF Ask
<1>9. \/ q \in Patches
      \/ q \in {Ask("create", a, u, r, "on", NoCode) : a \in User, u \in User, r \in Grantable}
      \/ q \in {Ask("delete", a, u, Keep, Keep, NoCode) : a \in User, u \in User}
      \/ q \in {Ask("add_role", a, Nobody, r, Keep, NoCode) : a \in User, r \in Addable}
      \/ q \in {Ask("drop_role", a, Nobody, r, Keep, NoCode) : a \in User, r \in Addable}
      \/ q \in {Ask("invite", a, Nobody, r, Keep, c) : a \in User, r \in Grantable, c \in Code}
      \/ q \in {Ask("revoke", a, Nobody, Keep, Keep, c) : a \in User, c \in Code}
      \/ q \in {Ask("register", Nobody, u, Keep, "on", c) : u \in User, c \in Code \cup {NoCode}}
    BY DEF Asks
<1> QED BY <1>1, <1>2, <1>3, <1>4, <1>5, <1>6, <1>7, <1>8, <1>9

\* The request that no one sends is none of them.
LEMMA IdleFacts ==
    /\ Idle \in AccountCall /\ Idle.step = "idle"
    /\ Idle.ask \notin Asks /\ Idle.code = NoInvite
<1>1. Idle.ask.op = "none"
    BY DEF Idle, Ask
<1>2. Idle.ask \notin Asks
    BY <1>1, AskFacts
<1>3. Idle.step = "idle" /\ Idle.code = NoInvite
    BY DEF Idle
<1>4. Idle \in AccountCall
    BY DEF Idle, AccountCall
<1> QED BY <1>2, <1>3, <1>4

\* A row is none that is absent.
LEMMA RowFacts ==
    /\ NoRow \notin Row /\ NoRow.role \notin Role /\ ~IsEnabledAdmin(NoRow)
    /\ NoInvite.used = FALSE
    /\ \A i \in Invite \cup {NoInvite} : i.used \in BOOLEAN
<1>1. NoRow.role = "none" /\ NoRow.enabled = FALSE /\ NoInvite.used = FALSE
    BY DEF NoRow, NoInvite
<1>2. NoRow.role \notin Role
    BY <1>1, AccountsAssumption
<1>3. NoRow \notin Row
    BY <1>2 DEF Row
<1>4. \A i \in Invite : i.used \in BOOLEAN
    BY DEF Invite
<1> QED BY <1>1, <1>2, <1>3, <1>4 DEF IsEnabledAdmin

\* Where there is not at most one of a kind, there is another one.
LEMMA AnotherOne ==
    ASSUME NEW S, IsFiniteSet(S), ~(Cardinality(S) <= 1), NEW x
    PROVE  \E y \in S : y # x
<1> SUFFICES ASSUME \A y \in S : y = x PROVE FALSE
    OBVIOUS
<1>1. CASE S = {}
    BY <1>1, FS_EmptySet
<1>2. CASE S # {}
  <2>1. S = {x}
      BY <1>2
  <2> QED BY <2>1, FS_Singleton
<1> QED BY <1>1, <1>2

-----------------------------------------------------------------------------
(* What a step leaves alone. *)

\* A request that has ended carries nothing.
LEMMA PlaceFrame ==
    ASSUME AccountsInv, InvitesStay, \A c \in Call : calls'[c] = calls[c] \/ calls'[c] = Idle
    PROVE  CallPlaceInv'
<1> SUFFICES ASSUME NEW c \in Call PROVE CallPlaceInv!(c)'
    BY DEF CallPlaceInv
<1>1. CASE calls'[c] = calls[c]
  <2>1. Inside(c, "revoke") => calls[c].ask.code \in Code
      BY AskFacts DEF AccountsInv, CallPlaceInv, Inside, InSection
  <2> QED BY <1>1, <2>1 DEF AccountsInv, CallPlaceInv, InSection, Inside, Alters, InvitesStay
<1>2. CASE calls'[c] = Idle
    BY <1>2, IdleFacts DEF InSection, Inside, Alters
<1> QED BY <1>1, <1>2

\* Who is inside alone stays alone while nobody enters.
LEMMA SectionFrame ==
    ASSUME SectionInv, Left
    PROVE  SectionInv'
<1>1. \A c \in Call : InSection(c)' => calls'[c] = calls[c] /\ InSection(c)
    BY DEF Left, InSection
<1>2. \A k : k \notin crossed' => k \notin crossed
    BY DEF Left
<1> QED BY <1>1, <1>2 DEF SectionInv

\* Administrators stay while no row changes and nobody enters.
LEMMA AdminFrame ==
    ASSUME AdminInv, Left, UNCHANGED users
    PROVE  AdminInv'
<1>1. "admins" \notin crossed' => "admins" \notin crossed
    BY DEF Left
<1>2. \A c \in Call : Alters(c)' => calls'[c] = calls[c] /\ Alters(c)
    BY DEF Left, InSection, Inside, Alters
<1>3. \A u \in User : Authorised(u)' <=> Authorised(u)
    BY DEF Authorised
<1> QED BY <1>1, <1>2, <1>3 DEF AdminInv

\* Roles may be added; what refers to them stays while nobody enters.
LEMMA RoleFrame ==
    ASSUME RoleInv, Left, UNCHANGED users, roles \subseteq roles',
           \A i \in Code : served[i] \subseteq served'[i]
    PROVE  RoleInv'
<1>1. "roles" \notin crossed' => "roles" \notin crossed
    BY DEF Left
<1>2. \A c \in Call, op \in {"create", "drop_role", "patch"} :
        Inside(c, op)' => calls'[c] = calls[c] /\ Inside(c, op)
    BY DEF Left, InSection, Inside
<1>3. \A u \in User : Exists(u)' <=> Exists(u)
    BY DEF Exists
<1>4. \A r : InUse(r)' <=> InUse(r)
    BY DEF InUse
<1> QED BY <1>1, <1>2, <1>3, <1>4 DEF RoleInv

\* Invitations may be added, revoked and expire while nobody enters.
LEMMA InviteFrame ==
    ASSUME InviteInv, Left, UNCHANGED served,
           \A i \in Code : invitations'[i].used = invitations[i].used
    PROVE  InviteInv'
<1>1. \A i \in Code : i \notin crossed' => i \notin crossed
    BY DEF Left
<1>2. \A c \in Call : Inside(c, "register")' => calls'[c] = calls[c] /\ Inside(c, "register")
    BY DEF Left, InSection, Inside
<1> QED BY <1>1, <1>2 DEF InviteInv

\* A request that ends leaves the others where they are.
LEMMA ReplyFrame ==
    ASSUME AccountsInv, NEW c \in Call, Reply(c), crossed \subseteq crossed', InvitesStay
    PROVE  /\ calls' \in [Call -> AccountCall]
           /\ Left
           /\ CallPlaceInv'
           /\ SectionInv'
<1>1. calls' \in [Call -> AccountCall]
    BY IdleFacts DEF AccountsInv, AccountsShape, Reply
<1>2. \A d \in Call : calls'[d] = IF d = c THEN Idle ELSE calls[d]
    BY DEF AccountsInv, AccountsShape, Reply
<1>3. Left
    BY <1>2, IdleFacts DEF Left, InSection
<1>4. CallPlaceInv'
    BY <1>2, PlaceFrame DEF AccountsInv
<1> QED BY <1>1, <1>3, <1>4, SectionFrame DEF AccountsInv

-----------------------------------------------------------------------------
(* The steps. *)

\* One administrator or two, the builtin roles, no invitation, no request.
LEMMA AccountsInitInv == AccountsInit => AccountsInv
<1> SUFFICES ASSUME AccountsInit PROVE AccountsInv
    OBVIOUS
<1> DEFINE A == [role |-> Admin, enabled |-> TRUE]
<1>1. users \in [User -> {NoRow, A}] /\ Cardinality({u \in User : users[u] # NoRow}) \in 1 .. 2
    BY DEF AccountsInit
<1>2. A \in Row /\ IsEnabledAdmin(A) /\ A.role \in Builtin
    BY DEF Row, Role, Builtin, IsEnabledAdmin
<1>3. \A c \in Call : calls[c] = Idle /\ ~InSection(c)
    BY IdleFacts DEF AccountsInit, InSection
<1>4. AccountsShape
  <2>1. users \in [User -> Row \cup {NoRow}]
      BY <1>1, <1>2
  <2> QED BY <2>1, IdleFacts DEF AccountsInit, AccountsShape
<1>5. CallPlaceInv
    BY <1>3, IdleFacts DEF CallPlaceInv, Inside, Alters
<1>6. SectionInv
    BY <1>3 DEF SectionInv
<1>7. AdminInv
  <2>1. PICK u \in User : users[u] # NoRow
    <3>1. {u \in User : users[u] # NoRow} # {}
        BY <1>1, FS_EmptySet
    <3> QED BY <3>1
  <2>2. Authorised(u)
      BY <1>1, <1>2, <2>1 DEF Authorised
  <2> QED BY <1>3, <2>2 DEF AdminInv, Alters, Inside
<1>8. RoleInv
    BY <1>1, <1>2, <1>3 DEF RoleInv, Inside, Exists, AccountsInit
<1>9. InviteInv
    BY <1>3 DEF InviteInv, Inside, AccountsInit
<1> QED BY <1>4, <1>5, <1>6, <1>7, <1>8, <1>9 DEF AccountsInv

\* A request is sent: it is not inside yet.
LEMMA AuthenticateStep ==
    ASSUME AccountsInv, NEW c \in Call, Authenticate(c)
    PROVE  AccountsInv'
<1>1. PICK q \in Asks :
        calls' = [calls EXCEPT ![c] = [Idle EXCEPT !.ask = q, !.step = "load"]]
    BY DEF Authenticate
<1>2. UNCHANGED <<users, roles, invitations, crossed, served>>
    BY DEF Authenticate, accounts
<1> DEFINE sent == [Idle EXCEPT !.ask = q, !.step = "load"]
<1>3. /\ sent \in AccountCall /\ sent.ask = q /\ sent.step = "load" /\ sent.code = NoInvite
    BY DEF Idle, AccountCall
<1>4. \A d \in Call : calls'[d] = IF d = c THEN sent ELSE calls[d]
    BY <1>1 DEF AccountsInv, AccountsShape
<1>5. AccountsShape'
  <2>1. calls' \in [Call -> AccountCall]
      BY <1>1, <1>3 DEF AccountsInv, AccountsShape
  <2> QED BY <1>2, <2>1 DEF AccountsInv, AccountsShape
<1>6. Left
    BY <1>2, <1>3, <1>4 DEF Left, InSection
<1>7. CallPlaceInv'
  <2> SUFFICES ASSUME NEW d \in Call PROVE CallPlaceInv!(d)'
      BY DEF CallPlaceInv
  <2>1. CASE d = c
      BY <1>3, <1>4, <2>1 DEF Inside, InSection, Alters
  <2>2. CASE d # c
      BY <1>2, <1>4, <2>2 DEF AccountsInv, CallPlaceInv, Inside, InSection, Alters
  <2> QED BY <2>1, <2>2
<1> QED BY <1>2, <1>5, <1>6, <1>7, SectionFrame, AdminFrame, RoleFrame, InviteFrame DEF AccountsInv

\* A request is refused before it changes anything.
LEMMA RefusalStep ==
    ASSUME AccountsInv, NEW c \in Call, Refuse(c)
    PROVE  AccountsInv'
<1>1. Reply(c) /\ UNCHANGED <<users, roles, invitations, crossed, served>>
    BY DEF Refuse, accounts
<1>2. calls' \in [Call -> AccountCall] /\ Left /\ CallPlaceInv' /\ SectionInv'
    BY <1>1, ReplyFrame DEF InvitesStay
<1>3. AccountsShape'
    BY <1>1, <1>2 DEF AccountsInv, AccountsShape
<1> QED BY <1>1, <1>2, <1>3, AdminFrame, RoleFrame, InviteFrame DEF AccountsInv

\* Time passes for an invitation.
LEMMA InviteExpires ==
    ASSUME AccountsInv, NEW i \in Code, Expire(i)
    PROVE  AccountsInv'
<1>1. /\ UNCHANGED <<users, roles, calls, crossed, served>>
      /\ invitations' = [invitations EXCEPT ![i].expired = TRUE]
      /\ invitations[i] # NoInvite
    BY DEF Expire
<1>2. Left
    BY <1>1 DEF Left
<1>3. AccountsShape' /\ InvitesStay
  <2>1. invitations[i] \in Invite
      BY <1>1 DEF AccountsInv, AccountsShape
  <2>2. [invitations[i] EXCEPT !.expired = TRUE] \in Invite
      BY <2>1 DEF Invite
  <2>3. invitations' \in [Code -> Invite \cup {NoInvite}]
      BY <1>1, <2>2 DEF AccountsInv, AccountsShape
  <2>4. InvitesStay
    <3>1. [invitations[i] EXCEPT !.expired = TRUE] # NoInvite
        BY <2>2, AccountsAssumption DEF Invite, NoInvite
    <3> QED BY <1>1, <3>1 DEF AccountsInv, AccountsShape, InvitesStay
  <2> QED BY <1>1, <2>3, <2>4 DEF AccountsInv, AccountsShape
<1>4. \A j \in Code : invitations'[j].used = invitations[j].used
  <2>1. [invitations[i] EXCEPT !.expired = TRUE].used = invitations[i].used
      BY <1>1 DEF AccountsInv, AccountsShape, Invite
  <2> QED BY <1>1, <2>1 DEF AccountsInv, AccountsShape
<1>5. CallPlaceInv'
    BY <1>1, <1>3, PlaceFrame
<1> QED BY <1>1, <1>2, <1>3, <1>4, <1>5, SectionFrame, AdminFrame, RoleFrame, InviteFrame DEF AccountsInv

\* A request enters: with one that is inside it overlaps, or it is alone.
LEMMA LoadStep ==
    ASSUME AccountsInv, NEW c \in Call, Load(c)
    PROVE  AccountsInv'
<1> DEFINE q == calls[c].ask
           row == IF q.op \in {"patch", "delete"} THEN users[q.target] ELSE NoRow
           i == IF q.op = "register" /\ q.code # NoCode THEN invitations[q.code] ELSE NoInvite
           step == IF q.op = "patch" THEN "role"
                   ELSE IF q.op = "delete" THEN "enabled" ELSE "commit"
           entered == [calls[c] EXCEPT !.step = step, !.was = row, !.row = row, !.code = i]
<1>1. /\ calls[c].step = "load" /\ Admitted(q)
      /\ calls' = [calls EXCEPT ![c] = entered]
      /\ crossed' = crossed \cup UNION {Touches(q) \cap Touches(calls[d].ask) :
                                          d \in {d \in Call \ {c} : InSection(d)}}
      /\ UNCHANGED <<users, roles, invitations, served>>
    BY DEF Load, accounts
<1>2. q \in Asks
    BY <1>1 DEF AccountsInv, CallPlaceInv
<1>3. /\ row \in Row \cup {NoRow} /\ i \in Invite \cup {NoInvite}
      /\ q.op \in {"patch", "delete"} => row \in Row
      /\ i # NoInvite => q.op = "register" /\ q.code \in Code
    BY <1>1, <1>2, AskFacts DEF AccountsInv, AccountsShape, Admitted, Exists
<1>4. /\ entered \in AccountCall /\ entered.ask = q /\ entered.step = step
      /\ entered.was = row /\ entered.row = row /\ entered.code = i
  <2>1. calls[c] \in AccountCall
      BY DEF AccountsInv, AccountsShape
  <2> HIDE DEF row, i
  <2> QED BY <1>3, <2>1 DEF AccountCall
<1> HIDE DEF row, i, entered
<1>5. \A d \in Call : calls'[d] = IF d = c THEN entered ELSE calls[d]
    BY <1>1 DEF AccountsInv, AccountsShape
<1>6. ~InSection(c) /\ InSection(c)'
    BY <1>1, <1>4, <1>5 DEF InSection
<1>7. AccountsShape'
  <2>1. calls' \in [Call -> AccountCall]
      BY <1>1, <1>4 DEF AccountsInv, AccountsShape
  <2> QED BY <1>1, <2>1 DEF AccountsInv, AccountsShape
<1>8. CallPlaceInv'
  <2> SUFFICES ASSUME NEW d \in Call PROVE CallPlaceInv!(d)'
      BY DEF CallPlaceInv
  <2>1. CASE d = c
    <3>1. /\ q.op = "drop_role" => q.role \notin Builtin
          /\ q.op = "revoke" => invitations[q.code] # NoInvite
          /\ i # NoInvite => invitations[q.code] # NoInvite
        BY <1>1 DEF Admitted, i
    <3> QED BY <1>1, <1>2, <1>3, <1>4, <1>5, <2>1, <3>1 DEF Inside, InSection, Alters
  <2>2. CASE d # c
      BY <1>1, <1>5, <2>2 DEF AccountsInv, CallPlaceInv, Inside, InSection, Alters
  <2> QED BY <2>1, <2>2
<1>9. \A k : k \notin crossed' =>
        /\ k \notin crossed
        /\ k \in Touches(q) => \A d \in Call \ {c} : InSection(d) => k \notin Touches(calls[d].ask)
    BY <1>1
<1>10. \A d \in Call : d # c => calls'[d] = calls[d] /\ (InSection(d)' <=> InSection(d))
    BY <1>5 DEF InSection
<1>11. SectionInv'
  <2>1. calls'[c].ask = q
      BY <1>4, <1>5
  <2> QED BY <1>9, <1>10, <2>1 DEF AccountsInv, SectionInv
<1>12. AdminInv'
  <2> SUFFICES ASSUME "admins" \notin crossed' PROVE AdminInv!2'
      BY DEF AdminInv
  <2>1. AdminInv!2
      BY <1>9 DEF AccountsInv, AdminInv
  <2>2. \A u \in User : Authorised(u)' <=> Authorised(u)
      BY <1>1 DEF Authorised
  <2>3. \A d \in Call : d # c => (Alters(d)' <=> Alters(d))
      BY <1>10 DEF Alters, Inside
  <2>4. Alters(c)' => /\ users'[calls'[c].ask.target] = calls'[c].was
                      /\ calls'[c].row = calls'[c].was /\ calls'[c].step # "commit"
      BY <1>1, <1>4, <1>5 DEF Alters, Inside, row
  <2> QED BY <1>1, <1>10, <2>1, <2>2, <2>3, <2>4
<1>13. RoleInv'
  <2> SUFFICES ASSUME "roles" \notin crossed' PROVE RoleInv!2'
      BY DEF RoleInv
  <2>1. RoleInv!2
      BY <1>9 DEF AccountsInv, RoleInv
  <2>2. (\A u \in User : Exists(u)' <=> Exists(u)) /\ (\A r : InUse(r)' <=> InUse(r))
      BY <1>1 DEF Exists, InUse
  <2>3. \A d \in Call, op \in {"create", "drop_role", "patch"} :
          d # c => (Inside(d, op)' <=> Inside(d, op))
      BY <1>10 DEF Inside
  <2>4. /\ Inside(c, "create")' => q.role \in roles
        /\ Inside(c, "drop_role")' => ~InUse(q.role)
        /\ Inside(c, "patch")' => calls'[c].step = "role"
      BY <1>1, <1>4, <1>5 DEF Inside, Admitted
  <2> QED BY <1>1, <1>4, <1>5, <1>10, <2>1, <2>2, <2>3, <2>4
<1>14. InviteInv'
  <2> SUFFICES ASSUME NEW k \in Code, k \notin crossed' PROVE InviteInv!(k)!2'
      BY DEF InviteInv
  <2>1. InviteInv!(k)!2
      BY <1>9 DEF AccountsInv, InviteInv
  <2>2. \A d \in Call : d # c => (Inside(d, "register")' <=> Inside(d, "register"))
      BY <1>10 DEF Inside
  <2>3. Inside(c, "register")' /\ q.code = k => ~invitations[k].used
      BY <1>1, <1>4, <1>5, AccountsAssumption DEF Inside, Admitted, Usable
  <2> QED BY <1>1, <1>4, <1>5, <1>10, <2>1, <2>2, <2>3
<1> QED BY <1>7, <1>8, <1>11, <1>12, <1>13, <1>14 DEF AccountsInv

\* A check of an administrator that passes while the request alters alone has
\* found another one.
LEMMA AnotherAdmin ==
    ASSUME AccountsInv, NEW c \in Call, ~LastAdmin(c, calls[c].row), IsEnabledAdmin(calls[c].row)
    PROVE  \E v \in User : v # calls[c].ask.target /\ Authorised(v)
<1>1. EnabledAdmins(c) \in SUBSET User /\ ~(Cardinality(EnabledAdmins(c)) <= 1)
    BY DEF LastAdmin, IsEnabledAdmin, EnabledAdmins
<1>2. IsFiniteSet(EnabledAdmins(c))
    BY <1>1, AccountsAssumption, FS_Subset
<1>3. PICK v \in EnabledAdmins(c) : v # calls[c].ask.target
    BY <1>1, <1>2, AnotherOne
<1> QED BY <1>3 DEF EnabledAdmins, SeenBy, Authorised

\* A request that stays inside changes what it carries alone.
LEMMA InsideFrame ==
    ASSUME AccountsInv, NEW c \in Call, NEW r \in AccountCall, r.ask = calls[c].ask,
           calls' = [calls EXCEPT ![c] = r], InSection(c),
           UNCHANGED <<users, roles, invitations, crossed, served>>
    PROVE  /\ \A d \in Call : calls'[d] = IF d = c THEN r ELSE calls[d]
           /\ AccountsShape' /\ SectionInv' /\ InviteInv'
<1>1. \A d \in Call : calls'[d] = IF d = c THEN r ELSE calls[d]
    BY DEF AccountsInv, AccountsShape
<1>2. \A d \in Call : /\ InSection(d)' => InSection(d)
                      /\ calls'[d].ask = calls[d].ask
    BY <1>1 DEF InSection
<1>3. AccountsShape'
  <2>1. calls' \in [Call -> AccountCall]
      BY DEF AccountsInv, AccountsShape
  <2> QED BY <2>1 DEF AccountsInv, AccountsShape
<1>4. SectionInv'
    BY <1>2 DEF AccountsInv, SectionInv
<1>5. InviteInv'
    BY <1>2 DEF AccountsInv, InviteInv, Inside
<1> QED BY <1>1, <1>3, <1>4, <1>5

\* A role is assigned that exists, and the last administrator keeps his.
LEMMA SetRoleStep ==
    ASSUME AccountsInv, NEW c \in Call, SetRole(c)
    PROVE  AccountsInv'
<1> DEFINE q == calls[c].ask
           row == calls[c].row
           refused == \/ q.actor = q.target
                      \/ q.role \notin roles
                      \/ row.role # q.role /\ LastAdmin(c, row)
<1>1. calls[c].step = "role" /\ UNCHANGED <<users, roles, invitations, crossed, served>>
    BY DEF SetRole, accounts
<1>2. /\ q \in Asks /\ q.op = "patch" /\ row = calls[c].was /\ row \in Row
      /\ InSection(c) /\ Alters(c) /\ calls[c].code = NoInvite
    BY <1>1 DEF AccountsInv, CallPlaceInv, InSection, Alters, Inside
<1>3. CASE q.role # Keep /\ refused
  <2>1. Reply(c)
      BY <1>3 DEF SetRole
  <2>2. calls' \in [Call -> AccountCall] /\ Left /\ CallPlaceInv' /\ SectionInv'
      BY <1>1, <2>1, ReplyFrame DEF InvitesStay
  <2>3. AccountsShape'
      BY <1>1, <2>2 DEF AccountsInv, AccountsShape
  <2> QED BY <1>1, <2>2, <2>3, AdminFrame, RoleFrame, InviteFrame DEF AccountsInv
<1>4. CASE q.role = Keep \/ ~refused
  <2> DEFINE now == IF q.role = Keep THEN row ELSE [row EXCEPT !.role = q.role]
             next == [calls[c] EXCEPT !.step = "enabled", !.row = now]
  <2>1. calls[c] \in AccountCall
      BY DEF AccountsInv, AccountsShape
  <2>2. calls' = [calls EXCEPT ![c] = next]
    <3>1. CASE q.role = Keep
      <4>1. calls' = [calls EXCEPT ![c] = [calls[c] EXCEPT !.step = "enabled"]]
          BY <3>1 DEF SetRole
      <4>2. next = [calls[c] EXCEPT !.step = "enabled"]
          BY <2>1, <3>1 DEF AccountCall
      <4> QED BY <4>1, <4>2
    <3>2. CASE q.role # Keep
        BY <1>4, <3>2 DEF SetRole
    <3> QED BY <3>1, <3>2
  <2>3. /\ now \in Row /\ now.enabled = row.enabled
        /\ q.role = Keep => now = row
        /\ q.role # Keep => now.role = q.role
    <3>1. q.role # Keep => q.role \in Role
        BY <1>2, AskFacts
    <3> QED BY <1>2, <3>1 DEF Row
  <2> HIDE DEF now
  <2>4. /\ next \in AccountCall /\ next.ask = q /\ next.step = "enabled"
        /\ next.was = calls[c].was /\ next.row = now /\ next.code = NoInvite
      BY <1>2, <2>1, <2>3 DEF AccountCall
  <2> HIDE DEF next
  <2>5. /\ \A d \in Call : calls'[d] = IF d = c THEN next ELSE calls[d]
        /\ AccountsShape' /\ SectionInv' /\ InviteInv'
      BY <1>1, <1>2, <2>2, <2>4, InsideFrame
  <2>6. \A d \in Call : (InSection(d)' <=> InSection(d)) /\ calls'[d].ask = calls[d].ask
      BY <1>2, <2>4, <2>5 DEF InSection
  <2>7. CallPlaceInv'
    <3> SUFFICES ASSUME NEW d \in Call PROVE CallPlaceInv!(d)'
        BY DEF CallPlaceInv
    <3>1. CASE d = c
        BY <1>2, <2>3, <2>4, <2>5, <3>1 DEF Inside, InSection, Alters
    <3>2. CASE d # c
        BY <1>1, <2>5, <3>2 DEF AccountsInv, CallPlaceInv, Inside, InSection, Alters
    <3> QED BY <3>1, <3>2
  <2>8. AdminInv'
    <3> SUFFICES ASSUME "admins" \notin crossed' PROVE AdminInv!2'
        BY DEF AdminInv
    <3>1. AdminInv!2
        BY <1>1 DEF AccountsInv, AdminInv
    <3>2. \A u \in User : Authorised(u)' <=> Authorised(u)
        BY <1>1 DEF Authorised
    <3>3. \A d \in Call : Alters(d)' <=> Alters(d)
        BY <2>6 DEF Alters, Inside
    <3>4. IsEnabledAdmin(row) /\ ~IsEnabledAdmin(now) =>
            \E v \in User : v # q.target /\ Authorised(v)
      <4> SUFFICES ASSUME IsEnabledAdmin(row), ~IsEnabledAdmin(now)
                   PROVE  \E v \in User : v # q.target /\ Authorised(v)
          OBVIOUS
      <4>1. q.role # Keep /\ row.role # q.role
          BY <2>3 DEF IsEnabledAdmin
      <4>2. ~LastAdmin(c, row)
          BY <1>4, <4>1
      <4> QED BY <4>2, AnotherAdmin
    <3> QED BY <1>1, <1>2, <2>4, <2>5, <3>1, <3>2, <3>3, <3>4
  <2>9. RoleInv'
    <3> SUFFICES ASSUME "roles" \notin crossed' PROVE RoleInv!2'
        BY DEF RoleInv
    <3>1. RoleInv!2
        BY <1>1 DEF AccountsInv, RoleInv
    <3>2. (\A u \in User : Exists(u)' <=> Exists(u)) /\ (\A r : InUse(r)' <=> InUse(r))
        BY <1>1 DEF Exists, InUse
    <3>3. \A d \in Call, op \in {"create", "drop_role", "patch"} : Inside(d, op)' <=> Inside(d, op)
        BY <2>6 DEF Inside
    <3>4. q.role # Keep => now.role \in roles
        BY <1>4, <2>3
    <3> QED BY <1>1, <1>2, <2>4, <2>5, <3>1, <3>2, <3>3, <3>4
  <2> QED BY <2>5, <2>7, <2>8, <2>9 DEF AccountsInv
<1> QED BY <1>3, <1>4

\* The last administrator is neither disabled nor deleted.
LEMMA SetEnabledStep ==
    ASSUME AccountsInv, NEW c \in Call, SetEnabled(c)
    PROVE  AccountsInv'
<1> DEFINE q == calls[c].ask
           row == calls[c].row
           kept == q.op = "patch" /\ q.enabled = Keep
           refused == q.actor = q.target \/ (q.enabled # "on" /\ LastAdmin(c, row))
<1>1. calls[c].step = "enabled" /\ UNCHANGED <<users, roles, invitations, crossed, served>>
    BY DEF SetEnabled, accounts
<1>2. /\ q \in Asks /\ q.op \in {"patch", "delete"} /\ row \in Row
      /\ InSection(c) /\ Alters(c) /\ calls[c].code = NoInvite
      /\ calls[c].was \in Row /\ row.enabled = calls[c].was.enabled
      /\ q.op = "patch" /\ q.role = Keep => row.role = calls[c].was.role
      /\ q.op = "delete" => q.enabled = Keep
  <2>1. q \in Asks /\ q.op = "delete" => q.enabled = Keep
      BY AskFacts
  <2> QED BY <1>1, <2>1 DEF AccountsInv, CallPlaceInv, InSection, Alters, Inside
<1>3. CASE ~kept /\ refused
  <2>1. Reply(c)
      BY <1>3 DEF SetEnabled
  <2>2. calls' \in [Call -> AccountCall] /\ Left /\ CallPlaceInv' /\ SectionInv'
      BY <1>1, <2>1, ReplyFrame DEF InvitesStay
  <2>3. AccountsShape'
      BY <1>1, <2>2 DEF AccountsInv, AccountsShape
  <2> QED BY <1>1, <2>2, <2>3, AdminFrame, RoleFrame, InviteFrame DEF AccountsInv
<1>4. CASE kept \/ ~refused
  <2> DEFINE now == IF kept THEN row ELSE [row EXCEPT !.enabled = (q.enabled = "on")]
             next == [calls[c] EXCEPT !.step = "commit", !.row = now]
  <2>1. calls[c] \in AccountCall
      BY DEF AccountsInv, AccountsShape
  <2>2. calls' = [calls EXCEPT ![c] = next]
    <3>1. CASE kept
      <4>1. calls' = [calls EXCEPT ![c] = [calls[c] EXCEPT !.step = "commit"]]
          BY <3>1 DEF SetEnabled
      <4>2. next = [calls[c] EXCEPT !.step = "commit"]
          BY <2>1, <3>1 DEF AccountCall
      <4> QED BY <4>1, <4>2
    <3>2. CASE ~kept
      <4> QED BY <1>4, <3>2 DEF SetEnabled
    <3> QED BY <3>1, <3>2
  <2>3. /\ now \in Row /\ now.role = row.role
        /\ kept => now = row
        /\ ~kept => now.enabled = (q.enabled = "on")
      BY <1>2 DEF Row
  <2> HIDE DEF now
  <2>4. /\ next \in AccountCall /\ next.ask = q /\ next.step = "commit"
        /\ next.was = calls[c].was /\ next.row = now /\ next.code = NoInvite
      BY <1>2, <2>1, <2>3 DEF AccountCall
  <2> HIDE DEF next
  <2>5. /\ \A d \in Call : calls'[d] = IF d = c THEN next ELSE calls[d]
        /\ AccountsShape' /\ SectionInv' /\ InviteInv'
      BY <1>1, <1>2, <2>2, <2>4, InsideFrame
  <2>6. \A d \in Call : (InSection(d)' <=> InSection(d)) /\ calls'[d].ask = calls[d].ask
      BY <1>2, <2>4, <2>5 DEF InSection
  <2>7. CallPlaceInv'
    <3> SUFFICES ASSUME NEW d \in Call PROVE CallPlaceInv!(d)'
        BY DEF CallPlaceInv
    <3>1. CASE d = c
        BY <1>2, <2>3, <2>4, <2>5, <3>1 DEF Inside, InSection, Alters
    <3>2. CASE d # c
        BY <1>1, <2>5, <3>2 DEF AccountsInv, CallPlaceInv, Inside, InSection, Alters
    <3> QED BY <3>1, <3>2
  <2>8. AdminInv'
    <3> SUFFICES ASSUME "admins" \notin crossed' PROVE AdminInv!2'
        BY DEF AdminInv
    <3>1. AdminInv!2
        BY <1>1 DEF AccountsInv, AdminInv
    <3>2. \A u \in User : Authorised(u)' <=> Authorised(u)
        BY <1>1 DEF Authorised
    <3>3. \A d \in Call : Alters(d)' <=> Alters(d)
        BY <2>6 DEF Alters, Inside
    <3>4. IsEnabledAdmin(row) /\ ~IsEnabledAdmin(now) =>
            \E v \in User : v # q.target /\ Authorised(v)
      <4> SUFFICES ASSUME IsEnabledAdmin(row), ~IsEnabledAdmin(now)
                   PROVE  \E v \in User : v # q.target /\ Authorised(v)
          OBVIOUS
      <4>1. ~kept /\ q.enabled # "on"
          BY <2>3 DEF IsEnabledAdmin
      <4>2. ~LastAdmin(c, row)
          BY <1>4, <4>1
      <4> QED BY <4>2, AnotherAdmin
    <3>5. q.op = "delete" => ~now.enabled
        BY <1>2, <2>3 DEF Keep
    <3> QED BY <1>1, <1>2, <2>4, <2>5, <3>1, <3>2, <3>3, <3>4, <3>5
  <2>9. RoleInv'
    <3> SUFFICES ASSUME "roles" \notin crossed' PROVE RoleInv!2'
        BY DEF RoleInv
    <3>1. RoleInv!2
        BY <1>1 DEF AccountsInv, RoleInv
    <3>2. (\A u \in User : Exists(u)' <=> Exists(u)) /\ (\A r : InUse(r)' <=> InUse(r))
        BY <1>1 DEF Exists, InUse
    <3>3. \A d \in Call, op \in {"create", "drop_role", "patch"} : Inside(d, op)' <=> Inside(d, op)
        BY <2>6 DEF Inside
    <3> QED BY <1>1, <2>3, <2>4, <2>5, <3>1, <3>2, <3>3
  <2> QED BY <2>5, <2>7, <2>8, <2>9 DEF AccountsInv
<1> QED BY <1>3, <1>4

\* Who assigns or drops roles while no two did so at the same time is alone.
LEMMA AloneWithRoles ==
    ASSUME AccountsInv, "roles" \notin crossed,
           NEW c \in Call, InSection(c), "roles" \in Touches(calls[c].ask),
           NEW d \in Call, d # c
    PROVE  /\ ~Inside(d, "create") /\ ~Inside(d, "drop_role")
           /\ Inside(d, "patch") => calls[d].ask.role = Keep
<1>1. ~(InSection(d) /\ "roles" \in Touches(calls[d].ask))
    BY DEF AccountsInv, SectionInv
<1>2. calls[d].ask.op \in {"create", "drop_role"} => "roles" \in Touches(calls[d].ask)
    BY DEF Touches
<1>3. calls[d].ask.op = "patch" /\ calls[d].ask.role # Keep => "roles" \in Touches(calls[d].ask)
    BY DEF Touches
<1> QED BY <1>1, <1>2, <1>3 DEF Inside

\* Who has ended is outside.
LEMMA Outside ==
    ASSUME AccountsInv, NEW c \in Call, Reply(c)
    PROVE  /\ ~InSection(c)'
           /\ \A d \in Call \ {c} : /\ calls'[d] = calls[d]
                                    /\ InSection(d)' <=> InSection(d)
BY IdleFacts DEF Reply, InSection, AccountsInv, AccountsShape

\* Only a role that nobody has is dropped, while no one else assigns roles.
LEMMA CommitRoleStep ==
    ASSUME AccountsInv, NEW c \in Call, CommitRole(c)
    PROVE  AccountsInv'
<1> DEFINE q == calls[c].ask
<1>1. /\ calls[c].step = "commit" /\ Reply(c)
      /\ UNCHANGED <<users, invitations, crossed, served>>
    BY DEF CommitRole
<1>2. calls' \in [Call -> AccountCall] /\ Left /\ CallPlaceInv' /\ SectionInv'
    BY <1>1, ReplyFrame DEF InvitesStay
<1>3. \/ q.op = "add_role" /\ roles' = roles \cup {q.role}
      \/ q.op = "drop_role" /\ roles' = roles \ {q.role}
    BY DEF CommitRole
<1>4. InSection(c) /\ (q.op = "drop_role" => Inside(c, "drop_role"))
    BY <1>1 DEF InSection, Inside
<1>5. AccountsShape'
  <2>1. Builtin \subseteq roles'
      BY <1>3, <1>4 DEF AccountsInv, AccountsShape, CallPlaceInv
  <2> QED BY <1>1, <1>2, <2>1 DEF AccountsInv, AccountsShape
<1>6. RoleInv'
  <2>1. CASE q.op = "add_role"
      BY <1>1, <1>2, <1>3, <2>1, RoleFrame DEF AccountsInv
  <2>2. CASE q.op = "drop_role"
    <3> SUFFICES ASSUME "roles" \notin crossed' PROVE RoleInv!2'
        BY DEF RoleInv
    <3>1. RoleInv!2 /\ "roles" \notin crossed
        BY <1>1 DEF AccountsInv, RoleInv
    <3>2. (\A u \in User : Exists(u)' <=> Exists(u)) /\ (\A r : InUse(r)' <=> InUse(r))
        BY <1>1 DEF Exists, InUse
    <3>3. ~InUse(q.role) /\ roles' = roles \ {q.role}
        BY <1>3, <1>4, <2>2, <3>1
    <3>4. "roles" \in Touches(q)
        BY <2>2 DEF Touches
    <3>5. \A d \in Call : /\ ~Inside(d, "create")' /\ ~Inside(d, "drop_role")'
                          /\ Inside(d, "patch")' => calls'[d].ask.role = Keep
        BY <1>1, <1>4, <3>1, <3>4, AloneWithRoles, Outside DEF Inside
    <3>6. \A u \in User : Exists(u) => users[u].role # q.role
        BY <3>3 DEF InUse
    <3> QED BY <1>1, <3>1, <3>2, <3>3, <3>5, <3>6
  <2> QED BY <1>3, <2>1, <2>2
<1> QED BY <1>1, <1>2, <1>5, <1>6, AdminFrame, InviteFrame DEF AccountsInv

\* An invitation is added or revoked: neither makes it used or unused.
LEMMA CommitInvitationStep ==
    ASSUME AccountsInv, NEW c \in Call, CommitInvitation(c)
    PROVE  AccountsInv'
<1> DEFINE q == calls[c].ask
<1>1. /\ calls[c].step = "commit" /\ Reply(c)
      /\ UNCHANGED <<users, roles, crossed, served>>
    BY DEF CommitInvitation
<1>2. /\ invitations' \in [Code -> Invite \cup {NoInvite}]
      /\ \A i \in Code : invitations'[i].used = invitations[i].used
      /\ InvitesStay
  <2>1. q \in Asks
      BY <1>1 DEF AccountsInv, CallPlaceInv
  <2>2. CASE /\ q.op = "invite" /\ invitations[q.code] = NoInvite
             /\ invitations' = [invitations EXCEPT ![q.code] = [NoInvite EXCEPT !.role = q.role]]
    <3>1. q.role \in Role /\ q.code \in Code
        BY <2>1, <2>2, AskFacts
    <3>2. /\ [NoInvite EXCEPT !.role = q.role] \in Invite
          /\ [NoInvite EXCEPT !.role = q.role].used = NoInvite.used
          /\ [NoInvite EXCEPT !.role = q.role] # NoInvite
        BY <3>1, AccountsAssumption DEF NoInvite, Invite
    <3> QED BY <2>2, <3>1, <3>2, RowFacts DEF AccountsInv, AccountsShape, InvitesStay
  <2>3. CASE /\ q.op = "revoke"
             /\ invitations' = [invitations EXCEPT ![q.code].revoked = TRUE]
    <3>1. q.code \in Code /\ invitations[q.code] # NoInvite
        BY <1>1, <2>1, <2>3, AskFacts DEF AccountsInv, CallPlaceInv, Inside, InSection
    <3>2. invitations[q.code] \in Invite
        BY <3>1 DEF AccountsInv, AccountsShape
    <3>3. /\ [invitations[q.code] EXCEPT !.revoked = TRUE] \in Invite
          /\ [invitations[q.code] EXCEPT !.revoked = TRUE].used = invitations[q.code].used
          /\ [invitations[q.code] EXCEPT !.revoked = TRUE] # NoInvite
        BY <3>2, AccountsAssumption DEF NoInvite, Invite
    <3> QED BY <2>3, <3>1, <3>3 DEF AccountsInv, AccountsShape, InvitesStay
  <2>4. CASE UNCHANGED invitations
      BY <2>4 DEF AccountsInv, AccountsShape, InvitesStay
  <2> QED BY <2>2, <2>3, <2>4 DEF CommitInvitation
<1>3. calls' \in [Call -> AccountCall] /\ Left /\ CallPlaceInv' /\ SectionInv'
    BY <1>1, <1>2, ReplyFrame
<1>4. AccountsShape'
    BY <1>1, <1>2, <1>3 DEF AccountsInv, AccountsShape
<1> QED BY <1>1, <1>2, <1>3, <1>4, AdminFrame, RoleFrame, InviteFrame DEF AccountsInv

\* What the transaction of a request about a user leaves behind.
LEMMA CommitUserFacts ==
    ASSUME AccountsInv, NEW c \in Call, CommitUser(c), ~UNCHANGED users
    PROVE  LET q == calls[c].ask
               now == users'[q.target]
           IN  /\ q \in Asks /\ q.target \in User /\ calls[c].step = "commit"
               /\ \A u \in User \ {q.target} : users'[u] = users[u]
               /\ users' \in [User -> Row \cup {NoRow}]
               /\ \/ /\ q.op \in {"create", "register"}
                     /\ ~Exists(q.target) /\ now \in Row
                     /\ q.op = "create" => now.role = q.role
                     /\ q.op = "register" /\ calls[c].code = NoInvite => now.role = Viewer
                  \/ q.op = "patch" /\ Exists(q.target) /\ now = Patched(c, users[q.target])
                  \/ q.op = "delete" /\ Exists(q.target) /\ now = NoRow
<1> DEFINE q == calls[c].ask
           i == calls[c].code
           given == IF q.op = "create" THEN q.role ELSE IF i = NoInvite THEN Viewer ELSE i.role
           refused == IF q.op \in {"create", "register"} THEN Exists(q.target)
                                                       ELSE ~Exists(q.target)
           now == CASE q.op = "patch"  -> Patched(c, users[q.target])
                    [] q.op = "delete" -> NoRow
                    [] OTHER -> [role |-> given, enabled |-> TRUE]
<1>1. /\ calls[c].step = "commit" /\ q.op \in {"create", "patch", "delete", "register"}
      /\ users' = IF refused THEN users ELSE [users EXCEPT ![q.target] = now]
    BY DEF CommitUser
<1>2. q \in Asks /\ q.target \in User /\ (q.op = "create" => q.role \in Role)
    BY <1>1, AskFacts DEF AccountsInv, CallPlaceInv
<1>3. ~refused /\ users' = [users EXCEPT ![q.target] = now]
    BY <1>1
<1>4. calls[c] \in AccountCall
    BY DEF AccountsInv, AccountsShape
<1>5. q.op \in {"create", "register"} => now = [role |-> given, enabled |-> TRUE] /\ given \in Role
  <2>1. i # NoInvite => i.role \in Role
      BY <1>4 DEF AccountCall, Invite
  <2>2. Viewer \in Role
      BY DEF Role, Builtin
  <2> QED BY <1>2, <2>1, <2>2
<1>6. q.op = "patch" => now \in Row
  <2> SUFFICES ASSUME q.op = "patch" PROVE Patched(c, users[q.target]) \in Row
      BY <1>1
  <2>1. users[q.target] \in Row
      BY <1>2, <1>3 DEF AccountsInv, AccountsShape, Exists
  <2>2. calls[c].was \in Row /\ calls[c].row \in Row
      BY <1>1 DEF AccountsInv, CallPlaceInv, Alters, Inside, InSection
  <2> QED BY <2>1, <2>2 DEF Patched, Row
<1>7. now \in Row \cup {NoRow}
    BY <1>1, <1>5, <1>6 DEF Row
<1>8. /\ users' \in [User -> Row \cup {NoRow}] /\ users'[q.target] = now
      /\ \A u \in User \ {q.target} : users'[u] = users[u]
    BY <1>2, <1>3, <1>7 DEF AccountsInv, AccountsShape
<1>9. CASE q.op \in {"create", "register"}
  <2>1. now \in Row /\ now.role = given
      BY <1>5, <1>9 DEF Row
  <2> HIDE DEF now
  <2> QED BY <1>1, <1>2, <1>3, <1>8, <1>9, <2>1
<1>10. CASE q.op = "patch"
    BY <1>1, <1>2, <1>3, <1>8, <1>10
<1>11. CASE q.op = "delete"
    BY <1>1, <1>2, <1>3, <1>8, <1>11
<1> QED BY <1>1, <1>9, <1>10, <1>11

\* A registration uses its invitation and is noted with it.
LEMMA CommitUserInvites ==
    ASSUME AccountsInv, NEW c \in Call, CommitUser(c)
    PROVE  /\ invitations' \in [Code -> Invite \cup {NoInvite}]
           /\ served' \in [Code -> SUBSET User]
           /\ InvitesStay
           /\ \/ /\ calls[c].code = NoInvite \/ UNCHANGED users
                 /\ UNCHANGED <<invitations, served>>
              \/ /\ Inside(c, "register") /\ calls[c].ask.code \in Code
                 /\ calls[c].code # NoInvite
                 /\ served'[calls[c].ask.code] =
                      served[calls[c].ask.code] \cup {calls[c].ask.target}
                 /\ invitations'[calls[c].ask.code].used
                 /\ \A i \in Code \ {calls[c].ask.code} :
                      served'[i] = served[i] /\ invitations'[i] = invitations[i]
<1> DEFINE q == calls[c].ask
<1>1. \/ /\ calls[c].code = NoInvite \/ UNCHANGED users
         /\ UNCHANGED <<invitations, served>>
      \/ /\ calls[c].code # NoInvite
         /\ invitations' = [invitations EXCEPT ![q.code].used = TRUE]
         /\ served' = [served EXCEPT ![q.code] = @ \cup {q.target}]
    BY DEF CommitUser
<1>2. CASE /\ calls[c].code = NoInvite \/ UNCHANGED users
           /\ UNCHANGED <<invitations, served>>
    BY <1>2 DEF AccountsInv, AccountsShape, InvitesStay
<1>3. CASE /\ calls[c].code # NoInvite
           /\ invitations' = [invitations EXCEPT ![q.code].used = TRUE]
           /\ served' = [served EXCEPT ![q.code] = @ \cup {q.target}]
  <2>1. /\ calls[c].step = "commit" /\ q \in Asks /\ q.op = "register" /\ q.code \in Code
        /\ invitations[q.code] # NoInvite /\ Inside(c, "register")
      BY <1>3 DEF CommitUser, AccountsInv, CallPlaceInv, Inside, InSection
  <2>2. q.target \in User
      BY <2>1, AskFacts
  <2>3. invitations[q.code] \in Invite
      BY <2>1 DEF AccountsInv, AccountsShape
  <2>4. /\ [invitations[q.code] EXCEPT !.used = TRUE] \in Invite
        /\ [invitations[q.code] EXCEPT !.used = TRUE].used
        /\ [invitations[q.code] EXCEPT !.used = TRUE] # NoInvite
      BY <2>3, AccountsAssumption DEF NoInvite, Invite
  <2>5. /\ invitations' \in [Code -> Invite \cup {NoInvite}] /\ InvitesStay
        /\ invitations'[q.code].used
        /\ \A i \in Code \ {q.code} : invitations'[i] = invitations[i]
      BY <1>3, <2>1, <2>4 DEF AccountsInv, AccountsShape, InvitesStay
  <2>6. /\ served' \in [Code -> SUBSET User]
        /\ served'[q.code] = served[q.code] \cup {q.target}
        /\ \A i \in Code \ {q.code} : served'[i] = served[i]
      BY <1>3, <2>1, <2>2 DEF AccountsInv, AccountsShape
  <2> QED BY <1>3, <2>1, <2>5, <2>6
<1> QED BY <1>1, <1>2, <1>3

\* An administrator is left after each of the three.
LEMMA CommitUserAdmins ==
    ASSUME AccountsInv, NEW c \in Call, CommitUser(c), ~UNCHANGED users
    PROVE  AdminInv'
<1> DEFINE q == calls[c].ask
           now == users'[q.target]
<1>1. /\ q \in Asks /\ q.target \in User /\ calls[c].step = "commit" /\ InSection(c)
      /\ \A u \in User \ {q.target} : users'[u] = users[u]
      /\ \/ q.op \in {"create", "register"} /\ ~Exists(q.target) /\ now \in Row
         \/ q.op = "patch" /\ Exists(q.target) /\ now = Patched(c, users[q.target])
         \/ q.op = "delete" /\ Exists(q.target) /\ now = NoRow
    BY CommitUserFacts DEF InSection
<1>2. Reply(c) /\ UNCHANGED crossed
    BY DEF CommitUser
<1> SUFFICES ASSUME "admins" \notin crossed' PROVE AdminInv!2'
    BY DEF AdminInv
<1>3. AdminInv!2 /\ "admins" \notin crossed
    BY <1>2 DEF AccountsInv, AdminInv
<1>4. \A u \in User \ {q.target} : Authorised(u)' <=> Authorised(u)
    BY <1>1 DEF Authorised
<1>5. \A d \in Call : Alters(d)' => d # c /\ calls'[d] = calls[d] /\ Alters(d)
    BY <1>2, Outside DEF Alters, Inside
<1>6. CASE q.op \in {"create", "register"}
  <2>1. users[q.target] = NoRow
      BY <1>1, <1>6 DEF Exists
  <2>2. ~Authorised(q.target)
      BY <2>1, RowFacts DEF Authorised
  <2>3. \A d \in Call : Alters(d) => calls[d].ask.target \in User \ {q.target}
    <3> SUFFICES ASSUME NEW d \in Call, Alters(d)
                 PROVE  calls[d].ask.target \in User \ {q.target}
        OBVIOUS
    <3>1. calls[d].ask.target \in User
        BY AskFacts DEF AccountsInv, CallPlaceInv, Alters, Inside, InSection
    <3>2. users[calls[d].ask.target] \in Row
        BY <1>3 DEF AccountsInv, CallPlaceInv
    <3> QED BY <2>1, <3>1, <3>2, RowFacts
  <2>4. \A u \in User : Authorised(u) => Authorised(u)'
      BY <1>4, <2>2
  <2> QED BY <1>1, <1>3, <1>5, <2>3, <2>4
<1>7. CASE q.op \in {"patch", "delete"}
  <2>1. Alters(c) /\ "admins" \in Touches(q)
      BY <1>1, <1>7 DEF Alters, Inside, Touches
  <2>2. \A d \in Call : ~Alters(d)'
    <3> SUFFICES ASSUME NEW d \in Call, Alters(d), d # c PROVE FALSE
        BY <1>5
    <3>1. "admins" \in Touches(calls[d].ask) /\ InSection(d)
        BY DEF Touches, Alters, Inside
    <3> QED BY <1>1, <1>3, <2>1, <3>1 DEF AccountsInv, SectionInv
  <2>3. users[q.target] = calls[c].was /\ calls[c].was \in Row /\ calls[c].row \in Row
      BY <1>3, <2>1 DEF AccountsInv, CallPlaceInv
  <2>4. IsEnabledAdmin(calls[c].was) /\ ~IsEnabledAdmin(calls[c].row) =>
          \E v \in User : v # q.target /\ Authorised(v)
      BY <1>3, <2>1
  <2>5. q.op = "patch" => now = calls[c].row
    <3> SUFFICES ASSUME q.op = "patch" PROVE now = calls[c].row
        OBVIOUS
    <3>1. now = Patched(c, calls[c].was)
        BY <1>1, <2>3
    <3> QED BY <2>3, <3>1 DEF Patched, Row
  <2>6. q.op = "delete" => ~IsEnabledAdmin(calls[c].row)
      BY <1>1, <1>3, <2>1 DEF IsEnabledAdmin
  <2>7. PICK u \in User : Authorised(u)
      BY <1>3
  <2>8. CASE u # q.target
      BY <1>4, <2>2, <2>7, <2>8
  <2>9. CASE u = q.target
    <3>1. IsEnabledAdmin(calls[c].was)
        BY <2>3, <2>7, <2>9 DEF Authorised
    <3>2. CASE IsEnabledAdmin(calls[c].row)
      <4>1. IsEnabledAdmin(now)
          BY <1>7, <2>5, <2>6, <3>2
      <4>2. \E v \in User : Authorised(v)'
          BY <1>1, <4>1 DEF Authorised, IsEnabledAdmin
      <4> QED BY <2>2, <4>2
    <3>3. CASE ~IsEnabledAdmin(calls[c].row)
      <4>1. \E v \in User : Authorised(v)'
          BY <1>4, <2>4, <3>1, <3>3
      <4> QED BY <2>2, <4>1
    <3> QED BY <3>2, <3>3
  <2> QED BY <2>8, <2>9
<1> QED BY <1>1, <1>6, <1>7

\* Every user keeps a role that exists, or has registered with an invitation.
LEMMA CommitUserRoles ==
    ASSUME AccountsInv, NEW c \in Call, CommitUser(c), ~UNCHANGED users
    PROVE  RoleInv'
<1> DEFINE q == calls[c].ask
           now == users'[q.target]
<1>1. /\ q.target \in User /\ calls[c].step = "commit" /\ InSection(c)
      /\ \A u \in User \ {q.target} : users'[u] = users[u]
      /\ \/ /\ q.op \in {"create", "register"}
            /\ ~Exists(q.target) /\ now \in Row
            /\ q.op = "create" => now.role = q.role
            /\ q.op = "register" /\ calls[c].code = NoInvite => now.role = Viewer
         \/ q.op = "patch" /\ Exists(q.target) /\ now = Patched(c, users[q.target])
         \/ q.op = "delete" /\ Exists(q.target) /\ now = NoRow
    BY CommitUserFacts DEF InSection
<1>2. Reply(c) /\ UNCHANGED <<roles, crossed>>
    BY DEF CommitUser
<1>3. \A i \in Code : served[i] \subseteq served'[i]
    BY CommitUserInvites
<1> SUFFICES ASSUME "roles" \notin crossed' PROVE RoleInv!2'
    BY DEF RoleInv
<1>4. RoleInv!2 /\ "roles" \notin crossed
    BY <1>2 DEF AccountsInv, RoleInv
<1>5. \A d \in Call, op \in {"create", "drop_role", "patch"} :
        Inside(d, op)' => d # c /\ calls'[d] = calls[d] /\ Inside(d, op)
    BY <1>2, Outside DEF Inside
<1>6. CASE q.op \in {"create", "register"} \/ (q.op = "patch" /\ q.role # Keep)
  <2>1. "roles" \in Touches(q)
      BY <1>6 DEF Touches
  <2>2. \A d \in Call : /\ ~Inside(d, "create")' /\ ~Inside(d, "drop_role")'
                        /\ Inside(d, "patch")' => calls'[d].ask.role = Keep
      BY <1>1, <1>4, <1>5, <2>1, AloneWithRoles
  <2>3. \/ now = NoRow \/ now.role \in roles
        \/ \E i \in Code : q.target \in served'[i]
    <3>1. CASE q.op = "create"
        BY <1>1, <1>4, <3>1 DEF Inside
    <3>2. CASE q.op = "register"
      <4>1. CASE calls[c].code # NoInvite
          BY <4>1, CommitUserInvites
      <4>2. CASE calls[c].code = NoInvite
          BY <1>1, <3>2, <4>2 DEF AccountsInv, AccountsShape, Builtin
      <4> QED BY <4>1, <4>2
    <3>3. CASE q.op = "patch" /\ q.role # Keep
      <4>1. calls[c].row.role \in roles
          BY <1>1, <1>4, <3>3 DEF Inside
      <4>2. now.role \in {calls[c].row.role, users[q.target].role}
          BY <1>1, <3>3 DEF Patched
      <4>3. \/ users[q.target].role \in roles \/ \E i \in Code : q.target \in served[i]
          BY <1>1, <1>4, <3>3
      <4> QED BY <1>3, <4>1, <4>2, <4>3
    <3> QED BY <1>6, <3>1, <3>2, <3>3
  <2>4. \A u \in User : \/ ~Exists(u)' \/ users'[u].role \in roles
                        \/ \E i \in Code : u \in served'[i]
    <3> SUFFICES ASSUME NEW u \in User, u # q.target
                 PROVE  \/ ~Exists(u)' \/ users'[u].role \in roles
                        \/ \E i \in Code : u \in served'[i]
        BY <2>3 DEF Exists
    <3> QED BY <1>1, <1>3, <1>4 DEF Exists
  <2> QED BY <1>2, <2>2, <2>4
<1>7. CASE q.op = "delete" \/ (q.op = "patch" /\ q.role = Keep)
  <2>1. now # NoRow => now.role = users[q.target].role /\ Exists(q.target)
    <3>1. CASE q.op = "delete"
        BY <1>1, <3>1 DEF Exists
    <3>2. CASE q.op = "patch" /\ q.role = Keep
      <4>1. calls[c].row.role = calls[c].was.role
          BY <1>1, <3>2 DEF AccountsInv, CallPlaceInv, Inside
      <4> QED BY <1>1, <3>2, <4>1 DEF Patched
    <3> QED BY <1>7, <3>1, <3>2
  <2>2. \A u \in User : Exists(u)' => Exists(u) /\ users'[u].role = users[u].role
      BY <1>1, <2>1 DEF Exists
  <2>3. \A r \in Role : InUse(r)' => InUse(r)
    <3> SUFFICES ASSUME NEW r \in Role, NEW u \in User, users'[u].role = r PROVE InUse(r)
        BY DEF InUse
    <3>1. Exists(u)'
        BY RowFacts DEF Exists
    <3> QED BY <2>2, <3>1 DEF InUse
  <2>4. \A d \in Call : Inside(d, "drop_role") => calls[d].ask.role \in Role
      BY AskFacts DEF Inside, InSection, AccountsInv, CallPlaceInv
  <2> QED BY <1>2, <1>3, <1>4, <1>5, <2>2, <2>3, <2>4
<1> QED BY <1>1, <1>6, <1>7

\* An invitation serves a registration that found it unused, alone.
LEMMA CommitUserServed ==
    ASSUME AccountsInv, NEW c \in Call, CommitUser(c)
    PROVE  InviteInv'
<1> DEFINE q == calls[c].ask
<1>1. Reply(c) /\ UNCHANGED crossed /\ InSection(c)
    BY DEF CommitUser, InSection
<1>2. CASE UNCHANGED <<invitations, served>>
  <2>1. Left
      BY <1>1, Outside DEF Left
  <2> QED BY <1>2, <2>1, InviteFrame DEF AccountsInv
<1>3. CASE /\ Inside(c, "register") /\ q.code \in Code
           /\ served'[q.code] = served[q.code] \cup {q.target}
           /\ invitations'[q.code].used
           /\ \A i \in Code \ {q.code} :
                served'[i] = served[i] /\ invitations'[i] = invitations[i]
  <2> SUFFICES ASSUME NEW k \in Code, k \notin crossed' PROVE InviteInv!(k)!2'
      BY DEF InviteInv
  <2>1. InviteInv!(k)!2 /\ k \notin crossed
      BY <1>1 DEF AccountsInv, InviteInv
  <2>2. \A d \in Call : Inside(d, "register")' =>
          d # c /\ calls'[d] = calls[d] /\ Inside(d, "register")
      BY <1>1, Outside DEF Inside
  <2>3. CASE k = q.code
    <3>1. ~invitations[k].used
        BY <1>3, <2>1, <2>3
    <3>2. served'[k] = {q.target}
        BY <1>3, <2>1, <2>3, <3>1
    <3>3. \A d \in Call : ~(Inside(d, "register")' /\ calls'[d].ask.code = k)
      <4> SUFFICES ASSUME NEW d \in Call, d # c, Inside(d, "register"), calls[d].ask.code = k
                   PROVE  FALSE
          BY <2>2
      <4>1. k \in Touches(q) /\ k \in Touches(calls[d].ask)
          BY <1>3, <2>3 DEF Touches, Inside
      <4> QED BY <1>1, <2>1, <4>1 DEF AccountsInv, SectionInv, Inside
    <3> QED BY <1>3, <2>3, <3>2, <3>3
  <2>4. CASE k # q.code
      BY <1>3, <2>1, <2>2, <2>4
  <2> QED BY <2>3, <2>4
<1> QED BY <1>2, <1>3, CommitUserInvites

\* A user is added, altered or deleted.
LEMMA CommitUserStep ==
    ASSUME AccountsInv, NEW c \in Call, CommitUser(c)
    PROVE  AccountsInv'
<1>1. Reply(c) /\ UNCHANGED <<roles, crossed>>
    BY DEF CommitUser
<1>2. calls' \in [Call -> AccountCall] /\ Left /\ CallPlaceInv' /\ SectionInv'
    BY <1>1, CommitUserInvites, ReplyFrame
<1>3. users' \in [User -> Row \cup {NoRow}]
    BY CommitUserFacts DEF AccountsInv, AccountsShape
<1>4. AccountsShape'
    BY <1>1, <1>2, <1>3, CommitUserInvites DEF AccountsInv, AccountsShape
<1>5. CASE UNCHANGED users
  <2>1. \A i \in Code : served[i] \subseteq served'[i]
      BY CommitUserInvites
  <2>2. RoleInv'
      BY <1>1, <1>2, <1>5, <2>1, RoleFrame DEF AccountsInv
  <2> QED BY <1>2, <1>4, <1>5, <2>2, AdminFrame, CommitUserServed DEF AccountsInv
<1>6. CASE ~UNCHANGED users
    BY <1>2, <1>4, <1>6, CommitUserAdmins, CommitUserRoles, CommitUserServed DEF AccountsInv
<1> QED BY <1>5, <1>6

-----------------------------------------------------------------------------
(* The theorems. *)

\* Every step of every request keeps the invariant.
LEMMA AccountsStepInv == AccountsInv /\ [AccountsNext]_accountsVars => AccountsInv'
<1> SUFFICES ASSUME AccountsInv, [AccountsNext]_accountsVars PROVE AccountsInv'
    OBVIOUS
<1>1. CASE \E c \in Call :
              \/ Authenticate(c) \/ Refuse(c) \/ Load(c) \/ SetRole(c) \/ SetEnabled(c)
              \/ CommitUser(c) \/ CommitRole(c) \/ CommitInvitation(c)
    BY <1>1, AuthenticateStep, RefusalStep, LoadStep, SetRoleStep, SetEnabledStep,
       CommitUserStep, CommitRoleStep, CommitInvitationStep
<1>2. CASE \E i \in Code : Expire(i)
    BY <1>2, InviteExpires
<1>3. CASE UNCHANGED accountsVars
  <2>1. UNCHANGED <<users, roles, invitations, calls, crossed, served>>
      BY <1>3 DEF accountsVars, accounts
  <2>2. AccountsShape' /\ Left
      BY <2>1 DEF AccountsInv, AccountsShape, Left
  <2>3. CallPlaceInv'
      BY <2>1, PlaceFrame DEF InvitesStay
  <2> QED BY <2>1, <2>2, <2>3, SectionFrame, AdminFrame, RoleFrame, InviteFrame DEF AccountsInv
<1> QED BY <1>1, <1>2, <1>3 DEF AccountsNext

\* The invariant holds in every state.
LEMMA AccountsInvariance == AccountsSpec => []AccountsInv
<1>1. AccountsInit => AccountsInv
    BY AccountsInitInv
<1>2. AccountsInv /\ [AccountsNext]_accountsVars => AccountsInv'
    BY AccountsStepInv
<1> QED BY <1>1, <1>2, PTL DEF AccountsSpec

\* Whatever administrators do at the same time, one is left and every user has a
\* role that exists, unless two sections have overlapped that depend on it.
THEOREM AdministrationWorks == AccountsSpec => []AdministrationHolds
<1>1. AccountsInv => AnAdminRemains
    BY DEF AccountsInv, AdminInv, AnAdminRemains
<1>2. AccountsInv => RolesOutliveTheirUsers
    BY DEF AccountsInv, RoleInv, RolesOutliveTheirUsers
<1>3. AccountsInv => AdministrationHolds
    BY <1>1, <1>2 DEF AdministrationHolds
<1> QED BY <1>3, AccountsInvariance, PTL

\* An invitation serves one registration, unless two that present it overlap.
THEOREM InvitationsServeOneUser == AccountsSpec => []InvitationsServeOnce
<1>1. AccountsInv => InvitationsServeOnce
  <2> SUFFICES ASSUME AccountsInv, NEW i \in Code, i \notin crossed
               PROVE  Cardinality(served[i]) <= 1
      BY DEF InvitationsServeOnce
  <2>1. served[i] = {} \/ \E x : served[i] = {x}
      BY DEF AccountsInv, InviteInv
  <2>2. CASE served[i] = {}
    <3>1. Cardinality(served[i]) = 0
        BY <2>2, FS_EmptySet
    <3> QED BY <3>1
  <2>3. ASSUME NEW x, served[i] = {x} PROVE Cardinality(served[i]) <= 1
    <3>1. Cardinality(served[i]) = 1
        BY <2>3, FS_Singleton
    <3> QED BY <3>1
  <2> QED BY <2>1, <2>2, <2>3
<1> QED BY <1>1, AccountsInvariance, PTL

-----------------------------------------------------------------------------
(* Types. *)

\* Roles that exist, requests sent and sections that have overlapped.
TallyInv ==
    /\ roles \subseteq Role /\ begun \in 0 .. MaxCalls
    /\ crossed \subseteq {"admins", "roles"} \cup Code

\* Only a role that was asked for is added.
LEMMA AddedRole ==
    ASSUME NEW q \in Asks, q.op = "add_role"
    PROVE  q.role \in Role
<1>1. PICK a \in User, r \in Addable : q = Ask("add_role", a, Nobody, r, Keep, NoCode)
    BY DEF Asks, Ask, Patches
<1> QED BY <1>1 DEF Ask, Addable, Role

\* Whom requests name.
LEMMA AskedUsers ==
    ASSUME NEW q \in Asks
    PROVE  {q.actor, q.target} \subseteq User \cup {Nobody}
BY DEF Asks, Ask, Patches

\* The tally, step by step.
LEMMA TallyStep == AccountsInv /\ TallyInv /\ [AccountsNext]_accountsVars => TallyInv'
<1> SUFFICES ASSUME AccountsInv, TallyInv, [AccountsNext]_accountsVars PROVE TallyInv'
    OBVIOUS
<1>1. ASSUME NEW c \in Call, Authenticate(c) PROVE TallyInv'
    BY <1>1, AccountsAssumption DEF TallyInv, Authenticate, accounts
<1>2. ASSUME NEW c \in Call, Load(c) PROVE TallyInv'
  <2>1. \A q : Touches(q) \subseteq {"admins", "roles"} \cup Code
      BY DEF Touches
  <2>2. /\ crossed' \subseteq crossed \cup Touches(calls[c].ask)
        /\ UNCHANGED <<roles, begun>>
      BY <1>2 DEF Load, accounts
  <2> QED BY <2>1, <2>2 DEF TallyInv
<1>3. ASSUME NEW c \in Call,
             Refuse(c) \/ SetRole(c) \/ SetEnabled(c) \/ CommitUser(c) \/ CommitInvitation(c)
      PROVE  TallyInv'
    BY <1>3 DEF TallyInv, Refuse, SetRole, SetEnabled, CommitUser, CommitInvitation, accounts
<1>4. ASSUME NEW c \in Call, CommitRole(c) PROVE TallyInv'
  <2>1. calls[c].ask \in Asks
      BY <1>4 DEF AccountsInv, CallPlaceInv, CommitRole
  <2>2. calls[c].ask.op = "add_role" => calls[c].ask.role \in Role
      BY <2>1, AddedRole
  <2> QED BY <1>4, <2>2 DEF TallyInv, CommitRole
<1>5. CASE (\E i \in Code : Expire(i)) \/ UNCHANGED accountsVars
    BY <1>5 DEF TallyInv, Expire, accountsVars, accounts
<1> QED BY <1>1, <1>2, <1>3, <1>4, <1>5 DEF AccountsNext

\* Users, roles, invitations and requests keep their types, for any of them.
THEOREM AccountsTypeCorrect == AccountsSpec => []AccountsTypeOK
<1>1. AccountsInit => AccountsInv /\ TallyInv
    BY AccountsInitInv, AccountsAssumption DEF AccountsInit, TallyInv, Role
<1>2. AccountsInv /\ TallyInv /\ [AccountsNext]_accountsVars => (AccountsInv /\ TallyInv)'
    BY AccountsStepInv, TallyStep
<1>3. AccountsInv /\ TallyInv => AccountsTypeOK
  <2> SUFFICES ASSUME AccountsInv, TallyInv PROVE AccountsTypeOK
      OBVIOUS
  <2>1. ASSUME NEW c \in Call
        PROVE  /\ {calls[c].ask.actor, calls[c].ask.target} \subseteq User \cup {Nobody}
               /\ calls[c].step \in {"idle", "load", "role", "enabled", "commit"}
               /\ calls[c].was \in Row \cup {NoRow}
               /\ calls[c].row \in Row \cup {NoRow}
               /\ calls[c].code \in Invite \cup {NoInvite}
    <3>1. calls[c] \in AccountCall
        BY DEF AccountsInv, AccountsShape
    <3>2. calls[c].ask \in Asks \/ calls[c].ask = Idle.ask
        BY <3>1 DEF AccountCall
    <3>3. {calls[c].ask.actor, calls[c].ask.target} \subseteq User \cup {Nobody}
        BY <3>2, AskedUsers DEF Idle, Ask
    <3> QED BY <3>1, <3>3 DEF AccountCall
  <2> QED BY <2>1 DEF AccountsInv, AccountsShape, TallyInv, AccountsTypeOK
<1> QED BY <1>1, <1>2, <1>3, PTL DEF AccountsSpec

-----------------------------------------------------------------------------
(***************************************************************************)
(* RequestLimits, for any limits, windows and requests.                    *)
(*                                                                         *)
(* The argument: a counter that is read and written by one request at a    *)
(* time counts every request that it lets through, in a window that is as  *)
(* old as the first of them; so what was let through in any window is      *)
(* covered by the counter and the one before it.  Its entry may leave the  *)
(* cache a tick before the window is over, and a lock stops refusing a     *)
(* tick before it is, so this holds of the ticks of a window but one.  A   *)
(* wrong password is counted after it was verified, so those in flight add *)
(* to what the lock lets through.                                          *)
(***************************************************************************)

\* Requests at a place, and those between the read and the write of a counter.
At(place) == {v \in Visitor : visits[v].at = place}
Writing(cell) == At(Writer[cell])

\* One request at most between its read and its write of a counter.
OneWriter(cell) == \A v, w \in Writing(cell) : v = w

\* An entry leaves the cache a tick before its window is over, or later.
LivesLong(entry) == entry.life + 1 >= entry.left
LivesInv ==
    /\ LivesLong(hits) /\ LivesLong(fails)
    /\ \A v \in Visitor : LivesLong(visits[v].saw)

\* How old the window of a counter is.
Elapsed(ticks) == Window - ticks

\* Requests that have been let through in a window.
AdmittedWithin(count) == IF count < Limit THEN count ELSE Limit

\* What a counter of requests in use allows for.
HitsCover(entry, requests) ==
    \A a \in Age :
        /\ requests[a] <= AdmittedWithin(entry.count) + Limit
        /\ a < Elapsed(entry.left) => requests[a] <= AdmittedWithin(entry.count)

\* Unless two requests have overlapped on it: the counter of requests, or the copy in
\* the hands of the one that is about to write it, covers what was admitted.
HitsInv ==
    \/ "hits" \in overlapped
    \/ /\ OneWriter("hits")
       /\ \A v \in Writing("hits") : HitsCover(visits[v].saw, admitted)
       /\ Writing("hits") = {} =>
            IF hits.left = 0 THEN \A a \in Age : admitted[a] <= Limit
                             ELSE HitsCover(hits, admitted)

\* Wrong passwords that have not been counted yet, and requests that are past
\* the lock and not yet judged.
Uncounted == At("failure") \cup At("count_failure")
Open == Cardinality(Uncounted)
Verifying == Cardinality(At("verify"))

\* Wrong passwords that a window may see: those of the lock before, those that set
\* the next one, and those of the requests that were past it.
Passwords == LeftOver + MaxFailures + (Cardinality(Visitor) - 1)

\* What a counter of wrong passwords allows for: while the lock refuses, no more
\* than it has counted since it was set.
FailsCover(entry, ticks, wrong, open) ==
    /\ entry.count < MaxFailures
    /\ ticks <= 1 => \A a \in Age : wrong[a] <= open + entry.count + LeftOver
    /\ ticks > 1 => \A a \in Age :
         a < Elapsed(ticks) => wrong[a] <= open + entry.count

\* The first wrong password of a window is as old as the window.
Begun(entry, wrong, open) ==
    \A a \in Age : a < Elapsed(entry.left) => wrong[a] <= open + entry.count - 1

\* The counter as it is stored.
StoredFails(entry, ticks, wrong, open) ==
    /\ FailsCover(entry, ticks, wrong, open)
    /\ \/ entry = Absent
       \/ entry.count > 0 /\ entry.left >= ticks /\ Begun(entry, wrong, open)

\* The counter as the request holds it that is about to count its own wrong password.
InHand(entry, until, ticks, wrong, open) ==
    /\ FailsCover(entry, ticks, wrong, open)
    /\ Begun(entry, wrong, open)
    /\ entry.left >= ticks /\ until >= entry.left
    /\ \A a \in Age : a < Elapsed(until) => wrong[a] <= open - 1

\* Unless two requests have overlapped on it, or a lock was deleted in place of an
\* expired one: the counter of wrong passwords covers those that were verified,
\* wherever it is.
Excused == "fails" \in overlapped \/ "lock" \in overlapped
FailsInv ==
    \/ Excused
    \/ /\ OneWriter("fails") /\ At("unlock") = {}
       /\ lock.until > 1 => \A a \in Age : guessed[a] + Verifying <= Passwords
       /\ \A v \in Writing("fails") :
            InHand(visits[v].saw, visits[v].until, lock.until, guessed, Open)
       /\ Writing("fails") = {} => StoredFails(fails, lock.until, guessed, Open)

\* An answer that was presented is no longer stored, so that no later look finds it.
CaptchaInv == ~reused /\ ~(captcha /\ answered)

\* The inductive invariant.
LimitsIInv == LimitsTypeOK /\ LivesInv /\ HitsInv /\ FailsInv /\ CaptchaInv

-----------------------------------------------------------------------------
\* What a request brings along when it goes on: nothing that it has read.
LEMMA MoveFacts ==
    ASSUME LimitsTypeOK, NEW v \in Visitor, NEW from, NEW to \in Places, Move(v, from, to)
    PROVE  /\ visits[v].at = from
           /\ visits'[v].at = to
           /\ \A w \in Visitor \ {v} : visits'[w] = visits[w]
           /\ visits' \in [Visitor -> Visits] /\ visits'[v].saw = Absent
<1>1. visits \in [Visitor -> Visits]
  BY DEF LimitsTypeOK
<1>3. EmptyHanded(to) \in Visits
  BY LimitsAssumption DEF Visits, Absent, Entry, EmptyHanded
<1> QED
  BY <1>1, <1>3 DEF Move, EmptyHanded

\* What a look leaves in the hands of its request.
LEMMA LookFacts ==
    ASSUME LimitsTypeOK, NEW v \in Visitor, NEW from, NEW entry \in Entry,
           NEW cell \in {"hits", "fails", "captcha"}, NEW found \in BOOLEAN,
           Look(v, from, cell, entry, found)
    PROVE  /\ visits[v].at = from
           /\ visits'[v].at = Writer[cell] /\ visits'[v].saw = entry
           /\ visits'[v].until = IF cell = "fails" THEN Window ELSE 0
           /\ \A w \in Visitor \ {v} : visits'[w] = visits[w]
           /\ visits' \in [Visitor -> Visits]
           /\ overlapped' = IF \E w \in Visitor \ {v} : visits[w].at = Writer[cell]
                            THEN overlapped \cup {cell} ELSE overlapped
           /\ overlapped' \subseteq {"hits", "fails", "lock", "captcha"}
           /\ overlapped \subseteq overlapped'
<1>1. visits \in [Visitor -> Visits] /\ overlapped \subseteq {"hits", "fails", "lock", "captcha"}
  BY DEF LimitsTypeOK
<1>2. Writer[cell] \in Places
  BY DEF Writer, Places
<1>3. [at |-> Writer[cell], saw |-> entry,
       until |-> IF cell = "fails" THEN Window ELSE 0, found |-> found] \in Visits
  BY <1>2, LimitsAssumption DEF Visits
<1> QED
  BY <1>1, <1>3 DEF Look, Busy

\* A counter in use: that of the window, or of a new one.
LEMMA CurrentFacts ==
    ASSUME NEW e \in Entry, NEW entry \in Current(e)
    PROVE  /\ entry \in Entry /\ LivesLong(entry)
           /\ e.left = 0 => entry.count = 0 /\ entry.left = Window
           /\ e.left # 0 => entry.count = e.count /\ entry.left = e.left
<1> DEFINE now == IF e.left = 0 THEN [Absent EXCEPT !.left = Window] ELSE e
<1>1. PICK ttl \in Rounded(now.left) : entry = [now EXCEPT !.life = ttl]
  BY DEF Current
<1>2. /\ now \in Entry
      /\ e.left = 0 => now.count = 0 /\ now.left = Window
      /\ e.left # 0 => now = e
  BY LimitsAssumption DEF Absent, Entry
<1>3. ttl \in 0 .. Window /\ ttl + 1 >= now.left
  <2>1. now.left \in 0 .. Window
    BY <1>2 DEF Entry
  <2> HIDE DEF now
  <2> QED BY <1>1, <2>1, LimitsAssumption DEF Rounded
<1> QED
  BY <1>1, <1>2, <1>3 DEF Entry, LivesLong

\* A counter that has counted one more.
LEMMA CountedFacts ==
    ASSUME NEW entry \in Entry
    PROVE  /\ Counted(entry) \in Entry
           /\ Counted(entry).count = entry.count + 1 /\ Counted(entry).left = entry.left
           /\ LivesLong(entry) => LivesLong(Counted(entry))
<1> DEFINE life == IF entry.left < entry.life THEN entry.left ELSE entry.life
<1>1. /\ entry = [count |-> entry.count, left |-> entry.left, life |-> entry.life]
      /\ entry.count \in Nat /\ entry.left \in 0 .. Window /\ entry.life \in 0 .. Window
  BY DEF Entry
<1>2. Counted(entry) = [count |-> entry.count + 1, left |-> entry.left, life |-> life]
  <2>1. Counted(entry) = [[entry EXCEPT !.count = @ + 1] EXCEPT !.life = life]
    BY <1>1 DEF Counted
  <2> HIDE DEF life
  <2> QED BY <1>1, <2>1
<1>3. life \in 0 .. Window /\ (LivesLong(entry) => life + 1 >= entry.left)
  BY <1>1, LimitsAssumption DEF LivesLong
<1> QED BY <1>1, <1>2, <1>3 DEF Entry, LivesLong

\* A tick keeps stored entries entries.
LEMMA OlderIsEntry == ASSUME NEW entry \in Entry PROVE Older(entry) \in Entry
<1>1. /\ entry = [count |-> entry.count, left |-> entry.left, life |-> entry.life]
      /\ entry.count \in Nat /\ entry.left \in 0 .. Window /\ entry.life \in 0 .. Window
  BY DEF Entry
<1>2. CASE entry.life <= 1
  BY <1>2, LimitsAssumption DEF Older, Absent, Entry
<1>3. CASE entry.life > 1
  <2>1. Older(entry) = [count |-> entry.count, left |-> Less(entry.left),
                        life |-> Less(entry.life)]
    <3>1. Older(entry) = [entry EXCEPT !.left = Less(@), !.life = Less(@)]
      BY <1>1, <1>3 DEF Older
    <3>2. Older(entry) = [[entry EXCEPT !.left = Less(entry.left)]
                                 EXCEPT !.life = Less(entry.life)]
      BY <1>1, <3>1
    <3> QED BY <1>1, <3>2
  <2>2. Less(entry.left) \in 0 .. Window /\ Less(entry.life) \in 0 .. Window
    BY <1>1, <1>3, LimitsAssumption DEF Less
  <2> QED BY <1>1, <2>1, <2>2 DEF Entry
<1> QED BY <1>1, <1>2, <1>3

\* What a tick does to a stored entry: it is gone, or a tick older.
LEMMA OlderFacts ==
    ASSUME NEW entry \in Entry, LivesLong(entry)
    PROVE  /\ Older(entry) \in Entry /\ LivesLong(Older(entry))
           /\ \/ Older(entry) = Absent /\ entry.left <= 2
              \/ /\ Older(entry).count = entry.count
                 /\ Older(entry).left = Less(entry.left)
<1>1. /\ entry = [count |-> entry.count, left |-> entry.left, life |-> entry.life]
      /\ entry.count \in Nat /\ entry.left \in 0 .. Window /\ entry.life \in 0 .. Window
  BY DEF Entry
<1>2. CASE entry.life <= 1
  BY <1>1, <1>2, LimitsAssumption DEF Older, Absent, Entry, LivesLong
<1>3. CASE entry.life > 1
  <2>1. Older(entry) = [count |-> entry.count, left |-> Less(entry.left),
                        life |-> entry.life - 1]
    <3>1. Less(entry.life) = entry.life - 1
      BY <1>1, <1>3 DEF Less
    <3>2. Older(entry) = [[entry EXCEPT !.left = Less(entry.left)]
                                 EXCEPT !.life = entry.life - 1]
      BY <1>1, <1>3, <3>1 DEF Older
    <3> QED BY <1>1, <3>2
  <2>2. Less(entry.left) \in 0 .. Window /\ entry.life - 1 \in 0 .. Window
        /\ entry.life - 1 + 1 >= Less(entry.left)
    BY <1>1, <1>3, LimitsAssumption DEF Less, LivesLong
  <2> QED BY <1>1, <2>1, <2>2 DEF Entry, LivesLong
<1> QED BY <1>1, <1>2, <1>3

\* What a tick does to an entry in the hands of a request.
LEMMA AgedFacts ==
    ASSUME NEW entry \in Entry
    PROVE  /\ Aged(entry) \in Entry /\ Aged(entry).count = entry.count
           /\ Aged(entry).left = Less(entry.left)
           /\ LivesLong(entry) => LivesLong(Aged(entry))
BY LimitsAssumption DEF Aged, Less, Entry, LivesLong

\* The variables keep their types.
LEMMA LimitsTypeStep == LimitsTypeOK /\ [LimitsNext]_limitsVars => LimitsTypeOK'
<1> SUFFICES ASSUME LimitsTypeOK, [LimitsNext]_limitsVars PROVE LimitsTypeOK'
  OBVIOUS
<1> USE LimitsAssumption
<1>T. /\ hits \in Entry /\ fails \in Entry
      /\ lock \in [until : 0 .. Window, life : 0 .. Window]
      /\ captcha \in BOOLEAN /\ answered \in BOOLEAN /\ reused \in BOOLEAN
      /\ visits \in [Visitor -> Visits]
      /\ overlapped \subseteq {"hits", "fails", "lock", "captcha"}
      /\ admitted \in [Age -> Nat] /\ guessed \in [Age -> Nat]
  BY DEF LimitsTypeOK
<1>O. \A count \in [Age -> Nat], cell \in {"hits", "fails"} :
        Observe(count, cell) \in [Age -> Nat]
  BY DEF Observe
<1>H. \A v \in Visitor : Counted(visits[v].saw) \in Entry
  BY <1>T, CountedFacts DEF Visits
<1>A. Absent \in Entry /\ Unlocked \in [until : 0 .. Window, life : 0 .. Window]
  BY DEF Absent, Entry, Unlocked
<1>2. ASSUME NEW v \in Visitor, ReadHits(v) PROVE LimitsTypeOK'
  <2>1. PICK entry \in Current(hits) : Look(v, "gone", "hits", entry, FALSE)
    BY <1>2 DEF ReadHits
  <2>2. entry \in Entry
    BY <1>T, CurrentFacts
  <2> QED BY <1>2, <1>T, <2>1, <2>2, LookFacts DEF LimitsTypeOK, ReadHits, cells
<1>3. ASSUME NEW v \in Visitor, WriteHits(v) PROVE LimitsTypeOK'
  <2> DEFINE e == Counted(visits[v].saw)
  <2>1. e \in Entry
    BY <1>H
  <2>2. (IF Admits(e) THEN "lock" ELSE "gone") \in Places
    BY DEF Places
  <2>3. Move(v, "count_hit", IF Admits(e) THEN "lock" ELSE "gone")
    BY <1>3 DEF WriteHits
  <2>4. visits' \in [Visitor -> Visits]
    BY <2>2, <2>3, MoveFacts
  <2>5. admitted' \in [Age -> Nat]
    BY <1>3, <1>T, <1>O DEF WriteHits
  <2> QED BY <1>3, <1>T, <2>1, <2>4, <2>5 DEF LimitsTypeOK, WriteHits
<1>4. ASSUME NEW v \in Visitor, CheckLock(v) PROVE LimitsTypeOK'
  <2> DEFINE to == IF Refuses(lock) THEN "gone"
                   ELSE IF Expired(lock) THEN "expire" ELSE "verify"
  <2>1. to \in Places
    BY DEF Places
  <2>2. visits' \in [Visitor -> Visits]
    BY <1>4, <2>1, MoveFacts DEF CheckLock
  <2> QED BY <1>4, <1>T, <2>2 DEF LimitsTypeOK, CheckLock, cells, observed
<1>14. ASSUME NEW v \in Visitor, DropLock(v) PROVE LimitsTypeOK'
  <2>1. visits' \in [Visitor -> Visits]
    BY <1>14, MoveFacts DEF DropLock, Places
  <2> QED BY <1>14, <1>T, <1>A, <2>1 DEF LimitsTypeOK, DropLock
<1>5. ASSUME NEW v \in Visitor, Reject(v) PROVE LimitsTypeOK'
  <2>1. visits' \in [Visitor -> Visits]
    BY <1>5, MoveFacts DEF Reject, Places
  <2> QED BY <1>5, <1>T, <1>O, <2>1 DEF LimitsTypeOK, Reject, cells, observed
<1>6. ASSUME NEW v \in Visitor, Reset(v) PROVE LimitsTypeOK'
  <2>1. visits' \in [Visitor -> Visits]
    BY <1>6, MoveFacts DEF Reset, Places
  <2> QED BY <1>6, <1>T, <1>A, <2>1 DEF LimitsTypeOK, Reset
<1>7. ASSUME NEW v \in Visitor, Unlock(v) PROVE LimitsTypeOK'
  <2>1. visits' \in [Visitor -> Visits]
    BY <1>7, MoveFacts DEF Unlock, Places
  <2> QED BY <1>7, <1>T, <1>A, <2>1 DEF LimitsTypeOK, Unlock, observed
<1>8. ASSUME NEW v \in Visitor, ReadFailures(v) PROVE LimitsTypeOK'
  <2>1. PICK entry \in Current(fails) : Look(v, "failure", "fails", entry, FALSE)
    BY <1>8 DEF ReadFailures
  <2>2. entry \in Entry
    BY <1>T, CurrentFacts
  <2> QED BY <1>8, <1>T, <2>1, <2>2, LookFacts DEF LimitsTypeOK, ReadFailures, cells
<1>9. ASSUME NEW v \in Visitor, WriteFailures(v) PROVE LimitsTypeOK'
  <2>1. visits' \in [Visitor -> Visits]
    BY <1>9, MoveFacts DEF WriteFailures, Places
  <2>2. Counted(visits[v].saw) \in Entry /\ visits[v].until \in 0 .. Window
    BY <1>H, <1>T DEF Visits
  <2> QED BY <1>9, <1>T, <1>A, <2>1, <2>2 DEF LimitsTypeOK, WriteFailures, observed
<1>10. ASSUME NEW v \in Visitor, ReadCaptcha(v) PROVE LimitsTypeOK'
  <2>1. Look(v, "gone", "captcha", Absent, captcha)
    BY <1>10 DEF ReadCaptcha
  <2>2. /\ visits' \in [Visitor -> Visits]
        /\ overlapped' \subseteq {"hits", "fails", "lock", "captcha"}
    <3>1. captcha \in BOOLEAN
      BY <1>T
    <3> QED BY <2>1, <3>1, <1>A, LookFacts, Zenon
  <2> QED BY <1>10, <1>T, <2>2 DEF LimitsTypeOK, ReadCaptcha, cells
<1>11. ASSUME NEW v \in Visitor, DropCaptcha(v) PROVE LimitsTypeOK'
  <2>1. visits' \in [Visitor -> Visits]
    BY <1>11, MoveFacts DEF DropCaptcha, Places
  <2> QED BY <1>11, <1>T, <2>1 DEF LimitsTypeOK, DropCaptcha
<1>12. ASSUME Tick PROVE LimitsTypeOK'
  <2>1. \A e \in Entry : Older(e) \in Entry /\ Aged(e) \in Entry
    BY OlderIsEntry, AgedFacts
  <2>2. \A n \in 0 .. Window : Less(n) \in 0 .. Window
    BY DEF Less
  <2>3. visits' \in [Visitor -> Visits]
    <3>1. ASSUME NEW v \in Visitor
          PROVE  [visits[v] EXCEPT !.saw = Aged(@), !.until = Less(@)] \in Visits
      BY <1>T, <2>1, <2>2 DEF Visits
    <3> QED BY <1>12, <3>1 DEF LimitsTypeOK, Tick
  <2>4. \A count \in [Age -> Nat] : Shifted(count) \in [Age -> Nat]
    BY DEF Shifted, Age
  <2> QED BY <1>12, <1>T, <2>1, <2>2, <2>3, <2>4 DEF LimitsTypeOK, Tick
<1>13. CASE UNCHANGED limitsVars
  BY <1>13, <1>T DEF LimitsTypeOK, limitsVars, cells, observed
<1> QED
  BY <1>2, <1>3, <1>4, <1>5, <1>6, <1>7, <1>8, <1>9, <1>10, <1>11, <1>12, <1>13,
     <1>14
  DEF LimitsNext, Login, Registration

\* No entry leaves the cache earlier than a tick before its window is over.
LEMMA LivesStep ==
    LimitsTypeOK /\ LivesInv /\ [LimitsNext]_limitsVars => LivesInv'
<1> SUFFICES ASSUME LimitsTypeOK, LivesInv, [LimitsNext]_limitsVars PROVE LivesInv'
  OBVIOUS
<1>T. /\ hits \in Entry /\ fails \in Entry /\ visits \in [Visitor -> Visits]
      /\ \A v \in Visitor : visits[v].saw \in Entry
  BY DEF LimitsTypeOK, Visits
<1>A. Absent \in Entry /\ LivesLong(Absent)
  BY LimitsAssumption DEF Absent, Entry, LivesLong
<1>M. ASSUME NEW v \in Visitor, NEW from, NEW to \in Places, Move(v, from, to),
             LivesLong(hits'), LivesLong(fails')
      PROVE  LivesInv'
  <2>1. /\ visits'[v].saw = Absent
        /\ \A w \in Visitor \ {v} : visits'[w] = visits[w]
    BY <1>M, MoveFacts
  <2> QED BY <1>A, <1>M, <2>1 DEF LivesInv
<1>L. ASSUME NEW v \in Visitor, NEW from, NEW entry \in Entry, LivesLong(entry),
             NEW cell \in {"hits", "fails", "captcha"}, NEW found \in BOOLEAN,
             Look(v, from, cell, entry, found), UNCHANGED <<hits, fails>>
      PROVE  LivesInv'
  <2>1. /\ visits'[v].saw = entry
        /\ \A w \in Visitor \ {v} : visits'[w] = visits[w]
    BY <1>L, <1>T DEF Look
  <2> QED BY <1>L, <2>1 DEF LivesInv
<1>C. \A v \in Visitor : LivesLong(Counted(visits[v].saw))
  BY <1>T, CountedFacts DEF LivesInv
<1>2. ASSUME NEW v \in Visitor, ReadHits(v) PROVE LivesInv'
  <2>1. PICK entry \in Current(hits) : Look(v, "gone", "hits", entry, FALSE)
    BY <1>2 DEF ReadHits
  <2> QED BY <1>2, <1>L, <1>T, <2>1, CurrentFacts DEF ReadHits, cells
<1>3. ASSUME NEW v \in Visitor, WriteHits(v) PROVE LivesInv'
  <2> DEFINE to == IF Admits(Counted(visits[v].saw)) THEN "lock" ELSE "gone"
  <2>1. to \in Places /\ Move(v, "count_hit", to)
    BY <1>3 DEF WriteHits, Places
  <2> HIDE DEF to
  <2> QED BY <1>3, <1>C, <1>M, <2>1 DEF WriteHits, LivesInv
<1>4. ASSUME NEW v \in Visitor, CheckLock(v) PROVE LivesInv'
  <2>1. PICK to \in {"gone", "expire", "verify"} : Move(v, "lock", to)
    BY <1>4 DEF CheckLock
  <2> QED BY <1>4, <1>M, <2>1 DEF CheckLock, cells, LivesInv, Places
<1>5. ASSUME NEW v \in Visitor, DropLock(v) \/ Reject(v) \/ Unlock(v) PROVE LivesInv'
  <2>1. PICK from \in Places, to \in Places : Move(v, from, to)
    BY <1>5 DEF DropLock, Reject, Unlock, Places
  <2> QED BY <1>5, <1>M, <2>1 DEF DropLock, Reject, Unlock, cells, LivesInv
<1>6. ASSUME NEW v \in Visitor, Reset(v) PROVE LivesInv'
  BY <1>6, <1>A, <1>M DEF Reset, LivesInv, Places
<1>8. ASSUME NEW v \in Visitor, ReadFailures(v) PROVE LivesInv'
  <2>1. PICK entry \in Current(fails) : Look(v, "failure", "fails", entry, FALSE)
    BY <1>8 DEF ReadFailures
  <2> QED BY <1>8, <1>L, <1>T, <2>1, CurrentFacts DEF ReadFailures, cells
<1>9. ASSUME NEW v \in Visitor, WriteFailures(v) PROVE LivesInv'
  <2>1. LivesLong(hits') /\ LivesLong(fails') /\ Move(v, "count_failure", "gone")
    BY <1>9, <1>A, <1>C DEF WriteFailures, LivesInv
  <2> QED BY <1>M, <2>1 DEF Places
<1>10. ASSUME NEW v \in Visitor, ReadCaptcha(v) PROVE LivesInv'
  <2>1. captcha \in BOOLEAN
    BY DEF LimitsTypeOK
  <2> QED BY <1>10, <1>A, <1>L, <2>1 DEF ReadCaptcha, cells
<1>11. ASSUME NEW v \in Visitor, DropCaptcha(v) PROVE LivesInv'
  BY <1>11, <1>M DEF DropCaptcha, LivesInv, Places
<1>12. ASSUME Tick PROVE LivesInv'
  <2>1. \A v \in Visitor : visits'[v].saw = Aged(visits[v].saw)
    BY <1>12, <1>T DEF Tick, Visits
  <2> QED BY <1>12, <1>T, <2>1, AgedFacts, OlderFacts DEF Tick, LivesInv
<1>13. CASE UNCHANGED limitsVars
  BY <1>13 DEF limitsVars, cells, LivesInv
<1> QED
  BY <1>2, <1>3, <1>4, <1>5, <1>6, <1>8, <1>9, <1>10, <1>11, <1>12, <1>13
  DEF LimitsNext, Login, Registration

-----------------------------------------------------------------------------
(* The counter of requests. *)

\* What the other counters and the captcha do leaves the limiter as it is.
LEMMA HitsRest ==
    ASSUME HitsInv, hits' = hits, admitted' = admitted, overlapped \subseteq overlapped',
           \A v \in Visitor : visits'[v].at = "count_hit" <=> visits[v].at = "count_hit",
           \A v \in Visitor : visits[v].at = "count_hit" => visits'[v].saw = visits[v].saw
    PROVE  HitsInv'
<1>1. CASE "hits" \in overlapped
  BY <1>1 DEF HitsInv
<1>2. CASE "hits" \notin overlapped
  <2>1. Writing("hits")' = Writing("hits")
    BY DEF Writing, At, Writer
  <2>2. \A v \in Writing("hits") : visits'[v].saw = visits[v].saw
    BY DEF Writing, At, Writer
  <2> QED
    BY <1>2, <2>1, <2>2 DEF HitsInv, OneWriter, HitsCover
<1> QED BY <1>1, <1>2

\* One request more in a window, as long as it is admitted.
LEMMA AdmittedGrows ==
    ASSUME NEW n \in Nat
    PROVE  /\ AdmittedWithin(n) \in Nat /\ AdmittedWithin(n) <= Limit
           /\ n + 1 <= Limit => AdmittedWithin(n + 1) = AdmittedWithin(n) + 1
           /\ AdmittedWithin(n) <= AdmittedWithin(n + 1)
BY LimitsAssumption DEF AdmittedWithin

\* Every step keeps the counter of requests ahead of what was admitted.
LEMMA HitsStep ==
    LimitsTypeOK /\ LivesInv /\ HitsInv /\ [LimitsNext]_limitsVars => HitsInv'
<1> SUFFICES ASSUME LimitsTypeOK, LivesInv, HitsInv, [LimitsNext]_limitsVars PROVE HitsInv'
  OBVIOUS
<1> USE LimitsAssumption
<1>T. /\ hits \in Entry
      /\ visits \in [Visitor -> Visits]
      /\ admitted \in [Age -> Nat]
      /\ \A v \in Visitor : visits[v].saw \in Entry
  BY DEF LimitsTypeOK, Visits
<1>M. ASSUME NEW v \in Visitor, NEW from, NEW to \in Places, Move(v, from, to),
             from # "count_hit", to # "count_hit",
             hits' = hits, admitted' = admitted, overlapped \subseteq overlapped'
      PROVE  HitsInv'
  BY <1>M, MoveFacts, HitsRest
<1>2. ASSUME NEW v \in Visitor, ReadHits(v) PROVE HitsInv'
  <2>1. PICK entry \in Current(hits) : Look(v, "gone", "hits", entry, FALSE)
    BY <1>2 DEF ReadHits
  <2>2. /\ Look(v, "gone", "hits", entry, FALSE) /\ hits' = hits /\ admitted' = admitted
        /\ entry \in Entry
        /\ hits.left = 0 => entry.count = 0 /\ entry.left = Window
        /\ hits.left # 0 => entry.count = hits.count /\ entry.left = hits.left
    BY <1>2, <1>T, <2>1, CurrentFacts DEF ReadHits, cells
  <2>3. /\ visits[v].at = "gone" /\ visits'[v].at = "count_hit" /\ visits'[v].saw = entry
        /\ \A w \in Visitor \ {v} : visits'[w] = visits[w]
        /\ overlapped \subseteq overlapped'
        /\ (\E w \in Visitor \ {v} : visits[w].at = "count_hit") => "hits" \in overlapped'
    <3>1. /\ visits[v].at = "gone" /\ visits'[v].at = Writer["hits"]
          /\ visits'[v].saw = entry
          /\ \A w \in Visitor \ {v} : visits'[w] = visits[w]
          /\ overlapped' = IF \E w \in Visitor \ {v} : visits[w].at = Writer["hits"]
                           THEN overlapped \cup {"hits"} ELSE overlapped
      BY <2>2, <1>T DEF Look, Busy
    <3> QED BY <3>1 DEF Writer
  <2>4. CASE "hits" \in overlapped'
    BY <2>4 DEF HitsInv
  <2>5. CASE "hits" \notin overlapped'
    <3>1. "hits" \notin overlapped /\ Writing("hits") = {}
      BY <2>3, <2>5 DEF Writing, At, Writer
    <3>2. Writing("hits")' = {v}
      BY <2>3, <3>1 DEF Writing, At, Writer
    <3>3. HitsCover(entry, admitted)
      <4>1. IF hits.left = 0 THEN \A a \in Age : admitted[a] <= Limit ELSE HitsCover(hits, admitted)
        BY <3>1 DEF HitsInv
      <4>2. CASE hits.left = 0
        <5>1. entry.count = 0 /\ entry.left = Window
          BY <2>2, <4>2
        <5> QED BY <4>1, <4>2, <5>1, <1>T DEF HitsCover, Age, Elapsed, AdmittedWithin
      <4>3. CASE hits.left # 0
        BY <2>2, <4>1, <4>3 DEF HitsCover
      <4> QED BY <4>2, <4>3
    <3>4. HitsCover(visits'[v].saw, admitted')
      BY <2>2, <2>3, <3>3 DEF HitsCover
    <3> QED BY <3>2, <3>4 DEF HitsInv, OneWriter
  <2> QED BY <2>4, <2>5
<1>3. ASSUME NEW v \in Visitor, WriteHits(v) PROVE HitsInv'
  <2> DEFINE saw == visits[v].saw
             entry == Counted(saw)
             to == IF Admits(entry) THEN "lock" ELSE "gone"
  <2>1. /\ Move(v, "count_hit", to) /\ hits' = entry /\ overlapped' = overlapped
        /\ admitted' = IF Admits(entry) THEN Observe(admitted, "hits") ELSE admitted
    BY <1>3 DEF WriteHits
  <2>2. /\ visits[v].at = "count_hit" /\ visits'[v].at # "count_hit"
        /\ \A w \in Visitor \ {v} : visits'[w] = visits[w]
    <3>1. to \in Places
      BY DEF Places
    <3> HIDE DEF to
    <3>2. to # "count_hit"
      BY DEF to
    <3> QED BY <2>1, <3>1, <3>2, MoveFacts
  <2>3. saw \in Entry /\ entry.count = saw.count + 1 /\ entry.left = saw.left
    BY <1>T, CountedFacts
  <2>4. CASE "hits" \in overlapped
    BY <2>1, <2>4 DEF HitsInv
  <2>5. CASE "hits" \notin overlapped
    <3>1. v \in Writing("hits") /\ OneWriter("hits") /\ HitsCover(saw, admitted)
      BY <2>2, <2>5 DEF HitsInv, Writing, At, Writer
    <3>2. Writing("hits")' = {}
      BY <2>2, <3>1 DEF OneWriter, Writing, At, Writer
    <3> HIDE DEF saw, entry
    <3>3. \A a \in Age : admitted'[a] =
              admitted[a] + IF saw.count + 1 <= Limit THEN 1 ELSE 0
      BY <2>1, <2>3, <2>5, <1>T DEF Admits, Observe
    <3>4. ASSUME NEW a \in Age
          PROVE  /\ admitted'[a] <= AdmittedWithin(saw.count + 1) + Limit
                 /\ a < Elapsed(saw.left) => admitted'[a] <= AdmittedWithin(saw.count + 1)
      <4>1. /\ admitted[a] <= AdmittedWithin(saw.count) + Limit
            /\ a < Elapsed(saw.left) => admitted[a] <= AdmittedWithin(saw.count)
        BY <3>1 DEF HitsCover
      <4>2. saw.count \in Nat /\ saw.left \in 0 .. Window
        BY <2>3 DEF Entry
      <4> QED BY <3>3, <4>1, <4>2, <1>T, AdmittedGrows DEF Elapsed
    <3>5. IF hits'.left = 0 THEN \A a \in Age : admitted'[a] <= Limit
                            ELSE HitsCover(hits', admitted')
      <4>1. CASE hits'.left = 0
        <5>1. ASSUME NEW a \in Age PROVE admitted'[a] <= Limit
          <6>1. saw.left = 0 /\ saw.count \in Nat /\ AdmittedWithin(saw.count + 1) <= Limit
            BY <2>1, <2>3, <4>1, AdmittedGrows DEF Entry, AdmittedWithin
          <6>2. admitted'[a] <= AdmittedWithin(saw.count + 1)
            BY <3>4, <6>1 DEF Elapsed, Age
          <6>3. AdmittedWithin(saw.count + 1) \in Nat /\ admitted'[a] \in Int
            BY <6>1, <3>3, <1>T DEF AdmittedWithin
          <6> QED BY <6>1, <6>2, <6>3
        <5> QED BY <4>1, <5>1
      <4>2. CASE hits'.left # 0
        BY <2>1, <2>3, <3>4, <4>2 DEF HitsCover
      <4> QED BY <4>1, <4>2
    <3> QED BY <3>2, <3>5 DEF HitsInv, OneWriter
  <2> QED BY <2>4, <2>5
<1>4. ASSUME NEW v \in Visitor, CheckLock(v) PROVE HitsInv'
  <2>1. PICK to \in {"gone", "expire", "verify"} : Move(v, "lock", to)
    BY <1>4 DEF CheckLock
  <2> QED BY <1>4, <1>M, <2>1 DEF CheckLock, cells, observed, Places
<1>14. ASSUME NEW v \in Visitor, DropLock(v) PROVE HitsInv'
  BY <1>14, <1>M DEF DropLock, Places
<1>5. ASSUME NEW v \in Visitor, Reject(v) PROVE HitsInv'
  BY <1>5, <1>M DEF Reject, cells, observed, Places
<1>6. ASSUME NEW v \in Visitor, Reset(v) PROVE HitsInv'
  BY <1>6, <1>M DEF Reset, Places
<1>7. ASSUME NEW v \in Visitor, Unlock(v) PROVE HitsInv'
  BY <1>7, <1>M DEF Unlock, observed, Places
<1>8. ASSUME NEW v \in Visitor, ReadFailures(v) PROVE HitsInv'
  <2>1. PICK entry \in Current(fails) : Look(v, "failure", "fails", entry, FALSE)
    BY <1>8 DEF ReadFailures
  <2>3. entry \in Entry
    BY CurrentFacts DEF LimitsTypeOK
  <2>2. /\ visits[v].at = "failure" /\ visits'[v].at = "count_failure"
        /\ \A w \in Visitor \ {v} : visits'[w] = visits[w]
        /\ overlapped \subseteq overlapped'
    <3>1. /\ visits[v].at = "failure" /\ visits'[v].at = Writer["fails"]
          /\ \A w \in Visitor \ {v} : visits'[w] = visits[w]
          /\ overlapped \subseteq overlapped'
      BY <2>1, <2>3, LookFacts
    <3> QED BY <3>1 DEF Writer
  <2> QED BY <1>8, <2>2, HitsRest DEF ReadFailures, cells
<1>9. ASSUME NEW v \in Visitor, WriteFailures(v) PROVE HitsInv'
  BY <1>9, <1>M DEF WriteFailures, observed, Places
<1>10. ASSUME NEW v \in Visitor, ReadCaptcha(v) PROVE HitsInv'
  <2>1. Absent \in Entry /\ captcha \in BOOLEAN
    BY DEF Absent, Entry, LimitsTypeOK
  <2>2. Look(v, "gone", "captcha", Absent, captcha)
    BY <1>10 DEF ReadCaptcha
  <2>3. /\ visits[v].at = "gone" /\ visits'[v].at = Writer["captcha"]
        /\ \A w \in Visitor \ {v} : visits'[w] = visits[w]
        /\ overlapped \subseteq overlapped'
    BY <2>2, <1>T DEF Look
  <2>4. visits'[v].at = "drop_captcha"
    BY <2>3 DEF Writer
  <2> QED BY <1>10, <2>3, <2>4, HitsRest DEF ReadCaptcha, cells
<1>11. ASSUME NEW v \in Visitor, DropCaptcha(v) PROVE HitsInv'
  BY <1>11, <1>M DEF DropCaptcha, Places
<1>12. ASSUME Tick PROVE HitsInv'
  <2>1. /\ hits' = Older(hits) /\ overlapped' = overlapped
        /\ admitted' = [a \in Age |-> IF a = 0 THEN 0 ELSE admitted[a - 1]]
    BY <1>12 DEF Tick, Shifted
  <2>2. \A v \in Visitor : visits'[v].at = visits[v].at /\ visits'[v].saw = Aged(visits[v].saw)
    BY <1>12, <1>T DEF Tick, Visits
  <2>3. CASE "hits" \in overlapped
    BY <2>1, <2>3 DEF HitsInv
  <2>4. CASE "hits" \notin overlapped
    <3>1. Writing("hits")' = Writing("hits")
      BY <2>2 DEF Writing, At
    <3>2. ASSUME NEW e \in Entry, NEW f \in Entry, f.count = e.count, HitsCover(e, admitted),
                 f.left = Less(e.left)
          PROVE  HitsCover(f, admitted')
      <4>1. ASSUME NEW a \in Age
            PROVE  /\ admitted'[a] <= AdmittedWithin(f.count) + Limit
                   /\ a < Elapsed(f.left) => admitted'[a] <= AdmittedWithin(f.count)
        <5>1. AdmittedWithin(f.count) \in Nat /\ e.left \in 0 .. Window /\ a \in Nat
          BY AdmittedGrows DEF Entry, Age
        <5>2. CASE a = 0
          BY <2>1, <5>1, <5>2
        <5>3. CASE a # 0
          <6>1. a - 1 \in Age /\ admitted'[a] = admitted[a - 1]
            BY <2>1, <5>3 DEF Age
          <6>2. a < Elapsed(f.left) => a - 1 < Elapsed(e.left)
            BY <3>2, <5>1, <5>3 DEF Elapsed, Less, Age
          <6> QED BY <3>2, <6>1, <6>2 DEF HitsCover
        <5> QED BY <5>2, <5>3
      <4> QED BY <4>1 DEF HitsCover
    <3>3. ASSUME NEW v \in Writing("hits") PROVE HitsCover(visits'[v].saw, admitted')
      <4>1. v \in Visitor /\ HitsCover(visits[v].saw, admitted) /\ visits[v].saw \in Entry
        BY <2>4, <1>T DEF HitsInv, Writing, At
      <4>2. /\ visits'[v].saw \in Entry /\ visits'[v].saw.count = visits[v].saw.count
            /\ visits'[v].saw.left = Less(visits[v].saw.left)
        BY <2>2, <4>1, AgedFacts
      <4> QED BY <4>1, <4>2, <3>2
    <3>4. ASSUME Writing("hits") = {}
          PROVE  IF hits'.left = 0 THEN \A a \in Age : admitted'[a] <= Limit
                                   ELSE HitsCover(hits', admitted')
      <4>1. IF hits.left = 0 THEN \A a \in Age : admitted[a] <= Limit ELSE HitsCover(hits, admitted)
        BY <2>4, <3>4 DEF HitsInv
      <4>2. /\ hits' \in Entry
            /\ \/ hits' = Absent /\ hits.left <= 2
               \/ hits'.count = hits.count /\ hits'.left = Less(hits.left)
        BY <1>T, <2>1, OlderFacts DEF LivesInv
      <4>3. hits.left \in 0 .. Window /\ hits.count \in Nat
        BY <1>T DEF Entry
      <4>4. CASE hits.left = 0
        <5>1. hits'.left = 0
          BY <4>2, <4>4 DEF Absent, Less
        <5>2. \A a \in Age : a # 0 => a - 1 \in Age
          BY DEF Age
        <5> QED BY <2>1, <4>1, <4>4, <5>1, <5>2
      <4>5. CASE hits.left # 0 /\ hits'.left = 0
        <5>1. hits.left <= 2
          BY <4>2, <4>3, <4>5 DEF Less
        <5>2. ASSUME NEW a \in Age PROVE admitted'[a] <= Limit
          <6>1. CASE a = 0
            BY <2>1, <6>1
          <6>2. CASE a # 0
            <7>1. a - 1 \in Age /\ a - 1 < Elapsed(hits.left) /\ admitted'[a] = admitted[a - 1]
              BY <2>1, <4>3, <5>1, <6>2 DEF Age, Elapsed
            <7>2. admitted[a - 1] <= AdmittedWithin(hits.count)
              BY <4>1, <4>5, <7>1 DEF HitsCover
            <7> QED BY <4>3, <7>1, <7>2, <1>T, AdmittedGrows
          <6> QED BY <6>1, <6>2
        <5> QED BY <4>5, <5>2
      <4>6. CASE hits'.left # 0
        <5>1. hits'.count = hits.count /\ hits'.left = Less(hits.left) /\ hits.left # 0
          BY <4>2, <4>3, <4>6 DEF Absent, Less
        <5>2. HitsCover(hits, admitted) /\ hits \in Entry
          BY <4>1, <5>1, <1>T
        <5> QED BY <4>2, <4>6, <5>1, <5>2, <3>2
      <4> QED BY <4>4, <4>5, <4>6
    <3> QED BY <2>4, <3>1, <3>3, <3>4 DEF HitsInv, OneWriter
  <2> QED BY <2>3, <2>4
<1>13. CASE UNCHANGED limitsVars
  BY <1>13, HitsRest DEF limitsVars, cells, observed
<1> QED
  BY <1>2, <1>3, <1>4, <1>5, <1>6, <1>7, <1>8, <1>9, <1>10, <1>11, <1>12, <1>13,
     <1>14
  DEF LimitsNext, Login, Registration

-----------------------------------------------------------------------------
(* The counter of wrong passwords. *)

\* The requests that have passed the lock are requests in flight.
LEMMA OpenFacts ==
    ASSUME LimitsTypeOK
    PROVE  /\ Open \in Nat /\ Verifying \in Nat /\ Cardinality(Visitor) \in Nat
           /\ Open + Verifying <= Cardinality(Visitor)
           /\ \A v \in Uncounted : Open >= 1
<1>1. /\ IsFiniteSet(Uncounted) /\ IsFiniteSet(At("verify"))
      /\ Uncounted \subseteq Visitor /\ At("verify") \subseteq Visitor
      /\ IsFiniteSet(Uncounted \cup At("verify"))
  <2>1. Uncounted \subseteq Visitor /\ At("verify") \subseteq Visitor
    BY DEF Uncounted, At
  <2> QED BY <2>1, LimitsAssumption, FS_Subset, FS_Union
<1>2. Uncounted \cap At("verify") = {}
  BY DEF Uncounted, At
<1>3. Cardinality(Uncounted \cup At("verify")) = Open + Verifying
  <2>1. Cardinality(Uncounted \cup At("verify")) = Cardinality(Uncounted)
            + Cardinality(At("verify")) - Cardinality(Uncounted \cap At("verify"))
    BY <1>1, FS_Union
  <2>2. Cardinality(Uncounted \cap At("verify")) = 0
    BY <1>2, FS_EmptySet
  <2> QED BY <1>1, <2>1, <2>2, FS_CardinalityType DEF Open, Verifying
<1>4. Cardinality(Uncounted \cup At("verify")) <= Cardinality(Visitor)
  BY <1>1, LimitsAssumption, FS_Subset
<1>5. ASSUME NEW v \in Uncounted PROVE Open >= 1
  <2>1. Open \in Nat /\ Open # 0
    BY <1>1, FS_EmptySet, FS_CardinalityType DEF Open
  <2> QED BY <2>1
<1> QED
  BY <1>1, <1>3, <1>4, <1>5, FS_CardinalityType, LimitsAssumption DEF Open, Verifying

\* A request that moves takes its place in the counts with it.
LEMMA MoveCounts ==
    ASSUME LimitsTypeOK, NEW v \in Visitor, \A w \in Visitor \ {v} : visits'[w] = visits[w]
    PROVE  LET counted(at) == IF at \in {"failure", "count_failure"} THEN 1 ELSE 0
               verified(at) == IF at = "verify" THEN 1 ELSE 0
           IN /\ Open' = Open + counted(visits'[v].at) - counted(visits[v].at)
              /\ Verifying' = Verifying + verified(visits'[v].at) - verified(visits[v].at)
<1> DEFINE U == Uncounted \ {v}
           V == At("verify") \ {v}
<1>1. /\ Uncounted = IF visits[v].at \in {"failure", "count_failure"} THEN U \cup {v} ELSE U
      /\ Uncounted' = IF visits'[v].at \in {"failure", "count_failure"} THEN U \cup {v} ELSE U
      /\ At("verify") = IF visits[v].at = "verify" THEN V \cup {v} ELSE V
      /\ At("verify")' = IF visits'[v].at = "verify" THEN V \cup {v} ELSE V
  BY DEF Uncounted, At
<1>2. IsFiniteSet(U) /\ IsFiniteSet(V) /\ v \notin U /\ v \notin V
  <2>1. U \subseteq Visitor /\ V \subseteq Visitor
    BY DEF Uncounted, At
  <2> QED BY <2>1, LimitsAssumption, FS_Subset
<1> HIDE DEF U, V
<1>3. /\ Cardinality(U \cup {v}) = Cardinality(U) + 1 /\ Cardinality(U) \in Nat
      /\ Cardinality(V \cup {v}) = Cardinality(V) + 1 /\ Cardinality(V) \in Nat
  BY <1>2, FS_AddElement, FS_CardinalityType
<1>4. /\ Open = IF visits[v].at \in {"failure", "count_failure"}
                THEN Cardinality(U) + 1 ELSE Cardinality(U)
      /\ Open' = IF visits'[v].at \in {"failure", "count_failure"}
                 THEN Cardinality(U) + 1 ELSE Cardinality(U)
  BY <1>1, <1>3 DEF Open
<1>5. /\ Verifying = IF visits[v].at = "verify" THEN Cardinality(V) + 1 ELSE Cardinality(V)
      /\ Verifying' = IF visits'[v].at = "verify" THEN Cardinality(V) + 1 ELSE Cardinality(V)
  BY <1>1, <1>3 DEF Verifying
<1> QED BY <1>3, <1>4, <1>5

\* What the limiter and the captcha do leaves the guard of the login as it is.
LEMMA FailsRest ==
    ASSUME FailsInv, fails' = fails, lock' = lock, guessed' = guessed,
           overlapped \subseteq overlapped',
           \A v \in Visitor, at \in {"verify", "failure", "count_failure", "unlock"} :
             visits'[v].at = at <=> visits[v].at = at,
           \A v \in Visitor : visits[v].at = "count_failure" =>
             visits'[v].saw = visits[v].saw /\ visits'[v].until = visits[v].until
    PROVE  FailsInv'
<1>1. CASE Excused
  BY <1>1 DEF FailsInv, Excused
<1>2. CASE ~Excused
  <2>1. /\ At("verify")' = At("verify") /\ At("failure")' = At("failure")
        /\ At("count_failure")' = At("count_failure") /\ At("unlock")' = At("unlock")
    BY DEF At
  <2>2. Open' = Open /\ Verifying' = Verifying
    BY <2>1 DEF Open, Verifying, Uncounted
  <2>3. Writing("fails") = At("count_failure") /\ Writing("fails")' = At("count_failure")'
    BY DEF Writing, Writer
  <2>4. \A v \in Writing("fails") :
          visits'[v].saw = visits[v].saw /\ visits'[v].until = visits[v].until
    BY <2>3 DEF At
  <2> QED
    BY <1>2, <2>1, <2>2, <2>3, <2>4 DEF FailsInv, OneWriter
<1> QED BY <1>1, <1>2

\* A wrong password more, and one that is still to be counted more.
LEMMA OneMoreWrong ==
    ASSUME NEW entry \in Entry, NEW ticks \in Nat, NEW open \in Nat,
           NEW wrong \in [Age -> Nat], NEW more \in [Age -> Nat],
           \A a \in Age : more[a] = wrong[a] + 1
    PROVE  /\ FailsCover(entry, ticks, wrong, open) => FailsCover(entry, ticks, more, open + 1)
           /\ Begun(entry, wrong, open) => Begun(entry, more, open + 1)
<1> USE LimitsAssumption
<1>1. entry.count \in Nat /\ entry.left \in 0 .. Window /\ LeftOver \in Nat
  BY DEF Entry, LeftOver
<1> QED
  BY <1>1 DEF FailsCover, Begun, Elapsed

\* A wrong password that is counted is no longer to be counted.
LEMMA OneMoreCounted ==
    ASSUME NEW entry \in Entry, NEW next \in Entry, NEW ticks \in Nat, NEW open \in Nat,
           open > 0, NEW wrong \in [Age -> Nat],
           next.count = entry.count + 1, next.left = entry.left, next.count < MaxFailures
    PROVE  /\ FailsCover(entry, ticks, wrong, open) => FailsCover(next, ticks, wrong, open - 1)
           /\ Begun(entry, wrong, open) => Begun(next, wrong, open - 1)
<1> USE LimitsAssumption
<1>1. entry.count \in Nat /\ entry.left \in 0 .. Window /\ LeftOver \in Nat
  BY DEF Entry, LeftOver
<1> QED
  BY <1>1 DEF FailsCover, Begun, Elapsed

\* A tick: the lock, the window and the wrong passwords grow older together.
LEMMA CoverAges ==
    ASSUME NEW entry \in Entry, NEW next \in Entry, NEW ticks \in 0 .. Window, NEW open \in Nat,
           NEW wrong \in [Age -> Nat], next.count = entry.count, next.left = Less(entry.left)
    PROVE  /\ FailsCover(entry, ticks, wrong, open)
                => FailsCover(next, Less(ticks), Shifted(wrong), open)
           /\ open + entry.count > 0 /\ Begun(entry, wrong, open)
                => Begun(next, Shifted(wrong), open)
<1> USE LimitsAssumption
<1>1. entry.count \in Nat /\ entry.left \in 0 .. Window /\ LeftOver \in Nat
  BY DEF Entry, LeftOver
<1>2. \A a \in Age : a \in 0 .. Window - 1 /\ (a # 0 => a - 1 \in Age)
  BY DEF Age
<1>3. \A a \in Age : Shifted(wrong)[a] = IF a = 0 THEN 0 ELSE wrong[a - 1]
  BY DEF Shifted
<1>4. ASSUME FailsCover(entry, ticks, wrong, open)
      PROVE  FailsCover(next, Less(ticks), Shifted(wrong), open)
  <2>1. ASSUME Less(ticks) <= 1, NEW a \in Age
        PROVE  Shifted(wrong)[a] <= open + entry.count + LeftOver
    <3>1. CASE a = 0
      BY <3>1, <1>1, <1>3
    <3>2. CASE a # 0
      <4>1. a - 1 \in Age /\ Shifted(wrong)[a] = wrong[a - 1]
        BY <3>2, <1>2, <1>3
      <4>2. ticks > 1 => a - 1 < Elapsed(ticks)
        BY <2>1, <1>2, <3>2 DEF Less, Elapsed, Age
      <4> QED BY <4>1, <4>2, <1>1, <1>4 DEF FailsCover
    <3> QED BY <3>1, <3>2
  <2>2. ASSUME Less(ticks) > 1, NEW a \in Age, a < Elapsed(Less(ticks))
        PROVE  Shifted(wrong)[a] <= open + entry.count
    <3>1. CASE a = 0
      BY <3>1, <1>1, <1>3
    <3>2. CASE a # 0
      <4>1. a - 1 \in Age /\ Shifted(wrong)[a] = wrong[a - 1]
        BY <3>2, <1>2, <1>3
      <4>2. ticks > 1 /\ a - 1 < Elapsed(ticks)
        BY <2>2, <1>2 DEF Less, Elapsed
      <4> QED BY <4>1, <4>2, <1>1, <1>4 DEF FailsCover
    <3> QED BY <3>1, <3>2
  <2> QED BY <1>4, <2>1, <2>2 DEF FailsCover
<1>5. ASSUME open + entry.count > 0, Begun(entry, wrong, open), NEW a \in Age,
             a < Elapsed(next.left)
      PROVE  Shifted(wrong)[a] <= open + next.count - 1
  <2>1. CASE a = 0
    BY <2>1, <1>1, <1>3, <1>5
  <2>2. CASE a # 0
    <3>1. a - 1 \in Age /\ Shifted(wrong)[a] = wrong[a - 1]
      BY <2>2, <1>2, <1>3
    <3>2. a - 1 < Elapsed(entry.left)
      BY <1>1, <1>2, <1>5, <2>2 DEF Less, Elapsed
    <3> QED BY <3>1, <3>2, <1>5 DEF Begun
  <2> QED BY <2>1, <2>2
<1> QED BY <1>4, <1>5 DEF Begun

\* When a window runs out, LeftOver of its wrong passwords are still recent.
LEMMA WindowRunsOut ==
    ASSUME NEW entry \in Entry, NEW wrong \in [Age -> Nat], NEW open \in Nat,
           NEW ticks \in 0 .. Window, ticks <= 1,
           entry.left <= 1, entry.count > 0, FailsCover(entry, ticks, wrong, open),
           Begun(entry, wrong, open)
    PROVE  FailsCover(Absent, ticks, wrong, open)
<1> USE LimitsAssumption
<1>1. /\ entry.count \in Nat /\ entry.count < MaxFailures /\ LeftOver = MaxFailures - 2
  BY DEF FailsCover, Entry, LeftOver
<1>2. \A a \in Age : a < Elapsed(entry.left)
  BY DEF Elapsed, Age, Entry
<1> QED
  BY <1>1, <1>2 DEF FailsCover, Begun, Absent, Elapsed

\* Every step keeps the counter of wrong passwords ahead of what was verified.
LEMMA FailsStep ==
    LimitsTypeOK /\ LivesInv /\ FailsInv /\ [LimitsNext]_limitsVars => FailsInv'
<1> SUFFICES ASSUME LimitsTypeOK, LivesInv, FailsInv, [LimitsNext]_limitsVars PROVE FailsInv'
  OBVIOUS
<1> USE LimitsAssumption
<1>T. /\ fails \in Entry /\ lock.until \in 0 .. Window
      /\ visits \in [Visitor -> Visits]
      /\ guessed \in [Age -> Nat]
      /\ \A v \in Visitor : visits[v].saw \in Entry /\ visits[v].until \in 0 .. Window
  BY DEF LimitsTypeOK, Visits
<1>O. CASE Excused'
  BY <1>O DEF FailsInv
<1>I. ASSUME ~Excused
      PROVE  /\ OneWriter("fails") /\ At("unlock") = {}
             /\ lock.until > 1 => \A a \in Age : guessed[a] + Verifying <= Passwords
             /\ \A v \in At("count_failure") :
                  InHand(visits[v].saw, visits[v].until, lock.until, guessed, Open)
             /\ At("count_failure") = {} => StoredFails(fails, lock.until, guessed, Open)
             /\ \A v, w \in At("count_failure") : v = w
  BY <1>I DEF FailsInv, Writing, Writer, OneWriter
<1>J. SUFFICES ASSUME ~Excused' PROVE FailsInv'
  BY <1>O
<1>K. ASSUME /\ At("unlock")' = {}
             /\ \A v, w \in At("count_failure")' : v = w
             /\ lock'.until > 1 => \A a \in Age : guessed'[a] + Verifying' <= Passwords
             /\ \A v \in At("count_failure")' :
                  InHand(visits'[v].saw, visits'[v].until, lock'.until, guessed', Open')
             /\ At("count_failure")' = {} => StoredFails(fails', lock'.until, guessed', Open')
      PROVE  FailsInv'
  BY <1>K DEF FailsInv, Writing, Writer, OneWriter
<1>N. /\ Open \in Nat /\ Verifying \in Nat /\ Cardinality(Visitor) \in Nat
      /\ Open + Verifying <= Cardinality(Visitor)
      /\ \A v \in Uncounted : Open >= 1
  BY OpenFacts
<1>L. LeftOver \in Nat
  BY DEF LeftOver
<1>P. ASSUME NEW v \in Visitor, NEW from \in {"lock", "expire"}, Move(v, from, "verify"),
             lock.until <= 1, lock'.until = lock.until,
             fails' = fails, guessed' = guessed, overlapped' = overlapped
      PROVE  FailsInv'
  <2>1. /\ visits[v].at = from /\ visits'[v].at = "verify"
        /\ \A w \in Visitor \ {v} : visits'[w] = visits[w]
    BY <1>P, MoveFacts DEF Places
  <2>2. Open' = Open
    BY <1>N, <2>1, MoveCounts
  <2>3. At("count_failure")' = At("count_failure") /\ At("unlock")' = At("unlock")
    BY <2>1 DEF At
  <2>4. \A w \in At("count_failure") : visits'[w] = visits[w]
    BY <2>1 DEF At
  <2>5. ~Excused
    BY <1>J, <1>P DEF Excused
  <2>6. ~(lock'.until > 1)
    BY <1>P, <1>T
  <2>7. \A w \in At("count_failure")' :
          InHand(visits'[w].saw, visits'[w].until, lock'.until, guessed', Open')
    BY <1>I, <1>P, <2>2, <2>3, <2>4, <2>5
  <2>8. At("count_failure")' = {} => StoredFails(fails', lock'.until, guessed', Open')
    BY <1>I, <1>P, <2>2, <2>3, <2>5
  <2>9. At("unlock")' = {} /\ \A u, w \in At("count_failure")' : u = w
    BY <1>I, <2>3, <2>5
  <2> QED BY <1>K, <2>6, <2>7, <2>8, <2>9
<1>M. ASSUME NEW v \in Visitor, NEW from, NEW to \in Places, Move(v, from, to),
             from \notin {"verify", "failure", "count_failure", "unlock"},
             to \notin {"verify", "failure", "count_failure", "unlock"},
             fails' = fails, lock' = lock, guessed' = guessed,
             overlapped \subseteq overlapped'
      PROVE  FailsInv'
  BY <1>M, MoveFacts, FailsRest
<1>2. ASSUME NEW v \in Visitor, ReadHits(v) PROVE FailsInv'
  <2>1. PICK entry \in Current(hits) : Look(v, "gone", "hits", entry, FALSE)
    BY <1>2 DEF ReadHits
  <2>2. /\ visits[v].at = "gone" /\ visits'[v].at = Writer["hits"]
        /\ \A w \in Visitor \ {v} : visits'[w] = visits[w]
        /\ overlapped \subseteq overlapped'
    BY <2>1, <1>T DEF Look
  <2>3. visits'[v].at = "count_hit"
    BY <2>2 DEF Writer
  <2> QED BY <1>2, <2>2, <2>3, FailsRest DEF ReadHits, cells
<1>3. ASSUME NEW v \in Visitor, WriteHits(v) PROVE FailsInv'
  <2> DEFINE to == IF Admits(Counted(visits[v].saw)) THEN "lock" ELSE "gone"
  <2>1. Move(v, "count_hit", to)
    BY <1>3 DEF WriteHits
  <2>2. to \in {"lock", "gone"}
    OBVIOUS
  <2> HIDE DEF to
  <2> QED BY <1>3, <1>M, <2>1, <2>2 DEF WriteHits, Places
<1>4. ASSUME NEW v \in Visitor, CheckLock(v) PROVE FailsInv'
  <2>1. CASE Refuses(lock) \/ Expired(lock)
    <3>1. PICK to \in {"gone", "expire"} : Move(v, "lock", to)
      BY <1>4, <2>1 DEF CheckLock
    <3> QED BY <1>4, <1>M, <3>1 DEF CheckLock, cells, observed, Places
  <2>2. CASE ~(Refuses(lock) \/ Expired(lock))
    <3>1. Move(v, "lock", "verify") /\ UNCHANGED <<cells, observed>>
      BY <1>4, <2>2 DEF CheckLock
    <3>2. lock.until <= 1 /\ lock' = lock
      BY <1>T, <2>2, <3>1 DEF Refuses, cells
    <3> QED BY <1>P, <3>1, <3>2 DEF cells, observed
  <2> QED BY <2>1, <2>2
<1>14. ASSUME NEW v \in Visitor, DropLock(v) PROVE FailsInv'
  <2>1. lock.until = 0
    BY <1>14, <1>J, <1>T DEF DropLock, Excused
  <2>2. lock'.until = 0 /\ overlapped' = overlapped
    BY <1>14, <2>1 DEF DropLock, Unlocked
  <2> QED BY <1>14, <1>P, <2>1, <2>2 DEF DropLock
<1>5. ASSUME NEW v \in Visitor, Reject(v) PROVE FailsInv'
  <2>0. /\ Move(v, "verify", "failure")
        /\ fails' = fails /\ lock' = lock /\ overlapped' = overlapped
        /\ guessed' = Observe(guessed, "fails")
    BY <1>5 DEF Reject, cells, observed
  <2>1. /\ visits[v].at = "verify" /\ visits'[v].at = "failure"
        /\ \A w \in Visitor \ {v} : visits'[w] = visits[w]
    BY <2>0, MoveFacts DEF Places
  <2>2. At("count_failure")' = At("count_failure") /\ At("unlock")' = At("unlock")
    BY <2>1 DEF At
  <2>3. \A w \in At("count_failure") : visits'[w] = visits[w] /\ w \in Visitor
    BY <2>1 DEF At
  <2>4. ~Excused /\ "fails" \notin overlapped
    BY <1>J, <2>0 DEF Excused
  <2>5. Open' = Open + 1 /\ Verifying' = Verifying - 1
    BY <1>N, <2>1, MoveCounts
  <2>6. guessed' \in [Age -> Nat] /\ \A a \in Age : guessed'[a] = guessed[a] + 1
    BY <1>T, <2>0, <2>4 DEF Observe
  <2>7. \A a \in Age : guessed'[a] + Verifying' = guessed[a] + Verifying
    BY <2>5, <2>6, <1>N, <1>T
  <2>8. ASSUME NEW entry \in Entry
        PROVE  /\ FailsCover(entry, lock.until, guessed, Open) =>
                     FailsCover(entry, lock.until, guessed', Open')
               /\ Begun(entry, guessed, Open) => Begun(entry, guessed', Open')
    <3>1. lock.until \in Nat
      BY <1>T
    <3> QED BY <1>T, <1>N, <2>5, <2>6, <3>1, OneMoreWrong
  <2>9. ASSUME NEW w \in At("count_failure")'
        PROVE  InHand(visits'[w].saw, visits'[w].until, lock'.until, guessed', Open')
    <3>1. /\ InHand(visits[w].saw, visits[w].until, lock.until, guessed, Open)
          /\ visits'[w] = visits[w] /\ visits[w].saw \in Entry
      BY <1>I, <1>T, <2>2, <2>3, <2>4
    <3>2. \A a \in Age : guessed[a] <= Open - 1 => guessed'[a] <= Open' - 1
      BY <1>N, <1>T, <2>5, <2>6
    <3> QED BY <2>0, <2>8, <3>1, <3>2 DEF InHand
  <2>10. StoredFails(fails, lock.until, guessed, Open) => StoredFails(fails', lock'.until, guessed', Open')
    BY <1>T, <2>0, <2>8 DEF StoredFails
  <2> QED BY <1>I, <1>K, <2>0, <2>2, <2>4, <2>7, <2>9, <2>10
<1>6. ASSUME NEW v \in Visitor, Reset(v) PROVE FailsInv'
  BY <1>6, <1>J DEF Reset, Excused
<1>7. ASSUME NEW v \in Visitor, Unlock(v) PROVE FailsInv'
  <2>1. visits[v].at = "unlock" /\ overlapped' = overlapped
    BY <1>7 DEF Unlock, Move, observed
  <2> QED BY <1>I, <1>J, <2>1 DEF At, Excused
<1>8. ASSUME NEW v \in Visitor, ReadFailures(v) PROVE FailsInv'
  <2>0. PICK entry \in Current(fails) : Look(v, "failure", "fails", entry, FALSE)
    BY <1>8 DEF ReadFailures
  <2>1. /\ entry \in Entry
        /\ fails.left = 0 => entry.count = 0 /\ entry.left = Window
        /\ fails.left # 0 => entry.count = fails.count /\ entry.left = fails.left
    BY <1>T, <2>0, CurrentFacts
  <2>2. Look(v, "failure", "fails", entry, FALSE) /\ UNCHANGED <<fails, lock, guessed>>
    BY <1>8, <2>0 DEF ReadFailures, cells
  <2>3. /\ visits[v].at = "failure" /\ visits'[v].at = Writer["fails"]
        /\ visits'[v].saw = entry /\ visits'[v].until = Window
        /\ \A w \in Visitor \ {v} : visits'[w] = visits[w]
        /\ overlapped' = IF \E w \in Visitor \ {v} : visits[w].at = Writer["fails"]
                         THEN overlapped \cup {"fails"} ELSE overlapped
    BY <2>2, <1>T DEF Look, Busy
  <2>4. visits'[v].at = "count_failure" /\ ~Excused /\ At("count_failure") = {}
    BY <1>J, <2>3 DEF Writer, At, Excused
  <2>5. At("count_failure")' = {v} /\ At("unlock")' = At("unlock")
    BY <2>3, <2>4 DEF At
  <2>6. Open' = Open /\ Verifying' = Verifying /\ Open >= 1
    <3>1. v \in Uncounted
      BY <2>3 DEF Uncounted, At
    <3> QED BY <1>N, <2>3, <2>4, <3>1, MoveCounts
  <2>7. StoredFails(fails, lock.until, guessed, Open)
    BY <1>I, <2>4
  <2>8. InHand(entry, Window, lock.until, guessed, Open)
    <3>1. CASE fails.left = 0
      <4>1. entry.count = 0 /\ entry.left = Window
        BY <2>1, <3>1
      <4>2. FailsCover(Absent, lock.until, guessed, Open)
        <5>1. CASE fails = Absent
          BY <2>7, <5>1 DEF StoredFails
        <5>2. CASE fails # Absent
          <6>1. lock.until = 0
            BY <1>T, <2>7, <3>1, <5>2 DEF StoredFails
          <6> QED BY <1>T, <1>N, <2>7, <3>1, <5>2, <6>1, WindowRunsOut DEF StoredFails
        <5> QED BY <5>1, <5>2
      <4>3. FailsCover(entry, lock.until, guessed, Open) /\ Begun(entry, guessed, Open)
        BY <4>1, <4>2 DEF FailsCover, Begun, Absent, Elapsed, Age
      <4>4. \A a \in Age : ~(a < Elapsed(Window))
        BY DEF Age, Elapsed
      <4> QED BY <1>T, <4>1, <4>3, <4>4 DEF InHand
    <3>2. CASE fails.left # 0
      <4>1. entry.count = fails.count /\ entry.left = fails.left /\ fails # Absent
        BY <2>1, <3>2 DEF Absent
      <4>2. \A a \in Age : ~(a < Elapsed(Window))
        BY DEF Age, Elapsed
      <4>3. fails.left \in 0 .. Window
        BY <1>T DEF Entry
      <4> QED BY <2>7, <4>1, <4>2, <4>3 DEF StoredFails, InHand, FailsCover, Begun
    <3> QED BY <3>1, <3>2
  <2> QED BY <1>I, <1>K, <2>2, <2>3, <2>4, <2>5, <2>6, <2>8
<1>9. ASSUME NEW v \in Visitor, WriteFailures(v) PROVE FailsInv'
  <2> DEFINE saw == visits[v].saw
             entry == Counted(saw)
  <2>1. /\ Move(v, "count_failure", "gone") /\ overlapped' = overlapped /\ guessed' = guessed
        /\ IF Locks(entry) THEN lock'.until = visits[v].until /\ fails' = Absent
                           ELSE fails' = entry /\ lock' = lock
    BY <1>9 DEF WriteFailures, observed
  <2>2. /\ visits[v].at = "count_failure" /\ visits'[v].at = "gone"
        /\ \A w \in Visitor \ {v} : visits'[w] = visits[w]
    BY <2>1, MoveFacts DEF Places
  <2>3. ~Excused /\ v \in At("count_failure") /\ v \in Uncounted
    BY <1>J, <2>1, <2>2 DEF At, Uncounted, Excused
  <2>4. At("count_failure")' = {} /\ At("unlock")' = {}
    BY <1>I, <2>2, <2>3 DEF At
  <2>5. Open' = Open - 1 /\ Verifying' = Verifying /\ Open >= 1
    BY <1>N, <2>2, <2>3, MoveCounts
  <2>6. InHand(saw, visits[v].until, lock.until, guessed, Open)
    BY <1>I, <2>3
  <2>7. /\ saw \in Entry /\ entry \in Entry
        /\ entry.count = saw.count + 1 /\ entry.left = saw.left
        /\ saw.count \in Nat /\ saw.left \in 0 .. Window
    <3>1. saw \in Entry
      BY <1>T
    <3> QED BY <3>1, CountedFacts DEF Entry
  <2> HIDE DEF saw, entry
  <2>8. CASE Locks(entry)
    <3>1. lock'.until = visits[v].until /\ fails' = Absent /\ saw.count = MaxFailures - 1
      BY <2>1, <2>6, <2>7, <2>8 DEF Locks, InHand, FailsCover
    <3>2. \A a \in Age : a < Elapsed(lock'.until) => guessed[a] <= Open'
      BY <2>5, <2>6, <3>1 DEF InHand
    <3>3. StoredFails(fails', lock'.until, guessed', Open')
      <4>1. lock'.until <= 1 => \A a \in Age : a < Elapsed(lock'.until)
        <5>1. lock'.until \in 0 .. Window
          BY <1>T, <3>1
        <5>2. ASSUME NEW n \in 0 .. Window, n <= 1, NEW a \in Age PROVE a < Elapsed(n)
          BY <5>2 DEF Elapsed, Age
        <5> QED BY <5>1, <5>2
      <4> QED BY <1>L, <1>N, <1>T, <2>1, <2>5, <3>1, <3>2, <4>1
              DEF StoredFails, FailsCover, Absent
    <3>4. \A a \in Age : guessed[a] + Verifying <= Passwords
      <4>1. CASE lock.until > 1
        BY <1>I, <2>3, <4>1
      <4>2. CASE lock.until <= 1
        <5>1. \A a \in Age : guessed[a] <= Open + saw.count + LeftOver
          BY <2>6, <4>2 DEF InHand, FailsCover
        <5> QED BY <5>1, <3>1, <1>N, <1>T, <1>L DEF Passwords
      <4> QED BY <4>1, <4>2, <1>T
    <3> QED BY <1>K, <2>1, <2>4, <2>5, <3>3, <3>4
  <2>9. CASE ~Locks(entry)
    <3>1. lock' = lock /\ fails' = entry /\ entry.count < MaxFailures
      BY <2>1, <2>7, <2>9 DEF Locks
    <3>2. /\ FailsCover(entry, lock.until, guessed, Open - 1)
          /\ Begun(entry, guessed, Open - 1)
      <4>1. lock.until \in Nat /\ Open \in Nat /\ Open > 0
        BY <1>T, <1>N, <2>5
      <4> QED BY <1>T, <2>6, <2>7, <3>1, <4>1, OneMoreCounted DEF InHand
    <3>3. entry.count > 0 /\ entry.left >= lock.until
      BY <2>6, <2>7 DEF InHand
    <3>4. StoredFails(fails', lock'.until, guessed', Open')
      BY <2>1, <2>5, <3>1, <3>2, <3>3 DEF StoredFails
    <3> QED BY <1>I, <1>K, <2>1, <2>3, <2>4, <2>5, <3>1, <3>4
  <2> QED BY <2>8, <2>9
<1>10. ASSUME NEW v \in Visitor, ReadCaptcha(v) PROVE FailsInv'
  <2>1. Look(v, "gone", "captcha", Absent, captcha)
    BY <1>10 DEF ReadCaptcha
  <2>2. /\ visits[v].at = "gone" /\ visits'[v].at = Writer["captcha"]
        /\ \A w \in Visitor \ {v} : visits'[w] = visits[w]
        /\ overlapped \subseteq overlapped'
    BY <2>1, <1>T DEF Look
  <2>3. visits'[v].at = "drop_captcha"
    BY <2>2 DEF Writer
  <2> QED BY <1>10, <2>2, <2>3, FailsRest DEF ReadCaptcha, cells
<1>11. ASSUME NEW v \in Visitor, DropCaptcha(v) PROVE FailsInv'
  BY <1>11, <1>M DEF DropCaptcha, Places
<1>12. ASSUME Tick PROVE FailsInv'
  <2>1. /\ fails' = Older(fails) /\ lock'.until = Less(lock.until)
        /\ overlapped' = overlapped
        /\ guessed' = Shifted(guessed)
    BY <1>12 DEF Tick
  <2>2. \A v \in Visitor : /\ visits'[v].at = visits[v].at
                           /\ visits'[v].saw = Aged(visits[v].saw)
                           /\ visits'[v].until = Less(visits[v].until)
    BY <1>12, <1>T DEF Tick, Visits
  <2>3. ~Excused
    BY <1>J, <2>1 DEF Excused
  <2>4. \A at \in Places : At(at)' = At(at)
    BY <2>2 DEF At
  <2>5. /\ At("count_failure")' = At("count_failure") /\ At("unlock")' = At("unlock")
        /\ At("verify")' = At("verify") /\ At("failure")' = At("failure")
    BY <2>4 DEF Places
  <2>6. Open' = Open /\ Verifying' = Verifying
    BY <2>5 DEF Open, Verifying, Uncounted
  <2>7. \A a \in Age : /\ a \in 0 .. Window - 2 /\ (a # 0 => a - 1 \in Age)
                       /\ guessed'[a] = IF a = 0 THEN 0 ELSE guessed[a - 1]
    BY <2>1 DEF Age, Shifted
  <2>8. lock'.until > 1 => \A a \in Age : guessed'[a] + Verifying' <= Passwords
    <3>1. ASSUME lock'.until > 1, NEW a \in Age PROVE guessed'[a] + Verifying <= Passwords
      <4>1. lock.until > 1
        BY <1>T, <2>1, <3>1 DEF Less
      <4>2. CASE a = 0
        BY <1>L, <1>N, <2>7, <4>2 DEF Passwords
      <4>3. CASE a # 0
        BY <1>I, <2>3, <2>7, <4>1, <4>3
      <4> QED BY <4>2, <4>3
    <3> QED BY <2>6, <3>1
  <2>9. ASSUME NEW v \in At("count_failure")'
        PROVE  InHand(visits'[v].saw, visits'[v].until, lock'.until, guessed', Open')
    <3> DEFINE saw == visits[v].saw
               until == visits[v].until
    <3>1. v \in At("count_failure") /\ v \in Visitor /\ v \in Uncounted
      BY <2>5 DEF At, Uncounted
    <3>2. /\ InHand(saw, until, lock.until, guessed, Open) /\ Open >= 1
          /\ saw \in Entry /\ until \in 0 .. Window
      BY <1>I, <1>N, <1>T, <2>3, <3>1
    <3>3. /\ visits'[v].saw = Aged(saw) /\ visits'[v].until = Less(until)
          /\ Aged(saw) \in Entry /\ Aged(saw).count = saw.count /\ Aged(saw).left = Less(saw.left)
          /\ saw.count \in Nat /\ saw.left \in 0 .. Window
      BY <2>2, <3>1, <3>2, AgedFacts DEF Entry
    <3> HIDE DEF saw, until
    <3>4. /\ FailsCover(Aged(saw), Less(lock.until), Shifted(guessed), Open)
          /\ Begun(Aged(saw), Shifted(guessed), Open)
      <4>1. Open + saw.count > 0
        BY <1>N, <3>2, <3>3
      <4> QED BY <1>N, <1>T, <3>2, <3>3, <4>1, CoverAges DEF InHand
    <3>5. Less(saw.left) >= Less(lock.until) /\ Less(until) >= Less(saw.left)
      BY <1>T, <3>2, <3>3 DEF InHand, Less
    <3>6. ASSUME NEW a \in Age, a < Elapsed(Less(until)) PROVE guessed'[a] <= Open - 1
      <4>1. CASE a = 0
        BY <1>N, <2>7, <3>2, <4>1
      <4>2. CASE a # 0
        <5>1. a - 1 \in Age /\ a - 1 < Elapsed(until)
          BY <2>7, <3>2, <3>6, <4>2 DEF Elapsed, Less
        <5> QED BY <2>7, <3>2, <4>2, <5>1 DEF InHand
      <4> QED BY <4>1, <4>2
    <3> QED BY <2>1, <2>6, <3>3, <3>4, <3>5, <3>6 DEF InHand
  <2>10. ASSUME At("count_failure")' = {} PROVE StoredFails(fails', lock'.until, guessed', Open')
    <3>1. StoredFails(fails, lock.until, guessed, Open)
      BY <1>I, <2>3, <2>5, <2>10
    <3>2. /\ Aged(fails) \in Entry /\ Aged(fails).count = fails.count
          /\ Aged(fails).left = Less(fails.left)
          /\ fails.count \in Nat /\ fails.left \in 0 .. Window
      BY <1>T, AgedFacts DEF Entry
    <3>3. FailsCover(Aged(fails), Less(lock.until), Shifted(guessed), Open)
      BY <1>N, <1>T, <3>1, <3>2, CoverAges DEF StoredFails
    <3>4. fails # Absent => /\ Begun(Aged(fails), Shifted(guessed), Open)
                            /\ fails.count > 0 /\ fails.left >= lock.until
      <4>1. fails # Absent => Open + fails.count > 0
        BY <1>N, <3>1, <3>2 DEF StoredFails
      <4> QED BY <1>N, <1>T, <3>1, <3>2, <4>1, CoverAges DEF StoredFails
    <3>7. \/ Older(fails) = Absent /\ fails.left <= 2
          \/ Older(fails).count = fails.count /\ Older(fails).left = Less(fails.left)
      BY <1>T, OlderFacts DEF LivesInv
    <3>5. CASE fails = Absent
      <4>1. Older(fails) = Absent /\ Aged(fails).count = 0
        BY <3>2, <3>5 DEF Older, Absent
      <4>2. FailsCover(Absent, Less(lock.until), Shifted(guessed), Open)
        BY <3>3, <4>1 DEF FailsCover, Absent
      <4> QED BY <2>1, <2>6, <4>1, <4>2 DEF StoredFails
    <3>6. CASE fails # Absent /\ Older(fails) = Absent /\ fails.left <= 2
      <4>1. /\ Less(fails.left) <= 1 /\ Less(lock.until) <= 1
            /\ Less(lock.until) \in 0 .. Window
        BY <1>T, <3>2, <3>4, <3>6 DEF Less
      <4>2. Shifted(guessed) \in [Age -> Nat]
        BY <1>T, <2>7 DEF Shifted
      <4>3. FailsCover(Absent, Less(lock.until), Shifted(guessed), Open)
        BY <1>N, <3>2, <3>3, <3>4, <3>6, <4>1, <4>2, WindowRunsOut
      <4> QED BY <2>1, <2>6, <3>6, <4>3 DEF StoredFails
    <3>8. CASE /\ fails # Absent
               /\ Older(fails).count = fails.count /\ Older(fails).left = Less(fails.left)
      <4>1. Less(fails.left) >= Less(lock.until)
        BY <1>T, <3>2, <3>4, <3>8 DEF Less
      <4>2. /\ FailsCover(Older(fails), Less(lock.until), Shifted(guessed), Open)
            /\ Begun(Older(fails), Shifted(guessed), Open)
        BY <3>2, <3>3, <3>4, <3>8 DEF FailsCover, Begun
      <4> QED BY <2>1, <2>6, <3>4, <3>8, <4>1, <4>2 DEF StoredFails
    <3> QED BY <3>5, <3>6, <3>7, <3>8
  <2> QED BY <1>I, <1>K, <2>3, <2>5, <2>8, <2>9, <2>10
<1>13. CASE UNCHANGED limitsVars
  BY <1>13, FailsRest DEF limitsVars, cells, observed
<1> QED
  BY <1>2, <1>3, <1>4, <1>5, <1>6, <1>7, <1>8, <1>9, <1>10, <1>11, <1>12, <1>13,
     <1>14
  DEF LimitsNext, Login, Registration

-----------------------------------------------------------------------------
(* The captcha, and all of them. *)

\* Once an answer has been handled the captcha is gone for good.
LEMMA CaptchaStep ==
    LimitsTypeOK /\ CaptchaInv /\ [LimitsNext]_limitsVars => CaptchaInv'
<1> SUFFICES ASSUME LimitsTypeOK, CaptchaInv, [LimitsNext]_limitsVars PROVE CaptchaInv'
  OBVIOUS
<1>1. captcha \in BOOLEAN /\ answered \in BOOLEAN /\ reused \in BOOLEAN
  BY DEF LimitsTypeOK
<1>2. ASSUME NEW v \in Visitor, ReadCaptcha(v) PROVE CaptchaInv'
  BY <1>1, <1>2 DEF CaptchaInv, ReadCaptcha, cells
<1>3. ASSUME NEW v \in Visitor, DropCaptcha(v) PROVE CaptchaInv'
  BY <1>1, <1>3 DEF CaptchaInv, DropCaptcha, Drops
<1>4. ASSUME UNCHANGED <<captcha, answered, reused>> PROVE CaptchaInv'
  BY <1>4 DEF CaptchaInv
<1>5. ASSUME NEW v \in Visitor, Login(v) PROVE CaptchaInv'
  BY <1>4, <1>5 DEF Login, ReadHits, WriteHits, CheckLock, DropLock, Reject,
     Reset, Unlock, ReadFailures, WriteFailures, cells, observed
<1>6. CASE Tick \/ UNCHANGED limitsVars
  BY <1>4, <1>6 DEF Tick, limitsVars, cells, observed
<1> QED BY <1>2, <1>3, <1>5, <1>6 DEF LimitsNext, Registration

\* Nobody has come yet: no counter, no lock, nothing observed.
LEMMA LimitsInitially == LimitsInit => LimitsIInv
<1> SUFFICES ASSUME LimitsInit PROVE LimitsIInv
  OBVIOUS
<1> USE LimitsAssumption
<1>1. Gone \in Visits /\ Gone.at = "gone"
  BY DEF Gone, EmptyHanded, Visits, Places, Absent, Entry
<1>2. LimitsTypeOK
  <2>1. visits \in [Visitor -> Visits]
    BY <1>1 DEF LimitsInit
  <2>2. captcha \in BOOLEAN /\ answered \in BOOLEAN /\ reused \in BOOLEAN
    BY Zenon DEF LimitsInit
  <2>3. /\ hits \in Entry /\ fails \in Entry
        /\ lock \in [until : 0 .. Window, life : 0 .. Window]
        /\ overlapped \subseteq {"hits", "fails", "lock", "captcha"}
        /\ admitted \in [Age -> Nat] /\ guessed \in [Age -> Nat]
    BY DEF LimitsInit, Absent, Entry, Unlocked
  <2> QED BY <2>1, <2>2, <2>3 DEF LimitsTypeOK
<1>3. \A place \in Places \ {"gone"} : At(place) = {}
  BY <1>1 DEF LimitsInit, At
<1>4. HitsInv
  <2>1. Writing("hits") = {}
    BY <1>3 DEF Writing, Writer, Places
  <2> QED BY <2>1 DEF LimitsInit, HitsInv, OneWriter, Absent
<1>5. FailsInv
  <2>1. Writing("fails") = {} /\ At("unlock") = {}
    BY <1>3 DEF Writing, Writer, Places
  <2>2. StoredFails(fails, lock.until, guessed, Open)
    <3>1. Open \in Nat /\ LeftOver \in Nat
      BY <1>2, OpenFacts DEF LeftOver
    <3> QED BY <3>1 DEF LimitsInit, StoredFails, FailsCover, Absent, Unlocked
  <2> QED BY <2>1, <2>2 DEF LimitsInit, FailsInv, OneWriter, Unlocked
<1>6. LivesInv
  BY DEF LimitsInit, LivesInv, LivesLong, Gone, EmptyHanded, Absent
<1> QED BY <1>2, <1>4, <1>5, <1>6 DEF LimitsInit, LimitsIInv, CaptchaInv

\* rate_limit.py, captcha.py: the cells hold what their type says.
THEOREM LimitsTypeCorrect == LimitsSpec => []LimitsTypeOK
<1>1. LimitsInit => LimitsTypeOK
  BY LimitsInitially DEF LimitsIInv
<1> QED BY <1>1, LimitsTypeStep, PTL DEF LimitsSpec

\* The invariant of the guards is inductive.
THEOREM LimitsInductive == LimitsSpec => []LimitsIInv
<1>1. LimitsIInv /\ [LimitsNext]_limitsVars => LimitsIInv'
  BY LimitsTypeStep, LivesStep, HitsStep, FailsStep, CaptchaStep DEF LimitsIInv
<1> QED BY <1>1, LimitsInitially, PTL DEF LimitsSpec

\* What the counters cover bounds what gets through.
LEMMA LimitsIInvSuffices == LimitsIInv => LimitsHold
<1> SUFFICES ASSUME LimitsIInv PROVE LimitsHold
  OBVIOUS
<1> USE LimitsAssumption
<1>T. /\ LimitsTypeOK /\ hits \in Entry /\ Window - 2 \in Age /\ lock.until \in 0 .. Window
      /\ admitted[Window - 2] \in Nat /\ guessed[Window - 2] \in Nat
      /\ \A v \in Visitor : visits[v].saw \in Entry
  BY DEF LimitsIInv, LimitsTypeOK, Visits, Age
<1>1. BurstsAreBounded
  <2>1. ASSUME NEW e \in Entry, HitsCover(e, admitted)
        PROVE  admitted[Window - 2] <= 2 * Limit
    <3>1. AdmittedWithin(e.count) \in Nat /\ AdmittedWithin(e.count) <= Limit
      BY AdmittedGrows DEF Entry
    <3> QED BY <1>T, <2>1, <3>1 DEF HitsCover
  <2>2. CASE "hits" \in overlapped
    BY <2>2 DEF BurstsAreBounded
  <2>3. CASE "hits" \notin overlapped /\ Writing("hits") # {}
    BY <1>T, <2>1, <2>3 DEF BurstsAreBounded, LimitsIInv, HitsInv, Writing, At
  <2>4. CASE "hits" \notin overlapped /\ Writing("hits") = {}
    <3>1. IF hits.left = 0 THEN \A a \in Age : admitted[a] <= Limit ELSE HitsCover(hits, admitted)
      BY <2>4 DEF LimitsIInv, HitsInv
    <3> QED BY <1>T, <2>1, <3>1 DEF BurstsAreBounded
  <2> QED BY <2>2, <2>3, <2>4
<1>2. GuessesAreBounded
  <2>1. CASE Excused
    BY <2>1 DEF GuessesAreBounded, Excused
  <2>2. CASE ~Excused
    <3>1. /\ Open \in Nat /\ Verifying \in Nat /\ Cardinality(Visitor) \in Nat
          /\ Open + Verifying <= Cardinality(Visitor) /\ LeftOver \in Nat
      BY <1>T, OpenFacts DEF LeftOver
    <3>2. ASSUME NEW e \in Entry, lock.until <= 1, FailsCover(e, lock.until, guessed, Open)
          PROVE  guessed[Window - 2] <= Passwords
      <4>1. guessed[Window - 2] <= Open + e.count + LeftOver /\ e.count < MaxFailures
        BY <1>T, <3>2 DEF FailsCover
      <4>2. e.count \in Nat
        BY DEF Entry
      <4> QED BY <1>T, <3>1, <4>1, <4>2 DEF Passwords
    <3>3. CASE lock.until <= 1
      <4>1. \E e \in Entry : FailsCover(e, lock.until, guessed, Open)
        <5>1. CASE Writing("fails") # {}
          BY <1>T, <2>2, <3>3, <5>1 DEF LimitsIInv, FailsInv, InHand, Writing, At
        <5>2. CASE Writing("fails") = {}
          BY <2>2, <3>3, <5>2 DEF LimitsIInv, FailsInv, StoredFails, LimitsTypeOK
        <5> QED BY <5>1, <5>2
      <4>2. guessed[Window - 2] <= Passwords
        BY <3>2, <3>3, <4>1
      <4> QED BY <4>2 DEF GuessesAreBounded, Passwords
    <3>4. CASE lock.until > 1
      <4>1. guessed[Window - 2] + Verifying <= Passwords
        BY <1>T, <2>2, <3>4 DEF LimitsIInv, FailsInv
      <4>2. Passwords \in Int
        BY <3>1 DEF Passwords
      <4>3. guessed[Window - 2] <= Passwords
        BY <1>T, <3>1, <4>1, <4>2
      <4> QED BY <4>3 DEF GuessesAreBounded, Passwords
    <3> QED BY <1>T, <3>3, <3>4
  <2> QED BY <2>1, <2>2
<1>3. CaptchaServesOneLook
  BY DEF LimitsIInv, CaptchaInv, CaptchaServesOneLook
<1> QED BY <1>1, <1>2, <1>3 DEF LimitsHold

\* RateLimiter, LoginGuard, consume_captcha: for any number of requests, windows
\* and limits, what the three guards let through is what their counters allow.
THEOREM LimitsAlwaysHold == LimitsSpec => []LimitsHold
BY LimitsInductive, LimitsIInvSuffices, PTL

-----------------------------------------------------------------------------
(***************************************************************************)
(* Assistant, for any budgets, tokens and confirming requests.             *)
(*                                                                         *)
(* The argument for the confirmations: a token that no two requests have   *)
(* found at once has one holder; it is stored only until that holder       *)
(* drops it, and has not been executed while it is stored or held.  For    *)
(* the chat: the calls without a result are those of the last answer that  *)
(* are still to be handled, and a token is in the transaction of the chat  *)
(* before any request can find it.                                         *)
(***************************************************************************)

Chat == [at : {"quiet", "ask", "call"}, admin : BOOLEAN, turn : Nat, used : Nat,
         spent : Nat, left : Nat, open : Nat, work : SUBSET (Token \cup {Change})]
Confirmation == [at : {"idle", "found", "taken"}, admin : BOOLEAN, token : Token \cup {"none"}]

AssistantShape ==
    /\ stream \in Chat
    /\ confirming \in [Confirm -> Confirmation]
    /\ store \in [Token -> {"new", "stored", "gone"}]
    /\ ran \in [Token -> Nat]
    /\ isAdmin \in BOOLEAN
    /\ \A c \in Confirm : confirming[c].at # "idle" => confirming[c].token \in Token

HasToken(c, t) == confirming[c].at # "idle" /\ confirming[c].token = t

\* A token has one holder, and is executed by the one that took it.
TokenInv ==
    \A t \in Token : t \notin raced =>
        /\ \A c, d \in Confirm : HasToken(c, t) /\ HasToken(d, t) => c = d
        /\ store[t] # "gone" \/ (\E c \in Confirm : HasToken(c, t)) => ran[t] = 0
        /\ \A c \in Confirm : HasToken(c, t) /\ confirming[c].at = "taken" => store[t] = "gone"
        /\ ran[t] <= 1

\* A call has its result when the model is asked.
CallInv ==
    /\ stream.at = "call" => stream.open = stream.left
    /\ stream.at # "call" => stream.open = 0

\* Whoever has found a token has found it in the chat that asked for it.
AskedInv ==
    \A t \in Token :
        store[t] # "new" \/ (\E c \in Confirm : HasToken(c, t)) \/ ran[t] > 0 =>
            /\ store[t] # "new"
            /\ t \in saved \cup stream.work \cup lost

AssistantInv == AssistantShape /\ TokenInv /\ CallInv /\ AskedInv

-----------------------------------------------------------------------------
(* The chat. *)

\* Token invariants do not depend on the chat, but for tokens that it stores.
LEMMA ChatKeepsTokens ==
    ASSUME TokenInv, UNCHANGED <<confirming, ran, raced>>,
           \A t \in Token : store'[t] = store[t] \/ (store[t] = "new" /\ store'[t] = "stored")
    PROVE  TokenInv'
BY DEF TokenInv, HasToken

\* A step of the chat that leaves the confirming requests alone keeps the shape.
LEMMA ConfirmingKept ==
    ASSUME AssistantShape, UNCHANGED <<confirming, ran, isAdmin>>, stream' \in Chat,
           store' \in [Token -> {"new", "stored", "gone"}]
    PROVE  AssistantShape'
BY DEF AssistantShape

\* What was asked for stays where it is looked for.
LEMMA AskedKept ==
    ASSUME AskedInv, UNCHANGED <<confirming, ran, store>>,
           saved \cup stream.work \cup lost \subseteq saved' \cup stream'.work \cup lost'
    PROVE  AskedInv'
BY DEF AskedInv, HasToken

\* No chat, no token stored, no request.
LEMMA AssistantInitInv == AssistantInit => AssistantInv
<1> SUFFICES ASSUME AssistantInit PROVE AssistantInv
    OBVIOUS
<1>1. AssistantShape
    BY DEF AssistantInit, AssistantShape, Chat, Confirmation, Quiet, Unbound
<1>2. TokenInv
    BY DEF AssistantInit, TokenInv, HasToken, Unbound
<1>3. CallInv
    BY DEF AssistantInit, CallInv, Quiet
<1>4. AskedInv
    BY DEF AssistantInit, AskedInv, HasToken, Unbound
<1> QED BY <1>1, <1>2, <1>3, <1>4 DEF AssistantInv

\* The end of a chat, however it comes about.
LEMMA EndOfChat ==
    ASSUME AssistantInv, stream' = Quiet, UNCHANGED <<isAdmin, confirming, ran, raced, store>>,
           saved \cup stream.work \cup lost \subseteq saved' \cup lost'
    PROVE  AssistantInv'
<1>1. Quiet \in Chat /\ Quiet.work = {}
    BY DEF Quiet, Chat
<1>2. AssistantShape'
    BY <1>1, ConfirmingKept DEF AssistantInv, AssistantShape
<1>3. TokenInv'
    BY ChatKeepsTokens DEF AssistantInv
<1>4. CallInv'
    BY DEF CallInv, Quiet
<1>5. AskedInv'
    BY <1>1, AskedKept DEF AssistantInv
<1> QED BY <1>2, <1>3, <1>4, <1>5 DEF AssistantInv

\* A chat begins with the calls of no answer open.
LEMMA BeginStreamStep == AssistantInv /\ BeginStream => AssistantInv'
<1> SUFFICES ASSUME AssistantInv, BeginStream PROVE AssistantInv'
    OBVIOUS
<1>1. stream' \in Chat /\ stream'.at = "ask" /\ stream'.open = 0 /\ stream'.work = {}
    BY DEF AssistantInv, AssistantShape, BeginStream, Chat, Quiet
<1>2. stream.work = {}
    BY DEF BeginStream, Quiet
<1>3. AssistantShape'
    BY <1>1, ConfirmingKept DEF AssistantInv, AssistantShape, BeginStream
<1>4. TokenInv'
    BY ChatKeepsTokens DEF AssistantInv, BeginStream
<1>5. CallInv'
    BY <1>1 DEF CallInv
<1>6. AskedInv'
    BY <1>1, <1>2, AskedKept DEF AssistantInv, BeginStream
<1> QED BY <1>3, <1>4, <1>5, <1>6 DEF AssistantInv

\* An answer ends the turn, or opens as many calls as it has.
LEMMA AnswerStep == AssistantInv /\ Answer => AssistantInv'
<1> SUFFICES ASSUME AssistantInv, Answer PROVE AssistantInv'
    OBVIOUS
<1> USE AssistantAssumption
<1>1. CASE CloseStream
    BY <1>1, EndOfChat DEF Answer, CloseStream, ChatOnly
<1>2. ASSUME NEW n \in 1 .. MaxBatch, NEW cost \in 0 .. MaxCost, saved' = saved,
             stream' = [stream EXCEPT !.at = "call", !.spent = @ + cost,
                                      !.left = n, !.open = @ + n]
      PROVE  AssistantInv'
  <2>1. stream \in Chat /\ stream.open = 0
      BY DEF AssistantInv, AssistantShape, CallInv, Answer
  <2>2. /\ stream' \in Chat /\ stream'.at = "call"
        /\ stream'.open = n /\ stream'.left = n /\ stream'.work = stream.work
    <3>1. stream.open + n = n /\ n \in Nat
        BY <2>1
    <3>2. stream' = [stream EXCEPT !.at = "call", !.spent = stream.spent + cost,
                                   !.left = n, !.open = n]
        BY <1>2, <3>1
    <3>3. stream.spent + cost \in Nat /\ n \in Nat
        BY <2>1, <3>1 DEF Chat
    <3> QED BY <2>1, <3>2, <3>3 DEF Chat
  <2>3. AssistantShape'
      BY <2>2, ConfirmingKept DEF AssistantInv, AssistantShape, Answer, ChatOnly
  <2>4. TokenInv'
      BY ChatKeepsTokens DEF AssistantInv, Answer, ChatOnly
  <2>5. CallInv'
      BY <2>2 DEF CallInv
  <2>6. AskedInv'
      BY <1>2, <2>2, AskedKept DEF AssistantInv, Answer, ChatOnly
  <2> QED BY <2>3, <2>4, <2>5, <2>6 DEF AssistantInv
<1> QED BY <1>1, <1>2 DEF Answer

\* A handled call: one call less, and one result more.
LEMMA AnsweredFacts ==
    ASSUME AssistantShape, CallInv, MayCall, NEW work \in SUBSET (Token \cup {Change})
    PROVE  LET next == Answered(work)
           IN /\ next \in Chat /\ next.at = "call" /\ next.open = next.left
              /\ next.work = work
<1>1. /\ stream \in Chat /\ stream.at = "call" /\ stream.open = stream.left
      /\ stream.left \in Nat /\ stream.used \in Nat /\ stream.left > 0
    BY DEF AssistantShape, CallInv, MayCall, Chat
<1>2. PICK n \in Nat, m \in Nat : n = stream.left - 1 /\ m = stream.used + 1
    BY <1>1
<1>3. Answered(work) = [stream EXCEPT !.left = n, !.open = n, !.used = m, !.work = work]
    BY <1>1, <1>2 DEF Answered
<1> QED BY <1>1, <1>3 DEF Chat

\* A call without token is handled: one less is open and one less is left.
LEMMA CallStep == AssistantInv /\ (CallWithoutEffect \/ CallDenied \/ CallMutating) => AssistantInv'
<1> SUFFICES ASSUME AssistantInv, CallWithoutEffect \/ CallDenied \/ CallMutating PROVE AssistantInv'
    OBVIOUS
<1>1. MayCall /\ store' = store /\ lost' = lost /\ ChatOnly
    BY DEF CallWithoutEffect, CallDenied, CallMutating
<1>2. PICK work \in SUBSET (Token \cup {Change}) :
         stream' = Answered(work) /\ saved \cup stream.work \subseteq saved' \cup work
  <2>1. stream.work \in SUBSET (Token \cup {Change})
      BY DEF AssistantInv, AssistantShape, Chat
  <2> QED BY <2>1 DEF CallWithoutEffect, CallDenied, CallMutating
<1>3. stream' \in Chat /\ stream'.at = "call" /\ stream'.open = stream'.left /\ stream'.work = work
    BY <1>1, <1>2, AnsweredFacts DEF AssistantInv
<1>4. AssistantShape'
    BY <1>1, <1>3, ConfirmingKept DEF AssistantInv, AssistantShape, ChatOnly
<1>5. TokenInv'
    BY <1>1, ChatKeepsTokens DEF AssistantInv, ChatOnly
<1>6. CallInv'
    BY <1>3 DEF CallInv
<1>7. AskedInv'
    BY <1>1, <1>2, <1>3, AskedKept DEF AssistantInv, ChatOnly
<1> QED BY <1>4, <1>5, <1>6, <1>7 DEF AssistantInv

\* A token is stored in the transaction of the chat before anyone can find it.
LEMMA DangerousStep == AssistantInv /\ CallDangerous => AssistantInv'
<1> SUFFICES ASSUME AssistantInv, CallDangerous PROVE AssistantInv'
    OBVIOUS
<1>1. PICK t \in Token :
         /\ store[t] = "new"
         /\ store' = [store EXCEPT ![t] = "stored"]
         /\ stream' = Answered(stream.work \cup {t})
    BY DEF CallDangerous
<1>2. MayCall /\ ChatOnly /\ saved' = saved /\ lost' = lost
    BY DEF CallDangerous
<1>3. stream.work \cup {t} \in SUBSET (Token \cup {Change})
    BY DEF AssistantInv, AssistantShape, Chat
<1>4. /\ stream' \in Chat /\ stream'.at = "call" /\ stream'.open = stream'.left
      /\ stream'.work = stream.work \cup {t}
    BY <1>1, <1>2, <1>3, AnsweredFacts DEF AssistantInv
<1>5. store' \in [Token -> {"new", "stored", "gone"}]
    BY <1>1 DEF AssistantInv, AssistantShape
<1>6. AssistantShape'
    BY <1>2, <1>4, <1>5, ConfirmingKept DEF AssistantInv, ChatOnly
<1>7. TokenInv'
  <2>1. \A u \in Token : store'[u] = store[u] \/ (store[u] = "new" /\ store'[u] = "stored")
      BY <1>1 DEF AssistantInv, AssistantShape
  <2> QED BY <1>2, <2>1, ChatKeepsTokens DEF AssistantInv, ChatOnly
<1>8. CallInv'
    BY <1>4 DEF CallInv
<1>9. AskedInv'
    BY <1>1, <1>2, <1>4 DEF AssistantInv, AssistantShape, AskedInv, HasToken, ChatOnly
<1> QED BY <1>6, <1>7, <1>8, <1>9 DEF AssistantInv

\* What the chat has written is saved; every call has its result.
LEMMA EndTurnStep == AssistantInv /\ EndTurn => AssistantInv'
<1> SUFFICES ASSUME AssistantInv, EndTurn PROVE AssistantInv'
    OBVIOUS
<1>1. CASE CloseStream
    BY <1>1, EndOfChat DEF EndTurn, CloseStream, ChatOnly
<1>2. CASE stream' = [stream EXCEPT !.at = "ask", !.turn = @ + 1] /\ saved' = saved
  <2>1. stream \in Chat /\ stream.open = 0
      BY DEF AssistantInv, AssistantShape, CallInv, EndTurn
  <2>2. /\ stream' \in Chat /\ stream'.at = "ask" /\ stream'.open = 0
        /\ stream'.work = stream.work
    <3>1. PICK n \in Nat : n = stream.turn + 1
        BY <2>1 DEF Chat
    <3>2. stream' = [stream EXCEPT !.at = "ask", !.turn = n]
        BY <1>2, <3>1
    <3> QED BY <2>1, <3>2 DEF Chat
  <2>3. AssistantShape'
      BY <2>2, ConfirmingKept DEF AssistantInv, AssistantShape, EndTurn, ChatOnly
  <2>4. TokenInv'
      BY ChatKeepsTokens DEF AssistantInv, EndTurn, ChatOnly
  <2>5. CallInv'
      BY <2>2 DEF CallInv
  <2>6. AskedInv'
      BY <1>2, <2>2, AskedKept DEF AssistantInv, EndTurn, ChatOnly
  <2> QED BY <2>3, <2>4, <2>5, <2>6 DEF AssistantInv
<1> QED BY <1>1, <1>2 DEF EndTurn

\* The chat ends: an answer without calls, an error, a budget or a broken line.
LEMMA CloseStep == AssistantInv /\ (ModelFails \/ StopInside \/ BreakStream) => AssistantInv'
BY EndOfChat DEF ModelFails, StopInside, StopTheLoop, BreakStream, CloseStream, ChatOnly

-----------------------------------------------------------------------------
(* The confirmations. *)

\* Only the chat changes what the model is told.
LEMMA ChatKept ==
    ASSUME CallInv, stream' = stream
    PROVE  CallInv'
BY DEF CallInv

\* A request finds a stored token: it is the first to hold it, or the token is raced.
LEMMA FindStep == ASSUME NEW c \in Confirm PROVE AssistantInv /\ FindToken(c) => AssistantInv'
<1> SUFFICES ASSUME AssistantInv, FindToken(c) PROVE AssistantInv'
    OBVIOUS
<1>1. PICK t \in Token :
         /\ store[t] = "stored"
         /\ confirming' = [confirming EXCEPT ![c] =
                             [at |-> "found", admin |-> isAdmin, token |-> t]]
         /\ raced' = IF \E d \in Confirm : /\ confirming[d].at = "found"
                                           /\ confirming[d].token = t
                     THEN raced \cup {t} ELSE raced
    BY DEF FindToken
<1>2. /\ UNCHANGED <<isAdmin, stream, streams, saved, lost, store, ran>>
      /\ confirming[c].at = "idle"
    BY DEF FindToken, ConfirmOnly, Unbound
<1>3. AssistantShape'
    BY <1>1, <1>2 DEF AssistantInv, AssistantShape, Confirmation
<1>4. /\ \A u \in Token : HasToken(c, u)' <=> u = t
      /\ \A d \in Confirm, u \in Token : d # c => (HasToken(d, u)' <=> HasToken(d, u))
      /\ \A d \in Confirm : d # c => confirming'[d] = confirming[d]
    BY <1>1 DEF AssistantInv, AssistantShape, HasToken
<1>5. TokenInv'
  <2> SUFFICES ASSUME NEW u \in Token, u \notin raced'
               PROVE  /\ \A d, e \in Confirm : HasToken(d, u)' /\ HasToken(e, u)' => d = e
                      /\ store[u] # "gone" \/ (\E d \in Confirm : HasToken(d, u)') => ran[u] = 0
                      /\ \A d \in Confirm :
                           HasToken(d, u)' /\ confirming'[d].at = "taken" => store[u] = "gone"
                      /\ ran[u] <= 1
      BY <1>2 DEF TokenInv
  <2>1. u \notin raced
      BY <1>1
  <2>2. /\ \A d, e \in Confirm : HasToken(d, u) /\ HasToken(e, u) => d = e
        /\ store[u] # "gone" \/ (\E d \in Confirm : HasToken(d, u)) => ran[u] = 0
        /\ \A d \in Confirm : HasToken(d, u) /\ confirming[d].at = "taken" => store[u] = "gone"
        /\ ran[u] <= 1
      BY <2>1 DEF AssistantInv, TokenInv
  <2>3. CASE u = t
    <3>1. \A d \in Confirm : ~HasToken(d, t)
        BY <1>1, <2>2, <2>3 DEF AssistantInv, AssistantShape, Confirmation, HasToken
    <3>2. confirming'[c].at = "found"
        BY <1>1 DEF AssistantInv, AssistantShape
    <3> QED BY <1>1, <1>4, <2>2, <2>3, <3>1, <3>2
  <2>4. CASE u # t
      BY <1>4, <2>2, <2>4
  <2> QED BY <2>3, <2>4
<1>6. AskedInv'
    BY <1>1, <1>2, <1>4 DEF AssistantInv, AskedInv
<1> QED BY <1>2, <1>3, <1>5, <1>6, ChatKept DEF AssistantInv

\* The holder drops the token, so that nobody finds it again.
LEMMA DropTokenStep == ASSUME NEW c \in Confirm PROVE AssistantInv /\ DropToken(c) => AssistantInv'
<1> SUFFICES ASSUME AssistantInv, DropToken(c) PROVE AssistantInv'
    OBVIOUS
<1> DEFINE t == confirming[c].token
<1>1. /\ confirming[c].at = "found" /\ t \in Token
      /\ store' = [store EXCEPT ![t] = "gone"]
      /\ confirming' = [confirming EXCEPT ![c].at = "taken"]
      /\ UNCHANGED <<isAdmin, stream, streams, saved, lost, ran, raced>>
    BY DEF AssistantInv, AssistantShape, DropToken, ConfirmOnly, Taken
<1>2. /\ \A d \in Confirm, u \in Token : HasToken(d, u)' <=> HasToken(d, u)
      /\ \A d \in Confirm : d # c => confirming'[d].at = confirming[d].at
      /\ \A u \in Token : u # t => store'[u] = store[u]
      /\ store'[t] = "gone" /\ HasToken(c, t)
    BY <1>1 DEF AssistantInv, AssistantShape, Confirmation, HasToken
<1> HIDE DEF t
<1>3. AssistantShape'
    BY <1>1 DEF AssistantInv, AssistantShape, Confirmation
<1>4. TokenInv'
    BY <1>1, <1>2 DEF AssistantInv, TokenInv, HasToken
<1>5. AskedInv'
  <2>1. t \in saved \cup stream.work \cup lost
      BY <1>1, <1>2 DEF AssistantInv, AskedInv
  <2> QED BY <1>1, <1>2, <2>1 DEF AssistantInv, AskedInv
<1> QED BY <1>1, <1>3, <1>4, <1>5, ChatKept DEF AssistantInv

\* A holder is done with its token, with or without an effect.
LEMMA ExecuteStep == ASSUME NEW c \in Confirm PROVE AssistantInv /\ Execute(c) => AssistantInv'
<1> SUFFICES ASSUME AssistantInv, Execute(c) PROVE AssistantInv'
    OBVIOUS
<1> DEFINE t == confirming[c].token
<1>1. /\ confirming[c].at = "taken" /\ t \in Token
      /\ ran' = [ran EXCEPT ![t] = @ + 1]
      /\ confirming' = [confirming EXCEPT ![c] = Unbound]
      /\ UNCHANGED <<isAdmin, stream, streams, saved, lost, store, raced>>
    BY DEF AssistantInv, AssistantShape, Execute, ConfirmOnly
<1>2. /\ HasToken(c, t)
      /\ \A u \in Token : ~HasToken(c, u)'
      /\ \A d \in Confirm, u \in Token : d # c => (HasToken(d, u)' <=> HasToken(d, u))
      /\ \A d \in Confirm : d # c => confirming'[d] = confirming[d]
      /\ ran'[t] = ran[t] + 1 /\ \A u \in Token : u # t => ran'[u] = ran[u]
    BY <1>1 DEF AssistantInv, AssistantShape, HasToken, Unbound
<1> HIDE DEF t
<1>3. AssistantShape'
    BY <1>1 DEF AssistantInv, AssistantShape, Confirmation, Unbound
<1>4. TokenInv'
  <2> SUFFICES ASSUME NEW u \in Token, u \notin raced
               PROVE  /\ \A d, e \in Confirm : HasToken(d, u)' /\ HasToken(e, u)' => d = e
                      /\ store[u] # "gone" \/ (\E d \in Confirm : HasToken(d, u)') => ran'[u] = 0
                      /\ \A d \in Confirm :
                           HasToken(d, u)' /\ confirming'[d].at = "taken" => store[u] = "gone"
                      /\ ran'[u] <= 1
      BY <1>1 DEF TokenInv
  <2>1. /\ \A d, e \in Confirm : HasToken(d, u) /\ HasToken(e, u) => d = e
        /\ store[u] # "gone" \/ (\E d \in Confirm : HasToken(d, u)) => ran[u] = 0
        /\ \A d \in Confirm : HasToken(d, u) /\ confirming[d].at = "taken" => store[u] = "gone"
        /\ ran[u] <= 1
      BY DEF AssistantInv, TokenInv
  <2>2. CASE u = t
    <3>1. store[u] = "gone"
        BY <1>1, <1>2, <2>1, <2>2
    <3>2. ran[u] = 0
        BY <1>2, <2>1, <2>2
    <3>3. ran'[u] = 1
        BY <1>2, <2>2, <3>2
    <3>4. \A d \in Confirm : ~HasToken(d, u)'
      <4> TAKE d \in Confirm
      <4>1. CASE d = c
          BY <1>2, <4>1
      <4>2. CASE d # c
          BY <1>2, <2>1, <2>2, <4>2
      <4> QED BY <4>1, <4>2
    <3> QED BY <3>1, <3>3, <3>4
  <2>3. CASE u # t
      BY <1>2, <2>1, <2>3
  <2> QED BY <2>2, <2>3
<1>5. AskedInv'
  <2>1. store[t] # "new" /\ t \in saved \cup stream.work \cup lost
      BY <1>1, <1>2 DEF AssistantInv, AskedInv
  <2> QED BY <1>1, <1>2, <2>1 DEF AssistantInv, AskedInv
<1> QED BY <1>1, <1>3, <1>4, <1>5, ChatKept DEF AssistantInv

\* A request that fails holds nothing any more.
LEMMA LoseStep == ASSUME NEW c \in Confirm PROVE AssistantInv /\ LoseConfirmation(c) => AssistantInv'
<1> SUFFICES ASSUME AssistantInv, LoseConfirmation(c) PROVE AssistantInv'
    OBVIOUS
<1>1. /\ confirming' = [confirming EXCEPT ![c] = Unbound]
      /\ UNCHANGED <<isAdmin, stream, streams, saved, lost, store, ran, raced>>
    BY DEF LoseConfirmation, ConfirmOnly
<1>2. /\ \A u \in Token : ~HasToken(c, u)'
      /\ \A d \in Confirm, u \in Token : d # c => (HasToken(d, u)' <=> HasToken(d, u))
      /\ \A d \in Confirm : d # c => confirming'[d] = confirming[d]
    BY <1>1 DEF AssistantInv, AssistantShape, HasToken, Unbound
<1>3. AssistantShape'
    BY <1>1 DEF AssistantInv, AssistantShape, Confirmation, Unbound
<1>4. TokenInv'
    BY <1>1, <1>2 DEF AssistantInv, TokenInv
<1>5. AskedInv'
    BY <1>1, <1>2 DEF AssistantInv, AskedInv
<1> QED BY <1>1, <1>3, <1>4, <1>5, ChatKept DEF AssistantInv

\* A token that expires can be found no more.
LEMMA ExpireTokenStep == ASSUME NEW t \in Token PROVE AssistantInv /\ ExpireToken(t) => AssistantInv'
<1> SUFFICES ASSUME AssistantInv, ExpireToken(t) PROVE AssistantInv'
    OBVIOUS
<1>1. /\ store[t] = "stored" /\ store' = [store EXCEPT ![t] = "gone"]
      /\ UNCHANGED <<isAdmin, stream, streams, saved, lost, confirming, ran, raced>>
    BY DEF ExpireToken, ConfirmOnly
<1>2. AssistantShape'
    BY <1>1 DEF AssistantInv, AssistantShape
<1>3. store'[t] = "gone" /\ \A u \in Token : u # t => store'[u] = store[u]
    BY <1>1 DEF AssistantInv, AssistantShape
<1>4. TokenInv'
    BY <1>1, <1>3 DEF AssistantInv, TokenInv, HasToken
<1>5. AskedInv'
    BY <1>1, <1>3 DEF AssistantInv, AskedInv, HasToken
<1> QED BY <1>1, <1>2, <1>4, <1>5, ChatKept DEF AssistantInv

\* Roles change, or nothing does.
LEMMA RoleStep == AssistantInv /\ (ChangeRole \/ UNCHANGED assistantVars) => AssistantInv'
<1> SUFFICES ASSUME AssistantInv, ChangeRole \/ UNCHANGED assistantVars PROVE AssistantInv'
    OBVIOUS
<1>1. /\ UNCHANGED <<stream, confirming, store, saved, ran, raced, lost>>
      /\ isAdmin' \in BOOLEAN
    BY DEF AssistantInv, AssistantShape, ChangeRole, assistantVars
<1>2. AssistantShape'
    BY <1>1 DEF AssistantInv, AssistantShape
<1>3. TokenInv' /\ AskedInv'
    BY <1>1 DEF AssistantInv, TokenInv, AskedInv, HasToken
<1> QED BY <1>1, <1>2, <1>3, ChatKept DEF AssistantInv

-----------------------------------------------------------------------------
(* The theorems. *)

\* Every step of the chat and of the requests keeps the invariant.
LEMMA AssistantStepInv == AssistantInv /\ [AssistantNext]_assistantVars => AssistantInv'
<1> SUFFICES ASSUME AssistantInv, [AssistantNext]_assistantVars PROVE AssistantInv'
    OBVIOUS
<1>1. CASE \/ BeginStream \/ Answer \/ ModelFails \/ CallWithoutEffect \/ CallDenied
           \/ CallDangerous \/ CallMutating \/ StopInside \/ EndTurn \/ BreakStream
    BY <1>1, BeginStreamStep, AnswerStep, CallStep, DangerousStep, EndTurnStep, CloseStep
<1>2. CASE \E c \in Confirm : \/ FindToken(c) \/ DropToken(c)
                              \/ Execute(c) \/ LoseConfirmation(c)
    BY <1>2, FindStep, DropTokenStep, ExecuteStep, LoseStep
<1>3. CASE \E t \in Token : ExpireToken(t)
    BY <1>3, ExpireTokenStep
<1>4. CASE ChangeRole \/ UNCHANGED assistantVars
    BY <1>4, RoleStep
<1> QED BY <1>1, <1>2, <1>3, <1>4 DEF AssistantNext

\* The invariant holds in every state.
LEMMA AssistantInvariance == AssistantSpec => []AssistantInv
<1>1. AssistantInit => AssistantInv
    BY AssistantInitInv
<1>2. AssistantInv /\ [AssistantNext]_assistantVars => AssistantInv'
    BY AssistantStepInv
<1> QED BY <1>1, <1>2, PTL DEF AssistantSpec

\* A confirmation is executed once, whatever the budgets, the chats and the
\* requests, unless two requests have found it before either deleted it.
THEOREM ExecutedOnce == AssistantSpec => []ConfirmedOnce
<1>1. AssistantInv => ConfirmedOnce
    BY DEF AssistantInv, TokenInv, ConfirmedOnce
<1> QED BY <1>1, AssistantInvariance, PTL

\* The model is never asked with a call that has no result, and nothing was
\* executed without a trace of the call that asked for it.
THEOREM NothingUnasked == AssistantSpec => []TranscriptsAreTrue
<1>1. AssistantInv => CallsAreAnswered
    BY DEF AssistantInv, CallInv, CallsAreAnswered
<1>2. AssistantInv => ExecutedWasAsked
    BY DEF AssistantInv, AskedInv, ExecutedWasAsked
<1>3. AssistantInv => TranscriptsAreTrue
    BY <1>1, <1>2 DEF TranscriptsAreTrue
<1> QED BY <1>3, AssistantInvariance, PTL

-----------------------------------------------------------------------------
(* Types, budgets and the number of executions. *)

\* A chat keeps to its turns and calls.  It asks the model only with tokens left, so
\* what it spends beyond them is less than the answer that has used them up.
BudgetInv ==
    /\ streams \in 0 .. MaxStreams
    /\ stream.turn \in 0 .. MaxTurns /\ stream.used \in 0 .. MaxToolCalls
    /\ stream.spent \in 0 .. (MaxTokens - 1 + MaxCost)
    /\ stream.at = "ask" => stream.spent < MaxTokens
    /\ stream.left \in 0 .. MaxBatch /\ stream.open >= stream.left
    /\ stream.at # "call" => stream.left = 0

\* A token is executed only when it is gone, and then once by each of those that
\* had found it before.
Holders(t) == {c \in Confirm : HasToken(c, t)}
RanInv ==
    /\ \A t \in Token : /\ store[t] # "gone" => ran[t] = 0
                        /\ ran[t] + Cardinality(Holders(t)) <= Cardinality(Confirm)
    /\ \A c \in Confirm : confirming[c].at = "taken" => store[confirming[c].token] = "gone"

TraceInv == saved \cup lost \subseteq Token \cup {Change} /\ raced \subseteq Token

\* Holders are confirming requests.
LEMMA HoldersFacts ==
    ASSUME NEW t \in Token
    PROVE  /\ IsFiniteSet(Holders(t)) /\ Holders(t) \subseteq Confirm
           /\ Cardinality(Holders(t)) \in Nat /\ Cardinality(Confirm) \in Nat
           /\ Cardinality(Holders(t)) <= Cardinality(Confirm)
<1>1. IsFiniteSet(Confirm) /\ Holders(t) \subseteq Confirm
    BY AssistantAssumption DEF Holders
<1> QED BY <1>1, FS_Subset, FS_CardinalityType

\* The budgets, step by step.
LEMMA BudgetStep == AssistantInv /\ BudgetInv /\ [AssistantNext]_assistantVars => BudgetInv'
<1> SUFFICES ASSUME AssistantInv, BudgetInv, [AssistantNext]_assistantVars PROVE BudgetInv'
    OBVIOUS
<1> USE AssistantAssumption
<1>0. stream \in Chat /\ CallInv
    BY DEF AssistantInv, AssistantShape
<1>1. CASE BeginStream
    BY <1>1 DEF BudgetInv, BeginStream, Quiet
<1>2. ASSUME stream' = Quiet, UNCHANGED streams PROVE BudgetInv'
    BY <1>2 DEF BudgetInv, Quiet
<1>3. CASE Answer
  <2>1. CASE CloseStream
      BY <2>1, <1>3, <1>2 DEF CloseStream, Answer, ChatOnly
  <2>2. CASE \E n \in 1 .. MaxBatch, cost \in 0 .. MaxCost :
               stream' = [stream EXCEPT !.at = "call", !.spent = @ + cost,
                                        !.left = n, !.open = @ + n]
    <3>1. PICK n \in 1 .. MaxBatch, cost \in 0 .. MaxCost :
               stream' = [stream EXCEPT !.at = "call", !.spent = @ + cost,
                                        !.left = n, !.open = @ + n]
        BY <2>2
    <3>2. /\ stream'.at = "call" /\ stream'.spent = stream.spent + cost /\ stream'.left = n
          /\ stream'.open = stream.open + n /\ stream'.turn = stream.turn
          /\ stream'.used = stream.used
        BY <3>1, <1>0 DEF Chat
    <3>3. stream.at = "ask" /\ UNCHANGED streams
        BY <1>3 DEF Answer, ChatOnly
    <3> QED BY <1>0, <3>2, <3>3 DEF BudgetInv, CallInv, Chat
  <2> QED BY <1>3, <2>1, <2>2 DEF Answer
<1>4. ASSUME MayCall, UNCHANGED streams, NEW work, stream' = Answered(work)
      PROVE  BudgetInv'
  <2>1. /\ stream'.at = "call" /\ stream'.spent = stream.spent
        /\ stream'.left = stream.left - 1 /\ stream'.open = stream.open - 1
        /\ stream'.turn = stream.turn /\ stream'.used = stream.used + 1
      BY <1>0, <1>4 DEF Answered, Chat, MayCall
  <2> QED BY <1>0, <1>4, <2>1 DEF BudgetInv, Chat, MayCall
<1>5. CASE CallWithoutEffect \/ CallDenied \/ CallDangerous \/ CallMutating
    BY <1>4, <1>5 DEF CallWithoutEffect, CallDenied, CallDangerous, CallMutating, ChatOnly
<1>6. CASE EndTurn
  <2>1. CASE CloseStream
      BY <2>1, <1>6, <1>2 DEF CloseStream, EndTurn, ChatOnly
  <2>2. CASE /\ ~(stream.spent >= MaxTokens \/ stream.turn >= MaxTurns)
             /\ stream' = [stream EXCEPT !.at = "ask", !.turn = @ + 1]
    <3>1. /\ stream'.at = "ask" /\ stream'.spent = stream.spent
          /\ stream'.left = stream.left /\ stream'.open = stream.open
          /\ stream'.turn = stream.turn + 1 /\ stream'.used = stream.used
        BY <1>0, <2>2 DEF Chat
    <3>2. stream.at = "call" /\ stream.left = 0 /\ UNCHANGED streams
        BY <1>6 DEF EndTurn, ChatOnly
    <3> QED BY <1>0, <2>2, <3>1, <3>2 DEF BudgetInv, Chat
  <2> QED BY <1>6, <2>1, <2>2 DEF EndTurn
<1>7. CASE ModelFails \/ StopInside \/ BreakStream
    BY <1>7, <1>2 DEF ModelFails, StopInside, StopTheLoop, BreakStream, CloseStream, ChatOnly
<1>8. CASE \/ \E c \in Confirm :
                FindToken(c) \/ DropToken(c) \/ Execute(c) \/ LoseConfirmation(c)
           \/ \E t \in Token : ExpireToken(t)
           \/ ChangeRole \/ UNCHANGED assistantVars
  <2>1. UNCHANGED <<stream, streams>>
      BY <1>8 DEF FindToken, DropToken, Execute, LoseConfirmation, ExpireToken, ChangeRole,
         ConfirmOnly, assistantVars
  <2> QED BY <2>1 DEF BudgetInv
<1> QED BY <1>1, <1>3, <1>5, <1>6, <1>7, <1>8 DEF AssistantNext

\* What is committed or lost comes from the chat.
LEMMA TraceStep == AssistantInv /\ TraceInv /\ [AssistantNext]_assistantVars => TraceInv'
<1> SUFFICES ASSUME AssistantInv, TraceInv, [AssistantNext]_assistantVars PROVE TraceInv'
    OBVIOUS
<1>1. stream.work \subseteq Token \cup {Change}
    BY DEF AssistantInv, AssistantShape, Chat
<1>2. /\ saved' \subseteq saved \cup stream.work /\ lost' \subseteq lost \cup stream.work
      /\ raced' \subseteq raced \cup Token
    BY DEF AssistantNext, BeginStream, Answer, ModelFails, CallWithoutEffect, CallDenied,
       CallDangerous, CallMutating, StopInside, StopTheLoop, EndTurn, BreakStream, CloseStream,
       FindToken, DropToken, Execute, LoseConfirmation, ExpireToken, ChangeRole, ChatOnly,
       ConfirmOnly, assistantVars
<1> QED BY <1>1, <1>2 DEF TraceInv

\* Nobody new holds a token: what was counted stays.
LEMMA RanFrame ==
    ASSUME AssistantInv, RanInv, UNCHANGED <<confirming, ran>>,
           store' \in [Token -> {"new", "stored", "gone"}],
           \A t \in Token : store[t] = "gone" => store'[t] = "gone"
    PROVE  RanInv'
<1>1. \A t \in Token : Holders(t)' = Holders(t)
    BY DEF Holders, HasToken
<1> QED BY <1>1 DEF RanInv, AssistantInv, AssistantShape

\* Executions, step by step.
LEMMA RanStep == AssistantInv /\ RanInv /\ [AssistantNext]_assistantVars => RanInv'
<1> SUFFICES ASSUME AssistantInv, RanInv, [AssistantNext]_assistantVars PROVE RanInv'
    OBVIOUS
<1>0. /\ confirming \in [Confirm -> Confirmation] /\ store \in [Token -> {"new", "stored", "gone"}]
      /\ ran \in [Token -> Nat]
      /\ \A c \in Confirm : confirming[c].at # "idle" => confirming[c].token \in Token
    BY DEF AssistantInv, AssistantShape
<1>1. CASE \/ BeginStream \/ Answer \/ ModelFails \/ CallWithoutEffect \/ CallDenied
           \/ CallDangerous \/ CallMutating \/ StopInside \/ EndTurn \/ BreakStream
           \/ (\E t \in Token : ExpireToken(t)) \/ ChangeRole \/ UNCHANGED assistantVars
  <2>0. /\ UNCHANGED <<confirming, ran>>
        /\ store' = store \/ \E t \in Token : /\ store[t] \in {"new", "stored"}
                                              /\ \E v \in {"stored", "gone"} :
                                                    store' = [store EXCEPT ![t] = v]
      BY <1>1 DEF BeginStream, Answer, ModelFails, CallWithoutEffect, CallDenied,
         CallDangerous, CallMutating, StopInside, EndTurn, BreakStream, ExpireToken,
         ChangeRole, ChatOnly, ConfirmOnly, assistantVars
  <2>1. /\ store' \in [Token -> {"new", "stored", "gone"}]
        /\ \A t \in Token : store[t] = "gone" => store'[t] = "gone"
      BY <2>0, <1>0
  <2> QED BY <2>0, <2>1, RanFrame
<1>2. ASSUME NEW c \in Confirm, FindToken(c) PROVE RanInv'
  <2>1. PICK t \in Token :
          /\ store[t] = "stored"
          /\ confirming' = [confirming EXCEPT ![c] =
                              [at |-> "found", admin |-> isAdmin, token |-> t]]
      BY <1>2 DEF FindToken
  <2>2. UNCHANGED <<store, ran>> /\ confirming[c] = Unbound
      BY <1>2 DEF FindToken
  <2>3. ran[t] = 0
      BY <2>1 DEF RanInv
  <2>4. \A u \in Token \ {t} : Holders(u)' = Holders(u)
      BY <1>0, <2>1, <2>2 DEF Holders, HasToken, Unbound
  <2>5. Cardinality(Holders(t)') <= Cardinality(Confirm)
    <3>1. Holders(t)' \subseteq Confirm
        BY DEF Holders
    <3> QED BY <3>1, FS_Subset, FS_CardinalityType, AssistantAssumption
  <2>6. \A u \in Token : ran'[u] + Cardinality(Holders(u)') <= Cardinality(Confirm)
    <3> TAKE u \in Token
    <3>1. CASE u = t
      <4>1. Cardinality(Holders(t)') \in Nat /\ Cardinality(Confirm) \in Nat
        <5>1. Holders(t)' \subseteq Confirm
            BY DEF Holders
        <5> QED BY <5>1, FS_Subset, FS_CardinalityType, AssistantAssumption
      <4> QED BY <3>1, <4>1, <2>2, <2>3, <2>5
    <3>2. CASE u # t
        BY <3>2, <2>2, <2>4 DEF RanInv
    <3> QED BY <3>1, <3>2
  <2>7. \A d \in Confirm : confirming'[d].at = "taken" => store'[confirming'[d].token] = "gone"
      BY <1>0, <2>1, <2>2 DEF RanInv
  <2> QED BY <2>2, <2>6, <2>7 DEF RanInv
<1>3. ASSUME NEW c \in Confirm, DropToken(c) PROVE RanInv'
  <2> DEFINE t == confirming[c].token
  <2>1. /\ t \in Token /\ UNCHANGED ran
        /\ store' = [store EXCEPT ![t] = "gone"]
        /\ confirming' = [confirming EXCEPT ![c].at = "taken"]
        /\ confirming[c].at = "found"
      BY <1>0, <1>3 DEF DropToken, Taken
  <2>2. \A u \in Token : Holders(u)' = Holders(u)
      BY <1>0, <2>1 DEF Holders, HasToken, Confirmation
  <2>3. \A d \in Confirm : confirming'[d].token = confirming[d].token
      BY <1>0, <2>1 DEF Confirmation
  <2>4. \A d \in Confirm : confirming'[d].at = "taken" => store'[confirming'[d].token] = "gone"
    <3> TAKE d \in Confirm
    <3> HAVE confirming'[d].at = "taken"
    <3>1. CASE d = c
        BY <1>0, <2>1, <2>3, <3>1
    <3>2. CASE d # c
      <4>1. confirming[d].at = "taken" /\ confirming[d].token \in Token
          BY <1>0, <2>1, <3>2
      <4>2. store[confirming[d].token] = "gone"
          BY <4>1 DEF RanInv
      <4> QED BY <1>0, <2>1, <2>3, <4>1, <4>2
    <3> QED BY <3>1, <3>2
  <2>5. \A u \in Token : store'[u] # "gone" => store[u] # "gone"
      BY <1>0, <2>1
  <2> HIDE DEF t
  <2> QED BY <2>1, <2>2, <2>4, <2>5 DEF RanInv
<1>4. ASSUME NEW c \in Confirm, Execute(c) \/ LoseConfirmation(c) PROVE RanInv'
  <2>1. PICK t \in Token :
        /\ t = confirming[c].token /\ UNCHANGED store /\ store[t] = "gone"
        /\ confirming' = [confirming EXCEPT ![c] = Unbound]
        /\ ran' = ran \/ ran' = [ran EXCEPT ![t] = @ + 1]
        /\ confirming[c].at = "taken"
      BY <1>0, <1>4 DEF Execute, LoseConfirmation, RanInv
  <2>2. c \in Holders(t)
      BY <2>1 DEF Holders, HasToken
  <2>3. Holders(t)' = Holders(t) \ {c}
      BY <1>0, <2>1 DEF Holders, HasToken, Unbound
  <2>4. \A u \in Token \ {t} : Holders(u)' = Holders(u) /\ ran'[u] = ran[u]
      BY <1>0, <2>1 DEF Holders, HasToken, Unbound
  <2>5. ran'[t] <= ran[t] + 1 /\ ran'[t] \in Nat
      BY <1>0, <2>1
  <2>6. Cardinality(Holders(t)') = Cardinality(Holders(t)) - 1
      BY <2>1, <2>2, <2>3, HoldersFacts, FS_RemoveElement
  <2>7. \A u \in Token : ran'[u] + Cardinality(Holders(u)') <= Cardinality(Confirm)
    <3> TAKE u \in Token
    <3>1. CASE u = t
      <4>1. /\ ran[t] \in Nat /\ Cardinality(Holders(t)) \in Nat /\ Cardinality(Confirm) \in Nat
            /\ ran[t] + Cardinality(Holders(t)) <= Cardinality(Confirm)
          BY <1>0, <2>1, HoldersFacts DEF RanInv
      <4> QED BY <3>1, <4>1, <2>5, <2>6
    <3>2. CASE u # t
        BY <3>2, <2>4 DEF RanInv
    <3> QED BY <3>1, <3>2
  <2>8. \A u \in Token : store'[u] # "gone" => ran'[u] = 0
      BY <2>1, <2>4 DEF RanInv
  <2>9. \A d \in Confirm : confirming'[d].at = "taken" => store'[confirming'[d].token] = "gone"
      BY <1>0, <2>1 DEF RanInv, Unbound
  <2> QED BY <2>7, <2>8, <2>9 DEF RanInv
<1> QED BY <1>1, <1>2, <1>3, <1>4 DEF AssistantNext

\* Chats keep their turns and calls and exceed their tokens by less than one answer,
\* requests keep their types, and no confirmation is
\* executed by more requests than there are.
THEOREM AssistantTypeCorrect == AssistantSpec => []AssistantTypeOK
<1>1. AssistantInit => AssistantInv /\ BudgetInv /\ TraceInv /\ RanInv
  <2> SUFFICES ASSUME AssistantInit PROVE BudgetInv /\ TraceInv /\ RanInv
      BY AssistantInitInv
  <2>1. BudgetInv /\ TraceInv
      BY AssistantAssumption DEF AssistantInit, BudgetInv, TraceInv, Quiet
  <2>2. \A t \in Token : ran[t] + Cardinality(Holders(t)) <= Cardinality(Confirm)
    <3> TAKE t \in Token
    <3>1. ran[t] = 0
        BY DEF AssistantInit
    <3> QED BY <3>1, HoldersFacts
  <2>3. RanInv
      BY <2>2 DEF AssistantInit, RanInv, Unbound
  <2> QED BY <2>1, <2>3
<1>2. /\ AssistantInv /\ BudgetInv /\ TraceInv /\ RanInv /\ [AssistantNext]_assistantVars
      => (AssistantInv /\ BudgetInv /\ TraceInv /\ RanInv)'
    BY AssistantStepInv, BudgetStep, TraceStep, RanStep
<1>3. AssistantInv /\ BudgetInv /\ TraceInv /\ RanInv => AssistantTypeOK
  <2> SUFFICES ASSUME AssistantInv, BudgetInv, TraceInv, RanInv PROVE AssistantTypeOK
      OBVIOUS
  <2>1. ran \in [Token -> 0 .. Cardinality(Confirm)]
    <3>1. \A t \in Token : ran[t] \in 0 .. Cardinality(Confirm)
      <4> TAKE t \in Token
      <4>1. ran[t] \in Nat /\ ran[t] + Cardinality(Holders(t)) <= Cardinality(Confirm)
          BY DEF AssistantInv, AssistantShape, RanInv
      <4> QED BY <4>1, HoldersFacts
    <3> QED BY <3>1 DEF AssistantInv, AssistantShape
  <2>2. \A c \in Confirm : /\ confirming[c].at \in {"idle", "found", "taken"}
                           /\ confirming[c].token \in Token \cup {"none"}
      BY DEF AssistantInv, AssistantShape, Confirmation
  <2>3. stream \in Chat /\ isAdmin \in BOOLEAN /\ store \in [Token -> {"new", "stored", "gone"}]
      BY DEF AssistantInv, AssistantShape
  <2>4. stream.at \in {"quiet", "ask", "call"} /\ stream.work \subseteq Token \cup {Change}
      BY <2>3 DEF Chat
  <2> QED BY <2>1, <2>2, <2>3, <2>4 DEF BudgetInv, TraceInv, AssistantTypeOK
<1> QED BY <1>1, <1>2, <1>3, PTL DEF AssistantSpec
=============================================================================
