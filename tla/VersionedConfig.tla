---------------------------- MODULE VersionedConfig ----------------------------
(***************************************************************************)
(* The versions of the parameters of ONE strategy or factor:               *)
(* VersionedConfigRepository of app/repositories/config.py, called by the  *)
(* admin endpoints (services/config_service.py) and by the agent tools     *)
(* (agent/tools/definitions.py), each in the transaction of its request.   *)
(*                                                                         *)
(* On PostgreSQL the sessions run READ COMMITTED.  A statement sees the    *)
(* rows committed when it starts and those of its own transaction; an      *)
(* UPDATE then waits for the transactions that hold its rows, and updates  *)
(* those rows as they are when the wait ends.  An INSERT waits for a       *)
(* transaction that has inserted the same key.  Versions of the rows are   *)
(* locked in one order, so that requests wait in a line and never in a     *)
(* ring.  This part is external.                                           *)
(***************************************************************************)
EXTENDS Integers, FiniteSets, FiniteSetsExt

CONSTANTS
    Request,     \* sessions that may be open at the same time
    Mixes,       \* sets of operations that may run beside each other
    MaxVersion,  \* bound: versions of the owner
    MaxFailures  \* bound: requests that fail before their commit

Operation == {"save", "rollback", "activate"}
Version == 1 .. MaxVersion
NoVersion == 0

ASSUME ConfigAssumption ==
    /\ IsFiniteSet(Request)
    /\ Mixes \subseteq SUBSET Operation
    /\ MaxVersion \in Nat \ {0}
    /\ MaxFailures \in Nat

VARIABLES
    mix,       \* the operations of this behaviour
    rows,      \* [version -> committed status, "absent" when there is none]
    pc,        \* [request -> where it is]
    target,    \* [request -> the version it activates]
    draft,     \* [request -> the version it has inserted, or NoVersion]
    seen,      \* [request -> the rows the snapshot of its UPDATE has]
    held,      \* [request -> the rows it has updated]
    failures

vars == <<mix, rows, pc, target, draft, seen, held, failures>>

Status == {"absent", "archived", "active"}
Place == {"idle", "number", "insert", "snapshot", "archive", "commit"}

Stored == {v \in Version : rows[v] # "absent"}
Actives == {v \in Version : rows[v] = "active"}

\* Some versions have been saved; the last one is active.
Init ==
    /\ mix \in Mixes
    /\ \E n \in 1 .. MaxVersion :
          rows = [v \in Version |-> IF v < n THEN "archived"
                                    ELSE IF v = n THEN "active" ELSE "absent"]
    /\ pc = [r \in Request |-> "idle"]
    /\ target = [r \in Request |-> NoVersion]
    /\ draft = [r \in Request |-> NoVersion]
    /\ seen = [r \in Request |-> {}]
    /\ held = [r \in Request |-> {}]
    /\ failures = 0

-----------------------------------------------------------------------------
Goto(r, place) == pc' = [pc EXCEPT ![r] = place]

\* The session is gone, with its locks.
Close(r) ==
    /\ Goto(r, "idle")
    /\ draft' = [draft EXCEPT ![r] = NoVersion]
    /\ seen' = [seen EXCEPT ![r] = {}]
    /\ held' = [held EXCEPT ![r] = {}]
    /\ target' = [target EXCEPT ![r] = NoVersion]

\* Faulty variant: the existence of the target is not checked.
BeginActivateUnchecked(r) ==
    /\ pc[r] = "idle" /\ "activate" \in mix
    /\ \E v \in 1 .. (MaxVersion + 1) : target' = [target EXCEPT ![r] = v]
    /\ Goto(r, "snapshot")
    /\ UNCHANGED <<mix, rows, draft, seen, held, failures>>

\* activate: the target must exist (_require_version).
BeginActivate(r) ==
    /\ pc[r] = "idle" /\ "activate" \in mix
    /\ \E v \in Stored : target' = [target EXCEPT ![r] = v]
    /\ Goto(r, "snapshot")
    /\ UNCHANGED <<mix, rows, draft, seen, held, failures>>

\* save, and rollback once _require_version has found its source: both go on
\* to create_draft.
BeginDraft(r) ==
    /\ pc[r] = "idle"
    /\ {"save", "rollback"} \cap mix # {}
    /\ Goto(r, "number")
    /\ UNCHANGED <<mix, rows, target, draft, seen, held, failures>>

\* Faulty variant: a sequence hands out the numbers.
NumberFromSequence(r) ==
    /\ pc[r] = "number"
    /\ LET last == Max(Stored \cup {target[q] : q \in Request})
       IN last < MaxVersion /\ target' = [target EXCEPT ![r] = last + 1]
    /\ Goto(r, "insert")
    /\ UNCHANGED <<mix, rows, draft, seen, held, failures>>

\* _next_version: the largest committed version and one.  A request that would
\* pass the bound is given up.
Number(r) ==
    /\ pc[r] = "number"
    /\ IF Max(Stored) < MaxVersion
          THEN /\ target' = [target EXCEPT ![r] = Max(Stored) + 1]
               /\ Goto(r, "insert")
               /\ UNCHANGED <<draft, seen, held>>
          ELSE Close(r)
    /\ UNCHANGED <<mix, rows, failures>>

\* Nobody else has an open transaction with this key.
KeyIsFree(r, v) == \A q \in Request \ {r} : draft[q] # v

\* Faulty variant: a conflict is tried again with the same number.
InsertAgain(r) ==
    /\ pc[r] = "insert"
    /\ KeyIsFree(r, target[r])
    /\ IF target[r] \in Stored
          THEN UNCHANGED <<pc, draft>>
          ELSE Goto(r, "snapshot") /\ draft' = [draft EXCEPT ![r] = target[r]]
    /\ UNCHANGED <<mix, rows, target, seen, held, failures>>

\* The flush of create_draft; a version that was committed in the meantime
\* breaks the unique constraint and fails the request.
Insert(r) ==
    /\ pc[r] = "insert"
    /\ KeyIsFree(r, target[r])
    /\ IF target[r] \in Stored
          THEN Close(r)
          ELSE /\ Goto(r, "snapshot")
               /\ draft' = [draft EXCEPT ![r] = target[r]]
               /\ UNCHANGED <<target, seen, held>>
    /\ UNCHANGED <<mix, rows, failures>>

\* Faulty variant: only the active row is archived.
SnapshotActiveOnly(r) ==
    /\ pc[r] = "snapshot"
    /\ seen' = [seen EXCEPT ![r] = Actives \cup ({draft[r]} \ {NoVersion})]
    /\ Goto(r, "archive")
    /\ UNCHANGED <<mix, rows, target, draft, held, failures>>

\* activate: UPDATE ... SET status = 'archived' takes its snapshot,
Snapshot(r) ==
    /\ pc[r] = "snapshot"
    /\ seen' = [seen EXCEPT ![r] = Stored \cup ({draft[r]} \ {NoVersion})]
    /\ Goto(r, "archive")
    /\ UNCHANGED <<mix, rows, target, draft, held, failures>>

\* and updates the rows of the snapshot when nobody else holds one of them.
Archive(r) ==
    /\ pc[r] = "archive"
    /\ \A q \in Request \ {r} : held[q] \cap seen[r] = {}
    /\ held' = [held EXCEPT ![r] = seen[r]]
    /\ Goto(r, "commit")
    /\ UNCHANGED <<mix, rows, target, draft, seen, failures>>

\* Faulty variant: the session is not synchronised with the UPDATE, and a
\* target that was active already is not written again.
CommitUnsynchronised(r) ==
    /\ pc[r] = "commit"
    /\ rows' = [v \in Version |->
                  IF v = target[r] /\ rows[v] # "active" THEN "active"
                  ELSE IF v \in held[r] THEN "archived" ELSE rows[v]]
    /\ Close(r)
    /\ UNCHANGED <<mix, failures>>

\* The target is set active, the audit written and the request committed.
Commit(r) ==
    /\ pc[r] = "commit"
    /\ rows' = [v \in Version |-> IF v = target[r] THEN "active"
                                  ELSE IF v \in held[r] THEN "archived"
                                  ELSE rows[v]]
    /\ Close(r)
    /\ UNCHANGED <<mix, failures>>

\* get_session: an exception rolls the whole request back.
Fail(r) ==
    /\ pc[r] # "idle"
    /\ failures < MaxFailures
    /\ failures' = failures + 1
    /\ Close(r)
    /\ UNCHANGED <<mix, rows>>

-----------------------------------------------------------------------------
Step(r) == Number(r) \/ Insert(r) \/ Snapshot(r) \/ Archive(r) \/ Commit(r)

Next ==
    \E r \in Request :
        BeginActivate(r) \/ BeginDraft(r) \/ Step(r) \/ Fail(r)

\* A request that can go on does; waiters for a row are served in turn.
Fairness ==
    \A r \in Request : WF_vars(Step(r)) /\ SF_vars(Archive(r))

Spec == Init /\ [][Next]_vars /\ Fairness

-----------------------------------------------------------------------------
TypeOK ==
    /\ mix \in Mixes
    /\ rows \in [Version -> Status]
    /\ pc \in [Request -> Place]
    /\ target \in [Request -> Version \cup {NoVersion}]
    /\ draft \in [Request -> Version \cup {NoVersion}]
    /\ seen \in [Request -> SUBSET Version]
    /\ held \in [Request -> SUBSET Version]
    /\ failures \in 0 .. MaxFailures

\* repositories/config.py: an owner has at most one active version.
AtMostOneActive == Cardinality(Actives) <= 1

\* Activations beside each other keep it, because each of them updates every
\* row; so do saves and rollbacks, which the unique constraint on the version
\* puts in a line.
OneActiveWithinAMix ==
    mix = {"activate"} \/ "activate" \notin mix => AtMostOneActive

\* Without activations the version saved last is the one in force, however the
\* requests overlap and fail: no save is committed behind an older one.
LatestSaveWins == "activate" \notin mix => Actives = {Max(Stored)}

\* However saves, rollbacks and activations overlap and fail, their commits are
\* the steps of a register: the history grows by one version at a time, and the
\* newest active version (the first that list_versions shows as active) is the
\* one just saved or activated.  Only an activation that has not seen a newer
\* version which is active by now leaves that one on top of its own.  And there
\* is always one in force (0 stands for none): readers never fall back on the
\* default parameters.
History == INSTANCE VersionRegister WITH
    newest <- Max(Stored),
    inForce <- Max(Actives \cup {0})

ImplementsVersionRegister == History!Spec

\* Every request comes to an end: nobody waits for ever behind the versions
\* and rows of the others.
RequestsEnd == \A r \in Request : pc[r] # "idle" ~> pc[r] = "idle"
=============================================================================
