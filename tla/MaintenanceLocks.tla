--------------------------- MODULE MaintenanceLocks ---------------------------
(***************************************************************************)
(* The daily maintenance of the ingest worker on PostgreSQL: _maybe_       *)
(* maintenance of app/ingest/scheduler.py, run_daily_maintenance of        *)
(* app/ingest/calendar_store.py, the retention deletes of app/             *)
(* repositories/retention.py and the month partitions of app/db/           *)
(* partitions.py, beside requests of the API that read the same tables.    *)
(*                                                                         *)
(* The deletes run in the tick's session and are committed only after the  *)
(* maintenance.  The partitions are created on a second connection before  *)
(* that.  The lock manager of the database is external: a request waits    *)
(* for the conflicting holders and for conflicting requests queued before  *)
(* it, and nothing in the program bounds the wait.                         *)
(***************************************************************************)
EXTENDS Integers, FiniteSets, SequencesExt

CONSTANTS
    Tables,       \* the partitioned tables, in the order they are ensured
    StateTable,   \* the table of the completion marks
    Deletes,      \* the tables the retention deletes from, in order
    Reader,       \* API requests that read
    MaxFaults,    \* bound: DDL errors
    MaxCrashes    \* bound: worker crashes

Table == Range(Tables)
Session == {"tick", "ddl"} \cup Reader

ASSUME TablesAssumption ==
    /\ Tables \in Seq(STRING)
    /\ Deletes \in Seq(Table)
    /\ StateTable \in Table
    /\ Reader \cap {"tick", "ddl"} = {}
    /\ MaxFaults \in Nat /\ MaxCrashes \in Nat

VARIABLES
    pc,         \* where the maintenance is
    at,         \* position in the statements of the current stage
    created,    \* tables whose month partitions exist (committed)
    mark,       \* the completion mark of the maintenance
    holds,      \* locks granted
    waits,      \* lock requests queued, oldest first
    orphan,     \* the DDL connection lost its client while it was waiting
    faults, crashes

vars == <<pc, at, created, mark, holds, waits, orphan, faults,
          crashes>>
locks == <<holds, waits>>

Mode  == {"share", "row", "exclusive"}
Claim == [session : Session, table : Table, mode : Mode]

Init ==
    /\ pc = "asleep"
    /\ at = 1
    /\ created \in {{}, Table}
    /\ mark = "none"
    /\ holds = {}
    /\ waits = <<>>
    /\ orphan = FALSE
    /\ faults = 0 /\ crashes = 0

-----------------------------------------------------------------------------
(* The lock manager. *)

\* Of the modes used here ACCESS EXCLUSIVE conflicts with every mode and the
\* others with it only.
Conflict(c, d) ==
    c.session # d.session /\ c.table = d.table /\ "exclusive" \in {c.mode, d.mode}

\* Faulty variant: statements are sent without waiting for the one before.
NeverWaiting(s) == FALSE

\* Every statement is awaited: the session sends no other one while it waits.
Waiting(s) == \E j \in DOMAIN waits : waits[j].session = s
Holding(s) == \E c \in holds : c.session = s

\* A request that need not wait is granted, another one is queued.
Request(s, t, m) ==
    LET c == [session |-> s, table |-> t, mode |-> m]
        ahead == holds \cup Range(waits)
    IN IF \E d \in ahead : Conflict(c, d)
          THEN waits' = Append(waits, c) /\ UNCHANGED holds
          ELSE holds' = holds \cup {c} /\ UNCHANGED waits

Release(S) == holds' = {c \in holds : c.session \notin S}

Grant ==
    /\ \E j \in DOMAIN waits :
         /\ \A d \in holds \cup {waits[i] : i \in 1 .. (j - 1)} :
               ~Conflict(waits[j], d)
         /\ holds' = holds \cup {waits[j]}
         /\ waits' = RemoveAt(waits, j)
    /\ UNCHANGED <<pc, at, created, mark, orphan, faults, crashes>>

-----------------------------------------------------------------------------
(* The worker. *)

\* The statements of the tick's session: it reads its mark, then deletes.
Script ==
    <<[table |-> StateTable, mode |-> "share"]>> \o
    [j \in DOMAIN Deletes |-> [table |-> Deletes[j], mode |-> "row"]]

BeginMaintenance ==
    /\ pc = "asleep"
    /\ mark # "succeeded"
    /\ pc' = "delete"
    /\ at' = 1
    /\ UNCHANGED <<created, mark, locks, orphan, faults, crashes>>

TickStatement ==
    /\ pc = "delete" /\ ~Waiting("tick")
    /\ at <= Len(Script)
    /\ Request("tick", Script[at].table, Script[at].mode)
    /\ at' = at + 1
    /\ UNCHANGED <<pc, created, mark, orphan, faults, crashes>>

DeletesDone ==
    /\ pc = "delete" /\ ~Waiting("tick")
    /\ at > Len(Script)
    /\ pc' = "partition"
    /\ at' = 1
    /\ UNCHANGED <<created, mark, locks, orphan, faults, crashes>>

\* Tables whose partitions the DDL transaction has created: the statement runs
\* as soon as its lock is granted.
Drafted == {c.table : c \in {d \in holds : d.session = "ddl"}}

\* Faulty variant: existing partitions are not recognised.
ExistsInDraftOnly(t) == t \in Drafted

\* CREATE TABLE IF NOT EXISTS looks for the partition before it locks.
Exists(t) == t \in created \cup Drafted

PartitionDone ==
    /\ pc = "partition"
    /\ at <= Len(Tables)
    /\ Exists(Tables[at])
    /\ at' = at + 1
    /\ UNCHANGED <<pc, created, mark, locks, orphan, faults, crashes>>

RequestPartition ==
    /\ pc = "partition" /\ ~Waiting("ddl")
    /\ at <= Len(Tables)
    /\ ~Exists(Tables[at])
    /\ Request("ddl", Tables[at], "exclusive")
    /\ UNCHANGED <<pc, at, created, mark, orphan, faults, crashes>>

\* Faulty variant: the loop over the tables is left at the first one.
CommitPartitionsEarly ==
    /\ pc = "partition" /\ ~Waiting("ddl")
    /\ created' = created \cup Drafted
    /\ Release({"ddl"})
    /\ pc' = "mark"
    /\ UNCHANGED <<at, mark, waits, orphan, faults, crashes>>

CommitPartitions ==
    /\ pc = "partition"
    /\ at > Len(Tables)
    /\ created' = created \cup Drafted
    /\ Release({"ddl"})
    /\ pc' = "mark"
    /\ UNCHANGED <<at, mark, waits, orphan, faults, crashes>>

\* The mark is written and the tick's session committed.
MarkDone ==
    /\ pc = "mark"
    /\ mark' = "succeeded"
    /\ Release({"tick"})
    /\ pc' = "asleep"
    /\ UNCHANGED <<at, created, waits, orphan, faults, crashes>>

\* A statement on the second connection fails: its transaction rolls back, the
\* failure is marked, the deletes are committed, and a later tick tries again.
FailPartitions ==
    /\ pc = "partition" /\ ~Waiting("ddl")
    /\ faults < MaxFaults
    /\ faults' = faults + 1
    /\ mark' = "failed"
    /\ Release({"tick", "ddl"})
    /\ pc' = "asleep"
    /\ UNCHANGED <<at, created, waits, orphan, crashes>>

-----------------------------------------------------------------------------
(* Crash and restart. *)

\* The process dies.  The database drops the idle transactions at once; a
\* connection that waits for a lock notices only when the wait is over.
Crash ==
    /\ pc \notin {"asleep", "stopped"}
    /\ ~Waiting("tick")
    /\ crashes < MaxCrashes
    /\ crashes' = crashes + 1
    /\ pc' = "stopped"
    /\ IF Waiting("ddl")
          THEN Release({"tick"}) /\ orphan' = TRUE
          ELSE Release({"tick", "ddl"}) /\ UNCHANGED orphan
    /\ UNCHANGED <<at, created, mark, waits, faults>>

\* Faulty variant: the abandoned connection keeps its locks.
ReapOrphanLate ==
    /\ orphan /\ ~Waiting("ddl")
    /\ orphan' = FALSE
    /\ UNCHANGED <<pc, at, created, mark, locks, faults, crashes>>

ReapOrphan ==
    /\ orphan /\ ~Waiting("ddl")
    /\ Release({"ddl"})
    /\ orphan' = FALSE
    /\ UNCHANGED <<pc, at, created, mark, waits, faults, crashes>>

\* The restart takes longer than the database takes to reap the connection.
Restart ==
    /\ pc = "stopped"
    /\ ~orphan
    /\ pc' = "asleep"
    /\ UNCHANGED <<at, created, mark, locks, orphan, faults, crashes>>

-----------------------------------------------------------------------------
(* Requests of the API. *)

ReadStart(r) ==
    /\ ~Waiting(r) /\ ~Holding(r)
    /\ \E t \in Table : Request(r, t, "share")
    /\ UNCHANGED <<pc, at, created, mark, orphan, faults, crashes>>

ReadEnd(r) ==
    /\ Holding(r)
    /\ Release({r})
    /\ UNCHANGED <<pc, at, created, mark, waits, orphan, faults,
                   crashes>>

-----------------------------------------------------------------------------
Maintain ==
    \/ BeginMaintenance \/ TickStatement \/ DeletesDone
    \/ PartitionDone \/ RequestPartition
    \/ CommitPartitions \/ MarkDone

Next ==
    \/ Maintain
    \/ FailPartitions
    \/ Crash \/ ReapOrphan \/ Restart
    \/ Grant
    \/ \E r \in Reader : ReadStart(r) \/ ReadEnd(r)

\* The worker keeps running, a stopped one is restarted, requests finish their
\* reads, and the database grants what can be granted.
Fairness ==
    /\ WF_vars(Maintain)
    /\ WF_vars(Restart)
    /\ WF_vars(ReapOrphan)
    /\ WF_vars(Grant)
    /\ \A r \in Reader : WF_vars(ReadEnd(r))

Spec == Init /\ [][Next]_vars /\ Fairness

-----------------------------------------------------------------------------
TypeOK ==
    /\ pc \in {"asleep", "delete", "partition", "mark", "stopped"}
    /\ at \in 1 .. (1 + Len(Script) + Len(Tables))
    /\ created \subseteq Table
    /\ mark \in {"none", "failed", "succeeded"}
    /\ holds \subseteq Claim
    /\ waits \in Seq(Claim)
    /\ IsInjective([j \in DOMAIN waits |-> waits[j].session])
    /\ orphan \in BOOLEAN
    /\ faults \in 0 .. MaxFaults /\ crashes \in 0 .. MaxCrashes

\* The mark is the only record of the maintenance: "succeeded" never stands
\* for a month whose partitions are missing, crashes and retries included.
MarkedMeansPartitioned == mark = "succeeded" => created = Table

\* On a date without new partitions the maintenance is invisible to the API:
\* a read waits only when a partition is missing.
ReadsWaitForNewPartitionsOnly ==
    \A r \in Reader : Waiting(r) => created # Table

\* Without new partitions the maintenance completes, retries and restarts
\* included.
CompletesWithoutNewPartitions ==
    created = Table => <>(mark = "succeeded")

\* Stopping a worker that hangs frees the readers queued behind it.
StoppingFreesReaders ==
    \A r \in Reader : pc = "stopped" /\ Waiting(r) ~> ~Waiting(r)

\* calendar_store.py: the daily maintenance makes sure that the partitions of
\* the coming months exist.
MaintenanceCompletes == <>(mark = "succeeded" /\ created = Table)
=============================================================================
