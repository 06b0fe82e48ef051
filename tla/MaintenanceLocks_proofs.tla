----------------------- MODULE MaintenanceLocks_proofs -----------------------
(***************************************************************************)
(* Proofs about MaintenanceLocks for any tables, deletes and readers.      *)
(*                                                                         *)
(* The argument: the tick reads its mark in the session that it keeps open *)
(* over the maintenance, so it holds the table of the marks when the       *)
(* partitions are due.  Partitions of that table are never created while   *)
(* it does: a maintenance that finds them missing waits until it fails or  *)
(* is stopped, and one that finds them there needs no exclusive lock.      *)
(***************************************************************************)
EXTENDS MaintenanceLocks, SequenceTheorems, TLAPS

\* The lock of the tick's first statement.
MarkClaim == [session |-> "tick", table |-> StateTable, mode |-> "share"]

Claims == holds \cup Range(waits)

\* The statements follow one another.
PlaceInv ==
    /\ pc = "delete" => at <= Len(Script) + 1
    /\ pc = "partition" => at <= Len(Tables) + 1
    /\ pc = "partition" => \A i \in 1 .. at - 1 : Exists(Tables[i])

\* The second connection has locks only during the maintenance, or abandoned.
ConnectionInv ==
    /\ orphan => pc = "stopped"
    /\ \A c \in Claims : c.session = "ddl" => c.mode = "exclusive"
    /\ \A c \in Claims : c.session = "ddl" => pc = "partition" \/ orphan

\* The tick keeps the table of the marks until it commits.
MarkTableInv ==
    /\ pc = "delete" /\ at > 1 => MarkClaim \in Claims
    /\ pc = "partition" => MarkClaim \in holds
    /\ pc = "partition" => StateTable \notin Drafted

\* All partitions were there from the beginning or none will ever be.
PartitionInv ==
    /\ created \in {{}, Table}
    /\ created = Table => waits = <<>> /\ \A c \in holds : c.mode # "exclusive"
    /\ pc = "mark" \/ mark = "succeeded" => created = Table

IInv == TypeOK /\ PlaceInv /\ ConnectionInv /\ MarkTableInv /\ PartitionInv

-----------------------------------------------------------------------------
(* Sequences and the lock manager. *)

\* What remains of a queue of which one request is granted.
LEMMA RemoveAtFacts ==
    ASSUME NEW S, NEW q \in Seq(S), NEW j \in DOMAIN q
    PROVE  /\ RemoveAt(q, j) \in Seq(S)
           /\ Len(RemoveAt(q, j)) = Len(q) - 1
           /\ \A k \in 1 .. Len(q) - 1 :
                RemoveAt(q, j)[k] = IF k < j THEN q[k] ELSE q[k + 1]
           /\ Range(q) = Range(RemoveAt(q, j)) \cup {q[j]}
<1>1. j \in 1 .. Len(q) /\ Len(q) \in Nat /\ j - 1 \in Nat /\ j + 1 \in Nat
    OBVIOUS
<1> DEFINE a == SubSeq(q, 1, j - 1)
           b == SubSeq(q, j + 1, Len(q))
<1>2. a \in Seq(S) /\ Len(a) = j - 1 /\ \A k \in 1 .. j - 1 : a[k] = q[k]
    BY <1>1
<1>3. b \in Seq(S) /\ Len(b) = Len(q) - j /\ \A k \in 1 .. Len(q) - j : b[k] = q[j + k]
    BY <1>1
<1>4. RemoveAt(q, j) = a \o b
    BY DEF RemoveAt
<1> HIDE DEF a, b
<1>5. /\ a \o b \in Seq(S)
      /\ Len(a \o b) = Len(q) - 1
      /\ \A k \in 1 .. Len(q) - 1 : (a \o b)[k] = IF k < j THEN q[k] ELSE q[k + 1]
  <2>1. /\ a \o b \in Seq(S) /\ Len(a \o b) = Len(a) + Len(b)
        /\ \A k \in 1 .. Len(a) + Len(b) :
             (a \o b)[k] = IF k <= Len(a) THEN a[k] ELSE b[k - Len(a)]
      BY <1>2, <1>3, ConcatProperties
  <2>2. Len(a) + Len(b) = Len(q) - 1
      BY <1>1, <1>2, <1>3
  <2>3. ASSUME NEW k \in 1 .. Len(q) - 1
        PROVE  (a \o b)[k] = IF k < j THEN q[k] ELSE q[k + 1]
    <3>1. k <= Len(a) <=> k < j
        BY <1>1, <1>2
    <3>2. CASE k < j
        BY <1>1, <1>2, <2>1, <2>2, <3>1, <3>2
    <3>3. CASE ~(k < j)
      <4>1. (a \o b)[k] = b[k - Len(a)]
          BY <2>1, <2>2, <3>1, <3>3
      <4>2. PICK i \in Int : i = k - Len(a)
          BY <1>1, <1>2
      <4>3. i \in 1 .. Len(q) - j /\ j + i = k + 1
          BY <1>1, <1>2, <3>3, <4>2
      <4>4. b[i] = q[j + i]
          BY <1>3, <4>3
      <4> QED BY <3>3, <4>1, <4>2, <4>3, <4>4
    <3> QED BY <3>2, <3>3
  <2> QED BY <2>1, <2>2, <2>3
<1>6. Range(q) = Range(a \o b) \cup {q[j]}
  <2>1. ASSUME NEW x \in Range(q)
        PROVE  x \in Range(a \o b) \cup {q[j]}
    <3>1. PICK i \in 1 .. Len(q) : x = q[i]
        BY <2>1 DEF Range
    <3>2. CASE i < j
      <4>1. i \in 1 .. Len(q) - 1
          BY <1>1, <3>2
      <4>2. (a \o b)[i] = q[i] /\ i \in DOMAIN (a \o b)
          BY <1>5, <3>2, <4>1
      <4> QED BY <3>1, <4>2 DEF Range
    <3>3. CASE i = j
        BY <3>1, <3>3
    <3>4. CASE i > j
      <4>1. i - 1 \in 1 .. Len(q) - 1 /\ ~(i - 1 < j) /\ (i - 1) + 1 = i
          BY <1>1, <3>4
      <4>2. (a \o b)[i - 1] = q[i]
          BY <1>5, <4>1
      <4> QED BY <1>5, <3>1, <4>1, <4>2 DEF Range
    <3> QED BY <1>1, <3>2, <3>3, <3>4
  <2>2. ASSUME NEW x \in Range(a \o b)
        PROVE  x \in Range(q)
    <3>1. PICK k \in 1 .. Len(q) - 1 : x = (a \o b)[k]
        BY <1>5, <2>2 DEF Range
    <3>2. k \in DOMAIN q /\ k + 1 \in DOMAIN q
        BY <1>1
    <3> QED BY <1>5, <3>1, <3>2 DEF Range
  <2>3. q[j] \in Range(q)
      BY DEF Range
  <2> QED BY <2>1, <2>2, <2>3
<1> QED BY <1>4, <1>5, <1>6

\* No session waits twice.
Distinct(q) == \A i, k \in DOMAIN q : q[i].session = q[k].session => i = k

\* The form in which the library counts them.
LEMMA DistinctIsInjective ==
    \A q : IsInjective([j \in DOMAIN q |-> q[j].session]) <=> Distinct(q)
BY DEF IsInjective, Distinct

LocksOK == holds \subseteq Claim /\ waits \in Seq(Claim) /\ Distinct(waits)

\* A request is granted or queued, and is granted if nothing conflicts.
LEMMA RequestFacts ==
    ASSUME NEW s \in Session, NEW t \in Table, NEW m \in Mode,
           LocksOK, ~Waiting(s), Request(s, t, m)
    PROVE  LET c == [session |-> s, table |-> t, mode |-> m]
           IN /\ LocksOK'
              /\ holds \subseteq holds' /\ holds' \subseteq holds \cup {c}
              /\ Claims' = Claims \cup {c}
              /\ (\E d \in Claims : Conflict(c, d)) => holds' = holds
              /\ ~(\E d \in Claims : Conflict(c, d)) => waits' = waits
<1> DEFINE c == [session |-> s, table |-> t, mode |-> m]
<1>1. c \in Claim
    BY DEF Claim
<1>2. CASE \E d \in Claims : Conflict(c, d)
  <2>1. waits' = Append(waits, c) /\ holds' = holds
      BY <1>2 DEF Request, Claims
  <2>2. /\ waits' \in Seq(Claim) /\ Len(waits') = Len(waits) + 1
        /\ waits'[Len(waits) + 1] = c
        /\ \A k \in 1 .. Len(waits) : waits'[k] = waits[k]
      BY <1>1, <2>1 DEF LocksOK
  <2>3. \A k \in DOMAIN waits : waits[k].session # s
      BY DEF Waiting
  <2>4. Distinct(waits')
      BY <2>2, <2>3 DEF Distinct, LocksOK
  <2>5. Range(waits') = Range(waits) \cup {c}
      BY <2>2 DEF Range, LocksOK
  <2> QED BY <1>2, <2>1, <2>2, <2>4, <2>5 DEF LocksOK, Claims
<1>3. CASE ~ \E d \in Claims : Conflict(c, d)
    BY <1>1, <1>3 DEF Request, Claims, LocksOK
<1> QED BY <1>2, <1>3

\* A grant moves one request from the queue to the locks.
LEMMA GrantFacts ==
    ASSUME LocksOK, Grant
    PROVE  /\ LocksOK'
           /\ holds \subseteq holds'
           /\ Claims' = Claims
           /\ \A c \in holds' \ holds : ~ \E d \in holds : Conflict(c, d)
<1>1. PICK j \in DOMAIN waits :
         /\ \A d \in holds \cup {waits[i] : i \in 1 .. (j - 1)} : ~Conflict(waits[j], d)
         /\ holds' = holds \cup {waits[j]}
         /\ waits' = RemoveAt(waits, j)
    BY DEF Grant
<1>2. waits \in Seq(Claim) /\ waits[j] \in Claim
    BY DEF LocksOK
<1>3. /\ waits' \in Seq(Claim)
      /\ Len(waits') = Len(waits) - 1
      /\ \A k \in 1 .. Len(waits) - 1 : waits'[k] = IF k < j THEN waits[k] ELSE waits[k + 1]
      /\ Range(waits) = Range(waits') \cup {waits[j]}
    BY <1>1, <1>2, RemoveAtFacts
<1>4. Distinct(waits')
  <2> DEFINE place(k) == IF k < j THEN k ELSE k + 1
  <2>1. DOMAIN waits' = 1 .. Len(waits) - 1 /\ Len(waits) \in Nat /\ j \in Int
      BY <1>2, <1>3
  <2>2. \A k \in DOMAIN waits' : place(k) \in DOMAIN waits /\ waits'[k] = waits[place(k)]
      BY <1>2, <1>3, <2>1
  <2>3. \A i, k \in DOMAIN waits' : place(i) = place(k) => i = k
      BY <2>1
  <2> HIDE DEF place
  <2> QED BY <2>2, <2>3 DEF Distinct, LocksOK
<1> QED BY <1>1, <1>2, <1>3, <1>4 DEF LocksOK, Claims

\* What a release leaves.
LEMMA ReleaseFacts ==
    ASSUME NEW S, LocksOK, Release(S), waits' = waits
    PROVE  /\ LocksOK'
           /\ holds' \subseteq holds /\ Claims' \subseteq Claims
           /\ \A c \in holds : c.session \notin S => c \in holds'
           /\ \A c \in holds' : c.session \notin S
BY DEF LocksOK, Release, Claims

\* The statements of the tick: its mark first, never an exclusive lock.
LEMMA ScriptFacts ==
    /\ Len(Script) \in Nat /\ Len(Script) >= 1
    /\ Script[1] = [table |-> StateTable, mode |-> "share"]
    /\ \A k \in 1 .. Len(Script) :
         Script[k].table \in Table /\ Script[k].mode \in {"share", "row"}
<1> DEFINE S == [table : Table, mode : {"share", "row"}]
           a == <<[table |-> StateTable, mode |-> "share"]>>
           b == [j \in DOMAIN Deletes |-> [table |-> Deletes[j], mode |-> "row"]]
<1>1. a \in Seq(S) /\ Len(a) = 1 /\ a[1] = [table |-> StateTable, mode |-> "share"]
    BY TablesAssumption
<1>2. b \in Seq(S)
  <2>1. DOMAIN Deletes = 1 .. Len(Deletes) /\ Len(Deletes) \in Nat
      BY TablesAssumption
  <2>2. b \in [1 .. Len(Deletes) -> S]
      BY <2>1, TablesAssumption
  <2> QED BY <2>1, <2>2
<1>3. Script = a \o b
    BY DEF Script
<1> HIDE DEF a, b, S
<1>4. /\ Script \in Seq(S) /\ Len(Script) = 1 + Len(b) /\ Len(b) \in Nat
      /\ Script[1] = a[1]
  <2>1. /\ Script \in Seq(S) /\ Len(Script) = Len(a) + Len(b)
        /\ \A i \in 1 .. Len(a) + Len(b) :
             Script[i] = IF i <= Len(a) THEN a[i] ELSE b[i - Len(a)]
      BY <1>1, <1>2, <1>3, ConcatProperties
  <2>2. Len(b) \in Nat
      BY <1>2
  <2> QED BY <1>1, <2>1, <2>2
<1>5. \A k \in 1 .. Len(Script) : Script[k] \in S
    BY <1>4
<1> QED BY <1>1, <1>4, <1>5 DEF S

\* The tables are those of the sequence, and it is one.
LEMMA TableFacts ==
    /\ Len(Tables) \in Nat
    /\ \A k \in 1 .. Len(Tables) : Tables[k] \in Table
    /\ \A t \in Table : \E k \in 1 .. Len(Tables) : t = Tables[k]
BY TablesAssumption DEF Table, Range

\* Sessions are told apart by their names.
LEMMA ReaderFacts ==
    \A r \in Reader : r \in Session /\ r # "tick" /\ r # "ddl"
BY TablesAssumption DEF Session

\* What exists remains while nothing is released.
LEMMA ExistsGrows ==
    ASSUME holds \subseteq holds', created' = created
    PROVE  \A t : Exists(t) => Exists(t)'
BY DEF Exists, Drafted

-----------------------------------------------------------------------------
(* The invariant. *)

\* It holds before the first tick.
LEMMA InitInv == Init => IInv
<1> SUFFICES ASSUME Init PROVE IInv
    OBVIOUS
<1>1. waits = <<>> /\ holds = {} /\ Range(waits) = {} /\ waits \in Seq(Claim)
    BY DEF Init, Range
<1>2. TypeOK
  <2>1. Distinct(waits)
      BY <1>1 DEF Distinct
  <2>2. IsInjective([j \in DOMAIN waits |-> waits[j].session])
      BY <2>1, DistinctIsInjective
  <2>3. at \in 1 .. (1 + Len(Script) + Len(Tables))
      BY ScriptFacts, TableFacts DEF Init
  <2>4. faults \in 0 .. MaxFaults /\ crashes \in 0 .. MaxCrashes
      BY TablesAssumption DEF Init
  <2> QED BY <1>1, <2>2, <2>3, <2>4 DEF Init, TypeOK
<1>3. PlaceInv /\ ConnectionInv /\ MarkTableInv /\ PartitionInv
    BY <1>1 DEF Init, PlaceInv, ConnectionInv, MarkTableInv, PartitionInv, Claims
<1> QED BY <1>2, <1>3 DEF IInv

\* The type invariant has what the lock manager needs.
LEMMA TypeLocks == TypeOK => LocksOK
BY DistinctIsInjective DEF TypeOK, LocksOK

\* The locks keep their type, and with them the rest.
LEMMA TypeStep ==
    ASSUME TypeOK, LocksOK',
           pc' \in {"asleep", "delete", "partition", "mark", "stopped"},
           at' \in 1 .. (1 + Len(Script) + Len(Tables)),
           created' \subseteq Table,
           mark' \in {"none", "failed", "succeeded"},
           orphan' \in BOOLEAN,
           faults' \in 0 .. MaxFaults, crashes' \in 0 .. MaxCrashes
    PROVE  TypeOK'
BY DistinctIsInjective DEF TypeOK, LocksOK

\* Statements of the tick.
LEMMA TickStep == IInv /\ TickStatement => IInv'
<1> SUFFICES ASSUME IInv, TickStatement PROVE IInv'
    OBVIOUS
<1> DEFINE c == [session |-> "tick", table |-> Script[at].table, mode |-> Script[at].mode]
<1>1. LocksOK /\ ~Waiting("tick") /\ at \in 1 .. Len(Script)
    BY TypeLocks, ScriptFacts, TableFacts DEF IInv, TypeOK, TickStatement
<1>2. Script[at].table \in Table /\ Script[at].mode \in {"share", "row"}
    BY <1>1, ScriptFacts
<1>3. /\ LocksOK'
      /\ holds \subseteq holds' /\ holds' \subseteq holds \cup {c}
      /\ Claims' = Claims \cup {c}
      /\ ~(\E d \in Claims : Conflict(c, d)) => waits' = waits
    BY <1>1, <1>2, RequestFacts DEF TickStatement, Session, Mode
<1>4. TypeOK'
    BY <1>1, <1>3, TypeStep, ScriptFacts, TableFacts DEF IInv, TypeOK, TickStatement
<1>5. PlaceInv'
    BY <1>1, ScriptFacts DEF PlaceInv, TickStatement
<1>6. ConnectionInv'
    BY <1>3 DEF IInv, ConnectionInv, TickStatement
<1>7. MarkTableInv'
  <2>1. MarkClaim \in Claims'
    <3>1. CASE at = 1
        BY <1>3, <3>1, ScriptFacts DEF MarkClaim
    <3>2. CASE at # 1
        BY <1>1, <1>3, <3>2 DEF IInv, MarkTableInv, TickStatement
    <3> QED BY <3>1, <3>2
  <2> QED BY <2>1 DEF MarkTableInv, TickStatement
<1>8. PartitionInv'
  <2>1. ASSUME created = Table
        PROVE  waits' = <<>> /\ \A d \in holds' : d.mode # "exclusive"
    <3>1. waits = <<>> /\ \A d \in Claims : d.mode # "exclusive"
        BY <2>1 DEF IInv, PartitionInv, Claims, Range
    <3>2. ~ \E d \in Claims : Conflict(c, d)
        BY <1>2, <3>1 DEF Conflict
    <3> QED BY <1>2, <1>3, <3>1, <3>2 DEF Claims
  <2> QED BY <2>1 DEF IInv, PartitionInv, TickStatement
<1> QED BY <1>4, <1>5, <1>6, <1>7, <1>8 DEF IInv

\* A read of the API begins.
LEMMA ReadStep == ASSUME NEW r \in Reader PROVE IInv /\ ReadStart(r) => IInv'
<1> SUFFICES ASSUME IInv, ReadStart(r) PROVE IInv'
    OBVIOUS
<1>1. PICK t \in Table : Request(r, t, "share")
    BY DEF ReadStart
<1> DEFINE c == [session |-> r, table |-> t, mode |-> "share"]
<1>2. LocksOK /\ ~Waiting(r) /\ r \in Session /\ r # "ddl"
    BY TypeLocks, ReaderFacts DEF IInv, ReadStart
<1>3. /\ LocksOK'
      /\ holds \subseteq holds' /\ holds' \subseteq holds \cup {c}
      /\ Claims' = Claims \cup {c}
      /\ ~(\E d \in Claims : Conflict(c, d)) => waits' = waits
    BY <1>1, <1>2, RequestFacts DEF Mode
<1>4. TypeOK'
    BY <1>3, TypeStep DEF IInv, TypeOK, ReadStart
<1>5. PlaceInv'
    BY <1>3, ExistsGrows DEF IInv, PlaceInv, ReadStart
<1>6. ConnectionInv'
    BY <1>2, <1>3 DEF IInv, ConnectionInv, ReadStart
<1>7. MarkTableInv'
  <2>1. Drafted' = Drafted
      BY <1>2, <1>3 DEF Drafted
  <2> QED BY <1>3, <2>1 DEF IInv, MarkTableInv, ReadStart
<1>8. PartitionInv'
  <2>1. ASSUME created = Table
        PROVE  waits' = <<>> /\ \A d \in holds' : d.mode # "exclusive"
    <3>1. waits = <<>> /\ \A d \in Claims : d.mode # "exclusive"
        BY <2>1 DEF IInv, PartitionInv, Claims, Range
    <3>2. ~ \E d \in Claims : Conflict(c, d)
        BY <3>1 DEF Conflict
    <3> QED BY <1>3, <3>1, <3>2 DEF Claims
  <2> QED BY <2>1 DEF IInv, PartitionInv, ReadStart
<1> QED BY <1>4, <1>5, <1>6, <1>7, <1>8 DEF IInv

\* A partition is missing: the second connection asks for its table.
LEMMA RequestStep == IInv /\ RequestPartition => IInv'
<1> SUFFICES ASSUME IInv, RequestPartition PROVE IInv'
    OBVIOUS
<1> DEFINE c == [session |-> "ddl", table |-> Tables[at], mode |-> "exclusive"]
<1>1. LocksOK /\ ~Waiting("ddl") /\ Tables[at] \in Table
    BY TypeLocks, ScriptFacts, TableFacts DEF IInv, TypeOK, RequestPartition
<1>2. /\ LocksOK'
      /\ holds \subseteq holds' /\ holds' \subseteq holds \cup {c}
      /\ Claims' = Claims \cup {c}
      /\ (\E d \in Claims : Conflict(c, d)) => holds' = holds
    BY <1>1, RequestFacts DEF RequestPartition, Session, Mode
<1>3. created # Table
    BY <1>1 DEF RequestPartition, Exists
<1>4. TypeOK'
    BY <1>2, TypeStep DEF IInv, TypeOK, RequestPartition
<1>5. PlaceInv'
    BY <1>2, ExistsGrows DEF IInv, PlaceInv, RequestPartition
<1>6. ConnectionInv'
    BY <1>2 DEF IInv, ConnectionInv, RequestPartition
<1>7. MarkTableInv'
  <2>1. MarkClaim \in holds /\ StateTable \notin Drafted /\ pc' = pc /\ pc = "partition"
      BY DEF IInv, MarkTableInv, RequestPartition
  <2>2. Tables[at] = StateTable => holds' = holds
      BY <1>2, <2>1 DEF MarkClaim, Claims, Conflict
  <2>3. StateTable \notin Drafted'
      BY <1>2, <2>1, <2>2 DEF Drafted
  <2> QED BY <1>2, <2>1, <2>3 DEF MarkTableInv
<1>8. PartitionInv'
    BY <1>3 DEF IInv, PartitionInv, RequestPartition
<1> QED BY <1>4, <1>5, <1>6, <1>7, <1>8 DEF IInv

\* The database grants a request.
LEMMA GrantStep == IInv /\ Grant => IInv'
<1> SUFFICES ASSUME IInv, Grant PROVE IInv'
    OBVIOUS
<1>1. /\ LocksOK' /\ holds \subseteq holds' /\ Claims' = Claims
      /\ \A c \in holds' \ holds : ~ \E d \in holds : Conflict(c, d)
    BY TypeLocks, GrantFacts DEF IInv
<1>2. UNCHANGED <<pc, at, created, mark, orphan, faults, crashes>> /\ waits # <<>>
    BY DEF Grant
<1>3. TypeOK'
    BY <1>1, <1>2, TypeStep DEF IInv, TypeOK
<1>4. PlaceInv'
    BY <1>1, <1>2, ExistsGrows DEF IInv, PlaceInv
<1>5. ConnectionInv'
    BY <1>1, <1>2 DEF IInv, ConnectionInv
<1>6. MarkTableInv'
  <2>1. ASSUME pc = "partition" PROVE StateTable \notin Drafted'
    <3>1. MarkClaim \in holds /\ StateTable \notin Drafted
        BY <2>1 DEF IInv, MarkTableInv
    <3>2. ASSUME NEW c \in holds' \ holds, c.session = "ddl", c.table = StateTable
          PROVE  FALSE
      <4>1. c.mode = "exclusive"
          BY <1>1, <3>2 DEF IInv, ConnectionInv, Claims
      <4> QED BY <1>1, <3>1, <3>2, <4>1 DEF Conflict, MarkClaim
    <3> QED BY <3>1, <3>2 DEF Drafted
  <2> QED BY <1>1, <1>2, <2>1 DEF IInv, MarkTableInv
<1>7. PartitionInv'
    BY <1>2 DEF IInv, PartitionInv
<1> QED BY <1>3, <1>4, <1>5, <1>6, <1>7 DEF IInv

\* The tick begins the maintenance.
LEMMA BeginStep == IInv /\ BeginMaintenance => IInv'
<1> SUFFICES ASSUME IInv, BeginMaintenance PROVE IInv'
    OBVIOUS
<1>1. LocksOK' /\ Claims' = Claims
    BY TypeLocks DEF IInv, BeginMaintenance, locks, LocksOK, Claims
<1>2. TypeOK'
    BY <1>1, TypeStep, ScriptFacts, TableFacts DEF IInv, TypeOK, BeginMaintenance
<1>3. PlaceInv'
    BY ScriptFacts DEF PlaceInv, BeginMaintenance
<1>4. ConnectionInv'
    BY <1>1 DEF IInv, ConnectionInv, BeginMaintenance
<1>5. MarkTableInv' /\ PartitionInv'
    BY DEF IInv, MarkTableInv, PartitionInv, BeginMaintenance, locks
<1> QED BY <1>2, <1>3, <1>4, <1>5 DEF IInv

\* The deletes are done: the tick holds the table of the marks, and the second
\* connection nothing.
LEMMA DeletesStep == IInv /\ DeletesDone => IInv'
<1> SUFFICES ASSUME IInv, DeletesDone PROVE IInv'
    OBVIOUS
<1>1. LocksOK' /\ Claims' = Claims /\ holds' = holds
    BY TypeLocks DEF IInv, DeletesDone, locks, LocksOK, Claims
<1>2. TypeOK'
    BY <1>1, TypeStep, ScriptFacts, TableFacts DEF IInv, TypeOK, DeletesDone
<1>3. PlaceInv'
    BY TableFacts DEF PlaceInv, DeletesDone
<1>4. \A c \in Claims : c.session # "ddl"
    BY DEF IInv, ConnectionInv, DeletesDone
<1>5. ConnectionInv'
    BY <1>1, <1>4 DEF IInv, ConnectionInv, DeletesDone
<1>6. MarkTableInv'
  <2>1. at > 1
      BY ScriptFacts DEF IInv, TypeOK, DeletesDone
  <2>2. MarkClaim \in Claims
      BY <2>1 DEF IInv, MarkTableInv, DeletesDone
  <2>3. MarkClaim \notin Range(waits)
      BY DEF DeletesDone, Waiting, Range, MarkClaim
  <2>4. Drafted' = {}
      BY <1>1, <1>4 DEF Drafted, Claims
  <2> QED BY <1>1, <2>2, <2>3, <2>4 DEF MarkTableInv, Claims, DeletesDone
<1>7. PartitionInv'
    BY DEF IInv, PartitionInv, DeletesDone, locks
<1> QED BY <1>2, <1>3, <1>5, <1>6, <1>7 DEF IInv

\* A partition exists: the next table.
LEMMA PartitionStep == IInv /\ PartitionDone => IInv'
<1> SUFFICES ASSUME IInv, PartitionDone PROVE IInv'
    OBVIOUS
<1>1. LocksOK' /\ Claims' = Claims /\ holds' = holds /\ created' = created
    BY TypeLocks DEF IInv, PartitionDone, locks, LocksOK, Claims
<1>2. TypeOK'
    BY <1>1, TypeStep, ScriptFacts, TableFacts DEF IInv, TypeOK, PartitionDone
<1>3. PlaceInv'
  <2>1. \A t : Exists(t) => Exists(t)'
      BY <1>1, ExistsGrows
  <2>2. at \in Nat /\ at <= Len(Tables) /\ Len(Tables) \in Nat
      BY ScriptFacts, TableFacts DEF IInv, TypeOK, PartitionDone
  <2>3. \A i \in 1 .. at : Exists(Tables[i])
      BY <2>2 DEF IInv, PlaceInv, PartitionDone
  <2> QED BY <2>1, <2>2, <2>3 DEF PlaceInv, PartitionDone
<1>4. ConnectionInv'
    BY <1>1 DEF IInv, ConnectionInv, PartitionDone
<1>5. MarkTableInv' /\ PartitionInv'
    BY <1>1 DEF IInv, MarkTableInv, PartitionInv, Drafted, PartitionDone, locks
<1> QED BY <1>2, <1>3, <1>4, <1>5 DEF IInv

\* When every table has been seen, all partitions were there before.
LEMMA CommitMeansCreated == IInv /\ CommitPartitions => created = Table
<1> SUFFICES ASSUME IInv, CommitPartitions PROVE created = Table
    OBVIOUS
<1>1. PICK k \in 1 .. Len(Tables) : StateTable = Tables[k]
    BY TableFacts, TablesAssumption
<1>2. k \in 1 .. at - 1
    BY <1>1, ScriptFacts, TableFacts DEF IInv, TypeOK, CommitPartitions
<1>3. Exists(StateTable)
    BY <1>1, <1>2 DEF IInv, PlaceInv, CommitPartitions
<1>4. StateTable \in created
    BY <1>3 DEF IInv, MarkTableInv, CommitPartitions, Exists
<1> QED BY <1>4 DEF IInv, PartitionInv

\* The second connection commits.
LEMMA CommitStep == IInv /\ CommitPartitions => IInv' /\ UNCHANGED created
<1> SUFFICES ASSUME IInv, CommitPartitions PROVE IInv' /\ UNCHANGED created
    OBVIOUS
<1>1. /\ LocksOK' /\ holds' \subseteq holds /\ Claims' \subseteq Claims
      /\ \A c \in holds' : c.session # "ddl"
    BY TypeLocks, ReleaseFacts DEF IInv, CommitPartitions
<1>2. created = Table /\ waits = <<>>
    BY CommitMeansCreated DEF IInv, PartitionInv
<1>3. created' = Table
  <2>1. Drafted \subseteq Table
      BY TypeLocks DEF IInv, LocksOK, Drafted, Claim
  <2> QED BY <1>2, <2>1 DEF CommitPartitions
<1>4. TypeOK'
    BY <1>1, <1>3, TypeStep DEF IInv, TypeOK, CommitPartitions
<1>5. PlaceInv' /\ MarkTableInv'
    BY DEF PlaceInv, MarkTableInv, CommitPartitions
<1>6. ConnectionInv'
  <2>1. \A c \in Claims' : c.session # "ddl"
      BY <1>1, <1>2 DEF Claims, Range, CommitPartitions
  <2> QED BY <2>1 DEF IInv, ConnectionInv, CommitPartitions
<1>7. PartitionInv'
    BY <1>1, <1>2, <1>3 DEF IInv, PartitionInv, CommitPartitions
<1> QED BY <1>2, <1>3, <1>4, <1>5, <1>6, <1>7 DEF IInv

\* The mark is written.
LEMMA MarkStep == IInv /\ MarkDone => IInv'
<1> SUFFICES ASSUME IInv, MarkDone PROVE IInv'
    OBVIOUS
<1>1. LocksOK' /\ holds' \subseteq holds /\ Claims' \subseteq Claims
    BY TypeLocks, ReleaseFacts DEF IInv, MarkDone
<1>2. TypeOK'
    BY <1>1, TypeStep DEF IInv, TypeOK, MarkDone
<1>3. PlaceInv' /\ MarkTableInv'
    BY DEF PlaceInv, MarkTableInv, MarkDone
<1>4. ConnectionInv'
    BY <1>1 DEF IInv, ConnectionInv, MarkDone
<1>5. PartitionInv'
    BY <1>1 DEF IInv, PartitionInv, MarkDone
<1> QED BY <1>2, <1>3, <1>4, <1>5 DEF IInv

\* No claim of the second connection is left when it does not wait and is
\* released.
LEMMA ReleasedConnection ==
    ASSUME NEW S, "ddl" \in S, LocksOK, Release(S), waits' = waits, ~Waiting("ddl")
    PROVE  \A c \in Claims' : c.session # "ddl"
<1>1. \A c \in holds' : c.session # "ddl"
    BY ReleaseFacts
<1>2. \A c \in Range(waits) : c.session # "ddl"
    BY DEF Waiting, Range
<1> QED BY <1>1, <1>2 DEF Claims

\* A statement of the second connection fails.
LEMMA FailStep == IInv /\ FailPartitions => IInv'
<1> SUFFICES ASSUME IInv, FailPartitions PROVE IInv'
    OBVIOUS
<1>1. LocksOK /\ LocksOK' /\ holds' \subseteq holds /\ Claims' \subseteq Claims
    BY TypeLocks, ReleaseFacts DEF IInv, FailPartitions
<1>2. TypeOK'
  <2>1. faults' \in 0 .. MaxFaults
      BY TablesAssumption DEF IInv, TypeOK, FailPartitions
  <2> QED BY <1>1, <2>1, TypeStep DEF IInv, TypeOK, FailPartitions
<1>3. PlaceInv' /\ MarkTableInv'
    BY DEF PlaceInv, MarkTableInv, FailPartitions
<1>4. ConnectionInv'
  <2>1. \A c \in Claims' : c.session # "ddl"
      BY <1>1, ReleasedConnection DEF FailPartitions
  <2> QED BY <2>1 DEF IInv, ConnectionInv, FailPartitions
<1>5. PartitionInv'
    BY <1>1 DEF IInv, PartitionInv, FailPartitions
<1> QED BY <1>2, <1>3, <1>4, <1>5 DEF IInv

\* The worker dies; the second connection may be left behind.
LEMMA CrashStep == IInv /\ Crash => IInv'
<1> SUFFICES ASSUME IInv, Crash PROVE IInv'
    OBVIOUS
<1>1. /\ LocksOK /\ LocksOK' /\ holds' \subseteq holds /\ Claims' \subseteq Claims
    BY TypeLocks, ReleaseFacts DEF IInv, Crash
<1>2. TypeOK'
  <2>1. crashes' \in 0 .. MaxCrashes
      BY TablesAssumption DEF IInv, TypeOK, Crash
  <2>2. orphan' \in BOOLEAN
      BY DEF IInv, TypeOK, Crash
  <2> QED BY <1>1, <2>1, <2>2, TypeStep DEF IInv, TypeOK, Crash
<1>3. PlaceInv' /\ MarkTableInv'
    BY DEF PlaceInv, MarkTableInv, Crash
<1>4. ConnectionInv'
  <2>1. CASE Waiting("ddl")
      BY <1>1, <2>1 DEF IInv, ConnectionInv, Crash
  <2>2. CASE ~Waiting("ddl")
    <3>1. \A c \in Claims' : c.session # "ddl"
        BY <1>1, <2>2, ReleasedConnection DEF Crash
    <3> QED BY <2>2, <3>1 DEF IInv, ConnectionInv, Crash
  <2> QED BY <2>1, <2>2
<1>5. PartitionInv'
    BY <1>1 DEF IInv, PartitionInv, Crash
<1> QED BY <1>2, <1>3, <1>4, <1>5 DEF IInv

\* The database notices that the client is gone.
LEMMA ReapStep == IInv /\ ReapOrphan => IInv'
<1> SUFFICES ASSUME IInv, ReapOrphan PROVE IInv'
    OBVIOUS
<1>1. LocksOK /\ LocksOK' /\ holds' \subseteq holds /\ Claims' \subseteq Claims
    BY TypeLocks, ReleaseFacts DEF IInv, ReapOrphan
<1>2. TypeOK'
    BY <1>1, TypeStep DEF IInv, TypeOK, ReapOrphan
<1>3. pc' = "stopped"
    BY DEF IInv, ConnectionInv, ReapOrphan
<1>4. PlaceInv' /\ MarkTableInv'
    BY <1>3 DEF PlaceInv, MarkTableInv
<1>5. ConnectionInv'
  <2>1. \A c \in Claims' : c.session # "ddl"
      BY <1>1, ReleasedConnection DEF ReapOrphan
  <2> QED BY <1>3, <2>1 DEF ConnectionInv
<1>6. PartitionInv'
    BY <1>1, <1>3 DEF IInv, PartitionInv, ReapOrphan
<1> QED BY <1>2, <1>4, <1>5, <1>6 DEF IInv

\* The worker is started again, after the connection is gone.
LEMMA RestartStep == IInv /\ Restart => IInv'
<1> SUFFICES ASSUME IInv, Restart PROVE IInv'
    OBVIOUS
<1>1. LocksOK' /\ Claims' = Claims /\ holds' = holds /\ waits' = waits
    BY TypeLocks DEF IInv, Restart, locks, LocksOK, Claims
<1>2. TypeOK'
    BY <1>1, TypeStep DEF IInv, TypeOK, Restart
<1>3. PlaceInv' /\ MarkTableInv'
    BY DEF PlaceInv, MarkTableInv, Restart
<1>4. ConnectionInv'
    BY <1>1 DEF IInv, ConnectionInv, Restart
<1>5. PartitionInv'
    BY <1>1 DEF IInv, PartitionInv, Restart
<1> QED BY <1>2, <1>3, <1>4, <1>5 DEF IInv

\* A read ends; its session is neither of the worker's.
LEMMA ReadEndStep == ASSUME NEW r \in Reader PROVE IInv /\ ReadEnd(r) => IInv'
<1> SUFFICES ASSUME IInv, ReadEnd(r) PROVE IInv'
    OBVIOUS
<1>1. /\ LocksOK' /\ holds' \subseteq holds /\ Claims' \subseteq Claims
      /\ \A c \in holds : c.session # r => c \in holds'
    BY TypeLocks, ReleaseFacts DEF IInv, ReadEnd
<1>2. r # "tick" /\ r # "ddl"
    BY ReaderFacts
<1>3. TypeOK'
    BY <1>1, TypeStep DEF IInv, TypeOK, ReadEnd
<1>4. Drafted' = Drafted
    BY <1>1, <1>2 DEF Drafted
<1>5. PlaceInv'
    BY <1>4 DEF IInv, PlaceInv, Exists, ReadEnd
<1>6. ConnectionInv'
    BY <1>1 DEF IInv, ConnectionInv, ReadEnd
<1>7. MarkTableInv'
  <2>1. MarkClaim \in Claims => MarkClaim \in Claims'
      BY <1>1, <1>2 DEF Claims, MarkClaim, ReadEnd
  <2>2. MarkClaim \in holds => MarkClaim \in holds'
      BY <1>1, <1>2 DEF MarkClaim
  <2> QED BY <1>4, <2>1, <2>2 DEF IInv, MarkTableInv, ReadEnd
<1>8. PartitionInv'
    BY <1>1 DEF IInv, PartitionInv, ReadEnd
<1> QED BY <1>3, <1>5, <1>6, <1>7, <1>8 DEF IInv

\* A step that changes nothing keeps it.
LEMMA StutterStep == IInv /\ UNCHANGED vars => IInv'
<1> SUFFICES ASSUME IInv, UNCHANGED vars PROVE IInv'
    OBVIOUS
<1>1. Claims' = Claims /\ Drafted' = Drafted
    BY DEF vars, Claims, Drafted
<1>2. TypeOK'
    BY DEF IInv, TypeOK, vars
<1>3. PlaceInv'
    BY <1>1 DEF IInv, PlaceInv, Exists, vars
<1>4. ConnectionInv'
    BY <1>1 DEF IInv, ConnectionInv, vars
<1>5. MarkTableInv' /\ PartitionInv'
    BY <1>1 DEF IInv, MarkTableInv, PartitionInv, vars
<1> QED BY <1>2, <1>3, <1>4, <1>5 DEF IInv

\* Every step of the worker, the readers and the database keeps it.
LEMMA StepInv == IInv /\ [Next]_vars => IInv'
<1> SUFFICES ASSUME IInv, [Next]_vars PROVE IInv'
    OBVIOUS
<1>1. CASE Maintain
    BY <1>1, BeginStep, TickStep, DeletesStep, PartitionStep, RequestStep, CommitStep, MarkStep
       DEF Maintain
<1>2. CASE FailPartitions \/ Crash \/ ReapOrphan \/ Restart \/ Grant
    BY <1>2, FailStep, CrashStep, ReapStep, RestartStep, GrantStep
<1>3. CASE \E r \in Reader : ReadStart(r) \/ ReadEnd(r)
    BY <1>3, ReadStep, ReadEndStep
<1>4. CASE UNCHANGED vars
    BY <1>4, StutterStep
<1> QED BY <1>1, <1>2, <1>3, <1>4 DEF Next

-----------------------------------------------------------------------------
(* The theorems. *)

\* The invariant holds always.
LEMMA Invariance == Spec => []IInv
<1>1. Init => IInv
    BY InitInv
<1>2. IInv /\ [Next]_vars => IInv'
    BY StepInv
<1> QED BY <1>1, <1>2, PTL DEF Spec

\* The variables keep their types, and no session waits for two locks.
THEOREM TypesAreKept == Spec => []TypeOK
<1>1. IInv => TypeOK
    BY DEF IInv
<1> QED BY <1>1, Invariance, PTL

\* The mark of the daily maintenance never says that it succeeded while a
\* partition is missing.
THEOREM MarkMeansPartitions == Spec => []MarkedMeansPartitioned
<1>1. IInv => MarkedMeansPartitioned
    BY DEF IInv, PartitionInv, MarkedMeansPartitioned
<1> QED BY <1>1, Invariance, PTL

\* A request of the API waits only when partitions are missing.
THEOREM OnlyNewPartitionsStopReads == Spec => []ReadsWaitForNewPartitionsOnly
<1>1. IInv => ReadsWaitForNewPartitionsOnly
    BY DEF IInv, PartitionInv, ReadsWaitForNewPartitionsOnly, Waiting
<1> QED BY <1>1, Invariance, PTL

\* calendar_store.py says that the daily maintenance makes sure that the
\* partitions exist.  It never creates one: the read of its own mark in the
\* session that stays open is in the way, whatever the tables, the deletes, the
\* readers and the failures.
THEOREM PartitionsAreNeverCreated == Spec => [][UNCHANGED created]_vars
<1>1. IInv /\ [Next]_vars => UNCHANGED created
  <2> SUFFICES ASSUME IInv, [Next]_vars PROVE UNCHANGED created
      OBVIOUS
  <2>1. CASE CommitPartitions
      BY <2>1, CommitStep
  <2>2. CASE Next /\ ~CommitPartitions
      BY <2>2 DEF Next, Maintain, BeginMaintenance, TickStatement, DeletesDone,
                  PartitionDone, RequestPartition, MarkDone, FailPartitions, Crash,
                  ReapOrphan, Restart, Grant, ReadStart, ReadEnd
  <2>3. CASE UNCHANGED vars
      BY <2>3 DEF vars
  <2> QED BY <2>1, <2>2, <2>3
<1> QED BY <1>1, Invariance, PTL DEF Spec
=============================================================================
