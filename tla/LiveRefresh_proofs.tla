-------------------------- MODULE LiveRefresh_proofs --------------------------
(***************************************************************************)
(* Proofs about LiveRefresh for any processes, pages, requests, lifetimes  *)
(* and failures.                                                           *)
(*                                                                         *)
(* The argument: a version that a request has loaded is outdated by no     *)
(* more than the request is old.  An entry that is filled with it ages by  *)
(* a tick while it loses a tick of its life, so that the sum of the two    *)
(* stays bounded in either level; a request that copies the entry of one   *)
(* level to the other begins with what that entry has left.                *)
(***************************************************************************)
EXTENDS LiveRefresh, TLAPS

\* Events that were not broadcast stem from tasks that were committed.
InboxInv ==
    \A p \in Proc : inbox[p] + (IF worker = "idle" THEN 0 ELSE 1) <= db + others

\* How far what is under way may be behind.
LagInv ==
    /\ \A v \in Version : v >= db => outdated[v] = 0
    /\ \A s \in Slot : stage[s] = "fill2" => outdated[val[s]] <= age[s]
    /\ \A s \in Slot : stage[s] = "fill1" => outdated[val[s]] <= MaxAge + L2Ttl - 1 + age[s]
    /\ Hit(l2) => outdated[l2.v] + l2.left <= MaxAge + L2Ttl
    /\ \A p \in Proc : Hit(l1[p]) =>
         outdated[l1[p].v] + l1[p].left <= 2 * MaxAge + L2Ttl - 1 + L1Ttl

IInv == TypeOK /\ InboxInv /\ LagInv

-----------------------------------------------------------------------------
(* The steps that touch no version: events, connections and pages. *)

Quiet == UNCHANGED <<db, caches, requests, outdated>>

\* Where neither rows nor entries nor requests change, nothing gets older.
LEMMA QuietLag == LagInv /\ Quiet => LagInv'
BY DEF LagInv, Quiet, Hit, caches, requests

\* Nothing is written, cached or asked for.
LEMMA InitInv == Init => IInv
<1> SUFFICES ASSUME Init PROVE IInv
    OBVIOUS
<1>1. MaxLag \in Nat /\ Empty \in Entry(L1Ttl) /\ Empty \in Entry(L2Ttl)
    BY RefreshAssumption DEF MaxLag, Empty, Entry, Version
<1>2. TypeOK
  <2>1. 0 \in Version /\ 0 \in 0 .. MaxAge /\ 0 \in 0 .. (MaxWrites + MaxOthers)
        /\ 0 \in 0 .. (MaxLag + 1) /\ 0 \in 0 .. MaxFaults /\ 0 \in 0 .. MaxOthers
      BY <1>1, RefreshAssumption DEF Version
  <2> QED BY <1>1, <2>1 DEF Init, TypeOK
<1>3. InboxInv
  <2>1. /\ inbox \in [Proc -> {0}] /\ (IF worker = "idle" THEN 0 ELSE 1) = 0
        /\ db \in Int /\ others \in Int /\ db + others = 0
      BY DEF Init
  <2>2. ASSUME NEW p \in Proc
        PROVE  inbox[p] + 0 <= db + others
    <3>1. inbox[p] = 0 /\ 0 + 0 <= 0
        BY <2>1
    <3> QED BY <2>1, <3>1
  <2> QED BY <2>1, <2>2 DEF InboxInv
<1>4. LagInv
    BY DEF Init, LagInv, Hit, Empty
<1> QED BY <1>2, <1>3, <1>4 DEF IInv

\* The task commits: no version is outdated yet by the one it writes.
LEMMA WriteStep == IInv /\ Write => IInv'
<1> SUFFICES ASSUME IInv, Write PROVE IInv'
    OBVIOUS
<1>1. TypeOK'
    BY RefreshAssumption DEF IInv, TypeOK, Write, Version, caches, requests, push, pages
<1>2. InboxInv'
    BY RefreshAssumption DEF IInv, TypeOK, InboxInv, Write, Version, push
<1>3. LagInv'
    BY DEF IInv, TypeOK, LagInv, Write, Version, Hit, caches, requests
<1> QED BY <1>1, <1>2, <1>3 DEF IInv

\* What the worker does besides.
LEMMA WriteOtherStep == IInv /\ WriteOther => IInv'
<1> SUFFICES ASSUME IInv, WriteOther PROVE IInv'
    OBVIOUS
<1>1. TypeOK'
    BY RefreshAssumption DEF IInv, TypeOK, WriteOther, caches, requests, push, pages
<1>2. InboxInv'
    BY RefreshAssumption DEF IInv, TypeOK, InboxInv, WriteOther, Version, push
<1>3. LagInv'
    BY QuietLag DEF IInv, Quiet, WriteOther
<1> QED BY <1>1, <1>2, <1>3 DEF IInv

\* The entry of the second level is dropped after the commit.
LEMMA InvalidateStep == IInv /\ InvalidateL2 => IInv'
<1> SUFFICES ASSUME IInv, InvalidateL2 PROVE IInv'
    OBVIOUS
<1>1. Empty \in Entry(L2Ttl) /\ ~Hit(Empty)
    BY RefreshAssumption DEF Empty, Entry, Version, Hit
<1>2. TypeOK'
  <2>1. l2' \in Entry(L2Ttl) /\ faults' \in 0 .. MaxFaults
      BY <1>1, RefreshAssumption DEF IInv, TypeOK, InvalidateL2, Fault
  <2> QED BY <2>1 DEF IInv, TypeOK, InvalidateL2, requests, push, pages
<1>3. InboxInv'
    BY DEF IInv, InboxInv, InvalidateL2, push
<1>4. LagInv'
  <2>1. Hit(l2') => l2' = l2
      BY <1>1 DEF InvalidateL2
  <2> QED BY <2>1 DEF IInv, LagInv, InvalidateL2, Hit, requests
<1> QED BY <1>2, <1>3, <1>4 DEF IInv

\* The event reaches the processes that listen.
LEMMA PublishStep == IInv /\ Publish => IInv'
<1> SUFFICES ASSUME IInv, Publish PROVE IInv'
    OBVIOUS
<1>1. InboxInv'
    BY DEF IInv, TypeOK, InboxInv, Publish, Version
<1>2. TypeOK'
  <2>1. inbox' \in [Proc -> Nat]
      BY RefreshAssumption DEF IInv, TypeOK, Publish
  <2>2. db + others <= MaxWrites + MaxOthers /\ db + others \in Nat
      BY RefreshAssumption DEF IInv, TypeOK, Version
  <2>3. \A p \in Proc : inbox'[p] <= db + others
      BY <1>1, <2>1, <2>2 DEF InboxInv, Publish
  <2>4. inbox' \in [Proc -> 0 .. (MaxWrites + MaxOthers)]
      BY <2>1, <2>2, <2>3, RefreshAssumption
  <2> QED BY <2>4 DEF IInv, TypeOK, Publish, caches, requests, pages
<1>3. LagInv'
    BY QuietLag DEF IInv, Quiet, Publish
<1> QED BY <1>1, <1>2, <1>3 DEF IInv

\* A worker that dies after its commit sends no event.
LEMMA CrashStep == IInv /\ CrashWorker => IInv'
<1> SUFFICES ASSUME IInv, CrashWorker PROVE IInv'
    OBVIOUS
<1>1. TypeOK'
    BY RefreshAssumption DEF IInv, TypeOK, CrashWorker, Fault, caches, requests, push, pages
<1>2. InboxInv'
    BY DEF IInv, TypeOK, InboxInv, CrashWorker, Version, push
<1>3. LagInv'
    BY QuietLag DEF IInv, Quiet, CrashWorker
<1> QED BY <1>1, <1>2, <1>3 DEF IInv

\* The events and connections of a process.
LEMMA PushStep ==
    ASSUME NEW p \in Proc
    PROVE  IInv /\ (Relay(p) \/ LoseBus(p) \/ Resubscribe(p)) => IInv'
<1> SUFFICES ASSUME IInv, Relay(p) \/ LoseBus(p) \/ Resubscribe(p) PROVE IInv'
    OBVIOUS
<1>1. CASE Relay(p)
  <2>1. inbox' \in [Proc -> 0 .. (MaxWrites + MaxOthers)]
      BY <1>1, RefreshAssumption DEF IInv, TypeOK, Relay
  <2>2. wants' \subseteq Page /\ awaits' \in [Page -> Slot \cup {NoSlot}]
      BY <1>1 DEF IInv, TypeOK, Relay, Connected, Page
  <2>3. TypeOK'
      BY <1>1, <2>1, <2>2 DEF IInv, TypeOK, Relay, store, caches, requests
  <2>4. InboxInv'
      BY <1>1 DEF IInv, TypeOK, InboxInv, Relay, store, Version
  <2>5. LagInv'
      BY <1>1, QuietLag DEF IInv, Quiet, Relay, store
  <2> QED BY <2>3, <2>4, <2>5 DEF IInv
<1>2. CASE LoseBus(p) \/ Resubscribe(p)
  <2>1. TypeOK'
      BY <1>2, RefreshAssumption
         DEF IInv, TypeOK, LoseBus, Resubscribe, Fault, store, caches, requests, pages
  <2>2. InboxInv'
      BY <1>2 DEF IInv, InboxInv, LoseBus, Resubscribe, store
  <2>3. LagInv'
      BY <1>2, QuietLag DEF IInv, Quiet, LoseBus, Resubscribe, store
  <2> QED BY <2>1, <2>2, <2>3 DEF IInv
<1> QED BY <1>1, <1>2

\* The pages, up to the request that they send.
LEMMA PageStep ==
    ASSUME NEW g \in Page
    PROVE  IInv /\ (Disconnect(g) \/ Reconnect(g) \/ Poll(g)) => IInv'
<1> SUFFICES ASSUME IInv, Disconnect(g) \/ Reconnect(g) \/ Poll(g) PROVE IInv'
    OBVIOUS
<1>1. TypeOK'
  <2>1. CASE Disconnect(g)
      BY <2>1, RefreshAssumption DEF IInv, TypeOK, Disconnect, Fault, store, caches, requests, pages
  <2>2. CASE Reconnect(g)
      BY <2>2 DEF IInv, TypeOK, Reconnect, store, caches, requests, pages
  <2>3. CASE Poll(g)
      BY <2>3 DEF IInv, TypeOK, Poll, store, caches, requests, push
  <2> QED BY <2>1, <2>2, <2>3
<1>2. InboxInv'
    BY DEF IInv, InboxInv, Disconnect, Reconnect, Poll, store, push
<1>3. LagInv'
    BY QuietLag DEF IInv, Quiet, Disconnect, Reconnect, Poll, store
<1> QED BY <1>1, <1>2, <1>3 DEF IInv

\* A request begins without age.
LEMMA SendStep == ASSUME NEW g \in Page PROVE IInv /\ Send(g) => IInv'
<1> SUFFICES ASSUME IInv, Send(g) PROVE IInv'
    OBVIOUS
<1>1. PICK s \in Slot, p \in Proc :
         /\ stage[s] = "free"
         /\ stage' = [stage EXCEPT ![s] = "l1"]
         /\ via' = [via EXCEPT ![s] = p]
         /\ awaits' = [awaits EXCEPT ![g] = s]
    BY DEF Send
<1>2. TypeOK'
    BY <1>1 DEF IInv, TypeOK, Send, store, caches, push
<1>3. InboxInv'
    BY DEF IInv, InboxInv, Send, store, push
<1>4. LagInv'
    BY <1>1 DEF IInv, TypeOK, LagInv, Send, Hit, store, caches
<1> QED BY <1>2, <1>3, <1>4 DEF IInv

-----------------------------------------------------------------------------
(* The requests. *)

\* An answer leaves the database and the entries alone, and frees its slot.
LEMMA AnswerStep ==
    ASSUME TypeOK, InboxInv, NEW s \in Slot, NEW v \in Version, Answer(s, v),
           l1' \in [Proc -> Entry(L1Ttl)], l2' = l2, faults' = faults
    PROVE  TypeOK' /\ InboxInv'
<1>1. stage' \in [Slot -> {"free", "l1", "l2", "load", "fill2", "fill1"}]
    BY DEF TypeOK, Answer
<1>2. val' \in [Slot -> Version] /\ age' \in [Slot -> 0 .. MaxAge]
    BY RefreshAssumption DEF TypeOK, Answer, Version
<1>3. shown' \in [Page -> Version \cup {Blank}] /\ awaits' \in [Page -> Slot \cup {NoSlot}]
    BY DEF TypeOK, Answer
<1>4. TypeOK'
    BY <1>1, <1>2, <1>3 DEF TypeOK, Answer, store, push
<1>5. InboxInv'
    BY DEF InboxInv, Answer, store, push
<1> QED BY <1>4, <1>5

\* A request that goes on changes its stage and its value.
LEMMA GoOnStep ==
    ASSUME TypeOK, InboxInv, NEW s \in Slot, NEW v \in Version,
           NEW place \in {"l2", "load", "fill2", "fill1"}, GoOn(s, place, v),
           l1' = l1, l2' \in Entry(L2Ttl), faults' \in 0 .. MaxFaults
    PROVE  TypeOK' /\ InboxInv'
<1>1. TypeOK'
    BY DEF TypeOK, GoOn, store, push, pages
<1>2. InboxInv'
    BY DEF InboxInv, GoOn, store, push
<1> QED BY <1>1, <1>2

\* L1: an answer, or on to L2.
LEMMA LookupL1Step == ASSUME NEW s \in Slot PROVE IInv /\ LookupL1(s) => IInv'
<1> SUFFICES ASSUME IInv, LookupL1(s) PROVE IInv'
    OBVIOUS
<1>1. CASE Hit(l1[via[s]])
  <2>1. l1[via[s]].v \in Version /\ Answer(s, l1[via[s]].v)
      BY <1>1 DEF IInv, TypeOK, Entry, LookupL1
  <2>2. TypeOK' /\ InboxInv'
      BY <2>1, AnswerStep DEF IInv, TypeOK, LookupL1, caches
  <2>3. LagInv'
      BY <2>1 DEF IInv, TypeOK, LagInv, LookupL1, Answer, Hit, caches, store
  <2> QED BY <2>2, <2>3 DEF IInv
<1>2. CASE ~Hit(l1[via[s]])
  <2>1. GoOn(s, "l2", 0) /\ 0 \in Version
      BY <1>2, RefreshAssumption DEF LookupL1, Version
  <2>2. TypeOK' /\ InboxInv'
      BY <2>1, GoOnStep DEF IInv, TypeOK, LookupL1, caches
  <2>3. LagInv'
      BY <2>1 DEF IInv, TypeOK, LagInv, LookupL1, GoOn, Hit, caches, store
  <2> QED BY <2>2, <2>3 DEF IInv
<1> QED BY <1>1, <1>2

\* L2: what it holds, however old, or on to the database.
LEMMA LookupL2Step == ASSUME NEW s \in Slot PROVE IInv /\ LookupL2(s) => IInv'
<1> SUFFICES ASSUME IInv, LookupL2(s) PROVE IInv'
    OBVIOUS
<1>1. l1' = l1 /\ l2' = l2 /\ faults' \in 0 .. MaxFaults
    BY RefreshAssumption DEF IInv, TypeOK, LookupL2, Fault, caches
<1>2. CASE Hit(l2) /\ GoOn(s, "fill1", l2.v)
  <2>1. l2.v \in Version /\ l2.left \in 1 .. L2Ttl
      BY <1>2 DEF IInv, TypeOK, Entry, Hit
  <2>2. TypeOK' /\ InboxInv'
      BY <1>1, <1>2, <2>1, GoOnStep DEF IInv, TypeOK
  <2>3. LagInv'
    <3>1. outdated[l2.v] + l2.left <= MaxAge + L2Ttl
        BY <1>2 DEF IInv, LagInv
    <3>2. outdated[l2.v] <= MaxAge + L2Ttl - 1 + age[s]
        BY <2>1, <3>1, RefreshAssumption DEF IInv, TypeOK
    <3> QED BY <1>1, <1>2, <3>2 DEF IInv, TypeOK, LagInv, GoOn, Hit, store
  <2> QED BY <2>2, <2>3 DEF IInv
<1>3. CASE GoOn(s, "load", 0)
  <2>1. 0 \in Version
      BY RefreshAssumption DEF Version
  <2>2. TypeOK' /\ InboxInv'
      BY <1>1, <1>3, <2>1, GoOnStep DEF IInv, TypeOK
  <2>3. LagInv'
      BY <1>1, <1>3 DEF IInv, TypeOK, LagInv, GoOn, Hit, store
  <2> QED BY <2>2, <2>3 DEF IInv
<1> QED BY <1>2, <1>3 DEF LookupL2

\* The database: the version that is committed now, which is not outdated.
LEMMA LoadStep == ASSUME NEW s \in Slot PROVE IInv /\ Load(s) => IInv'
<1> SUFFICES ASSUME IInv, Load(s) PROVE IInv'
    OBVIOUS
<1>1. GoOn(s, "fill2", db) /\ db \in Version /\ l1' = l1 /\ l2' = l2 /\ faults' = faults
    BY DEF IInv, TypeOK, Load, caches
<1>2. TypeOK' /\ InboxInv'
    BY <1>1, GoOnStep DEF IInv, TypeOK
<1>3. LagInv'
  <2>1. outdated[db] = 0 /\ age[s] \in Nat
      BY <1>1, RefreshAssumption DEF IInv, TypeOK, LagInv, Version
  <2> QED BY <1>1, <2>1 DEF IInv, TypeOK, LagInv, GoOn, Hit, store
<1> QED BY <1>2, <1>3 DEF IInv

\* What was read from the database is put into the second level with a full life.
LEMMA FillL2Step == ASSUME NEW s \in Slot PROVE IInv /\ FillL2(s) => IInv'
<1> SUFFICES ASSUME IInv, FillL2(s) PROVE IInv'
    OBVIOUS
<1>1. val[s] \in Version /\ Fresh(val[s], L2Ttl) \in Entry(L2Ttl)
    BY RefreshAssumption DEF IInv, TypeOK, Fresh, Entry
<1>2. /\ GoOn(s, "fill1", val[s]) /\ l1' = l1
      /\ l2' \in {l2, Fresh(val[s], L2Ttl)} /\ faults' \in 0 .. MaxFaults
    BY RefreshAssumption DEF IInv, TypeOK, FillL2, Fault
<1>3. TypeOK' /\ InboxInv'
    BY <1>1, <1>2, GoOnStep DEF IInv, TypeOK
<1>4. LagInv'
  <2>1. /\ outdated[val[s]] <= age[s] /\ age[s] \in 0 .. MaxAge
        /\ outdated[val[s]] \in Nat /\ outdated' = outdated
      BY <1>1, <1>2, RefreshAssumption DEF IInv, TypeOK, LagInv, FillL2, GoOn
  <2>2. Hit(l2') => outdated[l2'.v] + l2'.left <= MaxAge + L2Ttl
      BY <1>2, <2>1, RefreshAssumption DEF IInv, LagInv, Fresh
  <2>3. outdated[val[s]] <= MaxAge + L2Ttl - 1 + age[s]
      BY <2>1, RefreshAssumption
  <2> QED BY <1>2, <2>1, <2>2, <2>3 DEF IInv, TypeOK, LagInv, GoOn, Hit, store
<1> QED BY <1>3, <1>4 DEF IInv

\* What was loaded, or read from the second level, is put into the first with a full life.
LEMMA FillL1Step == ASSUME NEW s \in Slot PROVE IInv /\ FillL1(s) => IInv'
<1> SUFFICES ASSUME IInv, FillL1(s) PROVE IInv'
    OBVIOUS
<1>1. val[s] \in Version /\ Fresh(val[s], L1Ttl) \in Entry(L1Ttl) /\ via[s] \in Proc
    BY RefreshAssumption DEF IInv, TypeOK, Fresh, Entry
<1>2. /\ Answer(s, val[s]) /\ l2' = l2 /\ faults' = faults
      /\ l1' = [l1 EXCEPT ![via[s]] = Fresh(val[s], L1Ttl)]
    BY DEF FillL1
<1>3. TypeOK' /\ InboxInv'
    BY <1>1, <1>2, AnswerStep DEF IInv, TypeOK
<1>4. LagInv'
  <2>1. /\ outdated[val[s]] <= MaxAge + L2Ttl - 1 + age[s] /\ age[s] \in 0 .. MaxAge
        /\ outdated[val[s]] \in Nat /\ outdated' = outdated /\ db' = db
      BY <1>1, <1>2, RefreshAssumption DEF IInv, TypeOK, LagInv, FillL1, Answer, store
  <2>2. outdated[val[s]] + L1Ttl <= 2 * MaxAge + L2Ttl - 1 + L1Ttl
      BY <2>1, RefreshAssumption
  <2>3. ASSUME NEW p \in Proc, Hit(l1'[p])
        PROVE  outdated[l1'[p].v] + l1'[p].left <= 2 * MaxAge + L2Ttl - 1 + L1Ttl
    <3>1. CASE p = via[s]
        BY <1>1, <1>2, <2>2, <3>1 DEF IInv, TypeOK, Fresh
    <3>2. CASE p # via[s]
        BY <1>1, <1>2, <2>3, <3>2 DEF IInv, TypeOK, LagInv
    <3> QED BY <3>1, <3>2
  <2> QED BY <1>2, <2>1, <2>3 DEF IInv, TypeOK, LagInv, Answer, Hit
<1> QED BY <1>3, <1>4 DEF IInv

-----------------------------------------------------------------------------
(* Time. *)

\* An entry that is still there after a tick has lost a tick of its life.
LEMMA OlderFacts ==
    ASSUME NEW ttl \in Nat, NEW entry \in Entry(ttl)
    PROVE  /\ Older(entry) \in Entry(ttl)
           /\ Hit(Older(entry)) => /\ Hit(entry) /\ Older(entry).v = entry.v
                                   /\ Older(entry).left = entry.left - 1
<1>1. entry.v \in Version /\ entry.left \in 0 .. ttl
    BY DEF Entry
<1>2. CASE entry.left > 1
    BY <1>1, <1>2 DEF Older, Entry, Hit
<1>3. CASE ~(entry.left > 1)
    BY <1>1, <1>3, RefreshAssumption DEF Older, Entry, Hit, Empty, Version
<1> QED BY <1>2, <1>3

\* Everything gets older by at most one tick.
LEMMA TickStep == IInv /\ Tick => IInv'
<1> SUFFICES ASSUME IInv, Tick PROVE IInv'
    OBVIOUS
<1>1. MaxLag \in Nat /\ L1Ttl \in Nat /\ L2Ttl \in Nat /\ MaxAge \in Nat /\ db \in Nat
    BY RefreshAssumption DEF IInv, TypeOK, MaxLag, Version
<1>2. /\ l2' \in Entry(L2Ttl)
      /\ Hit(l2') => Hit(l2) /\ l2'.v = l2.v /\ l2'.left = l2.left - 1
    BY <1>1, OlderFacts DEF IInv, TypeOK, Tick
<1>3. /\ l1' \in [Proc -> Entry(L1Ttl)]
      /\ \A p \in Proc : Hit(l1'[p]) =>
           Hit(l1[p]) /\ l1'[p].v = l1[p].v /\ l1'[p].left = l1[p].left - 1
  <2>1. \A p \in Proc : l1'[p] = Older(l1[p]) /\ l1[p] \in Entry(L1Ttl)
      BY DEF IInv, TypeOK, Tick
  <2>2. \A p \in Proc : l1'[p] \in Entry(L1Ttl)
      BY <1>1, <2>1, OlderFacts
  <2>3. l1' \in [Proc -> Entry(L1Ttl)]
      BY <2>2 DEF Tick
  <2>4. ASSUME NEW p \in Proc, Hit(l1'[p])
        PROVE  Hit(l1[p]) /\ l1'[p].v = l1[p].v /\ l1'[p].left = l1[p].left - 1
      BY <1>1, <2>1, <2>4, OlderFacts
  <2> QED BY <2>3, <2>4
<1>4. /\ age' \in [Slot -> 0 .. MaxAge]
      /\ \A s \in Slot : stage[s] # "free" => age'[s] = age[s] + 1
    BY <1>1 DEF IInv, TypeOK, Tick
<1>5. /\ outdated' \in [Version -> 0 .. (MaxLag + 1)]
      /\ \A v \in Version : outdated'[v] <= outdated[v] + 1
      /\ \A v \in Version : v >= db => outdated'[v] = outdated[v]
  <2>0. \A v \in Version : v \in Int
      BY DEF Version
  <2>1. \A v \in Version : outdated[v] \in 0 .. (MaxLag + 1)
      BY DEF IInv, TypeOK
  <2>2. /\ outdated' = [v \in Version |-> outdated'[v]]
        /\ \A v \in Version : outdated'[v] = IF v < db /\ outdated[v] <= MaxLag
                                              THEN outdated[v] + 1 ELSE outdated[v]
      BY DEF Tick
  <2>3. \A v \in Version : outdated'[v] \in 0 .. (MaxLag + 1)
      BY <1>1, <2>0, <2>1, <2>2
  <2>4. \A v \in Version : outdated'[v] <= outdated[v] + 1
      BY <1>1, <2>0, <2>1, <2>2
  <2>5. \A v \in Version : v >= db => outdated'[v] = outdated[v]
      BY <1>1, <2>0, <2>1, <2>2
  <2>6. outdated' \in [Version -> 0 .. (MaxLag + 1)]
      BY <2>2, <2>3
  <2> QED BY <2>4, <2>5, <2>6
<1>6. UNCHANGED <<store, stage, via, val, push, pages, faults>>
    BY DEF Tick
<1>7. TypeOK'
    BY <1>2, <1>3, <1>4, <1>5, <1>6 DEF IInv, TypeOK, store, push, pages
<1>8. InboxInv'
    BY <1>6 DEF IInv, InboxInv, store, push
<1>9. LagInv'
  <2>1. \A v \in Version : outdated[v] \in Nat /\ outdated'[v] \in Nat
      BY <1>1, <1>5 DEF IInv, TypeOK
  <2>2. \A v \in Version : v >= db' => outdated'[v] = 0
      BY <1>5, <1>6 DEF IInv, LagInv, store
  <2>3. ASSUME NEW s \in Slot, stage[s] = "fill2"
        PROVE  outdated'[val[s]] <= age'[s]
    <3>1. outdated[val[s]] <= age[s] /\ val[s] \in Version /\ age[s] \in Nat
        BY <1>1, <2>3 DEF IInv, TypeOK, LagInv
    <3> QED BY <1>4, <1>5, <2>1, <2>3, <3>1
  <2>4. ASSUME NEW s \in Slot, stage[s] = "fill1"
        PROVE  outdated'[val[s]] <= MaxAge + L2Ttl - 1 + age'[s]
    <3>1. /\ outdated[val[s]] <= MaxAge + L2Ttl - 1 + age[s]
          /\ val[s] \in Version /\ age[s] \in Nat
        BY <1>1, <2>4 DEF IInv, TypeOK, LagInv
    <3> QED BY <1>1, <1>4, <1>5, <2>1, <2>4, <3>1
  <2>5. ASSUME Hit(l2')
        PROVE  outdated'[l2'.v] + l2'.left <= MaxAge + L2Ttl
    <3>1. /\ outdated[l2.v] + l2.left <= MaxAge + L2Ttl
          /\ l2.v \in Version /\ l2.left \in Nat
        BY <1>1, <1>2, <2>5 DEF IInv, TypeOK, LagInv, Entry
    <3> QED BY <1>1, <1>2, <1>5, <2>1, <2>5, <3>1
  <2>6. ASSUME NEW p \in Proc, Hit(l1'[p])
        PROVE  outdated'[l1'[p].v] + l1'[p].left <= 2 * MaxAge + L2Ttl - 1 + L1Ttl
    <3>1. /\ outdated[l1[p].v] + l1[p].left <= 2 * MaxAge + L2Ttl - 1 + L1Ttl
          /\ l1[p].v \in Version /\ l1[p].left \in Nat
        BY <1>1, <1>3, <2>6 DEF IInv, TypeOK, LagInv, Entry
    <3> QED BY <1>1, <1>3, <1>5, <2>1, <2>6, <3>1
  <2> QED BY <1>6, <2>2, <2>3, <2>4, <2>5, <2>6 DEF LagInv, Hit
<1> QED BY <1>7, <1>8, <1>9 DEF IInv

-----------------------------------------------------------------------------
(* The theorems. *)

\* Nothing happens.
LEMMA StutterStep == IInv /\ UNCHANGED vars => IInv'
<1> SUFFICES ASSUME IInv, UNCHANGED vars PROVE IInv'
    OBVIOUS
<1>1. UNCHANGED <<db, worker, others, l2, l1, stage, via, val, age>>
    BY DEF vars, store, caches, requests
<1>2. UNCHANGED <<listening, inbox, conn, wants, awaits, shown, asked, faults, outdated>>
    BY DEF vars, push, pages
<1>3. TypeOK'
    BY <1>1, <1>2 DEF IInv, TypeOK
<1>4. InboxInv' /\ LagInv'
    BY <1>1, <1>2 DEF IInv, InboxInv, LagInv, Hit
<1> QED BY <1>3, <1>4 DEF IInv

\* Every step keeps the invariant.
LEMMA StepInv == IInv /\ [Next]_vars => IInv'
<1> SUFFICES ASSUME IInv, [Next]_vars PROVE IInv'
    OBVIOUS
<1>1. CASE Write \/ WriteOther \/ InvalidateL2 \/ Publish \/ CrashWorker
    BY <1>1, WriteStep, WriteOtherStep, InvalidateStep, PublishStep, CrashStep
<1>2. CASE \E s \in Slot : Serve(s)
    BY <1>2, LookupL1Step, LookupL2Step, LoadStep, FillL2Step, FillL1Step DEF Serve
<1>3. CASE \E p \in Proc : Relay(p) \/ LoseBus(p) \/ Resubscribe(p)
    BY <1>3, PushStep
<1>4. CASE \E g \in Page : Disconnect(g) \/ Reconnect(g) \/ Poll(g) \/ Send(g)
    BY <1>4, PageStep, SendStep
<1>5. CASE Tick
    BY <1>5, TickStep
<1>6. CASE UNCHANGED vars
    BY <1>6, StutterStep
<1> QED BY <1>1, <1>2, <1>3, <1>4, <1>5, <1>6 DEF Next

\* The invariant holds in every state.
LEMMA Invariance == Spec => []IInv
<1>1. Init => IInv
    BY InitInv
<1>2. IInv /\ [Next]_vars => IInv'
    BY StepInv
<1> QED BY <1>1, <1>2, PTL DEF Spec

\* The variables keep their types; no process is sent more events than there
\* were tasks.
THEOREM TypeCorrect == Spec => []TypeOK
<1>1. IInv => TypeOK
    BY DEF IInv
<1> QED BY <1>1, Invariance, PTL

\* cache_policy.py: the lifetimes make good what the invalidation misses.  No
\* answer was superseded longer ago than the two levels and the two requests that
\* filled them take together, whatever fails and whoever interleaves.
THEOREM StalenessBounded == Spec => []StalenessIsBounded
<1>1. IInv => StalenessIsBounded
  <2> SUFFICES ASSUME IInv PROVE StalenessIsBounded
      OBVIOUS
  <2>1. ASSUME NEW p \in Proc, Hit(l1[p])
        PROVE  outdated[l1[p].v] <= MaxLag
    <3>1. /\ outdated[l1[p].v] + l1[p].left <= 2 * MaxAge + L2Ttl - 1 + L1Ttl
          /\ outdated[l1[p].v] \in Int /\ l1[p].left \in Int /\ l1[p].left >= 1
        BY <2>1, RefreshAssumption DEF IInv, TypeOK, LagInv, Hit, Entry, MaxLag
    <3> QED BY <3>1, RefreshAssumption DEF MaxLag
  <2>2. ASSUME NEW s \in Slot, stage[s] = "fill1"
        PROVE  outdated[val[s]] <= MaxLag
    <3>1. /\ outdated[val[s]] <= MaxAge + L2Ttl - 1 + age[s]
          /\ outdated[val[s]] \in Int /\ age[s] \in 0 .. MaxAge
        BY <2>2, RefreshAssumption DEF IInv, TypeOK, LagInv, MaxLag
    <3> QED BY <3>1, RefreshAssumption DEF MaxLag
  <2> QED BY <2>1, <2>2 DEF StalenessIsBounded
<1> QED BY <1>1, Invariance, PTL
=============================================================================
