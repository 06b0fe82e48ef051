------------------------- MODULE Collection_proofs --------------------------
(***************************************************************************)
(* Proofs about what the collection of data stands on, for any             *)
(* capabilities, sources, callers and securities: the failover of the      *)
(* sources, the token bucket before them, and the writers of the tables    *)
(* that are rewritten all day.                                             *)
(***************************************************************************)
EXTENDS SourceFailover, TokenBucket, PoolWriters, SequenceTheorems,
        FiniteSetTheorems, TLAPS

-----------------------------------------------------------------------------
(***************************************************************************)
(* SourceFailover, for any sources, capabilities, attempts and requests.   *)
(*                                                                         *)
(* The argument: a fetch goes through a copy of the order from which the   *)
(* fake source has been struck in production, and the sources it has seen  *)
(* fail are those before the one it asks.  Between two requests for new    *)
(* orders, unless one was torn, the memory of the API process holds what   *)
(* was accepted; while one is in flight, the lists it has set lie over     *)
(* that.                                                                   *)
(***************************************************************************)

USE FailoverAssumption

(* Lists of sources. *)

\* What an order is: a list of sources, not empty, that names each once.
LEMMA OrderFacts ==
  ASSUME NEW s \in Order
  PROVE  /\ s \in Seq(Source) /\ Len(s) \in Nat \ {0} /\ s # <<>>
         /\ DOMAIN s = 1 .. Len(s)
         /\ \A i \in 1 .. Len(s) : s[i] \in Source
         /\ \A i, j \in 1 .. Len(s) : s[i] = s[j] => i = j
<1>1. PICK m \in 0 .. Cardinality(Source) : s \in [1 .. m -> Source]
  BY DEF Order, BoundedSeq, SeqOf
<1>2. m \in Nat OBVIOUS
<1>3. s \in Seq(Source) BY <1>1, <1>2, SeqDef
<1>. QED BY <1>3, LenProperties, EmptySeq DEF Order

\* _eligible_order: of a list of sources it leaves a list of sources, and in
\* production none of them is the fake one.
LEMMA EligibleFacts ==
  ASSUME NEW s \in Order
  PROVE  /\ Eligible(s) \in Seq(Source)
         /\ FakeFallback \/ \A i \in 1 .. Len(Eligible(s)) : Eligible(s)[i] # Fake
<1>0. CASE FakeFallback
  BY <1>0, OrderFacts DEF Eligible
<1>1. CASE ~FakeFallback /\ ~ \E i \in 1 .. Len(s) : s[i] = Fake
  BY <1>1, OrderFacts DEF Eligible, RemoveFirst
<1>2. CASE ~FakeFallback /\ \E i \in 1 .. Len(s) : s[i] = Fake
  <2>1. PICK k \in 1 .. Len(s) : s[k] = Fake BY <1>2
  <2>2. {i \in 1 .. Len(s) : s[i] = Fake} = {k}
    BY <2>1, OrderFacts
  <2>3. Min({k}) = k
    BY <2>1, OrderFacts DEF Min
  <2>4. SelectInSeq(s, LAMBDA v : v = Fake) = k
    BY <2>2, <2>3 DEF SelectInSeq
  <2>5. Eligible(s) = RemoveAt(s, k)
    BY <1>2, <2>4 DEF RemoveFirst, Eligible
  <2> DEFINE front == SubSeq(s, 1, k - 1)
             back == SubSeq(s, k + 1, Len(s))
             Others == Source \ {Fake}
  <2>6. \A i \in 1 .. Len(s) : i # k => s[i] \in Others
    BY <2>1, OrderFacts
  <2>7. k \in Nat /\ Len(s) \in Nat /\ k <= Len(s) /\ k > 0
    BY <2>1, OrderFacts
  <2>8. front \in Seq(Others)
    <3>1. \A i \in 1 .. k - 1 : s[i] \in Others BY <2>6, <2>7
    <3>. QED BY ONLY <3>1, <2>7, SubSeqProperties
  <2>9. back \in Seq(Others)
    <3>1. \A i \in k + 1 .. Len(s) : s[i] \in Others BY <2>6, <2>7
    <3>. QED BY ONLY <3>1, <2>7, SubSeqProperties
  <2>10. front \o back \in Seq(Others)
    BY ONLY <2>8, <2>9, ConcatProperties
  <2>11. Eligible(s) \in Seq(Others)
    BY <2>5, <2>10 DEF RemoveAt
  <2> HIDE DEF Others
  <2>12. \A i \in 1 .. Len(Eligible(s)) : Eligible(s)[i] \in Others
    BY ONLY <2>11, ElementOfSeq
  <2> USE DEF Others
  <2>. QED
    BY <2>11, <2>12, SeqMonotonic
<1>. QED BY <1>0, <1>1, <1>2

\* install_real_capability_order: there is a list of all sources with the fake one at
\* its end, so the order every process starts with is an order.
LEMMA InstalledIsOrder == Installed \in Order
<1> DEFINE n == Cardinality(RealSource)
<1>1. n \in Nat /\ IsFiniteSet(RealSource)
  BY FS_CardinalityType
<1>2. PICK f : f \in Bijection(1 .. n, RealSource)
  BY <1>1, FS_CardinalityType DEF ExistsBijection
<1>3. f \in [1 .. n -> RealSource] /\ (\A i, j \in 1 .. n : f[i] = f[j] => i = j)
        /\ \A x \in RealSource : \E i \in 1 .. n : f[i] = x
  BY <1>2 DEF Bijection, Injection, Surjection, IsInjective
<1>4. Cardinality(Source) = n + 1
  BY <1>1, FS_AddElement DEF Source
<1> DEFINE s == [i \in 1 .. n + 1 |-> IF i = n + 1 THEN Fake ELSE f[i]]
<1> HIDE DEF n
<1>5. s \in [1 .. n + 1 -> Source]
  BY <1>1, <1>3 DEF Source
<1>6. s \in Seq(Source) /\ Len(s) = n + 1 /\ DOMAIN s = 1 .. n + 1
  BY <1>1, <1>5
<1>7. s \in BoundedSeq(Source, Cardinality(Source))
  BY <1>1, <1>4, <1>5 DEF BoundedSeq, SeqOf
<1>8. \A i, j \in 1 .. Len(s) : s[i] = s[j] => i = j
  BY <1>1, <1>3, <1>6
<1>9. s[n + 1] = Fake
  BY <1>1
<1>10. ToSet(s) = Source
  <2>1. \A x \in Source : \E i \in 1 .. n + 1 : s[i] = x
    BY <1>1, <1>3, <1>9 DEF Source
  <2>. QED BY <2>1, <1>5, <1>6 DEF ToSet
<1>11. s # <<>>
  BY <1>1, <1>6
<1>12. s \in Order /\ ToSet(s) = Source /\ Last(s) = Fake
  BY <1>6, <1>7, <1>8, <1>9, <1>10, <1>11 DEF Order, Last
<1>. QED
  BY <1>12 DEF Installed

-----------------------------------------------------------------------------
(* The invariant. *)

\* The fetch: it goes through a list from which production has struck the fake
\* source, and what has failed are the sources before the one it asks.
FetchInv ==
    fetch.at # "idle" =>
        /\ FakeFallback \/ \A i \in 1 .. Len(fetch.order) : fetch.order[i] # Fake
        /\ fetch.index \in 1 .. Len(fetch.order)
        /\ fetch.attempt # 0
        /\ fetch.failed = {fetch.order[i] : i \in 1 .. fetch.index - 1}

\* A request is in flight.
EditOpen(e) == edits[e] # NoEdit

\* The requests, unless one was torn: no two are in flight, and the memory of the API
\* process holds what was accepted with the lists of the one in flight over it.
EditInv ==
    torn \/ /\ \A d, e \in Editor : EditOpen(d) /\ EditOpen(e) => d = e
            /\ \A e \in Editor : EditOpen(e) => order["api"] = With(accepted, edits[e].applied)
            /\ (\A e \in Editor : ~EditOpen(e)) => order["api"] = accepted

\* The inductive invariant.
FailoverIInv == FailoverTypeOK /\ FetchInv /\ EditInv

\* Every process starts with orders.
LEMMA DefaultsAreOrders == Defaults \in [Capability -> Order]
  BY InstalledIsOrder DEF Defaults

\* Nothing set: no request, and orders that are as they were.
LEMMA NothingSet ==
  /\ NoEdit \in [todo : Seq(Capability \X (NamedOrders \cup {Bad})),
                 applied : [Capability -> NamedOrders \cup {Unset}]]
  /\ \A c \in Capability : NoEdit.applied[c] = Unset
  /\ NoEdit.todo = <<>>
  /\ \A old \in [Capability -> Order] : With(old, NoEdit.applied) = old
<1>1. \A old \in [Capability -> Order] : With(old, NoEdit.applied) = old
  BY DEF With, NoEdit
<1>. QED
  BY <1>1, EmptySeq DEF NoEdit

\* What a step finds at the head of a request.
LEMMA HeadFacts ==
  ASSUME FailoverTypeOK, NEW e \in Editor, edits[e].todo # <<>>
  PROVE  /\ Head(edits[e].todo) \in Capability \X (NamedOrders \cup {Bad})
         /\ Tail(edits[e].todo) \in Seq(Capability \X (NamedOrders \cup {Bad}))
         /\ Head(edits[e].todo)[1] \in Capability
         /\ Head(edits[e].todo)[2] \in NamedOrders \cup {Bad}
         /\ Head(edits[e].todo)[2] # Bad => Head(edits[e].todo)[2] \in Order
<1>1. /\ Head(edits[e].todo) \in Capability \X (NamedOrders \cup {Bad})
      /\ Tail(edits[e].todo) \in Seq(Capability \X (NamedOrders \cup {Bad}))
  BY HeadTailProperties DEF FailoverTypeOK
<1>. QED BY <1>1

-----------------------------------------------------------------------------
(* Every step keeps the types. *)

\* The state of a fetch after each of its steps.
LEMMA FetchTypeStep ==
  ASSUME FailoverTypeOK, FetchInv, FailoverNext
  PROVE  fetch' \in Fetch
<1> USE DEF FailoverTypeOK
<1>1. NoFetch \in Fetch
  BY EmptySeq DEF NoFetch, Fetch, Process
<1>2. ASSUME NEW p \in Process, BeginFetch(p) PROVE fetch' \in Fetch
  <2>1. PICK c \in Capability, whole \in BOOLEAN :
           fetch' = [at |-> "try", process |-> p, whole |-> whole,
                     order |-> Eligible(order[p][c]), index |-> 1, attempt |-> 1,
                     failed |-> {}]
    BY <1>2 DEF BeginFetch, Step
  <2>2. Eligible(order[p][c]) \in Seq(Source) BY EligibleFacts
  <2>. QED BY <2>1, <2>2 DEF Fetch
<1>3. CASE RetrySource
  <2>1. fetch' = [fetch EXCEPT !.attempt = fetch.attempt + 1]
    BY <1>3 DEF RetrySource, Step
  <2>2. fetch.attempt + 1 \in 0 .. MaxAttempts
    BY <1>3 DEF RetrySource, AttemptIsLeft, Fetch
  <2>. QED BY <2>1, <2>2 DEF Fetch
<1>4. CASE NextSource
  <2>1. CASE fetch.index = Len(fetch.order)
    BY <1>4, <2>1, <1>1 DEF NextSource, Step
  <2>2. CASE fetch.index # Len(fetch.order)
    <3>1. fetch' = [fetch EXCEPT !.index = @ + 1, !.attempt = 1, !.failed = @ \cup {Asked}]
      BY <1>4, <2>2 DEF NextSource, Step
    <3>2. Asked \in Source
      BY <1>4, ElementOfSeq DEF NextSource, Trying, FetchInv, Asked, Fetch
    <3>3. 1 \in 0 .. MaxAttempts /\ fetch.index + 1 \in Nat
      BY DEF Fetch
    <3>4. fetch.failed \cup {Asked} \in SUBSET Source
      BY <3>2 DEF Fetch
    <3>. QED BY <3>1, <3>3, <3>4 DEF Fetch
  <2>. QED BY <2>1, <2>2
<1>5. CASE EscapeLoop BY <1>5, <1>1 DEF EscapeLoop, Step
<1>6. CASE SourceAnswers BY <1>6 DEF SourceAnswers, Step, Fetch
<1>7. CASE EndFetch BY <1>7, <1>1 DEF EndFetch, Step
<1>8. ASSUME NEW p \in Process, RestartProcess(p) PROVE fetch' \in Fetch
  BY <1>8, <1>1 DEF RestartProcess
<1>9. ASSUME NEW e \in Editor, BeginEdit(e) \/ EditOne(e) \/ FailEdit(e) \/ CommitEdit(e)
      PROVE  fetch' \in Fetch
  BY <1>9 DEF BeginEdit, EditOne, FailEdit, CommitEdit
<1>. QED
  BY <1>2, <1>3, <1>4, <1>5, <1>6, <1>7, <1>8, <1>9 DEF FailoverNext

\* What a request still has to set, and what it has set.
Edits == [todo : Seq(Capability \X (NamedOrders \cup {Bad})),
          applied : [Capability -> NamedOrders \cup {Unset}]]

\* The orders and the requests after each step.
LEMMA OrdersTypeStep ==
  ASSUME FailoverTypeOK, FailoverNext
  PROVE  /\ order' \in [Process -> [Capability -> Order]]
         /\ accepted' \in [Capability -> Order]
         /\ edits' \in [Editor -> Edits]
         /\ edited' \in 0 .. MaxEdits
         /\ torn' \in BOOLEAN
<1> USE DEF FailoverTypeOK
<1>0. NoEdit \in Edits BY NothingSet DEF Edits
<1>a. edits \in [Editor -> Edits] BY DEF Edits
<1>1. ASSUME UNCHANGED <<order, edits, edited, accepted, torn>>
      PROVE  /\ order' \in [Process -> [Capability -> Order]]
             /\ accepted' \in [Capability -> Order]
             /\ edits' \in [Editor -> Edits]
             /\ edited' \in 0 .. MaxEdits
             /\ torn' \in BOOLEAN
  BY <1>1, <1>a
<1>2. ASSUME NEW e \in Editor, BeginEdit(e)
      PROVE  /\ order' \in [Process -> [Capability -> Order]]
             /\ accepted' \in [Capability -> Order]
             /\ edits' \in [Editor -> Edits]
             /\ edited' \in 0 .. MaxEdits
             /\ torn' \in BOOLEAN
  <2>1. PICK n, todo :
           /\ n \in 1 .. 2 /\ todo \in [1 .. n -> Capability \X (NamedOrders \cup {Bad})]
           /\ edits' = [edits EXCEPT ![e].todo = todo]
    BY <1>2 DEF BeginEdit
  <2>2. todo \in Seq(Capability \X (NamedOrders \cup {Bad}))
    <3> DEFINE Wanted == Capability \X (NamedOrders \cup {Bad})
    <3>1. n \in Nat /\ todo \in [1 .. n -> Wanted] BY <2>1
    <3> HIDE DEF Wanted
    <3>2. todo \in Seq(Wanted) BY <3>1
    <3>. QED BY <3>2 DEF Wanted
  <2>3. edits' \in [Editor -> Edits]
    BY <2>1, <2>2, <1>a DEF Edits
  <2>4. torn' \in BOOLEAN
    BY <1>2 DEF BeginEdit
  <2>. QED BY <1>2, <2>3, <2>4 DEF BeginEdit
<1>3. ASSUME NEW e \in Editor, EditOne(e)
      PROVE  /\ order' \in [Process -> [Capability -> Order]]
             /\ accepted' \in [Capability -> Order]
             /\ edits' \in [Editor -> Edits]
             /\ edited' \in 0 .. MaxEdits
             /\ torn' \in BOOLEAN
  <2> DEFINE next == Head(edits[e].todo)
  <2>1. /\ next[1] \in Capability /\ next[2] \in NamedOrders \cup {Bad}
        /\ next[2] # Bad => next[2] \in Order
        /\ Tail(edits[e].todo) \in Seq(Capability \X (NamedOrders \cup {Bad}))
    BY <1>3, HeadFacts DEF EditOne
  <2>2. order' \in [Process -> [Capability -> Order]]
    BY <1>3, <2>1 DEF EditOne, OrderAfter, Process
  <2>3. edits' \in [Editor -> Edits]
    <3>1. CASE next[2] = Bad
      BY <1>3, <3>1, <1>0, <1>a DEF EditOne
    <3>2. CASE next[2] # Bad
      <4>1. edits' = [edits EXCEPT ![e] = [todo |-> Tail(edits[e].todo),
                        applied |-> [edits[e].applied EXCEPT ![next[1]] = next[2]]]]
        BY <1>3, <3>2 DEF EditOne
      <4>2. [edits[e].applied EXCEPT ![next[1]] = next[2]]
               \in [Capability -> NamedOrders \cup {Unset}]
        BY <2>1, <3>2, <1>a DEF Edits
      <4>. QED BY <4>1, <4>2, <2>1, <1>a DEF Edits
    <3>. QED BY <3>1, <3>2
  <2>4. torn' \in BOOLEAN
    <3>1. HasApplied(e) \in BOOLEAN BY DEF HasApplied
    <3>. QED BY <1>3, <3>1 DEF EditOne
  <2>. QED BY <1>3, <2>2, <2>3, <2>4 DEF EditOne
<1>4. ASSUME NEW e \in Editor, FailEdit(e)
      PROVE  /\ order' \in [Process -> [Capability -> Order]]
             /\ accepted' \in [Capability -> Order]
             /\ edits' \in [Editor -> Edits]
             /\ edited' \in 0 .. MaxEdits
             /\ torn' \in BOOLEAN
  BY <1>4, <1>0, <1>a DEF FailEdit
<1>5. ASSUME NEW e \in Editor, CommitEdit(e)
      PROVE  /\ order' \in [Process -> [Capability -> Order]]
             /\ accepted' \in [Capability -> Order]
             /\ edits' \in [Editor -> Edits]
             /\ edited' \in 0 .. MaxEdits
             /\ torn' \in BOOLEAN
  <2>1. accepted' \in [Capability -> Order]
    BY <1>5, <1>a DEF CommitEdit, With, Edits
  <2>. QED BY <1>5, <2>1, <1>0, <1>a DEF CommitEdit
<1>6. ASSUME NEW p \in Process, RestartProcess(p)
      PROVE  /\ order' \in [Process -> [Capability -> Order]]
             /\ accepted' \in [Capability -> Order]
             /\ edits' \in [Editor -> Edits]
             /\ edited' \in 0 .. MaxEdits
             /\ torn' \in BOOLEAN
  BY <1>6, <1>0, <1>a, DefaultsAreOrders DEF RestartProcess
<1>7. ASSUME NEW p \in Process, BeginFetch(p)
      PROVE  UNCHANGED <<order, edits, edited, accepted, torn>>
  BY <1>7 DEF BeginFetch, Step
<1>. QED
  BY <1>1, <1>2, <1>3, <1>4, <1>5, <1>6, <1>7
     DEF FailoverNext, RetrySource, NextSource, EscapeLoop, SourceAnswers, EndFetch, Step

\* Together: every step keeps the types.
LEMMA FailoverTypeStep ==
  ASSUME FailoverTypeOK, FetchInv, [FailoverNext]_failoverVars
  PROVE  FailoverTypeOK'
<1>1. CASE FailoverNext
  <2>1. fetch' \in Fetch BY <1>1, FetchTypeStep
  <2>2. /\ order' \in [Process -> [Capability -> Order]]
        /\ accepted' \in [Capability -> Order]
        /\ edits' \in [Editor -> Edits]
        /\ edited' \in 0 .. MaxEdits
        /\ torn' \in BOOLEAN
    BY <1>1, OrdersTypeStep
  <2>. QED BY <2>1, <2>2 DEF FailoverTypeOK, Edits
<1>2. CASE UNCHANGED failoverVars
  BY <1>2 DEF FailoverTypeOK, failoverVars
<1>. QED BY <1>1, <1>2

-----------------------------------------------------------------------------
(* Every step keeps the two parts of the invariant. *)

\* A fetch goes on in the order that it read at its beginning: it moves to the next
\* source only by adding the one it leaves to those that have failed.
LEMMA FetchStep ==
  ASSUME FailoverTypeOK, FetchInv, [FailoverNext]_failoverVars
  PROVE  FetchInv'
<1> USE DEF FailoverTypeOK
<1>1. ASSUME UNCHANGED fetch PROVE FetchInv'
  BY <1>1 DEF FetchInv
<1>2. ASSUME fetch' = NoFetch PROVE FetchInv'
  BY <1>2 DEF FetchInv, NoFetch
<1>3. ASSUME NEW p \in Process, BeginFetch(p) PROVE FetchInv'
  <2>1. PICK c \in Capability, whole \in BOOLEAN :
           /\ Eligible(order[p][c]) # <<>>
           /\ fetch' = [at |-> "try", process |-> p, whole |-> whole,
                        order |-> Eligible(order[p][c]), index |-> 1, attempt |-> 1,
                        failed |-> {}]
    BY <1>3 DEF BeginFetch, Step
  <2>2. /\ Eligible(order[p][c]) \in Seq(Source)
        /\ FakeFallback \/ \A i \in 1 .. Len(Eligible(order[p][c])) :
                             Eligible(order[p][c])[i] # Fake
    BY EligibleFacts
  <2>3. Len(Eligible(order[p][c])) \in Nat \ {0}
    BY <2>1, <2>2, EmptySeq
  <2>4. /\ fetch'.order = Eligible(order[p][c]) /\ fetch'.index = 1
        /\ fetch'.attempt = 1 /\ fetch'.failed = {}
    BY <2>1
  <2>. QED BY <2>2, <2>3, <2>4 DEF FetchInv
<1>4. CASE RetrySource
  <2>1. /\ fetch.at = "try" /\ fetch'.order = fetch.order /\ fetch'.index = fetch.index
        /\ fetch'.failed = fetch.failed /\ fetch'.attempt = fetch.attempt + 1
    BY <1>4 DEF RetrySource, Trying, Step, Fetch
  <2>2. fetch.attempt + 1 # 0 BY DEF Fetch
  <2>. QED BY <2>1, <2>2 DEF FetchInv
<1>5. CASE NextSource
  <2>1. CASE fetch.index = Len(fetch.order)
    BY <1>5, <2>1, <1>2 DEF NextSource, Step
  <2>2. CASE fetch.index # Len(fetch.order)
    <3>1. /\ fetch.at = "try" /\ fetch'.order = fetch.order
          /\ fetch'.index = fetch.index + 1 /\ fetch'.attempt = 1
          /\ fetch'.failed = fetch.failed \cup {fetch.order[fetch.index]}
      BY <1>5, <2>2 DEF NextSource, Trying, Step, Asked, Fetch
    <3>2. /\ fetch.index \in 1 .. Len(fetch.order) /\ Len(fetch.order) \in Nat
          /\ fetch.failed = {fetch.order[i] : i \in 1 .. fetch.index - 1}
          /\ FakeFallback \/ \A i \in 1 .. Len(fetch.order) : fetch.order[i] # Fake
      BY <3>1, LenProperties DEF FetchInv, Fetch
    <3>3. fetch'.index \in 1 .. Len(fetch.order)
      BY <2>2, <3>1, <3>2
    <3>4. 1 .. fetch'.index - 1 = (1 .. fetch.index - 1) \cup {fetch.index}
      BY <3>1, <3>2
    <3>5. fetch'.failed = {fetch.order[i] : i \in 1 .. fetch'.index - 1}
      BY ONLY <3>1, <3>2, <3>4
    <3>. QED BY <3>1, <3>2, <3>3, <3>5 DEF FetchInv
  <2>. QED BY <2>1, <2>2
<1>6. CASE SourceAnswers
  <2>1. /\ fetch.at = "try" /\ fetch'.order = fetch.order /\ fetch'.index = fetch.index
        /\ fetch'.failed = fetch.failed /\ fetch'.attempt = fetch.attempt
    BY <1>6 DEF SourceAnswers, Trying, Step, Fetch
  <2>. QED BY <2>1 DEF FetchInv
<1>7. CASE EscapeLoop \/ EndFetch
  BY <1>7, <1>2 DEF EscapeLoop, EndFetch, Step
<1>8. ASSUME NEW p \in Process, RestartProcess(p) PROVE FetchInv'
  BY <1>8, <1>1, <1>2 DEF RestartProcess
<1>9. ASSUME NEW e \in Editor, BeginEdit(e) \/ EditOne(e) \/ FailEdit(e) \/ CommitEdit(e)
      PROVE  FetchInv'
  BY <1>9, <1>1 DEF BeginEdit, EditOne, FailEdit, CommitEdit
<1>10. CASE UNCHANGED failoverVars
  BY <1>10, <1>1 DEF failoverVars
<1>. QED
  BY <1>3, <1>4, <1>5, <1>6, <1>7, <1>8, <1>9, <1>10 DEF FailoverNext

\* A request sets lists in memory one by one; its end, the restart of the process and
\* a refusal before anything was set bring memory and accepted orders together.
LEMMA EditStep ==
  ASSUME FailoverTypeOK, EditInv, [FailoverNext]_failoverVars
  PROVE  EditInv'
<1> USE DEF FailoverTypeOK
<1>a. edits \in [Editor -> Edits] BY DEF Edits
<1>1. ASSUME UNCHANGED <<order, edits, accepted, torn>> PROVE EditInv'
  BY <1>1 DEF EditInv, EditOpen
<1>2. ASSUME NEW e \in Editor, BeginEdit(e), ~torn' PROVE EditInv'
  <2>1. PICK n, todo :
           /\ n \in 1 .. 2 /\ todo \in [1 .. n -> Capability \X (NamedOrders \cup {Bad})]
           /\ edits' = [edits EXCEPT ![e].todo = todo]
    BY <1>2 DEF BeginEdit
  <2>2. ~torn /\ \A d \in Editor : ~EditOpen(d)
    BY <1>2 DEF BeginEdit, EditOpen
  <2>3. order' = order /\ accepted' = accepted /\ order["api"] = accepted
    BY <1>2, <2>2 DEF BeginEdit, EditInv
  <2>4. edits'[e].applied = NoEdit.applied
    BY <2>1, <2>2, <1>a DEF EditOpen, Edits
  <2>5. \A d \in Editor \ {e} : edits'[d] = NoEdit
    BY <2>1, <2>2, <1>a DEF EditOpen
  <2>6. edits'[e] # NoEdit
    <3>1. edits'[e].todo = todo /\ 1 \in DOMAIN todo
      BY <2>1, <1>a DEF Edits
    <3>2. 1 \notin DOMAIN NoEdit.todo
      BY EmptySeq DEF NoEdit
    <3>. QED BY <3>1, <3>2
  <2>7. With(accepted, NoEdit.applied) = accepted
    BY NothingSet
  <2>. QED BY <2>3, <2>4, <2>5, <2>6, <2>7 DEF EditInv, EditOpen
<1>3. ASSUME NEW e \in Editor, EditOne(e), ~torn' PROVE EditInv'
  <2> DEFINE next == Head(edits[e].todo)
  <2>1. /\ next[1] \in Capability /\ next[2] \in NamedOrders \cup {Bad}
        /\ next[2] # Bad => next[2] \in Order
    BY <1>3, HeadFacts DEF EditOne
  <2>2. EditOpen(e)
    BY <1>3 DEF EditOne, EditOpen, NoEdit
  <2>3. CASE next[2] = Bad
    <3>1. ~torn /\ ~HasApplied(e) /\ order' = order /\ accepted' = accepted
          /\ edits' = [edits EXCEPT ![e] = NoEdit]
      BY <1>3, <2>3 DEF EditOne, OrderAfter
    <3>2. edits[e].applied = NoEdit.applied
      BY <3>1, <1>a, NothingSet DEF HasApplied, Edits, NoEdit
    <3>3. order["api"] = accepted
      BY <3>1, <3>2, <2>2, NothingSet DEF EditInv
    <3>4. \A d \in Editor : edits'[d] = NoEdit
      BY <3>1, <2>2, <1>a DEF EditInv, EditOpen
    <3>. QED BY <3>1, <3>3, <3>4 DEF EditInv, EditOpen
  <2>4. CASE next[2] # Bad
    <3>1. ~torn /\ order' = [order EXCEPT !["api"][next[1]] = next[2]] /\ accepted' = accepted
          /\ edits' = [edits EXCEPT ![e] = [todo |-> Tail(edits[e].todo),
                         applied |-> [edits[e].applied EXCEPT ![next[1]] = next[2]]]]
      BY <1>3, <2>4 DEF EditOne, OrderAfter
    <3>2. order["api"] = With(accepted, edits[e].applied)
      BY <3>1, <2>2 DEF EditInv
    <3>3. edits'[e].applied = [edits[e].applied EXCEPT ![next[1]] = next[2]]
      BY <3>1, <1>a
    <3>4. order'["api"] = [order["api"] EXCEPT ![next[1]] = next[2]]
      BY <3>1 DEF Process
    <3>5. next[2] # Unset
      BY <2>1, <2>4 DEF Bad, Unset
    <3>6. edits[e].applied \in [Capability -> NamedOrders \cup {Unset}]
      BY <1>a DEF Edits
    <3>7. [With(accepted, edits[e].applied) EXCEPT ![next[1]] = next[2]]
            = With(accepted, [edits[e].applied EXCEPT ![next[1]] = next[2]])
      BY <3>5, <3>6, <2>1 DEF With
    <3>8. order'["api"] = With(accepted', edits'[e].applied)
      BY <3>1, <3>2, <3>3, <3>4, <3>7
    <3>9. \A d \in Editor \ {e} : edits'[d] = NoEdit
      BY <3>1, <2>2, <1>a DEF EditInv, EditOpen
    <3>10. \A c \in Capability : (edits'[e].applied)[c] # Unset => edits'[e] # NoEdit
      BY NothingSet
    <3>11. edits'[e] # NoEdit
      BY <3>3, <3>5, <3>6, <3>10, <2>1
    <3>. QED BY <3>8, <3>9, <3>11 DEF EditInv, EditOpen
  <2>. QED BY <2>3, <2>4
<1>4. ASSUME NEW e \in Editor, FailEdit(e) PROVE torn'
  BY <1>4 DEF FailEdit
<1>5. ASSUME NEW e \in Editor, CommitEdit(e), ~torn' PROVE EditInv'
  <2>1. ~torn /\ HasApplied(e) /\ order' = order
        /\ accepted' = With(accepted, edits[e].applied)
        /\ edits' = [edits EXCEPT ![e] = NoEdit]
    BY <1>5 DEF CommitEdit
  <2>2. EditOpen(e)
    BY <2>1, NothingSet DEF EditOpen, HasApplied
  <2>3. order'["api"] = accepted'
    BY <2>1, <2>2 DEF EditInv
  <2>4. \A d \in Editor : edits'[d] = NoEdit
    BY <2>1, <2>2, <1>a DEF EditInv, EditOpen
  <2>. QED BY <2>3, <2>4 DEF EditInv, EditOpen
<1>6. ASSUME NEW p \in Process, RestartProcess(p) PROVE EditInv'
  <2>1. CASE p = "api"
    <3>1. order'["api"] = accepted' /\ \A d \in Editor : edits'[d] = NoEdit
      BY <1>6, <2>1 DEF RestartProcess
    <3>. QED BY <3>1 DEF EditInv, EditOpen
  <2>2. CASE p # "api"
    <3>1. order'["api"] = order["api"] /\ edits' = edits /\ accepted' = accepted
          /\ torn' = torn
      BY <1>6, <2>2 DEF RestartProcess
    <3>. QED BY <3>1 DEF EditInv, EditOpen
  <2>. QED BY <2>1, <2>2
<1>7. ASSUME NEW p \in Process, BeginFetch(p) PROVE UNCHANGED <<order, edits, accepted, torn>>
  BY <1>7 DEF BeginFetch, Step
<1>8. CASE UNCHANGED failoverVars
  BY <1>8, <1>1 DEF failoverVars
<1>9. CASE torn'
  BY <1>9 DEF EditInv
<1>10. CASE ~torn'
  BY <1>10, <1>1, <1>2, <1>3, <1>4, <1>5, <1>6, <1>7, <1>8
     DEF FailoverNext, RetrySource, NextSource, EscapeLoop, SourceAnswers, EndFetch, Step
<1>. QED BY <1>9, <1>10

-----------------------------------------------------------------------------
(* The theorems. *)

\* The invariant holds at the start.
LEMMA FailoverInitially == FailoverInit => FailoverIInv
<1> SUFFICES ASSUME FailoverInit PROVE FailoverIInv OBVIOUS
<1>1. FailoverTypeOK
  <2>1. order \in [Process -> [Capability -> Order]] /\ accepted \in [Capability -> Order]
    BY DefaultsAreOrders DEF FailoverInit
  <2>2. fetch \in Fetch
    BY EmptySeq DEF FailoverInit, NoFetch, Fetch, Process
  <2>3. edits \in [Editor -> Edits]
    BY NothingSet DEF FailoverInit, Edits
  <2>4. edited \in 0 .. MaxEdits
    BY DEF FailoverInit
  <2>5. torn = FALSE
    BY DEF FailoverInit
  <2>6. torn \in BOOLEAN
    BY <2>5, Zenon
  <2>. QED BY <2>1, <2>2, <2>3, <2>4, <2>6 DEF FailoverTypeOK, Edits
<1>2. FetchInv
  BY DEF FailoverInit, FetchInv, NoFetch
<1>3. EditInv
  BY DEF FailoverInit, EditInv, EditOpen, Process
<1>. QED BY <1>1, <1>2, <1>3 DEF FailoverIInv

\* It implies what the run checks.
LEMMA FailoverIInvSuffices == FailoverIInv => SourcesFollowTheOrders
<1> SUFFICES ASSUME FailoverIInv PROVE SourcesFollowTheOrders OBVIOUS
<1> USE DEF FailoverIInv
<1>1. AnswersFollowTheOrder
  <2> SUFFICES ASSUME fetch.at = "answered"
               PROVE  /\ Asked = Fake => FakeFallback
                      /\ ToSet(SubSeq(fetch.order, 1, fetch.index - 1)) = fetch.failed
    BY DEF AnswersFollowTheOrder
  <2>1. /\ fetch.order \in Seq(Source) /\ Len(fetch.order) \in Nat
        /\ fetch.index \in 1 .. Len(fetch.order)
        /\ fetch.failed = {fetch.order[i] : i \in 1 .. fetch.index - 1}
        /\ FakeFallback \/ \A i \in 1 .. Len(fetch.order) : fetch.order[i] # Fake
    BY LenProperties DEF FailoverTypeOK, Fetch, FetchInv
  <2> DEFINE before == SubSeq(fetch.order, 1, fetch.index - 1)
  <2>2. \A i \in 1 .. fetch.index - 1 : fetch.order[i] \in Source
    BY <2>1, ElementOfSeq
  <2>3. 1 \in Int /\ fetch.index - 1 \in Int /\ fetch.index - 1 >= 0
    BY <2>1
  <2>4. /\ before \in Seq(Source)
        /\ Len(before) = IF 1 <= fetch.index - 1 THEN fetch.index - 1 - 1 + 1 ELSE 0
        /\ \A i \in 1 .. fetch.index - 1 - 1 + 1 : before[i] = fetch.order[1 + i - 1]
    BY ONLY <2>2, <2>3, SubSeqProperties
  <2>5. /\ Len(before) = fetch.index - 1 /\ DOMAIN before = 1 .. fetch.index - 1
        /\ \A i \in 1 .. fetch.index - 1 : before[i] = fetch.order[i]
    <3>1. Len(before) = fetch.index - 1 BY <2>3, <2>4
    <3>2. DOMAIN before = 1 .. Len(before) BY ONLY <2>4, LenProperties
    <3>3. ASSUME NEW i \in 1 .. fetch.index - 1 PROVE before[i] = fetch.order[i]
      <4>1. i \in 1 .. fetch.index - 1 - 1 + 1 /\ 1 + i - 1 = i BY <2>3
      <4>. QED BY <2>4, <4>1
    <3>. QED BY <3>1, <3>2, <3>3
  <2>6. ToSet(before) = fetch.failed
    BY <2>1, <2>5 DEF ToSet
  <2>. QED BY <2>1, <2>6 DEF Asked
<1>2. OrdersAreAccepted
  BY DEF EditInv, OrdersAreAccepted, EditOpen
<1>. QED BY <1>1, <1>2 DEF SourcesFollowTheOrders

\* The types of the orders, the fetch and the requests.
THEOREM FailoverTypeCorrect == FailoverSpec => []FailoverTypeOK
<1>1. FailoverIInv /\ [FailoverNext]_failoverVars => FailoverIInv'
  BY FailoverTypeStep, FetchStep, EditStep DEF FailoverIInv
<1>2. FailoverIInv => FailoverTypeOK BY DEF FailoverIInv
<1>. QED BY <1>1, <1>2, FailoverInitially, PTL DEF FailoverSpec

\* The source that answers is the first of its order that has not failed in this fetch,
\* the fake one answers only where it may, and between requests the memory of the API
\* process holds what was accepted: for every set of sources and capabilities, any
\* number of requests and attempts, whatever fails or restarts.
THEOREM SourcesAlwaysFollowTheOrders == FailoverSpec => []SourcesFollowTheOrders
<1>1. FailoverIInv /\ [FailoverNext]_failoverVars => FailoverIInv'
  BY FailoverTypeStep, FetchStep, EditStep DEF FailoverIInv
<1>. QED BY <1>1, FailoverInitially, FailoverIInvSuffices, PTL DEF FailoverSpec

HIDE FailoverAssumption

-----------------------------------------------------------------------------
(***************************************************************************)
(* TokenBucket, for any capacity, rate, callers and delays.                *)
(*                                                                         *)
(* The argument: tokens taken in the last ticks and the tokens that are    *)
(* there never exceed a full bucket and its refill.  A caller that sleeps  *)
(* for its deficit has the bucket to itself, so nothing is taken while it  *)
(* sleeps, and what it takes in the end is what has come meanwhile.        *)
(***************************************************************************)

\* A token is Period units, and a full bucket holds one at least.
LEMMA TokenUnits ==
    /\ Full \in Nat /\ Full >= Period
    /\ \A n \in Int : n * Period \in Int /\ (n + 1) * Period = n * Period + Period
    /\ 0 * Period = 0
BY BucketAssumption DEF Full

\* The smaller of two.
LEMMA LesserOfTwo ==
    ASSUME NEW m \in Int, NEW n \in Int
    PROVE  Min({m, n}) = IF m <= n THEN m ELSE n
<1> DEFINE least == IF m <= n THEN m ELSE n
<1>1. least \in {m, n} /\ \A y \in {m, n} : least <= y
  OBVIOUS
<1>2. \A x \in {m, n} : (\A y \in {m, n} : x <= y) => x = least
  OBVIOUS
<1> HIDE DEF least
<1>3. Min({m, n}) = least
  BY <1>1, <1>2 DEF Min
<1> QED BY <1>3 DEF least

\* What a caller that sleeps for its deficit has left of the rate: nothing has
\* been taken since, and what was there when it began to sleep is still there.
Slept(length, left, there, tokens) ==
    /\ length >= left /\ length > 0 /\ there = Period - length
    /\ \A a \in Ago :
         IF a < length - left THEN tokens[a] = 0
         ELSE tokens[a] * Period + there <= Full + a - (length - left)

\* Tokens taken and tokens there never exceed a full bucket and its refill.
BucketInv ==
    \/ together
    \/ /\ \A c, d \in Sleeping : c = d
       /\ \A c \in Sleeping : Slept(sleeps[c].length, sleeps[c].left, credit, granted)
       /\ Sleeping = {} => \A a \in Ago : granted[a] * Period + Refilled <= Full + a

\* The inductive invariant.
BucketIInv == BucketTypeOK /\ BucketInv

\* What a caller sleeps and has left of it.
Sleeps == [length : 0 .. Period, left : -MaxDelay .. Period]

\* What a look at the bucket finds, whatever is in it and whenever it was filled.
RefillOf(there, ticks) == IF ticks > 0 THEN Min({Full, there + ticks}) ELSE there

\* It never finds more than a full bucket.
LEMMA RefillFacts ==
    ASSUME NEW there \in 0 .. Full, NEW ticks \in -Period .. Full
    PROVE  /\ RefillOf(there, ticks) \in 0 .. Full
           /\ RefillOf(there, ticks) =
                IF ticks > 0 THEN IF Full <= there + ticks THEN Full ELSE there + ticks
                             ELSE there
<1>1. Full \in Nat /\ Period \in Nat \ {0}
  BY BucketAssumption, TokenUnits
<1>2. Min({Full, there + ticks}) = IF Full <= there + ticks THEN Full ELSE there + ticks
  BY <1>1, LesserOfTwo
<1> QED BY <1>1, <1>2 DEF RefillOf

\* So what a look finds in the bucket of the specification has a type.
LEMMA RefilledType ==
    ASSUME BucketTypeOK
    PROVE  Refilled = RefillOf(credit, since) /\ Refilled \in 0 .. Full /\ Since \in -Period .. 0
<1>1. credit \in 0 .. Full /\ since \in -Period .. Full
  BY DEF BucketTypeOK
<1>2. Refilled = RefillOf(credit, since)
  BY DEF Refilled, RefillOf
<1>3. Since \in -Period .. 0
  BY <1>1, BucketAssumption, TokenUnits DEF Since
<1> QED BY <1>1, <1>2, <1>3, RefillFacts

\* The variables keep their types.
LEMMA BucketTypeStep == BucketTypeOK /\ [BucketNext]_bucketVars => BucketTypeOK'
<1> SUFFICES ASSUME BucketTypeOK, [BucketNext]_bucketVars PROVE BucketTypeOK'
  OBVIOUS
<1> USE BucketAssumption
<1>T. /\ credit \in 0 .. Full /\ since \in -Period .. Full
      /\ sleeps \in [Caller -> Sleeps]
      /\ granted \in [Ago -> Nat] /\ together \in BOOLEAN
      /\ Full \in Nat /\ Full >= Period
      /\ Refilled \in 0 .. Full /\ Since \in -Period .. 0
  BY TokenUnits, RefilledType DEF BucketTypeOK, Sleeps
<1>U. Period \in Nat \ {0} /\ MaxDelay \in Nat
  OBVIOUS
<1>1. ASSUME NEW c \in Caller, TakeToken(c) PROVE BucketTypeOK'
  <2>1. credit' \in 0 .. Full /\ since' \in -Period .. Full
    BY <1>1, <1>T, <1>U DEF TakeToken
  <2>2. granted' \in [Ago -> Nat] /\ together' \in BOOLEAN
    BY <1>1, <1>T DEF TakeToken, Grant, Overlap
  <2> QED BY <1>1, <1>T, <2>1, <2>2 DEF BucketTypeOK, TakeToken, Sleeps
<1>2. ASSUME NEW c \in Caller, Wait(c) PROVE BucketTypeOK'
  <2> DEFINE deficit == Period - Refilled
  <2>1. deficit \in 1 .. Period
    BY <1>2, <1>T, <1>U DEF Wait
  <2>2. [length |-> deficit, left |-> deficit] \in Sleeps
    BY <2>1, <1>U DEF Sleeps
  <2>3. sleeps' \in [Caller -> Sleeps]
    BY <1>2, <1>T, <2>2 DEF Wait
  <2>4. credit' \in 0 .. Full /\ since' \in -Period .. Full
    BY <1>2, <1>T, <1>U DEF Wait
  <2>5. granted' \in [Ago -> Nat] /\ together' \in BOOLEAN
    BY <1>2, <1>T DEF Wait, Overlap
  <2> QED BY <2>3, <2>4, <2>5 DEF BucketTypeOK, Sleeps
<1>3. ASSUME NEW c \in Caller, Resume(c) PROVE BucketTypeOK'
  <2>1. Awake \in Sleeps
    BY <1>U DEF Awake, Sleeps
  <2>2. sleeps' \in [Caller -> Sleeps]
    BY <1>3, <1>T, <2>1 DEF Resume
  <2>3. sleeps[c].length \in 0 .. Period
    BY <1>T DEF Sleeps
  <2>4. credit' \in 0 .. Full /\ since' \in -Period .. Full
    BY <1>3, <1>T, <1>U, <2>3 DEF Resume, ClockAfterSleep
  <2>5. granted' \in [Ago -> Nat] /\ together' \in BOOLEAN
    BY <1>3, <1>T DEF Resume, Grant
  <2> QED BY <2>2, <2>4, <2>5 DEF BucketTypeOK, Sleeps
<1>4. ASSUME BucketTick PROVE BucketTypeOK'
  <2>1. ASSUME NEW c \in Caller
        PROVE  (IF c \in Sleeping THEN [sleeps[c] EXCEPT !.left = @ - 1] ELSE Awake) \in Sleeps
    <3>1. CASE c \in Sleeping
      <4>1. sleeps[c] \in Sleeps /\ sleeps[c].left > -MaxDelay
        BY <1>4, <1>T, <3>1 DEF BucketTick
      <4> QED BY <3>1, <4>1, <1>U DEF Sleeps
    <3>2. CASE c \notin Sleeping
      BY <3>2, <1>U DEF Awake, Sleeps
    <3> QED BY <3>1, <3>2
  <2>2. sleeps' \in [Caller -> Sleeps]
    BY <1>4, <2>1 DEF BucketTick
  <2>3. since' \in -Period .. Full
    <3>1. Min({since + 1, Full}) = IF since + 1 <= Full THEN since + 1 ELSE Full
      BY <1>T, LesserOfTwo
    <3> QED BY <1>4, <1>T, <1>U, <3>1 DEF BucketTick
  <2>4. granted' \in [Ago -> Nat]
    BY <1>4, <1>T DEF BucketTick, Ago
  <2> QED BY <1>4, <1>T, <2>2, <2>3, <2>4 DEF BucketTypeOK, BucketTick, Sleeps
<1>5. CASE UNCHANGED bucketVars
  BY <1>5, <1>T DEF bucketVars, BucketTypeOK, Sleeps
<1> QED BY <1>1, <1>2, <1>3, <1>4, <1>5 DEF BucketNext

\* Every step keeps what was taken and what is there within the rate.
LEMMA BucketStep == BucketIInv /\ [BucketNext]_bucketVars => BucketInv'
<1> SUFFICES ASSUME BucketIInv, [BucketNext]_bucketVars PROVE BucketInv'
  BY DEF BucketIInv
<1> USE BucketAssumption
<1>T. /\ BucketTypeOK /\ credit \in 0 .. Full /\ since \in -Period .. Full
      /\ sleeps \in [Caller -> Sleeps] /\ granted \in [Ago -> Nat]
      /\ Refilled \in 0 .. Full /\ Since \in -Period .. 0
  BY RefilledType DEF BucketIInv, BucketTypeOK, Sleeps
<1>U. /\ Period \in Nat \ {0} /\ MaxDelay \in Nat /\ Full \in Nat /\ Full >= Period
      /\ \A n \in Int : n * Period \in Int /\ (n + 1) * Period = n * Period + Period
      /\ 0 * Period = 0
      /\ \A a \in Ago : a \in Nat /\ (a # 0 => a - 1 \in Ago)
  BY TokenUnits DEF Ago
<1>V. \A c \in Caller : sleeps[c].length \in 0 .. Period /\ sleeps[c].left \in -MaxDelay .. Period
  BY <1>T DEF Sleeps
<1>O. CASE together'
  BY <1>O DEF BucketInv
<1>J. SUFFICES ASSUME ~together' PROVE BucketInv'
  BY <1>O
<1>I. ASSUME ~together
      PROVE  /\ \A c, d \in Sleeping : c = d
             /\ \A c \in Sleeping :
                  Slept(sleeps[c].length, sleeps[c].left, credit, granted)
             /\ Sleeping = {} => \A a \in Ago : granted[a] * Period + Refilled <= Full + a
  BY <1>I DEF BucketIInv, BucketInv
<1>1. ASSUME NEW c \in Caller, TakeToken(c) PROVE BucketInv'
  <2>1. ~together /\ Sleeping = {} /\ Sleeping' = {}
    BY <1>1, <1>J DEF TakeToken, Overlap, Sleeping
  <2>2. Refilled' = Refilled - Period
    BY <1>1, <1>T DEF TakeToken, Refilled, Since
  <2>3. ASSUME NEW a \in Ago PROVE granted'[a] * Period + Refilled' <= Full + a
    <3>1. granted'[a] = granted[a] + 1 /\ granted[a] \in Int
      BY <1>1, <1>T DEF TakeToken, Grant
    <3>2. granted'[a] * Period = granted[a] * Period + Period /\ granted[a] * Period \in Int
      BY <1>U, <3>1
    <3>3. granted[a] * Period + Refilled <= Full + a
      BY <1>I, <2>1
    <3> QED BY <1>T, <1>U, <2>2, <3>2, <3>3
  <2> QED BY <2>1, <2>3 DEF BucketInv
<1>2. ASSUME NEW c \in Caller, Wait(c) PROVE BucketInv'
  <2> DEFINE deficit == Period - Refilled
  <2>1. ~together /\ Sleeping = {}
    BY <1>2, <1>J DEF Wait, Overlap
  <2>2. deficit > 0 /\ deficit \in Int
    BY <1>2, <1>T, <1>U DEF Wait
  <2>3. /\ sleeps' = [sleeps EXCEPT ![c] = [length |-> deficit, left |-> deficit]]
        /\ credit' = Refilled /\ granted' = granted
    BY <1>2 DEF Wait
  <2>4. /\ sleeps'[c].length = deficit /\ sleeps'[c].left = deficit /\ sleeps'[c] # Awake
        /\ \A d \in Caller \ {c} : sleeps'[d] = sleeps[d]
    BY <1>T, <2>2, <2>3 DEF Awake
  <2>5. Sleeping' = {c}
    BY <2>1, <2>4 DEF Sleeping
  <2>6. Slept(deficit, deficit, credit', granted')
    <3>1. \A a \in Ago : granted[a] * Period + Refilled <= Full + a
      BY <1>I, <2>1
    <3>2. \A a \in Ago : ~(a < deficit - deficit) /\ deficit - deficit = 0
      BY <1>U, <2>2
    <3>3. credit' = Period - deficit /\ credit' = Refilled /\ granted' = granted
      BY <1>T, <1>U, <2>3
    <3>4. \A a \in Ago : Full + a - (deficit - deficit) = Full + a
      BY <1>U, <3>2
    <3> HIDE DEF deficit
    <3> QED BY <2>2, <3>1, <3>2, <3>3, <3>4 DEF Slept
  <2> QED BY <2>4, <2>5, <2>6 DEF BucketInv
<1>3. ASSUME NEW c \in Caller, Resume(c) PROVE BucketInv'
  <2> DEFINE length == sleeps[c].length
             left == sleeps[c].left
  <2>1. ~together /\ c \in Sleeping /\ left <= 0
    BY <1>3, <1>J DEF Resume
  <2>2. /\ credit' = 0 /\ since' = -length /\ sleeps' = [sleeps EXCEPT ![c] = Awake]
        /\ granted' = [a \in Ago |-> granted[a] + 1]
    BY <1>3 DEF Resume, ClockAfterSleep, Grant
  <2>3. Slept(length, left, credit, granted) /\ length \in 0 .. Period /\ left \in Int /\ left <= 0
    <3>1. length \in 0 .. Period /\ left \in -MaxDelay .. Period
      BY <1>V
    <3>2. Slept(length, left, credit, granted)
      BY <1>I, <2>1
    <3> HIDE DEF length, left
    <3>3. left \in Int
      BY <3>1
    <3> QED BY <2>1, <3>1, <3>2, <3>3
  <2>4. Sleeping' = {}
    <3>1. \A d \in Caller \ {c} : sleeps[d] = Awake
      BY <1>I, <2>1 DEF Sleeping
    <3> QED BY <1>T, <2>2, <3>1 DEF Sleeping
  <2> HIDE DEF length, left
  <2>5. Refilled' = 0
    BY <2>2, <2>3 DEF Refilled
  <2>6. ASSUME NEW a \in Ago PROVE granted'[a] * Period + Refilled' <= Full + a
    <3>1. granted'[a] = granted[a] + 1 /\ granted[a] \in Int /\ a \in Nat
      BY <1>T, <1>U, <2>2
    <3>2. granted'[a] * Period = granted[a] * Period + Period /\ granted[a] * Period \in Int
      BY <1>U, <3>1
    <3>3. CASE a < length - left
      <4>1. granted[a] = 0
        BY <2>3, <3>3 DEF Slept
      <4> QED BY <1>U, <2>5, <3>2, <4>1
    <3>4. CASE ~(a < length - left)
      <4>1. granted[a] * Period + credit <= Full + a - (length - left) /\ credit = Period - length
        BY <2>3, <3>4 DEF Slept
      <4>2. ASSUME NEW g \in Int, g + credit <= Full + a - (length - left)
            PROVE  g + Period <= Full + a
        BY <1>T, <1>U, <2>3, <3>1, <4>1, <4>2
      <4> QED BY <1>U, <2>5, <3>2, <4>1, <4>2
    <3> QED BY <3>3, <3>4
  <2> QED BY <2>4, <2>6 DEF BucketInv
<1>4. ASSUME BucketTick PROVE BucketInv'
  <2>1. ~together /\ credit' = credit
    BY <1>4, <1>J DEF BucketTick
  <2>2. \A a \in Ago : granted'[a] = IF a = 0 THEN 0 ELSE granted[a - 1]
    BY <1>4 DEF BucketTick
  <2>3. \A c \in Caller : sleeps'[c] = IF c \in Sleeping THEN [sleeps[c] EXCEPT !.left = @ - 1]
                                                         ELSE Awake
    BY <1>4 DEF BucketTick
  <2>4. ASSUME NEW c \in Sleeping
        PROVE  Slept(sleeps'[c].length, sleeps'[c].left, credit', granted') /\ sleeps'[c] # Awake
    <3> DEFINE length == sleeps[c].length
               left == sleeps[c].left
    <3>1. c \in Caller
      BY DEF Sleeping
    <3>2. /\ Slept(length, left, credit, granted)
          /\ length \in 0 .. Period /\ left \in -MaxDelay .. Period
      BY <1>I, <1>V, <2>1, <3>1
    <3>3. sleeps'[c].length = length /\ sleeps'[c].left = left - 1
      BY <1>T, <2>3, <3>1 DEF Sleeps
    <3> HIDE DEF length, left
    <3>4. Slept(length, left - 1, credit, granted')
      <4>1. ASSUME NEW a \in Ago
            PROVE  IF a < length - (left - 1) THEN granted'[a] = 0
                   ELSE granted'[a] * Period + credit <= Full + a - (length - (left - 1))
        <5>1. CASE a = 0
          BY <1>U, <2>2, <3>2, <5>1 DEF Slept
        <5>2. CASE a # 0
          <6>1. /\ a \in Nat /\ a - 1 \in Ago /\ granted'[a] = granted[a - 1]
                /\ granted[a - 1] * Period \in Int
            BY <1>T, <1>U, <2>2, <5>2
          <6>2. IF a - 1 < length - left THEN granted[a - 1] = 0
                ELSE granted[a - 1] * Period + credit <= Full + (a - 1) - (length - left)
            BY <3>2, <6>1 DEF Slept
          <6> QED BY <1>T, <1>U, <3>2, <6>1, <6>2
        <5> QED BY <5>1, <5>2
      <4> QED BY <3>2, <4>1 DEF Slept
    <3>5. sleeps'[c] # Awake
      BY <3>2, <3>3 DEF Slept, Awake
    <3> QED BY <2>1, <3>3, <3>4, <3>5
  <2>5. Sleeping' = Sleeping
    BY <2>3, <2>4 DEF Sleeping
  <2>6. ASSUME Sleeping = {}, NEW a \in Ago PROVE granted'[a] * Period + Refilled' <= Full + a
    <3>1. Refilled' \in 0 .. Full /\ Refilled' <= Refilled + 1
      <4>1. Min({since + 1, Full}) = IF since + 1 <= Full THEN since + 1 ELSE Full
        BY <1>T, <1>U, LesserOfTwo
      <4>2. since' = (IF since + 1 <= Full THEN since + 1 ELSE Full) /\ since' \in -Period .. Full
        BY <1>4, <1>T, <1>U, <4>1 DEF BucketTick
      <4>3. Refilled = RefillOf(credit, since) /\ Refilled' = RefillOf(credit, since')
        BY <2>1 DEF Refilled, RefillOf
      <4>4. /\ RefillOf(credit, since') \in 0 .. Full
            /\ RefillOf(credit, since') =
                 IF since' > 0 THEN IF Full <= credit + since' THEN Full ELSE credit + since'
                               ELSE credit
        BY <1>T, <4>2, RefillFacts
      <4>5. RefillOf(credit, since) =
                 IF since > 0 THEN IF Full <= credit + since THEN Full ELSE credit + since
                              ELSE credit
        BY <1>T, RefillFacts
      <4> QED BY <1>T, <1>U, <4>2, <4>3, <4>4, <4>5
    <3>2. CASE a = 0
      BY <1>U, <2>2, <3>1, <3>2
    <3>3. CASE a # 0
      <4>1. granted'[a] = granted[a - 1] /\ a - 1 \in Ago /\ a \in Nat
            /\ granted[a - 1] * Period \in Int
        BY <1>T, <1>U, <2>2, <3>3
      <4>2. granted[a - 1] * Period + Refilled <= Full + (a - 1)
        BY <1>I, <2>1, <2>6, <4>1
      <4> QED BY <1>T, <1>U, <3>1, <4>1, <4>2
    <3> QED BY <3>2, <3>3
  <2> QED BY <1>I, <2>1, <2>4, <2>5, <2>6 DEF BucketInv
<1>5. CASE UNCHANGED bucketVars
  BY <1>5, <1>I, <1>J DEF bucketVars, BucketInv, Sleeping, Refilled
<1> QED BY <1>1, <1>2, <1>3, <1>4, <1>5 DEF BucketNext

\* A full bucket of which nothing has been taken.
LEMMA BucketInitially == BucketInit => BucketIInv
<1> SUFFICES ASSUME BucketInit PROVE BucketIInv
  OBVIOUS
<1> USE BucketAssumption, TokenUnits
<1>1. BucketTypeOK
  <2>1. Awake \in [length : 0 .. Period, left : -MaxDelay .. Period]
    BY DEF Awake
  <2>2. together \in BOOLEAN
    BY Zenon DEF BucketInit
  <2> QED BY <2>1, <2>2 DEF BucketInit, BucketTypeOK
<1>2. Sleeping = {}
  BY DEF BucketInit, Sleeping
<1>3. \A a \in Ago : granted[a] * Period + Refilled <= Full + a
  BY DEF BucketInit, Refilled, Ago
<1> QED BY <1>1, <1>2, <1>3 DEF BucketIInv, BucketInv

\* base.py: the bucket and its clock keep their types.
THEOREM BucketTypeCorrect == BucketSpec => []BucketTypeOK
<1>1. BucketInit => BucketTypeOK
  BY BucketInitially DEF BucketIInv
<1> QED BY <1>1, BucketTypeStep, PTL DEF BucketSpec

\* The tokens observed bound the rate.
LEMMA BucketIInvSuffices == BucketIInv => RateIsKept
<1> SUFFICES ASSUME BucketIInv, ~together
             PROVE  granted[Horizon - 1] * Period <= Full + (Horizon - 1)
  BY DEF RateIsKept
<1> USE BucketAssumption
<1>1. Horizon - 1 \in Ago /\ granted[Horizon - 1] \in Nat
  BY DEF Ago, BucketIInv, BucketTypeOK
<1>2. /\ granted[Horizon - 1] * Period \in Int /\ Refilled \in 0 .. Full /\ Full \in Nat
      /\ 0 * Period = 0
  BY <1>1, TokenUnits, RefilledType DEF BucketIInv
<1>3. CASE Sleeping = {}
  <2>1. granted[Horizon - 1] * Period + Refilled <= Full + (Horizon - 1)
    BY <1>1, <1>3 DEF BucketIInv, BucketInv
  <2> QED BY <1>2, <2>1
<1>4. CASE Sleeping # {}
  <2>1. PICK c \in Caller : c \in Sleeping
    BY <1>4 DEF Sleeping
  <2> DEFINE length == sleeps[c].length
             left == sleeps[c].left
  <2>2. Slept(length, left, credit, granted) /\ credit \in 0 .. Full
        /\ length \in 0 .. Period /\ left \in -MaxDelay .. Period
    BY <2>1 DEF BucketIInv, BucketInv, BucketTypeOK
  <2> HIDE DEF length, left
  <2>3. CASE Horizon - 1 < length - left
    <3>1. granted[Horizon - 1] = 0
      BY <1>1, <2>2, <2>3 DEF Slept
    <3> QED BY <1>2, <3>1
  <2>4. CASE ~(Horizon - 1 < length - left)
    <3>1. granted[Horizon - 1] * Period + credit <= Full + (Horizon - 1) - (length - left)
      BY <1>1, <2>2, <2>4 DEF Slept
    <3>2. length - left >= 0 /\ length - left \in Int
      BY <2>2 DEF Slept
    <3> QED BY <1>2, <2>2, <3>1, <3>2
  <2> QED BY <2>3, <2>4
<1> QED BY <1>3, <1>4

\* TokenBucket: for every capacity, rate and number of callers, as long as nobody
\* uses the bucket beside a caller that sleeps, the rate is kept in any Horizon ticks.
THEOREM RateIsAlwaysKept == BucketSpec => []RateIsKept
<1>1. BucketIInv /\ [BucketNext]_bucketVars => BucketIInv'
  BY BucketStep, BucketTypeStep DEF BucketIInv
<1> QED BY <1>1, BucketInitially, BucketIInvSuffices, PTL DEF BucketSpec

-----------------------------------------------------------------------------
(***************************************************************************)
(* PoolWriters, for any securities and states of the cycle.                *)
(*                                                                         *)
(* The argument: a run that replaces a table, and has met no rival since   *)
(* it began, still sees the whole table, so it deletes every row of it,    *)
(* and what it leaves is its batch.  Supplements and sums change no birth  *)
(* of a row, so they disturb no snapshot.  The row of the date lets in one *)
(* judgement at a time: what it has announced it stores, unless it fails.  *)
(***************************************************************************)

USE WritersAssumption

-----------------------------------------------------------------------------
(* The invariant. *)

\* The statements a run goes through.
PlacesOf(op) ==
    CASE op \in Replaces       -> {"delete", "insert", "commit"}
      [] op \in Fills          -> {"update", "commit"}
      [] op = "judge"          -> {"sentiment", "judge", "commit"}
      [] op = "quote"          -> {"merge", "commit"}
      [] op = "replace_themes" -> {"themes", "commit"}
      [] OTHER                 -> {"none"}

\* Every run is at a statement of its own, and holds what it has written: the row of
\* the theme when it has stocks to count, the sentiment row once it judges.
RunsInPlace == \A w \in Writers :
    /\ runs[w].at \in PlacesOf(runs[w].op)
    /\ runs[w].op = "none" => runs[w] = NoRun
    /\ runs[w].op # "none" => runs[w].id # 0
    /\ runs[w].op = "replace_stocks" =>
          (Theme \in runs[w].held <=> runs[w].at = "commit" /\ runs[w].rows # {})

\* A row that was never inserted is no row.
RowsAreBorn ==
    \A t \in ReplacedTable, s \in Stock : table[t][s].born = 0 => table[t][s] = NoPoolRow

\* The snapshot of a run still shows the table it works on.
Fresh(w) == \A s \in Stock : runs[w].seen[s] = table[TableOf(runs[w].op)][s].born

\* No other run of one of these operations is open.
Alone(w, ops) == \A v \in Writers \ {w} : runs[v].op \notin ops

\* Unless two runs of quotes have overlapped: what a run has read is still stored.
QuoteInv ==
    "quote" \in mixed \/
        /\ quotes = quoted
        /\ \A w \in Writers : runs[w].op = "quote" =>
              runs[w].payload = quotes /\ Alone(w, {"quote"})

\* Unless two replacements have overlapped: the pool is the last batch, and a
\* replacement that is open sees all of it.
PoolInv ==
    "replace_pool" \in mixed \/
        /\ \A s \in Rows("limit_up_pool") :
              /\ table["limit_up_pool"][s].born = current["limit_up_pool"]
              /\ table["limit_up_pool"][s].of = current["limit_up_pool"]
        /\ \A w \in Writers : runs[w].op = "replace_pool" =>
              Fresh(w) /\ Alone(w, {"replace_pool"})

\* Before the amounts are summed no row has one, and only the worker sums them, once.
NothingSummed ==
    /\ ~summed => \A s \in Stock : "amount" \notin table["limit_up_pool"][s].filled
    /\ \A w \in Writers : runs[w].op = "sum_amounts" => w = "worker" /\ ~summed

\* Unless a replacement has met the sum of the amounts: the sum sees all rows, and no
\* replacement follows it.
SumInv ==
    /\ NothingSummed
    /\ "sum_amounts" \in mixed \/ "replace_pool" \in mixed \/
        /\ summed => /\ \A s \in Rows("limit_up_pool") :
                          "amount" \in table["limit_up_pool"][s].filled <=> s \in counted
                     /\ \A w \in Writers : runs[w].op # "replace_pool"
        /\ \A w \in Writers : runs[w].op = "sum_amounts" =>
              Fresh(w) /\ Alone(w, {"replace_pool"})

\* Unless two replacements of the stocks have overlapped: the count is theirs.
CoreInv ==
    "replace_stocks" \in mixed \/
        /\ \/ coreCount = NoCount \/ Rows("theme_stocks") = {}
           \/ coreCount = Cardinality(Rows("theme_stocks"))
        /\ \A w \in Writers : runs[w].op = "replace_stocks" =>
              Fresh(w) /\ Alone(w, {"replace_stocks"})

\* A run that has written the sentiment row.
Judging(w) == runs[w].op = "judge" /\ runs[w].at \in {"judge", "commit"}

\* It holds that row.  Unless a judgement was lost: what was announced is what is stored,
\* or what the one run that judges is about to store.
JudgeInv ==
    /\ \A w \in Writers : Judging(w) => Sentiment \in runs[w].held
    /\ \A v, w \in Writers : Judging(v) /\ Judging(w) => v = w
    /\ "judge" \in mixed \/
         /\ (\A w \in Writers : ~Judging(w)) => heard = cycle
         /\ \A w \in Writers : Judging(w) =>
               /\ heard = runs[w].state
               /\ runs[w].at = "judge" => heard = cycle

\* What the runs leave in the tables, and see of them.
BatchInv == RowsAreBorn /\ QuoteInv /\ PoolInv /\ SumInv /\ CoreInv

\* The inductive invariant.
WritersIInv == WritersTypeOK /\ RunsInPlace /\ BatchInv /\ JudgeInv

-----------------------------------------------------------------------------
(* Lemmas. *)

\* Tables and operations.
LEMMA OpFacts ==
  /\ \A op : TableOf(op) \in ReplacedTable
  /\ TableOf("replace_pool") = "limit_up_pool" /\ TableOf("sum_amounts") = "limit_up_pool"
  /\ TableOf("supplement") = "limit_up_pool"
  /\ TableOf("replace_stocks") = "theme_stocks"
  /\ Replaces = {"replace_pool", "replace_stocks"} /\ Fills = {"supplement", "sum_amounts"}
  /\ TradingOps = {"replace_pool", "replace_stocks", "replace_themes", "supplement", "judge",
                    "quote"}
  BY DEF TableOf, ReplacedTable, Replaces, Fills, TradingOps

\* Rows of the tables are not rows of a single key.
LEMMA LockFacts ==
  ASSUME NEW op, NEW rows
  PROVE  Theme \notin Cells(op, rows) /\ Sentiment # Theme
<1>1. \A a, b : <<a, b>> # Theme
  BY DEF Theme
<1>. QED BY <1>1 DEF Cells, Theme, Sentiment

\* A step of a statement: the run moves on, with what it has locked.
LEMMA AdvanceFacts ==
  ASSUME WritersTypeOK, NEW w \in Writers, NEW at \in Statements, NEW held \in SUBSET Lockable,
         Advance(w, at, held)
  PROVE  /\ runs' \in [Writers -> WriterRun]
         /\ runs'[w].at = at /\ runs'[w].held = runs[w].held \cup held
         /\ runs'[w].op = runs[w].op /\ runs'[w].id = runs[w].id /\ runs'[w].rows = runs[w].rows
         /\ runs'[w].seen = runs[w].seen /\ runs'[w].payload = runs[w].payload
         /\ runs'[w].state = runs[w].state
         /\ \A v \in Writers \ {w} : runs'[v] = runs[v]
<1>1. runs' = [runs EXCEPT ![w] = [runs[w] EXCEPT !.at = at, !.held = runs[w].held \cup held]]
  BY DEF Advance, WritersTypeOK
<1>2. runs[w] \in WriterRun
  BY DEF WritersTypeOK
<1>3. [runs[w] EXCEPT !.at = at, !.held = runs[w].held \cup held] \in WriterRun
  BY <1>2 DEF WriterRun
<1>. QED BY <1>1, <1>2, <1>3 DEF WriterRun, WritersTypeOK

\* A run that has begun keeps what it works with.
SameWork(r, q) == q.op = r.op /\ q.rows = r.rows /\ q.seen = r.seen /\ q.payload = r.payload

\* Statements and the end of a run without a commit leave the batches alone.
LEMMA BatchRest ==
  ASSUME BatchInv, UNCHANGED <<table, coreCount, quotes, summed, quoted, counted, current>>,
         mixed \subseteq mixed',
         \A v \in Writers : SameWork(runs[v], runs'[v]) \/ runs'[v] = NoRun
  PROVE  BatchInv'
<1>1. \A v \in Writers : \/ SameWork(runs[v], runs'[v])
                         \/ runs'[v].op = "none"
  BY DEF NoRun
<1>2. \A v \in Writers : \A ops : Alone(v, ops) /\ "none" \notin ops => Alone(v, ops)'
  BY <1>1 DEF Alone, SameWork
<1>3. \A v \in Writers : SameWork(runs[v], runs'[v]) /\ Fresh(v) => Fresh(v)'
  BY DEF Fresh, SameWork
<1>4. RowsAreBorn' BY DEF BatchInv, RowsAreBorn
<1>5. QuoteInv' BY <1>1, <1>2 DEF BatchInv, QuoteInv, SameWork
<1>6. PoolInv' BY <1>1, <1>2, <1>3 DEF BatchInv, PoolInv, SameWork, Rows
<1>7. SumInv'
  <2>1. NothingSummed' BY <1>1 DEF BatchInv, SumInv, NothingSummed, SameWork
  <2>. QED BY <1>1, <1>2, <1>3, <2>1 DEF BatchInv, SumInv, SameWork, Rows
<1>8. CoreInv' BY <1>1, <1>2, <1>3 DEF BatchInv, CoreInv, SameWork, Rows
<1>. QED BY <1>4, <1>5, <1>6, <1>7, <1>8 DEF BatchInv

\* A row of the state that no step but the end of a run changes.
LEMMA OthersTypeRest ==
  ASSUME WritersTypeOK, runs' \in [Writers -> WriterRun],
         UNCHANGED <<stored, closed, current, quoted, counted>>,
         runCount' \in 0 .. MaxRuns, heard' \in CycleState \cup {NoState}
  PROVE  WritersTypeOK'
  BY DEF WritersTypeOK, stored

-----------------------------------------------------------------------------
(* The statements. *)

\* What the statements of all operations but the judgement have in common.
LEMMA StatementStep ==
  ASSUME WritersIInv, NEW w \in Writers, NEW at \in {"insert", "commit"},
         NEW held \in SUBSET Lockable,
         Advance(w, at, held), WritingOnly, runs[w].op # "judge", runs[w].op # "none",
         at \in PlacesOf(runs[w].op),
         runs[w].op = "replace_stocks" =>
             (Theme \in held <=> at = "commit" /\ runs[w].rows # {}) /\ Theme \notin runs[w].held
  PROVE  WritersIInv'
<1>0. WritersTypeOK /\ RunsInPlace /\ BatchInv /\ JudgeInv BY DEF WritersIInv
<1>1. /\ runs' \in [Writers -> WriterRun]
      /\ runs'[w].at = at /\ runs'[w].held = runs[w].held \cup held
      /\ runs'[w].op = runs[w].op /\ runs'[w].id = runs[w].id /\ runs'[w].rows = runs[w].rows
      /\ runs'[w].seen = runs[w].seen /\ runs'[w].payload = runs[w].payload
      /\ runs'[w].state = runs[w].state
      /\ \A v \in Writers \ {w} : runs'[v] = runs[v]
  BY <1>0, AdvanceFacts DEF Statements
<1>2. /\ UNCHANGED <<table, coreCount, quotes, cycle, summed, closed, runCount, current>>
      /\ UNCHANGED <<heard, quoted, counted, mixed>>
  BY DEF WritingOnly, stored
<1>3. WritersTypeOK'
  BY <1>0, <1>1, <1>2, OthersTypeRest DEF stored, WritersTypeOK
<1>4. BatchInv'
  <2>1. \A v \in Writers : SameWork(runs[v], runs'[v])
    BY <1>1 DEF SameWork
  <2>. QED BY <1>0, <1>2, <2>1, BatchRest
<1>5. RunsInPlace'
  <2>1. ASSUME NEW v \in Writers
        PROVE  /\ runs'[v].at \in PlacesOf(runs'[v].op)
               /\ runs'[v].op = "none" => runs'[v] = NoRun
               /\ runs'[v].op # "none" => runs'[v].id # 0
               /\ runs'[v].op = "replace_stocks" =>
                    (Theme \in runs'[v].held <=> runs'[v].at = "commit" /\ runs'[v].rows # {})
    <3>1. CASE v = w
      BY <1>0, <1>1, <3>1 DEF RunsInPlace
    <3>2. CASE v # w
      BY <1>0, <1>1, <3>2 DEF RunsInPlace
    <3>. QED BY <3>1, <3>2
  <2>. QED BY <2>1 DEF RunsInPlace
<1>6. JudgeInv'
  <2>1. \A v \in Writers : /\ Judging(v)' <=> Judging(v)
                           /\ Judging(v) => runs'[v] = runs[v]
    BY <1>1 DEF Judging
  <2>. QED BY <1>0, <1>2, <2>1 DEF JudgeInv
<1>. QED BY <1>3, <1>4, <1>5, <1>6 DEF WritersIInv

\* The statements of the replacements, the supplements, the themes and the quotes.
LEMMA BatchStatements ==
  ASSUME WritersIInv, NEW w \in Writers,
         \/ DeleteRows(w) \/ InsertRows(w) \/ UpdateRows(w) \/ ReplaceThemes(w) \/ MergeQuotes(w)
  PROVE  WritersIInv'
<1> DEFINE r == runs[w]
<1>0. /\ r \in WriterRun /\ r.at \in PlacesOf(r.op)
      /\ r.op \in TradingOps \cup {"sum_amounts", "none"}
      /\ r.op = "replace_stocks" =>
           (Theme \in r.held <=> r.at = "commit" /\ r.rows # {})
      /\ r.rows \subseteq Stock
  BY DEF WritersIInv, WritersTypeOK, RunsInPlace, WriterRun
<1>1. \A rows \in SUBSET Stock : Cells(r.op, rows) \in SUBSET Lockable
  BY OpFacts DEF Cells, Lockable
<1>2. Found(r) \subseteq Stock /\ Seen(r) \subseteq Stock
  BY DEF Found, Seen
<1>3. CASE DeleteRows(w)
  <2>1. /\ r.at = "delete" /\ Advance(w, "insert", Cells(r.op, Deleted(r))) /\ WritingOnly
    BY <1>3 DEF DeleteRows
  <2>2. r.op \in Replaces
    BY <1>0, <2>1, OpFacts DEF PlacesOf
  <2>3. "insert" \in PlacesOf(r.op) /\ r.op # "judge" /\ r.op # "none"
    BY <2>2, OpFacts DEF PlacesOf
  <2>4. Cells(r.op, Deleted(r)) \in SUBSET Lockable
    BY <1>1, <1>2 DEF Deleted
  <2>5. Theme \notin Cells(r.op, Deleted(r)) BY LockFacts
  <2>. QED BY <1>0, <2>1, <2>3, <2>4, <2>5, StatementStep
<1>4. CASE InsertRows(w)
  <2> DEFINE cells == Cells(r.op, r.rows)
                     \cup (IF r.op = "replace_stocks" /\ r.rows # {} THEN {Theme} ELSE {})
  <2>1. r.at = "insert" /\ Advance(w, "commit", cells) /\ WritingOnly
    BY <1>4 DEF InsertRows
  <2>2. r.op \in Replaces
    BY <1>0, <2>1, OpFacts DEF PlacesOf
  <2>3. "commit" \in PlacesOf(r.op) /\ r.op # "judge" /\ r.op # "none"
    BY <2>2, OpFacts DEF PlacesOf
  <2>4. cells \in SUBSET Lockable
    BY <1>0, <1>1 DEF Lockable
  <2>5. r.op = "replace_stocks" => (Theme \in cells <=> r.rows # {})
    BY LockFacts
  <2> HIDE DEF cells
  <2>. QED BY <1>0, <2>1, <2>3, <2>4, <2>5, StatementStep
<1>5. CASE UpdateRows(w)
  <2>1. r.at = "update" /\ Advance(w, "commit", Cells(r.op, Found(r) \cap r.rows)) /\ WritingOnly
    BY <1>5 DEF UpdateRows
  <2>2. r.op \in Fills
    BY <1>0, <2>1, OpFacts DEF PlacesOf
  <2>3. "commit" \in PlacesOf(r.op) /\ r.op # "judge" /\ r.op # "none" /\ r.op # "replace_stocks"
    BY <2>2, OpFacts DEF PlacesOf
  <2>4. Cells(r.op, Found(r) \cap r.rows) \in SUBSET Lockable
    BY <1>1, <1>2
  <2>. QED BY <2>1, <2>3, <2>4, StatementStep
<1>6. CASE ReplaceThemes(w)
  <2>1. r.at = "themes" /\ Advance(w, "commit", {Theme}) /\ WritingOnly
    BY <1>6 DEF ReplaceThemes
  <2>2. r.op = "replace_themes"
    BY <1>0, <2>1, OpFacts DEF PlacesOf
  <2>3. "commit" \in PlacesOf(r.op)
    BY <2>2, OpFacts DEF PlacesOf
  <2>4. {Theme} \in SUBSET Lockable BY DEF Lockable
  <2>. QED BY <2>1, <2>2, <2>3, <2>4, StatementStep
<1>7. CASE MergeQuotes(w)
  <2>1. r.at = "merge" /\ Advance(w, "commit", {Opening}) /\ WritingOnly
    BY <1>7 DEF MergeQuotes
  <2>2. r.op = "quote"
    BY <1>0, <2>1, OpFacts DEF PlacesOf
  <2>3. "commit" \in PlacesOf(r.op)
    BY <2>2, OpFacts DEF PlacesOf
  <2>4. {Opening} \in SUBSET Lockable BY DEF Lockable
  <2>. QED BY <2>1, <2>2, <2>3, <2>4, StatementStep
<1>. QED BY <1>3, <1>4, <1>5, <1>6, <1>7

\* WriteSentiment: the row of the date lets one run in, which reads the stored state.
LEMMA SentimentStep ==
  ASSUME WritersIInv, NEW w \in Writers, WriteSentiment(w)
  PROVE  WritersIInv'
<1>0. WritersTypeOK /\ RunsInPlace /\ BatchInv /\ JudgeInv BY DEF WritersIInv
<1>1. /\ runs[w].at = "sentiment" /\ SentimentRow \cap Held(w) = {}
      /\ runs' = [runs EXCEPT ![w] = [runs[w] EXCEPT !.at = "judge", !.held = SentimentRow,
                                                     !.state = cycle]]
      /\ UNCHANGED <<table, coreCount, quotes, cycle, summed, closed, runCount, current>>
      /\ UNCHANGED <<heard, quoted, counted, mixed>>
  BY <1>0 DEF WriteSentiment, WritingOnly, stored, WritersTypeOK
<1>2. runs[w] \in WriterRun /\ runs[w].op = "judge"
  BY <1>0, <1>1, OpFacts DEF RunsInPlace, PlacesOf, WritersTypeOK, WriterRun
<1>3. /\ runs' \in [Writers -> WriterRun]
      /\ runs'[w].at = "judge" /\ runs'[w].held = {Sentiment} /\ runs'[w].state = cycle
      /\ runs'[w].op = "judge" /\ runs'[w].id = runs[w].id /\ runs'[w].rows = runs[w].rows
      /\ runs'[w].seen = runs[w].seen /\ runs'[w].payload = runs[w].payload
      /\ \A v \in Writers \ {w} : runs'[v] = runs[v]
  <2>1. [runs[w] EXCEPT !.at = "judge", !.held = SentimentRow, !.state = cycle] \in WriterRun
    BY <1>0, <1>2 DEF WriterRun, Statements, SentimentRow, Lockable, WritersTypeOK
  <2>. QED BY <1>0, <1>1, <1>2, <2>1 DEF WriterRun, WritersTypeOK, SentimentRow
<1>4. WritersTypeOK'
  BY <1>0, <1>1, <1>3, OthersTypeRest DEF stored, WritersTypeOK
<1>5. BatchInv'
  <2>1. \A v \in Writers : SameWork(runs[v], runs'[v])
    BY <1>2, <1>3 DEF SameWork
  <2>. QED BY <1>0, <1>1, <2>1, BatchRest
<1>6. RunsInPlace'
  <2>1. ASSUME NEW v \in Writers
        PROVE  /\ runs'[v].at \in PlacesOf(runs'[v].op)
               /\ runs'[v].op = "none" => runs'[v] = NoRun
               /\ runs'[v].op # "none" => runs'[v].id # 0
               /\ runs'[v].op = "replace_stocks" =>
                    (Theme \in runs'[v].held <=> runs'[v].at = "commit" /\ runs'[v].rows # {})
    <3>1. CASE v = w
      <4>1. "judge" \in PlacesOf("judge") BY OpFacts DEF PlacesOf
      <4>. QED BY <1>0, <1>2, <1>3, <3>1, <4>1 DEF RunsInPlace
    <3>2. CASE v # w
      BY <1>0, <1>3, <3>2 DEF RunsInPlace
    <3>. QED BY <3>1, <3>2
  <2>. QED BY <2>1 DEF RunsInPlace
<1>7. JudgeInv'
  <2>1. \A v \in Writers : ~Judging(v)
    <3>1. ~Judging(w) BY <1>1 DEF Judging
    <3>2. ASSUME NEW v \in Writers, v # w, Judging(v) PROVE FALSE
      <4>1. Sentiment \in runs[v].held BY <1>0, <3>2 DEF JudgeInv
      <4>. QED BY <1>1, <3>2, <4>1 DEF SentimentRow, Held
    <3>. QED BY <3>1, <3>2
  <2>2. \A v \in Writers : Judging(v)' <=> v = w
    BY <1>3, <2>1 DEF Judging
  <2>3. "judge" \in mixed \/ heard = cycle
    BY <1>0, <2>1 DEF JudgeInv
  <2>. QED BY <1>1, <1>3, <2>2, <2>3 DEF JudgeInv
<1>. QED BY <1>4, <1>5, <1>6, <1>7 DEF WritersIInv

\* Judge: the change is announced, or the announcement is lost.
LEMMA JudgeStep ==
  ASSUME WritersIInv, NEW w \in Writers, Judge(w)
  PROVE  WritersIInv'
<1>0. WritersTypeOK /\ RunsInPlace /\ BatchInv /\ JudgeInv BY DEF WritersIInv
<1>a. PICK s \in CycleState \cup {runs[w].state} :
         /\ runs' = [runs EXCEPT ![w].at = "commit", ![w].state = s, ![w].held = @ \cup {Cycle}]
         /\ IF s = runs[w].state THEN UNCHANGED <<heard, mixed>>
            ELSE \/ heard' = s /\ UNCHANGED mixed
                 \/ mixed' = mixed \cup {"judge"} /\ UNCHANGED heard
  BY DEF Judge
<1>1. /\ runs[w].at = "judge"
      /\ runs' = [runs EXCEPT ![w] = [runs[w] EXCEPT !.at = "commit", !.state = s,
                                                     !.held = runs[w].held \cup {Cycle}]]
      /\ UNCHANGED <<table, coreCount, quotes, cycle, summed, closed, runCount, current, quoted, counted>>
  BY <1>0, <1>a DEF Judge, stored, WritersTypeOK
<1>2. /\ runs[w] \in WriterRun /\ runs[w].op = "judge"
      /\ runs[w].state \in CycleState \cup {NoState}
  BY <1>0, <1>1, OpFacts DEF RunsInPlace, PlacesOf, WritersTypeOK, WriterRun
<1>3. /\ runs' \in [Writers -> WriterRun]
      /\ runs'[w].at = "commit" /\ Sentiment \in runs'[w].held /\ runs'[w].state = s
      /\ runs'[w].op = "judge" /\ runs'[w].id = runs[w].id /\ runs'[w].rows = runs[w].rows
      /\ runs'[w].seen = runs[w].seen /\ runs'[w].payload = runs[w].payload
      /\ \A v \in Writers \ {w} : runs'[v] = runs[v]
  <2>1. [runs[w] EXCEPT !.at = "commit", !.state = s, !.held = runs[w].held \cup {Cycle}]
           \in WriterRun
    BY <1>0, <1>2 DEF WriterRun, Statements, Lockable
  <2>2. Sentiment \in runs[w].held
    BY <1>0, <1>1, <1>2 DEF JudgeInv, Judging
  <2>. QED BY <1>0, <1>1, <1>2, <2>1, <2>2 DEF WriterRun, WritersTypeOK
<1>4. heard' \in CycleState \cup {NoState} /\ mixed \subseteq mixed'
  BY <1>0, <1>a, <1>2 DEF WritersTypeOK
<1>5. WritersTypeOK'
  BY <1>0, <1>1, <1>3, <1>4, OthersTypeRest DEF stored, WritersTypeOK
<1>6. BatchInv'
  <2>1. \A v \in Writers : SameWork(runs[v], runs'[v])
    BY <1>2, <1>3 DEF SameWork
  <2>. QED BY <1>0, <1>1, <1>4, <2>1, BatchRest
<1>7. RunsInPlace'
  <2>1. ASSUME NEW v \in Writers
        PROVE  /\ runs'[v].at \in PlacesOf(runs'[v].op)
               /\ runs'[v].op = "none" => runs'[v] = NoRun
               /\ runs'[v].op # "none" => runs'[v].id # 0
               /\ runs'[v].op = "replace_stocks" =>
                    (Theme \in runs'[v].held <=> runs'[v].at = "commit" /\ runs'[v].rows # {})
    <3>1. CASE v = w
      <4>1. "commit" \in PlacesOf("judge") BY OpFacts DEF PlacesOf
      <4>. QED BY <1>0, <1>2, <1>3, <3>1, <4>1 DEF RunsInPlace
    <3>2. CASE v # w
      BY <1>0, <1>3, <3>2 DEF RunsInPlace
    <3>. QED BY <3>1, <3>2
  <2>. QED BY <2>1 DEF RunsInPlace
<1>8. JudgeInv'
  <2>1. Judging(w) BY <1>1, <1>2 DEF Judging
  <2>2. \A v \in Writers : Judging(v)' <=> v = w
    <3>1. \A v \in Writers : Judging(v) => v = w BY <1>0, <2>1 DEF JudgeInv
    <3>. QED BY <1>3, <3>1 DEF Judging
  <2>3. "judge" \in mixed' \/ heard' = s
    BY <1>0, <1>1, <1>a, <2>1 DEF JudgeInv
  <2>. QED BY <1>3, <2>2, <2>3 DEF JudgeInv
<1>. QED BY <1>5, <1>6, <1>7, <1>8 DEF WritersIInv

-----------------------------------------------------------------------------
(* The beginning and the failure of a run. *)

\* A run that is not there, or no longer there, is in its place.
LEMMA NoRunFacts ==
  /\ NoRun \in WriterRun /\ NoRun.op = "none" /\ NoRun.at = "none" /\ NoRun.held = {}
  /\ NoRun.at \in PlacesOf("none")
  BY OpFacts DEF NoRun, WriterRun, Statements, PlacesOf

\* BeginWriting: the new run sees the tables of now; it and the runs it meets are rivals.
LEMMA BeginStep ==
  ASSUME WritersIInv, NEW w \in Writers, BeginWriting(w)
  PROVE  WritersIInv'
<1>0. WritersTypeOK /\ RunsInPlace /\ BatchInv /\ JudgeInv BY DEF WritersIInv
<1>a. PICK op \in TradingOps \cup {"sum_amounts"}, rows \in SUBSET Stock :
         /\ runs' = [runs EXCEPT ![w] =
                [NoRun EXCEPT !.op = op, !.at = First(op), !.id = runCount + 1,
                              !.rows = rows, !.payload = quotes,
                              !.seen = [s \in Stock |-> table[TableOf(op)][s].born]]]
         /\ mixed' = mixed
                \cup {op2 \in Rivals(op) : \E v \in Writers : runs[v].op = op2}
                \cup (IF op = "replace_pool" /\ summed THEN {"sum_amounts"} ELSE {})
         /\ op = "sum_amounts" => w = "worker" /\ ~summed
  BY DEF BeginWriting
<1>1. /\ runs[w] = NoRun /\ runCount < MaxRuns /\ runCount' = runCount + 1
      /\ UNCHANGED <<table, coreCount, quotes, cycle, summed, closed, current, heard, quoted,
                  counted>>
  BY DEF BeginWriting, stored
<1>2. /\ op # "none" /\ First(op) \in Statements
      /\ First(op) \in PlacesOf(op) /\ First(op) \notin {"judge", "commit"}
  BY OpFacts DEF First, Statements, PlacesOf
<1>3. /\ runs' \in [Writers -> WriterRun]
      /\ runs'[w].op = op /\ runs'[w].at = First(op) /\ runs'[w].id = runCount + 1
      /\ runs'[w].rows = rows /\ runs'[w].held = {} /\ runs'[w].payload = quotes
      /\ \A s \in Stock : runs'[w].seen[s] = table[TableOf(op)][s].born
      /\ \A v \in Writers \ {w} : runs'[v] = runs[v]
  <2> DEFINE seen == [s \in Stock |-> table[TableOf(op)][s].born]
  <2> DEFINE new == [NoRun EXCEPT !.op = op, !.at = First(op), !.id = runCount + 1,
                              !.rows = rows, !.payload = quotes, !.seen = seen]
  <2>1. seen \in [Stock -> 0 .. MaxRuns]
    <3>1. TableOf(op) \in ReplacedTable BY OpFacts
    <3>2. \A s \in Stock : table[TableOf(op)][s] \in PoolRow
      BY <1>0, <3>1 DEF WritersTypeOK
    <3>. QED BY <3>2 DEF PoolRow
  <2>3. runCount + 1 \in 0 .. MaxRuns /\ quotes \subseteq Stock
    BY <1>0, <1>1 DEF WritersTypeOK
  <2>4. runs' = [runs EXCEPT ![w] = new] /\ runs \in [Writers -> WriterRun]
    BY <1>0, <1>a DEF WritersTypeOK
  <2>5. \A s \in Stock : seen[s] = table[TableOf(op)][s].born
    OBVIOUS
  <2> HIDE DEF seen
  <2>6. new \in WriterRun
    BY <1>2, <2>1, <2>3, NoRunFacts DEF WriterRun
  <2>7. /\ new.op = op /\ new.at = First(op) /\ new.id = runCount + 1 /\ new.rows = rows
        /\ new.held = {} /\ new.payload = quotes /\ new.seen = seen
    BY NoRunFacts DEF WriterRun
  <2> HIDE DEF new
  <2>. QED BY <2>4, <2>5, <2>6, <2>7
<1>4. /\ mixed \subseteq mixed'
      /\ \A op2 \in Rivals(op) : op2 \in mixed' \/ \A v \in Writers : runs[v].op # op2
      /\ op = "replace_pool" /\ summed => "sum_amounts" \in mixed'
  BY <1>a
<1>5. \A v \in Writers : runs'[v].op = runs[v].op \/ v = w
  BY <1>3
<1>6. Fresh(w)' /\ \A v \in Writers \ {w} : Fresh(v) => Fresh(v)'
  BY <1>1, <1>3 DEF Fresh
<1>7. \A v \in Writers \ {w} : \A ops : Alone(v, ops) /\ op \notin ops => Alone(v, ops)'
  BY <1>3 DEF Alone
<1>8. \A op2 \in Rivals(op) : op2 \in mixed' \/ Alone(w, {op2})'
  BY <1>3, <1>4 DEF Alone
<1>9. WritersTypeOK'
  BY <1>0, <1>1, <1>3, OthersTypeRest DEF stored, WritersTypeOK
<1>10. RunsInPlace'
  <2>1. runCount + 1 # 0 BY <1>0 DEF WritersTypeOK
  <2>2. ASSUME NEW v \in Writers
        PROVE  /\ runs'[v].at \in PlacesOf(runs'[v].op)
               /\ runs'[v].op = "none" => runs'[v] = NoRun
               /\ runs'[v].op # "none" => runs'[v].id # 0
               /\ runs'[v].op = "replace_stocks" =>
                    (Theme \in runs'[v].held <=> runs'[v].at = "commit" /\ runs'[v].rows # {})
    <3>1. CASE v = w
      BY <1>2, <1>3, <2>1, <3>1
    <3>2. CASE v # w
      BY <1>0, <1>3, <3>2 DEF RunsInPlace
    <3>. QED BY <3>1, <3>2
  <2>. QED BY <2>2 DEF RunsInPlace
<1>11. BatchInv'
  <2>1. RowsAreBorn' BY <1>0, <1>1 DEF BatchInv, RowsAreBorn
  <2>2. QuoteInv'
    <3>1. op = "quote" => "quote" \in Rivals(op) BY DEF Rivals
    <3>2. op # "quote" => \A v \in Writers \ {w} : Alone(v, {"quote"}) => Alone(v, {"quote"})'
      BY <1>7
    <3>3. op = "quote" => "quote" \in mixed' \/ \A v \in Writers : runs[v].op # "quote"
      BY <1>4, <3>1
    <3>4. op = "quote" => "quote" \in mixed' \/ Alone(w, {"quote"})'
      BY <1>8, <3>1
    <3>. QED BY <1>0, <1>1, <1>3, <1>4, <3>2, <3>3, <3>4 DEF BatchInv, QuoteInv
  <2>3. PoolInv'
    <3>1. op = "replace_pool" => "replace_pool" \in Rivals(op) BY DEF Rivals
    <3>2. op # "replace_pool" =>
            \A v \in Writers \ {w} : Alone(v, {"replace_pool"}) => Alone(v, {"replace_pool"})'
      BY <1>7
    <3>3. op = "replace_pool" =>
            "replace_pool" \in mixed' \/ \A v \in Writers : runs[v].op # "replace_pool"
      BY <1>4, <3>1
    <3>4. op = "replace_pool" => "replace_pool" \in mixed' \/ Alone(w, {"replace_pool"})'
      BY <1>8, <3>1
    <3>. QED BY <1>0, <1>1, <1>3, <1>4, <1>6, <3>2, <3>3, <3>4 DEF BatchInv, PoolInv, Rows
  <2>4. SumInv'
    <3>1. op = "replace_pool" => "sum_amounts" \in Rivals(op) BY DEF Rivals
    <3>2. op = "sum_amounts" => "replace_pool" \in Rivals(op) BY DEF Rivals
    <3>3. op # "replace_pool" =>
            \A v \in Writers \ {w} : Alone(v, {"replace_pool"}) => Alone(v, {"replace_pool"})'
      BY <1>7
    <3>4. op = "replace_pool" =>
            "sum_amounts" \in mixed' \/ \A v \in Writers : runs[v].op # "sum_amounts"
      BY <1>4, <3>1
    <3>5. op = "sum_amounts" => "replace_pool" \in mixed' \/ Alone(w, {"replace_pool"})'
      BY <1>8, <3>2
    <3>6. NothingSummed'
      <4>1. op = "sum_amounts" => w = "worker" /\ ~summed BY <1>a
      <4>. QED BY <1>0, <1>1, <1>3, <4>1 DEF BatchInv, SumInv, NothingSummed
    <3>. QED BY <1>0, <1>1, <1>3, <1>4, <1>6, <3>3, <3>4, <3>5, <3>6 DEF BatchInv, SumInv, Rows
  <2>5. CoreInv'
    <3>1. op = "replace_stocks" => "replace_stocks" \in Rivals(op) BY DEF Rivals
    <3>2. op # "replace_stocks" =>
            \A v \in Writers \ {w} : Alone(v, {"replace_stocks"}) => Alone(v, {"replace_stocks"})'
      BY <1>7
    <3>3. op = "replace_stocks" =>
            "replace_stocks" \in mixed' \/ \A v \in Writers : runs[v].op # "replace_stocks"
      BY <1>4, <3>1
    <3>4. op = "replace_stocks" => "replace_stocks" \in mixed' \/ Alone(w, {"replace_stocks"})'
      BY <1>8, <3>1
    <3>. QED BY <1>0, <1>1, <1>3, <1>4, <1>6, <3>2, <3>3, <3>4 DEF BatchInv, CoreInv, Rows
  <2>. QED BY <2>1, <2>2, <2>3, <2>4, <2>5 DEF BatchInv
<1>12. JudgeInv'
  <2>1. \A v \in Writers : Judging(v)' <=> Judging(v)
    BY <1>1, <1>2, <1>3, NoRunFacts DEF Judging
  <2>2. \A v \in Writers : Judging(v) => runs'[v] = runs[v]
    BY <1>1, <1>3, NoRunFacts DEF Judging
  <2>. QED BY <1>0, <1>1, <1>4, <2>1, <2>2 DEF JudgeInv
<1>. QED BY <1>9, <1>10, <1>11, <1>12 DEF WritersIInv

\* AbortRun: a judgement that had announced its state leaves it unstored.
LEMMA AbortStep ==
  ASSUME WritersIInv, NEW w \in Writers, AbortRun(w)
  PROVE  WritersIInv'
<1>0. WritersTypeOK /\ RunsInPlace /\ BatchInv /\ JudgeInv BY DEF WritersIInv
<1>1. /\ runs' = [runs EXCEPT ![w] = NoRun]
      /\ UNCHANGED <<table, coreCount, quotes, cycle, summed, closed, runCount, current>>
      /\ UNCHANGED <<heard, quoted, counted>>
      /\ mixed \subseteq mixed'
      /\ runs[w].op = "judge" /\ runs[w].at = "commit" => "judge" \in mixed'
  BY DEF AbortRun, stored
<1>2. /\ runs' \in [Writers -> WriterRun] /\ runs'[w] = NoRun
      /\ \A v \in Writers \ {w} : runs'[v] = runs[v]
  BY <1>0, <1>1, NoRunFacts DEF WritersTypeOK
<1>3. WritersTypeOK'
  BY <1>0, <1>1, <1>2, OthersTypeRest DEF stored, WritersTypeOK
<1>4. BatchInv'
  <2>1. \A v \in Writers : SameWork(runs[v], runs'[v]) \/ runs'[v] = NoRun
    BY <1>2 DEF SameWork
  <2>. QED BY <1>0, <1>1, <2>1, BatchRest
<1>5. RunsInPlace'
  BY <1>0, <1>2, NoRunFacts DEF RunsInPlace
<1>6. JudgeInv'
  <2>1. ~Judging(w)' BY <1>2, NoRunFacts DEF Judging
  <2>2. \A v \in Writers \ {w} : (Judging(v)' <=> Judging(v)) /\ runs'[v] = runs[v]
    BY <1>2 DEF Judging
  <2>3. CASE Judging(w)
    <3>1. \A v \in Writers : ~Judging(v)'
      BY <1>0, <2>1, <2>2, <2>3 DEF JudgeInv
    <3>2. "judge" \in mixed' \/ heard = cycle
      BY <1>0, <1>1, <2>3 DEF JudgeInv, Judging
    <3>. QED BY <1>1, <3>1, <3>2 DEF JudgeInv
  <2>4. CASE ~Judging(w)
    BY <1>0, <1>1, <2>1, <2>2, <2>4 DEF JudgeInv
  <2>. QED BY <2>3, <2>4
<1>. QED BY <1>3, <1>4, <1>5, <1>6 DEF WritersIInv

-----------------------------------------------------------------------------
(* What a run leaves in the tables. *)

\* The tables the run does not work on stay; a replacement writes the rows of its batch.
LEMMA TableFacts ==
  ASSUME WritersTypeOK, RowsAreBorn, NEW w \in Writers, runs[w].op # "none" => runs[w].id # 0,
         runs[w].op # "none"
  PROVE  LET after == TableAfter(runs[w])
         IN /\ after \in [ReplacedTable -> [Stock -> PoolRow]]
            /\ \A t \in ReplacedTable, s \in Stock :
                  after[t][s].born = 0 => after[t][s] = NoPoolRow
            /\ \A t \in ReplacedTable : t # TableOf(runs[w].op) => after[t] = table[t]
            /\ runs[w].op \notin Replaces \cup Fills => after = table
<1> DEFINE r == runs[w]
<1> DEFINE t0 == TableOf(r.op)
<1> DEFINE after == TableAfter(r)
<1>1. /\ r \in WriterRun /\ t0 \in ReplacedTable /\ r.id \in 0 .. MaxRuns /\ r.id # 0
      /\ table \in [ReplacedTable -> [Stock -> PoolRow]]
  BY OpFacts DEF WritersTypeOK, WriterRun
<1>2. NoPoolRow \in PoolRow /\ NoPoolRow.born = 0
  BY DEF NoPoolRow, PoolRow
<1>3. \A s \in Stock : table[t0][s] \in PoolRow
                       /\ (table[t0][s].born = 0 => table[t0][s] = NoPoolRow)
  BY <1>1 DEF RowsAreBorn
<1>4. ASSUME NEW rows, rows \in [Stock -> PoolRow], after = [table EXCEPT ![t0] = rows],
             \A s \in Stock : rows[s].born = 0 => rows[s] = NoPoolRow
      PROVE  /\ after \in [ReplacedTable -> [Stock -> PoolRow]]
             /\ \A t \in ReplacedTable, s \in Stock :
                   after[t][s].born = 0 => after[t][s] = NoPoolRow
             /\ \A t \in ReplacedTable : t # t0 => after[t] = table[t]
  <2> HIDE DEF after, t0
  <2>1. \A t \in ReplacedTable : t # t0 => after[t] = table[t]
    BY <1>1, <1>4
  <2>2. after[t0] = rows
    BY <1>1, <1>4
  <2>3. \A t \in ReplacedTable : t # t0 =>
          \A s \in Stock : after[t][s].born = 0 => after[t][s] = NoPoolRow
    BY <2>1 DEF RowsAreBorn
  <2>. QED BY <1>1, <1>4, <2>1, <2>2, <2>3
<1>5. CASE r.op \in Replaces
  <2> DEFINE rows == [s \in Stock |->
                  IF s \in r.rows THEN Written(r, s)
                  ELSE IF s \in Deleted(r) THEN NoPoolRow ELSE table[t0][s]]
  <2>1. after = [table EXCEPT ![t0] = rows]
    BY <1>5, OpFacts DEF TableAfter
  <2>2. \A s \in Stock : Written(r, s) \in PoolRow /\ Written(r, s).born # 0
    <3> SUFFICES ASSUME NEW s \in Stock
                 PROVE  Written(r, s) \in PoolRow /\ Written(r, s).born # 0
      OBVIOUS
    <3> DEFINE kept == table[t0][s] # NoPoolRow /\ <<t0, s>> \notin Cells(r.op, Deleted(r))
    <3>1. Written(r, s) = [born |-> IF kept THEN table[t0][s].born ELSE r.id,
                           of |-> r.id, filled |-> {}]
      BY DEF Written
    <3>2. kept => table[t0][s].born # 0 /\ table[t0][s].born \in 0 .. MaxRuns
      BY <1>3 DEF PoolRow
    <3> HIDE DEF kept, t0
    <3>. QED BY <1>1, <3>1, <3>2 DEF PoolRow
  <2>3. rows \in [Stock -> PoolRow] /\ \A s \in Stock : rows[s].born = 0 => rows[s] = NoPoolRow
    BY <1>2, <1>3, <2>2
  <2> HIDE DEF rows
  <2>. QED BY <1>4, <1>5, <2>1, <2>3
<1>6. CASE r.op \in Fills
  <2>1. ASSUME NEW s \in Stock, NEW these, these \subseteq Found(r),
               NEW column \in {"seal", "amount"}
        PROVE  LET row == IF s \in these
                          THEN [table[t0][s] EXCEPT !.filled = table[t0][s].filled \cup {column}]
                          ELSE table[t0][s]
               IN row \in PoolRow /\ (row.born = 0 => row = NoPoolRow)
    <3> DEFINE old == table[t0][s]
    <3>1. old \in PoolRow /\ (old.born = 0 => old = NoPoolRow)
      BY <1>3
    <3>2. s \in these => old.born # 0
      BY <2>1 DEF Found, Seen
    <3> HIDE DEF old
    <3>3. LET row == IF s \in these THEN [old EXCEPT !.filled = old.filled \cup {column}] ELSE old
          IN row \in PoolRow /\ (row.born = 0 => row = NoPoolRow)
      BY <3>1, <3>2 DEF PoolRow
    <3>. QED BY <3>3 DEF old
  <2> DEFINE these == Found(r) \cap r.rows
  <2> DEFINE rows == [s \in Stock |->
                  IF s \in Found(r) \cap r.rows
                  THEN [table[t0][s] EXCEPT !.filled = @ \cup {FilledBy(r.op)}] ELSE table[t0][s]]
  <2>2. after = [table EXCEPT ![t0] = rows]
    BY <1>6, OpFacts DEF TableAfter
  <2>3. rows \in [Stock -> PoolRow] /\ \A s \in Stock : rows[s].born = 0 => rows[s] = NoPoolRow
    <3>1. these \subseteq Found(r) /\ FilledBy(r.op) \in {"seal", "amount"}
      BY DEF FilledBy
    <3>2. \A s \in Stock : rows[s] =
              IF s \in these
              THEN [table[t0][s] EXCEPT !.filled = table[t0][s].filled \cup {FilledBy(r.op)}]
              ELSE table[t0][s]
      OBVIOUS
    <3>3. rows = [s \in Stock |-> rows[s]] OBVIOUS
    <3> HIDE DEF these, rows
    <3>4. ASSUME NEW s \in Stock
          PROVE  rows[s] \in PoolRow /\ (rows[s].born = 0 => rows[s] = NoPoolRow)
      <4>1. LET row == IF s \in these
                       THEN [table[t0][s] EXCEPT
                               !.filled = table[t0][s].filled \cup {FilledBy(r.op)}]
                       ELSE table[t0][s]
            IN row \in PoolRow /\ (row.born = 0 => row = NoPoolRow)
        BY <2>1, <3>1
      <4> HIDE DEF t0
      <4>. QED BY <3>2, <4>1
    <3>. QED BY <3>3, <3>4
  <2> HIDE DEF rows, these
  <2>. QED BY <1>4, <1>6, <2>2, <2>3
<1>7. CASE r.op \notin Replaces \cup Fills
  <2>1. after = table
    BY <1>7, OpFacts DEF TableAfter
  <2>. QED BY <1>1, <2>1 DEF RowsAreBorn
<1>. QED BY <1>5, <1>6, <1>7

\* A replacement that has seen the whole table leaves its batch and nothing else.
LEMMA ReplacedFacts ==
  ASSUME WritersTypeOK, RowsAreBorn, NEW w \in Writers, runs[w].op \in Replaces, Fresh(w)
  PROVE  \A s \in Stock : TableAfter(runs[w])[TableOf(runs[w].op)][s] =
            IF s \in runs[w].rows
            THEN [born |-> runs[w].id, of |-> runs[w].id, filled |-> {}] ELSE NoPoolRow
<1> DEFINE r == runs[w]
<1> DEFINE t0 == TableOf(r.op)
<1> SUFFICES ASSUME NEW s \in Stock
             PROVE  TableAfter(r)[t0][s] =
                      IF s \in r.rows THEN [born |-> r.id, of |-> r.id, filled |-> {}]
                                      ELSE NoPoolRow
  OBVIOUS
<1>1. t0 \in ReplacedTable /\ table \in [ReplacedTable -> [Stock -> PoolRow]]
  BY OpFacts DEF WritersTypeOK
<1>2. s \notin Deleted(r) => table[t0][s] = NoPoolRow
  BY <1>1 DEF Deleted, Found, Seen, Fresh, RowsAreBorn
<1>3. s \in Deleted(r) => <<t0, s>> \in Cells(r.op, Deleted(r))
  BY DEF Cells
<1>4. Written(r, s) = [born |-> r.id, of |-> r.id, filled |-> {}]
  BY <1>2, <1>3 DEF Written
<1>5. TableAfter(r)[t0][s] = IF s \in r.rows THEN Written(r, s)
                             ELSE IF s \in Deleted(r) THEN NoPoolRow ELSE table[t0][s]
  BY <1>1, OpFacts DEF TableAfter
<1>. QED BY <1>2, <1>4, <1>5

\* The supplements and the sum only fill columns, of rows that are there.
LEMMA FilledFacts ==
  ASSUME WritersTypeOK, RowsAreBorn, NEW w \in Writers, runs[w].op \in Fills, NEW s \in Stock
  PROVE  LET row == TableAfter(runs[w])["limit_up_pool"][s]
             old == table["limit_up_pool"][s]
         IN /\ row.born = old.born /\ row.of = old.of /\ old.filled \subseteq row.filled
            /\ row = NoPoolRow <=> old = NoPoolRow
            /\ "amount" \in row.filled <=>
                 \/ "amount" \in old.filled
                 \/ runs[w].op = "sum_amounts" /\ s \in Found(runs[w]) \cap runs[w].rows
            /\ Fresh(w) /\ old # NoPoolRow => s \in Found(runs[w])
<1> DEFINE r == runs[w]
<1> DEFINE old == table["limit_up_pool"][s]
<1> DEFINE row == TableAfter(r)["limit_up_pool"][s]
<1>1. /\ "limit_up_pool" \in ReplacedTable /\ table \in [ReplacedTable -> [Stock -> PoolRow]]
      /\ TableOf(r.op) = "limit_up_pool"
  BY OpFacts DEF WritersTypeOK, ReplacedTable
<1>2. old \in PoolRow /\ (old.born = 0 => old = NoPoolRow)
  BY <1>1 DEF RowsAreBorn
<1>3. s \in Found(r) => old.born # 0
  BY <1>1 DEF Found, Seen
<1>4. Fresh(w) /\ old # NoPoolRow => s \in Found(r)
  BY <1>1, <1>2 DEF Found, Seen, Fresh
<1>5. NoPoolRow.born = 0 BY DEF NoPoolRow
<1>6. ASSUME NEW these, these \subseteq Found(r), NEW column,
             row = IF s \in these THEN [old EXCEPT !.filled = old.filled \cup {column}] ELSE old
      PROVE  /\ row.born = old.born /\ row.of = old.of /\ old.filled \subseteq row.filled
             /\ row = NoPoolRow <=> old = NoPoolRow
             /\ row.filled = IF s \in these THEN old.filled \cup {column} ELSE old.filled
  <2> HIDE DEF row, old
  <2>. QED BY <1>2, <1>3, <1>5, <1>6 DEF PoolRow
<1> DEFINE column == FilledBy(r.op)
<1>7. row = IF s \in Found(r) \cap r.rows
            THEN [old EXCEPT !.filled = old.filled \cup {column}] ELSE old
  BY <1>1, OpFacts DEF TableAfter
<1>8. column = "amount" <=> r.op = "sum_amounts"
  BY OpFacts DEF FilledBy
<1>9. /\ row.born = old.born /\ row.of = old.of /\ old.filled \subseteq row.filled
      /\ row = NoPoolRow <=> old = NoPoolRow
      /\ row.filled = IF s \in Found(r) \cap r.rows THEN old.filled \cup {column} ELSE old.filled
  <2>1. Found(r) \cap r.rows \subseteq Found(r) OBVIOUS
  <2> HIDE DEF row, old, column
  <2>. QED BY <1>6, <1>7, <2>1
<1>10. "amount" \in row.filled <=>
          "amount" \in old.filled \/ (r.op = "sum_amounts" /\ s \in Found(r) \cap r.rows)
  <2> HIDE DEF row, old, column
  <2>. QED BY <1>8, <1>9
<1>. QED BY <1>4, <1>9, <1>10

-----------------------------------------------------------------------------
(* The commit, one conjunct of the invariant at a time. *)

\* The assignments of a commit: the run is gone, the others go on.
LEMMA CommitFacts ==
  ASSUME WritersTypeOK, RunsInPlace, NEW w \in Writers, CommitRun(w)
  PROVE  /\ runs[w] \in WriterRun /\ runs[w].at = "commit" /\ runs[w].op # "none"
         /\ runs[w].id # 0
         /\ runs[w].op \in {"replace_pool", "replace_stocks", "replace_themes", "supplement",
                            "judge", "quote", "sum_amounts"}
         /\ runs' \in [Writers -> WriterRun] /\ runs'[w] = NoRun
         /\ \A v \in Writers \ {w} : runs'[v] = runs[v]
         /\ table' = TableAfter(runs[w]) /\ mixed' = mixed
         /\ \A v \in Writers : \A ops : Alone(v, ops) /\ "none" \notin ops => Alone(v, ops)'
<1>1. /\ runs[w].at = "commit" /\ table' = TableAfter(runs[w]) /\ mixed' = mixed
      /\ runs' = [runs EXCEPT ![w] = NoRun]
  BY DEF CommitRun
<1>2. runs[w] \in WriterRun /\ runs \in [Writers -> WriterRun]
  BY DEF WritersTypeOK
<1>3. runs[w].op # "none"
  <2>1. runs[w].op = "none" => runs[w].at = "none"
    BY NoRunFacts DEF RunsInPlace
  <2>. QED BY <1>1, <2>1
<1>4. runs[w].op \in {"replace_pool", "replace_stocks", "replace_themes", "supplement",
                      "judge", "quote", "sum_amounts"}
  BY <1>2, <1>3, OpFacts DEF WriterRun
<1>5. runs' \in [Writers -> WriterRun] /\ runs'[w] = NoRun
      /\ \A v \in Writers \ {w} : runs'[v] = runs[v]
  BY <1>1, <1>2, NoRunFacts
<1>6. \A v \in Writers : \A ops : Alone(v, ops) /\ "none" \notin ops => Alone(v, ops)'
  BY <1>5, NoRunFacts DEF Alone
<1>. QED BY <1>1, <1>2, <1>3, <1>4, <1>5, <1>6 DEF RunsInPlace

\* A commit stores what the run has, in the types of the tables.
LEMMA CommitType ==
  ASSUME WritersTypeOK, RunsInPlace, RowsAreBorn, NEW w \in Writers, CommitRun(w)
  PROVE  WritersTypeOK' /\ RowsAreBorn' /\ RunsInPlace'
<1> DEFINE r == runs[w]
<1>1. /\ r \in WriterRun /\ r.at = "commit" /\ r.op # "none" /\ r.id # 0
      /\ runs' \in [Writers -> WriterRun] /\ runs'[w] = NoRun
      /\ \A v \in Writers \ {w} : runs'[v] = runs[v]
      /\ table' = TableAfter(r)
  BY CommitFacts
<1>2. /\ table' \in [ReplacedTable -> [Stock -> PoolRow]]
      /\ RowsAreBorn'
  BY <1>1, TableFacts DEF RowsAreBorn
<1>3. coreCount' \in {NoCount} \cup 1 .. Cardinality(Stock)
  <2>1. coreCount' = CoreCountAfter(r) BY DEF CommitRun
  <2>2. CASE r.op = "replace_stocks" /\ Theme \in r.held
    <3>1. r.rows # {} /\ r.rows \subseteq Stock
      BY <1>1, <2>2 DEF RunsInPlace, WriterRun
    <3>2. Cardinality(r.rows) \in 1 .. Cardinality(Stock)
      <4>1. /\ IsFiniteSet(r.rows) /\ Cardinality(r.rows) <= Cardinality(Stock)
            /\ Cardinality(r.rows) \in Nat /\ Cardinality(Stock) \in Nat
        BY <3>1, FS_Subset, FS_CardinalityType
      <4>2. Cardinality(r.rows) # 0 BY <3>1, <4>1, FS_EmptySet
      <4>. QED BY <4>1, <4>2
    <3>. QED BY <2>1, <2>2, <3>2 DEF CoreCountAfter
  <2>3. CASE ~(r.op = "replace_stocks" /\ Theme \in r.held)
    BY <2>1, <2>3 DEF CoreCountAfter, WritersTypeOK
  <2>. QED BY <2>2, <2>3
<1>4. quotes' \subseteq quoted' /\ quoted' \subseteq Stock /\ counted' \subseteq Stock
  <2>1. QuotesAfter(r) \subseteq Stock
    BY <1>1 DEF QuotesAfter, WritersTypeOK, WriterRun
  <2>2. counted' \subseteq Stock
    BY <1>1 DEF CommitRun, WritersTypeOK, WriterRun
  <2>. QED BY <2>1, <2>2 DEF CommitRun, WritersTypeOK
<1>5. cycle' \in CycleState \cup {NoState} /\ heard' \in CycleState \cup {NoState}
  BY <1>1 DEF CommitRun, WritersTypeOK, WriterRun
<1>6. summed' \in BOOLEAN /\ closed' \in BOOLEAN /\ runCount' \in 0 .. MaxRuns
  BY DEF CommitRun, WritersTypeOK
<1>7. current' \in [ReplacedTable -> 0 .. MaxRuns]
  <2>1. r.id \in 0 .. MaxRuns BY <1>1 DEF WriterRun
  <2>. QED BY <2>1 DEF CommitRun, WritersTypeOK
<1>8. RunsInPlace'
  BY <1>1, NoRunFacts DEF RunsInPlace
<1>. QED BY <1>1, <1>2, <1>3, <1>4, <1>5, <1>6, <1>7, <1>8 DEF WritersTypeOK

\* What was read is still stored when it is merged with what was fetched.
LEMMA CommitQuote ==
  ASSUME WritersTypeOK, RunsInPlace, QuoteInv, NEW w \in Writers, CommitRun(w)
  PROVE  QuoteInv'
<1> SUFFICES ASSUME "quote" \notin mixed'
             PROVE  /\ quotes' = quoted'
                    /\ \A v \in Writers : runs'[v].op = "quote" =>
                          runs'[v].payload = quotes' /\ Alone(v, {"quote"})'
  BY DEF QuoteInv
<1>1. /\ quotes' = QuotesAfter(runs[w]) /\ quoted' = quoted \cup quotes'
  BY DEF CommitRun
<1>2. /\ quotes = quoted
      /\ \A v \in Writers : runs[v].op = "quote" => runs[v].payload = quotes /\ Alone(v, {"quote"})
  BY CommitFacts DEF QuoteInv
<1>3. CASE runs[w].op = "quote"
  <2>1. \A v \in Writers \ {w} : runs[v].op # "quote"
    BY <1>2, <1>3 DEF Alone
  <2>2. \A v \in Writers : runs'[v].op # "quote"
    BY <2>1, CommitFacts, NoRunFacts
  <2>. QED BY <1>1, <1>2, <1>3, <2>2 DEF QuotesAfter
<1>4. CASE runs[w].op # "quote"
  <2>1. quotes' = quotes BY <1>1, <1>4 DEF QuotesAfter
  <2>2. \A v \in Writers : runs'[v].op = "quote" => runs'[v] = runs[v]
    BY CommitFacts, NoRunFacts
  <2>. QED BY <1>1, <1>2, <2>1, <2>2, CommitFacts
<1>. QED BY <1>3, <1>4

\* A run that goes on still sees its table when a commit keeps the born of its rows.
LEMMA FreshStays ==
  ASSUME WritersTypeOK, RunsInPlace, NEW w \in Writers, CommitRun(w), NEW v \in Writers,
         runs'[v].op # "none", Fresh(v),
         \A s \in Stock : table'[TableOf(runs[v].op)][s].born = table[TableOf(runs[v].op)][s].born
  PROVE  Fresh(v)'
<1>1. runs'[v] = runs[v] BY CommitFacts, NoRunFacts
<1>. QED BY <1>1 DEF Fresh

\* The pool after a commit is the batch of the run that replaced it last.
LEMMA CommitPool ==
  ASSUME WritersTypeOK, RunsInPlace, RowsAreBorn, PoolInv, NEW w \in Writers, CommitRun(w)
  PROVE  PoolInv'
<1> DEFINE r == runs[w]
<1> DEFINE t == "limit_up_pool"
<1> SUFFICES ASSUME "replace_pool" \notin mixed'
             PROVE  /\ \A s \in Stock : table'[t][s] # NoPoolRow =>
                          table'[t][s].born = current'[t] /\ table'[t][s].of = current'[t]
                    /\ \A v \in Writers : runs'[v].op = "replace_pool" =>
                          Fresh(v)' /\ Alone(v, {"replace_pool"})'
  BY DEF PoolInv, Rows
<1>1. /\ \A s \in Stock : table[t][s] # NoPoolRow =>
            table[t][s].born = current[t] /\ table[t][s].of = current[t]
      /\ \A v \in Writers : runs[v].op = "replace_pool" => Fresh(v) /\ Alone(v, {"replace_pool"})
  BY CommitFacts DEF PoolInv, Rows
<1>2. /\ table' = TableAfter(r) /\ t \in ReplacedTable /\ r.op # "none" /\ r.id # 0
      /\ current' = IF r.op \in Replaces THEN [current EXCEPT ![TableOf(r.op)] = r.id]
                                         ELSE current
      /\ current \in [ReplacedTable -> 0 .. MaxRuns]
  BY CommitFacts DEF CommitRun, ReplacedTable, WritersTypeOK
<1>3. \A v \in Writers : runs'[v].op = "replace_pool" =>
         runs'[v] = runs[v] /\ v # w /\ Alone(v, {"replace_pool"})'
  BY <1>1, CommitFacts, NoRunFacts
<1>4. CASE r.op = "replace_pool"
  <2>1. \A v \in Writers : runs'[v].op # "replace_pool"
    BY <1>1, <1>3, <1>4 DEF Alone
  <2>2. \A s \in Stock : table'[t][s] =
            IF s \in r.rows THEN [born |-> r.id, of |-> r.id, filled |-> {}] ELSE NoPoolRow
    BY <1>1, <1>2, <1>4, ReplacedFacts, OpFacts
  <2>3. current'[t] = r.id
    BY <1>2, <1>4, OpFacts
  <2>. QED BY <2>1, <2>2, <2>3
<1>5. CASE r.op # "replace_pool"
  <2>1. current'[t] = current[t]
    BY <1>2, <1>5, OpFacts
  <2>2. \A s \in Stock : /\ table'[t][s].born = table[t][s].born /\ table'[t][s].of = table[t][s].of
                         /\ table'[t][s] = NoPoolRow <=> table[t][s] = NoPoolRow
    <3>1. CASE r.op \in Fills
      BY <1>2, <3>1, FilledFacts
    <3>2. CASE r.op \notin Fills
      <4>1. table'[t] = table[t]
        BY <1>2, <1>5, <3>2, TableFacts, OpFacts
      <4>. QED BY <4>1
    <3>. QED BY <3>1, <3>2
  <2>3. \A v \in Writers : runs'[v].op = "replace_pool" => Fresh(v)'
    BY <1>1, <1>3, <2>2, FreshStays, OpFacts
  <2>. QED BY <1>1, <1>3, <2>1, <2>2, <2>3
<1>. QED BY <1>4, <1>5

\* The sum of the amounts fills the rows of securities with minute bars, and no
\* replacement follows it.
LEMMA CommitSum ==
  ASSUME WritersTypeOK, RunsInPlace, RowsAreBorn, SumInv, NEW w \in Writers, CommitRun(w)
  PROVE  SumInv'
<1> DEFINE r == runs[w]
<1> DEFINE t == "limit_up_pool"
<1>1. /\ table' = TableAfter(r) /\ t \in ReplacedTable /\ r.op # "none" /\ r.id # 0
      /\ summed' = (summed \/ r.op = "sum_amounts")
      /\ counted' = IF r.op = "sum_amounts" THEN r.rows ELSE counted
      /\ mixed' = mixed
  BY CommitFacts DEF CommitRun, ReplacedTable
\* The amounts of rows that a replacement has not written anew.
<1>2. ASSUME r.op # "replace_pool", NEW s \in Stock
      PROVE  /\ table'[t][s].born = table[t][s].born
             /\ table'[t][s] = NoPoolRow <=> table[t][s] = NoPoolRow
             /\ "amount" \in table'[t][s].filled <=>
                  \/ "amount" \in table[t][s].filled
                  \/ r.op = "sum_amounts" /\ s \in Found(r) \cap r.rows
             /\ r.op = "sum_amounts" /\ Fresh(w) /\ table[t][s] # NoPoolRow => s \in Found(r)
  <2>1. CASE r.op \in Fills
    BY <1>1, <2>1, FilledFacts
  <2>2. CASE r.op \notin Fills
    <3>1. table'[t] = table[t]
      BY <1>1, <1>2, <2>2, TableFacts, OpFacts
    <3>. QED BY <2>2, <3>1, OpFacts
  <2>. QED BY <2>1, <2>2
<1>3. NothingSummed'
  <2>1. ASSUME ~summed', NEW s \in Stock PROVE "amount" \notin table'[t][s].filled
    <3>1. r.op # "sum_amounts" /\ "amount" \notin table[t][s].filled
      BY <1>1, <2>1 DEF SumInv, NothingSummed
    <3>2. CASE r.op = "replace_pool"
      <4>1. table'[t][s] = IF s \in r.rows THEN Written(r, s)
                           ELSE IF s \in Deleted(r) THEN NoPoolRow ELSE table[t][s]
        BY <1>1, <3>2, OpFacts DEF TableAfter, WritersTypeOK
      <4>2. Written(r, s).filled = {} /\ NoPoolRow.filled = {}
        BY DEF Written, NoPoolRow
      <4>. QED BY <3>1, <4>1, <4>2
    <3>3. CASE r.op # "replace_pool"
      BY <1>2, <3>1, <3>3
    <3>. QED BY <3>2, <3>3
  <2>2. ASSUME NEW v \in Writers, runs'[v].op = "sum_amounts" PROVE v = "worker" /\ ~summed'
    <3>1. v # w /\ runs[v].op = "sum_amounts"
      BY <2>2, CommitFacts, NoRunFacts
    <3>2. v = "worker" /\ ~summed /\ r.op # "sum_amounts"
      BY <3>1 DEF SumInv, NothingSummed
    <3>. QED BY <1>1, <3>2
  <2>. QED BY <2>1, <2>2 DEF NothingSummed
<1> SUFFICES ASSUME "sum_amounts" \notin mixed', "replace_pool" \notin mixed'
             PROVE  /\ summed' => /\ \A s \in Stock : table'[t][s] # NoPoolRow =>
                                        ("amount" \in table'[t][s].filled <=> s \in counted')
                                  /\ \A v \in Writers : runs'[v].op # "replace_pool"
                    /\ \A v \in Writers : runs'[v].op = "sum_amounts" =>
                          Fresh(v)' /\ Alone(v, {"replace_pool"})'
  BY <1>3 DEF SumInv, Rows
<1>4. /\ summed => /\ \A s \in Stock : table[t][s] # NoPoolRow =>
                        ("amount" \in table[t][s].filled <=> s \in counted)
                   /\ \A v \in Writers : runs[v].op # "replace_pool"
      /\ ~summed => \A s \in Stock : "amount" \notin table[t][s].filled
      /\ \A v \in Writers : runs[v].op = "sum_amounts" =>
            ~summed /\ Fresh(v) /\ Alone(v, {"replace_pool"})
  BY <1>1 DEF SumInv, NothingSummed, Rows
<1>5. \A v \in Writers : /\ runs'[v].op = "sum_amounts" =>
                              runs'[v] = runs[v] /\ v # w /\ Alone(v, {"replace_pool"})'
                         /\ runs'[v].op = "replace_pool" => runs'[v] = runs[v] /\ v # w
  BY <1>4, CommitFacts, NoRunFacts
<1>6. CASE r.op = "replace_pool"
  <2>1. ~summed' BY <1>1, <1>4, <1>6
  <2>2. \A v \in Writers : runs'[v].op # "sum_amounts"
    BY <1>4, <1>5, <1>6 DEF Alone
  <2>. QED BY <2>1, <2>2
<1>7. CASE r.op # "replace_pool"
  <2>1. \A v \in Writers : runs'[v].op = "sum_amounts" => Fresh(v)'
    BY <1>2, <1>4, <1>5, <1>7, FreshStays, OpFacts
  <2>2. CASE r.op = "sum_amounts"
    <3>1. \A s \in Stock : table'[t][s] # NoPoolRow =>
             ("amount" \in table'[t][s].filled <=> s \in counted')
      BY <1>1, <1>2, <1>4, <1>7, <2>2
    <3>2. \A v \in Writers : runs'[v].op # "replace_pool"
      BY <1>4, <1>5, <2>2 DEF Alone
    <3>. QED BY <1>5, <2>1, <3>1, <3>2
  <2>3. CASE r.op # "sum_amounts"
    BY <1>1, <1>2, <1>4, <1>5, <1>7, <2>1, <2>3
  <2>. QED BY <2>2, <2>3
<1>. QED BY <1>6, <1>7

\* The count is that of the stocks of the batch, or unknown once the themes are replaced.
LEMMA CommitCore ==
  ASSUME WritersTypeOK, RunsInPlace, RowsAreBorn, CoreInv, NEW w \in Writers, CommitRun(w)
  PROVE  CoreInv'
<1> DEFINE r == runs[w]
<1> DEFINE t == "theme_stocks"
<1> SUFFICES ASSUME "replace_stocks" \notin mixed'
             PROVE  /\ \/ coreCount' = NoCount \/ Rows(t)' = {}
                       \/ coreCount' = Cardinality(Rows(t)')
                    /\ \A v \in Writers : runs'[v].op = "replace_stocks" =>
                          Fresh(v)' /\ Alone(v, {"replace_stocks"})'
  BY DEF CoreInv
<1>1. /\ \/ coreCount = NoCount \/ Rows(t) = {} \/ coreCount = Cardinality(Rows(t))
      /\ \A v \in Writers : runs[v].op = "replace_stocks" =>
            Fresh(v) /\ Alone(v, {"replace_stocks"})
  BY CommitFacts DEF CoreInv
<1>2. /\ table' = TableAfter(r) /\ t \in ReplacedTable /\ r.op # "none" /\ r.id # 0
      /\ coreCount' = CoreCountAfter(r) /\ r \in WriterRun /\ r.at = "commit"
  BY CommitFacts DEF CommitRun, ReplacedTable
<1>3. \A v \in Writers : runs'[v].op = "replace_stocks" =>
         runs'[v] = runs[v] /\ v # w /\ Alone(v, {"replace_stocks"})'
  BY <1>1, CommitFacts, NoRunFacts
<1>4. CASE r.op = "replace_stocks"
  <2>1. \A v \in Writers : runs'[v].op # "replace_stocks"
    BY <1>1, <1>3, <1>4 DEF Alone
  <2>2. \A s \in Stock : table'[t][s] =
            IF s \in r.rows THEN [born |-> r.id, of |-> r.id, filled |-> {}] ELSE NoPoolRow
    BY <1>1, <1>2, <1>4, ReplacedFacts, OpFacts
  <2>3. \A s \in Stock : table'[t][s] # NoPoolRow <=> s \in r.rows
    BY <1>2, <2>2 DEF NoPoolRow
  <2>4. Rows(t)' = r.rows
    BY <1>2, <2>3 DEF Rows, WriterRun
  <2>5. r.rows # {} => coreCount' = Cardinality(r.rows)
    BY <1>2, <1>4 DEF CoreCountAfter, RunsInPlace
  <2>. QED BY <2>1, <2>4, <2>5
<1>5. CASE r.op # "replace_stocks"
  <2>1. table'[t] = table[t]
    BY <1>2, <1>5, TableFacts, OpFacts
  <2>2. \A v \in Writers : runs'[v].op = "replace_stocks" => Fresh(v)'
    BY <1>1, <1>3, <2>1, FreshStays, OpFacts
  <2>3. Rows(t)' = Rows(t) BY <2>1 DEF Rows
  <2>4. coreCount' = NoCount \/ coreCount' = coreCount
    BY <1>2, <1>5 DEF CoreCountAfter
  <2>. QED BY <1>1, <1>3, <2>2, <2>3, <2>4
<1>. QED BY <1>4, <1>5

\* The run that judges stores what it has announced, and nobody else has announced since.
LEMMA CommitJudge ==
  ASSUME WritersTypeOK, RunsInPlace, JudgeInv, NEW w \in Writers, CommitRun(w)
  PROVE  JudgeInv'
<1>1. ~Judging(w)' BY CommitFacts, NoRunFacts DEF Judging
<1>2. \A v \in Writers \ {w} : (Judging(v)' <=> Judging(v)) /\ runs'[v] = runs[v]
  BY CommitFacts DEF Judging
<1>3. /\ heard' = heard /\ mixed' = mixed
      /\ cycle' = IF runs[w].op = "judge" THEN runs[w].state ELSE cycle
  BY DEF CommitRun
<1>4. CASE runs[w].op = "judge"
  <2>1. Judging(w) BY <1>4, CommitFacts DEF Judging
  <2>2. \A v \in Writers : ~Judging(v)'
    BY <1>1, <1>2, <2>1 DEF JudgeInv
  <2>3. "judge" \in mixed \/ heard' = cycle'
    BY <1>3, <1>4, <2>1 DEF JudgeInv
  <2>. QED BY <1>3, <2>2, <2>3 DEF JudgeInv
<1>5. CASE runs[w].op # "judge"
  <2>1. ~Judging(w) BY <1>5 DEF Judging
  <2>. QED BY <1>1, <1>2, <1>3, <1>5, <2>1 DEF JudgeInv
<1>. QED BY <1>4, <1>5

\* CommitRun.
LEMMA CommitStep ==
  ASSUME WritersIInv, NEW w \in Writers, CommitRun(w)
  PROVE  WritersIInv'
<1>1. /\ WritersTypeOK /\ RunsInPlace /\ JudgeInv
      /\ RowsAreBorn /\ QuoteInv /\ PoolInv /\ SumInv /\ CoreInv
  BY DEF WritersIInv, BatchInv
<1>2. WritersTypeOK' /\ RowsAreBorn' /\ RunsInPlace' BY <1>1, CommitType
<1>3. QuoteInv' BY <1>1, CommitQuote
<1>4. PoolInv' BY <1>1, CommitPool
<1>5. SumInv' BY <1>1, CommitSum
<1>6. CoreInv' BY <1>1, CommitCore
<1>7. JudgeInv' BY <1>1, CommitJudge
<1>. QED BY <1>2, <1>3, <1>4, <1>5, <1>6, <1>7 DEF WritersIInv, BatchInv

-----------------------------------------------------------------------------
(* The theorems. *)

\* Initially the tables are empty and nothing runs.
LEMMA WritersInitially == WritersInit => WritersIInv
<1> SUFFICES ASSUME WritersInit PROVE WritersIInv
  OBVIOUS
<1>1. /\ table = [t \in ReplacedTable |-> [s \in Stock |-> NoPoolRow]]
      /\ coreCount = NoCount /\ quotes = {} /\ cycle = NoState /\ summed = FALSE /\ closed = FALSE
      /\ runs = [w \in Writers |-> NoRun] /\ runCount = 0
      /\ current = [t \in ReplacedTable |-> 0]
      /\ heard = NoState /\ quoted = {} /\ counted = {} /\ mixed = {}
  BY DEF WritersInit
<1>2. NoPoolRow \in PoolRow
  BY DEF NoPoolRow, PoolRow
<1>3. \A w \in Writers : runs[w] = NoRun /\ ~Judging(w)
  BY <1>1, NoRunFacts DEF Judging
<1>4. \A t \in ReplacedTable, s \in Stock : table[t][s] = NoPoolRow
  BY <1>1
<1>5. \A t \in ReplacedTable : Rows(t) = {}
  BY <1>4 DEF Rows
<1>6. summed \in BOOLEAN /\ closed \in BOOLEAN
  BY <1>1, Zenon
<1>7. WritersTypeOK
  BY <1>1, <1>2, <1>6, NoRunFacts DEF WritersTypeOK
<1>8. RunsInPlace
  BY <1>3, NoRunFacts DEF RunsInPlace
<1>9. BatchInv
  <2>1. "limit_up_pool" \in ReplacedTable /\ "theme_stocks" \in ReplacedTable
    BY DEF ReplacedTable
  <2>2. ~summed BY <1>1, Zenon
  <2>3. RowsAreBorn BY <1>4 DEF RowsAreBorn
  <2>4. QuoteInv BY <1>1, <1>3, NoRunFacts DEF QuoteInv
  <2>5. PoolInv BY <1>3, <1>5, <2>1, NoRunFacts DEF PoolInv
  <2>6. NothingSummed
    BY <1>3, <1>4, <2>1, <2>2, NoRunFacts DEF NothingSummed, NoPoolRow
  <2>7. SumInv BY <1>3, <1>5, <2>1, <2>2, <2>6, NoRunFacts DEF SumInv
  <2>8. CoreInv BY <1>1, <1>3, <1>5, <2>1, NoRunFacts DEF CoreInv
  <2>. QED BY <2>3, <2>4, <2>5, <2>7, <2>8 DEF BatchInv
<1>10. JudgeInv
  BY <1>1, <1>3 DEF JudgeInv
<1>. QED BY <1>7, <1>8, <1>9, <1>10 DEF WritersIInv

\* Every step of the writers preserves the invariant.
LEMMA WritersStep ==
  ASSUME WritersIInv, [WritersNext]_writersVars
  PROVE  WritersIInv'
<1>1. ASSUME NEW w \in Writers, BeginWriting(w) PROVE WritersIInv'
  BY <1>1, BeginStep
<1>2. ASSUME NEW w \in Writers,
             DeleteRows(w) \/ InsertRows(w) \/ UpdateRows(w) \/ ReplaceThemes(w) \/ MergeQuotes(w)
      PROVE  WritersIInv'
  BY <1>2, BatchStatements
<1>3. ASSUME NEW w \in Writers, WriteSentiment(w) PROVE WritersIInv'
  BY <1>3, SentimentStep
<1>4. ASSUME NEW w \in Writers, Judge(w) PROVE WritersIInv'
  BY <1>4, JudgeStep
<1>5. ASSUME NEW w \in Writers, CommitRun(w) PROVE WritersIInv'
  BY <1>5, CommitStep
<1>6. ASSUME NEW w \in Writers, AbortRun(w) PROVE WritersIInv'
  BY <1>6, AbortStep
<1>7. CASE CloseTrading
  <2>0. WritersTypeOK /\ RunsInPlace /\ BatchInv /\ JudgeInv BY DEF WritersIInv
  <2>1. /\ UNCHANGED <<table, coreCount, quotes, cycle, summed, runs, runCount, current>>
        /\ UNCHANGED <<heard, quoted, counted, mixed>> /\ closed' = TRUE
    BY <1>7 DEF CloseTrading, stored
  <2>2. closed' \in BOOLEAN BY <2>1, Zenon
  <2>3. WritersTypeOK' BY <2>0, <2>1, <2>2 DEF WritersTypeOK
  <2>4. RunsInPlace' BY <2>0, <2>1 DEF RunsInPlace
  <2>5. BatchInv'
    <3>1. \A v \in Writers : SameWork(runs[v], runs'[v]) BY <2>1 DEF SameWork
    <3>. QED BY <2>0, <2>1, <3>1, BatchRest
  <2>6. JudgeInv' BY <2>0, <2>1 DEF JudgeInv, Judging
  <2>. QED BY <2>3, <2>4, <2>5, <2>6 DEF WritersIInv
<1>8. CASE UNCHANGED writersVars
  <2>0. WritersTypeOK /\ RunsInPlace /\ BatchInv /\ JudgeInv BY DEF WritersIInv
  <2>1. /\ UNCHANGED <<table, coreCount, quotes, cycle, summed, closed, runs, runCount, current>>
        /\ UNCHANGED <<heard, quoted, counted, mixed>>
    BY <1>8 DEF writersVars, stored
  <2>2. WritersTypeOK' BY <2>0, <2>1 DEF WritersTypeOK
  <2>3. RunsInPlace' BY <2>0, <2>1 DEF RunsInPlace
  <2>4. BatchInv'
    <3>1. \A v \in Writers : SameWork(runs[v], runs'[v]) BY <2>1 DEF SameWork
    <3>. QED BY <2>0, <2>1, <3>1, BatchRest
  <2>5. JudgeInv' BY <2>0, <2>1 DEF JudgeInv, Judging
  <2>. QED BY <2>2, <2>3, <2>4, <2>5 DEF WritersIInv
<1>. QED BY <1>1, <1>2, <1>3, <1>4, <1>5, <1>6, <1>7, <1>8 DEF WritersNext

\* What the invariant is for: the three properties of the tables.
LEMMA WritersIInvSuffices ==
  WritersIInv => TablesHoldTheLastBatch /\ AnnouncedCycleIsStored /\ QuotesSurvive
<1> SUFFICES ASSUME WritersIInv
             PROVE  TablesHoldTheLastBatch /\ AnnouncedCycleIsStored /\ QuotesSurvive
  OBVIOUS
<1>1. PoolIsTheLastBatch
  BY DEF WritersIInv, BatchInv, PoolInv, SumInv, PoolIsTheLastBatch
<1>2. CoreCountsStocks
  BY DEF WritersIInv, BatchInv, CoreInv, CoreCountsStocks
<1>3. AnnouncedCycleIsStored
  BY DEF WritersIInv, JudgeInv, AnnouncedCycleIsStored, Judging
<1>4. QuotesSurvive
  BY DEF WritersIInv, BatchInv, QuoteInv, QuotesSurvive
<1>. QED BY <1>1, <1>2, <1>3, <1>4 DEF TablesHoldTheLastBatch

\* The invariant holds always.
THEOREM WritersInductive == WritersSpec => []WritersIInv
<1>1. WritersIInv /\ [WritersNext]_writersVars => WritersIInv'
  BY WritersStep
<1>. QED BY WritersInitially, <1>1, PTL DEF WritersSpec

\* The tables, the runs in flight and what was announced keep their types.
THEOREM WritersTypeCorrect == WritersSpec => []WritersTypeOK
<1>1. WritersIInv => WritersTypeOK BY DEF WritersIInv
<1>. QED BY WritersInductive, <1>1, PTL

\* pool.py:110-118, writers.py:155-174: whatever the worker and the triggers do beside each
\* other, the pool is the last batch, summed amounts stay, and a count counts the stocks.
THEOREM TablesAlwaysHoldTheLastBatch == WritersSpec => []TablesHoldTheLastBatch
<1>1. WritersIInv => TablesHoldTheLastBatch BY WritersIInvSuffices
<1>. QED BY WritersInductive, <1>1, PTL

\* writers.py:187-191: when nothing is being judged, the state announced last is stored.
THEOREM AnnouncedCycleIsAlwaysStored == WritersSpec => []AnnouncedCycleIsStored
<1>1. WritersIInv => AnnouncedCycleIsStored BY WritersIInvSuffices
<1>. QED BY WritersInductive, <1>1, PTL

\* writers.py:295: later rounds of quotes never lose those of earlier ones.
THEOREM QuotesAlwaysSurvive == WritersSpec => []QuotesSurvive
<1>1. WritersIInv => QuotesSurvive BY WritersIInvSuffices
<1>. QED BY WritersInductive, <1>1, PTL
=============================================================================
