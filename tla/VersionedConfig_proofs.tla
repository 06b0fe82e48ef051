----------------------- MODULE VersionedConfig_proofs ------------------------
(***************************************************************************)
(* Proofs about VersionedConfig for any number of requests, versions and   *)
(* failures.                                                               *)
(***************************************************************************)
EXTENDS VersionedConfig, FiniteSetTheorems, TLAPS

-----------------------------------------------------------------------------
(***************************************************************************)
(* VersionedConfig, for any number of requests, versions and failures.     *)
(*                                                                         *)
(* The argument: the stored versions are 1 .. n, a draft that has passed   *)
(* the unique constraint is n + 1, and no two drafts are equal, so at most *)
(* one save or rollback is past its INSERT.  Its snapshot has every row.   *)
(* Activations beside each other all update the same rows.                 *)
(***************************************************************************)

Newest == Max(Stored)
Drafting == "activate" \notin mix
Activating == mix = {"activate"}

\* The history has no gaps.
HistoryInv == Stored = 1 .. Newest /\ Newest \in Version

\* What a request may hold at each place.
PlaceInv ==
    \A r \in Request :
        /\ pc[r] \in {"idle", "number", "insert"} => draft[r] = NoVersion
        /\ pc[r] = "number" => mix # {"activate"}
        /\ pc[r] = "insert" =>
             mix # {"activate"} /\ target[r] \in 1 .. (Newest + 1)
                /\ target[r] \in Version
        /\ pc[r] \in {"snapshot", "archive", "commit"} =>
             \/ /\ draft[r] = NoVersion
                /\ "activate" \in mix
                /\ target[r] \in Stored
             \/ /\ draft[r] = Newest + 1
                /\ mix # {"activate"}
                /\ target[r] = draft[r]
                /\ target[r] \in Version

DraftInv ==
    \A q, r \in Request :
        draft[q] = draft[r] /\ draft[q] # NoVersion => q = r

\* An UPDATE touches stored rows and the own draft; requests of one kind see all
\* the rows there are.
SeenInv ==
    \A r \in Request : pc[r] \in {"archive", "commit"} =>
        /\ seen[r] \subseteq Stored \cup ({draft[r]} \ {NoVersion})
        /\ Drafting \/ Activating =>
             seen[r] = Stored \cup ({draft[r]} \ {NoVersion})
        /\ pc[r] = "commit" => held[r] = seen[r]

ActiveInv ==
    /\ Drafting => Actives = {Newest}
    /\ Activating => \E v \in Version : Actives = {v}
    /\ Actives # {}

IInv ==
    /\ TypeOK
    /\ HistoryInv
    /\ PlaceInv
    /\ DraftInv
    /\ SeenInv
    /\ ActiveInv

-----------------------------------------------------------------------------
\* The largest version of a history without gaps.
LEMMA MaxOfInterval ==
    ASSUME NEW n \in Nat \ {0}
    PROVE  Max(1 .. n) = n
BY DEF Max

\* Some versions have been saved and the last one is active.
LEMMA InitIInv == Init => IInv
<1> SUFFICES ASSUME Init PROVE IInv
  OBVIOUS
<1> USE ConfigAssumption DEF Version
<1>1. PICK n \in 1 .. MaxVersion :
        rows = [v \in Version |-> IF v < n THEN "archived"
                                  ELSE IF v = n THEN "active" ELSE "absent"]
  BY DEF Init
<1>2. Stored = 1 .. n /\ Actives = {n}
  BY <1>1 DEF Stored, Actives
<1>3. Newest = n
  BY <1>2, MaxOfInterval DEF Newest
<1>4. TypeOK
  BY <1>1 DEF Init, TypeOK, Status, Place, NoVersion
<1>5. HistoryInv /\ ActiveInv
  BY <1>2, <1>3 DEF HistoryInv, ActiveInv
<1>6. PlaceInv /\ DraftInv /\ SeenInv
  BY DEF Init, PlaceInv, DraftInv, SeenInv, NoVersion
<1> QED
  BY <1>4, <1>5, <1>6 DEF IInv

\* A step of one request that commits nothing leaves the history alone.
LEMMA QuietKeeps ==
    ASSUME rows' = rows
    PROVE  Stored' = Stored /\ Actives' = Actives /\ Newest' = Newest
BY DEF Stored, Actives, Newest

\* Closing a session keeps the invariant when it commits nothing.
LEMMA CloseKeeps ==
    ASSUME IInv, NEW r \in Request, Close(r), UNCHANGED <<mix, rows>>,
           failures' \in 0 .. MaxFailures
    PROVE  IInv'
<1> USE DEF IInv
<1>1. Stored' = Stored /\ Actives' = Actives /\ Newest' = Newest
  BY QuietKeeps
<1>2. TypeOK'
  BY DEF TypeOK, Close, Goto, Place
<1>3. HistoryInv' /\ ActiveInv'
  BY <1>1 DEF HistoryInv, ActiveInv, Drafting, Activating
<1>4. PlaceInv'
  BY <1>1 DEF PlaceInv, Close, Goto, TypeOK
<1>5. DraftInv'
  BY DEF DraftInv, Close, TypeOK
<1>6. SeenInv'
  BY <1>1 DEF SeenInv, Close, Goto, TypeOK, Drafting, Activating
<1> QED
  BY <1>2, <1>3, <1>4, <1>5, <1>6

\* The commit of a save or a rollback, or of an activation.
LEMMA CommitKeeps ==
    ASSUME IInv, NEW r \in Request, Commit(r)
    PROVE  IInv'
<1> USE ConfigAssumption DEF IInv, Version
<1>1. /\ pc[r] = "commit"
      /\ rows' = [v \in Version |-> IF v = target[r] THEN "active"
                                    ELSE IF v \in held[r] THEN "archived"
                                    ELSE rows[v]]
      /\ UNCHANGED <<mix, failures>>
  BY DEF Commit
<1>2. /\ pc' = [pc EXCEPT ![r] = "idle"]
      /\ draft' = [draft EXCEPT ![r] = NoVersion]
      /\ seen' = [seen EXCEPT ![r] = {}]
      /\ held' = [held EXCEPT ![r] = {}]
      /\ target' = [target EXCEPT ![r] = NoVersion]
  BY DEF Commit, Close, Goto
<1>3. target[r] \in Version
  BY <1>1 DEF PlaceInv, Stored
<1>4. TypeOK'
  BY <1>1, <1>2, <1>3 DEF TypeOK, Status, Place
<1>5. target[r] \in Actives'
  BY <1>1, <1>3 DEF Actives
<1>6. DraftInv'
  BY <1>2 DEF DraftInv, TypeOK
<1>7. /\ held[r] = seen[r]
      /\ seen[r] \subseteq Stored \cup ({draft[r]} \ {NoVersion})
      /\ Drafting \/ Activating =>
           seen[r] = Stored \cup ({draft[r]} \ {NoVersion})
  BY <1>1 DEF SeenInv
<1>8. \A q \in Request \ {r} :
        /\ pc'[q] = pc[q] /\ draft'[q] = draft[q] /\ seen'[q] = seen[q]
        /\ held'[q] = held[q] /\ target'[q] = target[q]
  BY <1>2 DEF TypeOK
<1>9. pc'[r] = "idle" /\ draft'[r] = NoVersion
  BY <1>2 DEF TypeOK
<1>10. mix' = mix /\ (Drafting' <=> Drafting) /\ (Activating' <=> Activating)
  BY <1>1 DEF Drafting, Activating
<1>11. Newest \in Nat \ {0} /\ Stored = 1 .. Newest
  BY DEF HistoryInv
<1>12. CASE draft[r] = NoVersion
  <2>1. target[r] \in Stored /\ "activate" \in mix
    BY <1>1, <1>11, <1>12 DEF PlaceInv, NoVersion
  <2>2. Stored' = Stored
    BY <1>1, <1>7, <1>12, <2>1 DEF Stored
  <2>3. Newest' = Newest
    BY <2>2 DEF Newest
  <2>4. HistoryInv'
    BY <2>2, <2>3 DEF HistoryInv
  <2>5. PlaceInv'
    BY <1>8, <1>9, <1>10, <2>2, <2>3 DEF PlaceInv
  <2>6. SeenInv'
    BY <1>8, <1>9, <1>10, <2>2 DEF SeenInv
  <2>7. Activating => Actives' = {target[r]}
    <3> SUFFICES ASSUME Activating PROVE Actives' = {target[r]}
      OBVIOUS
    <3>1. held[r] = Stored
      BY <1>7, <1>12
    <3> QED
      BY <1>1, <1>3, <3>1 DEF Actives, Stored
  <2>8. ActiveInv'
    BY <1>3, <1>5, <1>10, <2>1, <2>7 DEF ActiveInv, Drafting
  <2> QED
    BY <1>4, <1>6, <2>4, <2>5, <2>6, <2>8
<1>13. CASE draft[r] # NoVersion
  <2>1. draft[r] = Newest + 1 /\ target[r] = Newest + 1 /\ mix # {"activate"}
    BY <1>1, <1>13 DEF PlaceInv
  <2>2. Newest + 1 \in Version
    BY <1>3, <2>1
  <2>3. Stored' = 1 .. (Newest + 1)
    <3>1. \A v \in Version : rows'[v] # "absent" <=>
            v \in Stored \/ v = Newest + 1
      BY <1>1, <1>7, <2>1 DEF Stored
    <3> QED
      BY <1>11, <2>2, <3>1 DEF Stored
  <2>4. Newest' = Newest + 1
    BY <1>11, <2>3, MaxOfInterval DEF Newest
  <2>5. HistoryInv'
    BY <2>2, <2>3, <2>4 DEF HistoryInv
  <2>6. \A q \in Request \ {r} : draft[q] = NoVersion
    <3> SUFFICES ASSUME NEW q \in Request \ {r}, draft[q] # NoVersion
                 PROVE  FALSE
      OBVIOUS
    <3>1. draft[q] = Newest + 1
      BY DEF PlaceInv, TypeOK, Place
    <3> QED
      BY <1>13, <2>1, <3>1 DEF DraftInv
  <2>7. PlaceInv'
    <3> SUFFICES ASSUME NEW q \in Request \ {r}
                 PROVE  PlaceInv!(q)'
      BY <1>9 DEF PlaceInv
    <3> QED
      BY <1>8, <1>10, <1>11, <2>3, <2>4, <2>6 DEF PlaceInv, NoVersion
  <2>8. SeenInv'
    <3> SUFFICES ASSUME NEW q \in Request \ {r},
                        pc[q] \in {"archive", "commit"}
                 PROVE  SeenInv!(q)'
      BY <1>8, <1>9 DEF SeenInv
    <3>1. "activate" \in mix
      BY <2>6, <1>11 DEF PlaceInv, NoVersion
    <3>2. ~Drafting /\ ~Activating
      BY <2>1, <3>1 DEF Drafting, Activating
    <3> QED
      BY <1>8, <1>10, <1>11, <2>3, <3>2 DEF SeenInv
  <2>9. Drafting => Actives' = {Newest'}
    <3> SUFFICES ASSUME Drafting PROVE Actives' = {Newest'}
      OBVIOUS
    <3>1. held[r] = Stored \cup {Newest + 1}
      BY <1>7, <1>13, <2>1
    <3> QED
      BY <1>1, <2>1, <2>2, <2>4, <3>1 DEF Actives, Stored
  <2>10. ActiveInv'
    BY <1>5, <1>10, <2>1, <2>9 DEF ActiveInv, Activating
  <2> QED
    BY <1>4, <1>6, <2>5, <2>7, <2>8, <2>10
<1> QED
  BY <1>12, <1>13

-----------------------------------------------------------------------------
\* A step that moves one request and touches no row keeps the invariant when the
\* place it reaches allows what the request then holds.
LEMMA MoveKeeps ==
    ASSUME IInv, NEW r \in Request, UNCHANGED <<mix, rows, failures>>,
           TypeOK',
           \A q \in Request \ {r} :
               /\ pc'[q] = pc[q] /\ draft'[q] = draft[q]
               /\ seen'[q] = seen[q] /\ held'[q] = held[q]
               /\ target'[q] = target[q],
           PlaceInv!(r)', SeenInv!(r)',
           draft'[r] # draft[r] => \A q \in Request \ {r} : draft[q] # draft'[r]
    PROVE  IInv'
<1> USE DEF IInv
<1>1. /\ Stored' = Stored /\ Actives' = Actives /\ Newest' = Newest
      /\ mix' = mix /\ (Drafting' <=> Drafting) /\ (Activating' <=> Activating)
  BY QuietKeeps DEF Drafting, Activating
<1>2. HistoryInv' /\ ActiveInv'
  BY <1>1 DEF HistoryInv, ActiveInv
<1>3. PlaceInv'
  <2> SUFFICES ASSUME NEW q \in Request \ {r} PROVE PlaceInv!(q)'
    BY DEF PlaceInv
  <2> QED
    BY <1>1 DEF PlaceInv
<1>4. SeenInv'
  <2> SUFFICES ASSUME NEW q \in Request \ {r} PROVE SeenInv!(q)'
    BY DEF SeenInv
  <2> QED
    BY <1>1 DEF SeenInv
<1>5. DraftInv'
  BY DEF DraftInv
<1> QED
  BY <1>2, <1>3, <1>4, <1>5

\* Every step of every request keeps the invariant.
LEMMA StepIInv == IInv /\ [Next]_vars => IInv'
<1> SUFFICES ASSUME IInv, [Next]_vars PROVE IInv'
  OBVIOUS
<1> USE ConfigAssumption DEF IInv, Version
<1>0. Newest \in Version /\ Stored = 1 .. Newest
  BY DEF HistoryInv
<1>1. ASSUME NEW r \in Request, BeginActivate(r) PROVE IInv'
  <2>1. /\ TypeOK'
        /\ pc'[r] = "snapshot" /\ target'[r] \in Stored
        /\ draft'[r] = NoVersion /\ "activate" \in mix
    BY <1>1 DEF BeginActivate, Goto, TypeOK, Place, Stored, PlaceInv
  <2>2. PlaceInv!(r)' /\ SeenInv!(r)'
    BY <1>1, <2>1, QuietKeeps DEF BeginActivate
  <2> QED
    BY <1>1, <2>1, <2>2, MoveKeeps DEF BeginActivate, Goto, TypeOK
<1>2. ASSUME NEW r \in Request, BeginDraft(r) PROVE IInv'
  <2>1. /\ TypeOK'
        /\ pc'[r] = "number" /\ draft'[r] = NoVersion /\ mix # {"activate"}
    BY <1>2 DEF BeginDraft, Goto, TypeOK, Place, PlaceInv
  <2>2. PlaceInv!(r)' /\ SeenInv!(r)'
    BY <1>2, <2>1 DEF BeginDraft
  <2> QED
    BY <1>2, <2>1, <2>2, MoveKeeps DEF BeginDraft, Goto, TypeOK
<1>3. ASSUME NEW r \in Request, Number(r) PROVE IInv'
  <2>1. CASE Newest < MaxVersion
    <3>1. /\ pc[r] = "number"
          /\ target' = [target EXCEPT ![r] = Newest + 1]
          /\ pc' = [pc EXCEPT ![r] = "insert"]
          /\ UNCHANGED <<mix, rows, draft, seen, held, failures>>
      BY <1>3, <2>1 DEF Number, Goto, Newest
    <3>2. /\ TypeOK'
          /\ pc'[r] = "insert" /\ draft'[r] = NoVersion
          /\ target'[r] = Newest + 1 /\ mix # {"activate"}
      BY <1>0, <2>1, <3>1 DEF TypeOK, Place, PlaceInv
    <3>3. PlaceInv!(r)' /\ SeenInv!(r)'
      BY <1>0, <2>1, <3>1, <3>2, QuietKeeps
    <3> QED
      BY <3>1, <3>2, <3>3, MoveKeeps DEF TypeOK
  <2>2. CASE ~(Newest < MaxVersion)
    BY <1>3, <2>2, CloseKeeps DEF Number, Newest, TypeOK
  <2> QED
    BY <2>1, <2>2
<1>4. ASSUME NEW r \in Request, Insert(r) PROVE IInv'
  <2>1. CASE target[r] \in Stored
    BY <1>4, <2>1, CloseKeeps DEF Insert, TypeOK
  <2>2. CASE target[r] \notin Stored
    <3>1. /\ pc[r] = "insert" /\ KeyIsFree(r, target[r])
          /\ pc' = [pc EXCEPT ![r] = "snapshot"]
          /\ draft' = [draft EXCEPT ![r] = target[r]]
          /\ UNCHANGED <<mix, rows, target, seen, held, failures>>
      BY <1>4, <2>2 DEF Insert, Goto
    <3>2. /\ target[r] = Newest + 1 /\ target[r] \in Version
          /\ mix # {"activate"}
      BY <1>0, <2>2, <3>1 DEF PlaceInv
    <3>3. /\ TypeOK'
          /\ pc'[r] = "snapshot" /\ draft'[r] = Newest + 1
          /\ target'[r] = target[r]
      BY <3>1, <3>2 DEF TypeOK, Place
    <3>4. PlaceInv!(r)' /\ SeenInv!(r)'
      BY <3>1, <3>2, <3>3, QuietKeeps
    <3> QED
      BY <3>1, <3>2, <3>3, <3>4, MoveKeeps DEF TypeOK, KeyIsFree
  <2> QED
    BY <2>1, <2>2
<1>5. ASSUME NEW r \in Request, Snapshot(r) PROVE IInv'
  <2>1. /\ pc[r] = "snapshot"
        /\ pc' = [pc EXCEPT ![r] = "archive"]
        /\ seen' = [seen EXCEPT ![r] = Stored \cup ({draft[r]} \ {NoVersion})]
        /\ UNCHANGED <<mix, rows, target, draft, held, failures>>
    BY <1>5 DEF Snapshot, Goto
  <2>2. /\ TypeOK'
        /\ pc'[r] = "archive" /\ seen'[r] = Stored \cup ({draft[r]} \ {NoVersion})
    BY <1>0, <2>1 DEF TypeOK, Place
  <2>3. PlaceInv!(r)' /\ SeenInv!(r)'
    BY <2>1, <2>2, QuietKeeps DEF PlaceInv
  <2> QED
    BY <2>1, <2>2, <2>3, MoveKeeps DEF TypeOK
<1>6. ASSUME NEW r \in Request, Archive(r) PROVE IInv'
  <2>1. /\ pc[r] = "archive"
        /\ pc' = [pc EXCEPT ![r] = "commit"]
        /\ held' = [held EXCEPT ![r] = seen[r]]
        /\ UNCHANGED <<mix, rows, target, draft, seen, failures>>
    BY <1>6 DEF Archive, Goto
  <2>2. /\ TypeOK'
        /\ pc'[r] = "commit" /\ held'[r] = seen[r]
    BY <2>1 DEF TypeOK, Place
  <2>3. PlaceInv!(r)' /\ SeenInv!(r)'
    BY <2>1, <2>2, QuietKeeps DEF PlaceInv, SeenInv, Drafting, Activating
  <2> QED
    BY <2>1, <2>2, <2>3, MoveKeeps DEF TypeOK
<1>7. ASSUME NEW r \in Request, Fail(r) PROVE IInv'
  BY <1>7, CloseKeeps DEF Fail, TypeOK
<1>8. CASE UNCHANGED vars
  <2>1. Stored' = Stored /\ Actives' = Actives /\ Newest' = Newest
    BY <1>8, QuietKeeps DEF vars
  <2> QED
    BY <1>8, <2>1 DEF vars, TypeOK, HistoryInv, PlaceInv, DraftInv, SeenInv,
                      ActiveInv, Drafting, Activating
<1> QED
  BY <1>1, <1>2, <1>3, <1>4, <1>5, <1>6, <1>7, <1>8, CommitKeeps DEF Next, Step

\* The inductive invariant holds in every reachable state.
LEMMA Inductive == Spec => []IInv
BY InitIInv, StepIInv, PTL DEF Spec

\* Every variable keeps its type: no request ever activates a version that is
\* neither stored nor its own draft.
THEOREM TypeCorrect == Spec => []TypeOK
BY Inductive, PTL DEF IInv

\* Activations beside each other, and saves and rollbacks beside each other,
\* leave at most one version active.
THEOREM OneActive == Spec => []OneActiveWithinAMix
<1>1. IInv => OneActiveWithinAMix
  <2> SUFFICES ASSUME IInv, Drafting \/ Activating PROVE AtMostOneActive
    BY DEF OneActiveWithinAMix, Drafting, Activating
  <2>1. PICK v : Actives = {v}
    BY DEF IInv, ActiveInv
  <2>2. Cardinality({v}) = 1
    BY FS_Singleton
  <2> QED
    BY <2>1, <2>2 DEF AtMostOneActive
<1> QED
  BY <1>1, Inductive, PTL

\* An owner that has an active version has one for good, failed and concurrent
\* requests included: readers never fall back on the default parameters.
THEOREM SomeActive == Spec => [](Actives # {})
<1>1. IInv => Actives # {}
  BY DEF IInv, ActiveInv
<1> QED
  BY <1>1, Inductive, PTL

\* Without activations the version in force is the one saved last.
THEOREM LastSaveInForce == Spec => []LatestSaveWins
<1>1. IInv => LatestSaveWins
  BY DEF IInv, ActiveInv, LatestSaveWins, Drafting, Newest
<1> QED
  BY <1>1, Inductive, PTL

-----------------------------------------------------------------------------
(***************************************************************************)
(* The register that the commits implement, and the line of the waiting.   *)
(*                                                                         *)
(* A snapshot is a beginning of the history, with the own draft behind it; *)
(* an activation's target is in it.  So a save leaves its version alone on *)
(* top, and an activation leaves its target or a newer version that its    *)
(* snapshot has missed and that was the newest active one before.          *)
(***************************************************************************)

SnapshotInv ==
    \A r \in Request : pc[r] \in {"archive", "commit"} =>
        \E k \in 1 .. Newest :
            /\ seen[r] = (1 .. k) \cup ({draft[r]} \ {NoVersion})
            /\ draft[r] = NoVersion => target[r] \in 1 .. k

\* One of the active versions is the newest.
TopInv == \E m \in Actives : \A v \in Actives : v <= m

RegisterInv == IInv /\ SnapshotInv /\ TopInv

\* The element of a set that no other exceeds is its maximum.
LEMMA MaxIs ==
    ASSUME NEW S, S \subseteq Nat, NEW m \in S, \A v \in S : v <= m
    PROVE  Max(S) = m
<1>1. \A v \in S : m >= v
  OBVIOUS
<1>2. Max(S) \in S /\ \A v \in S : Max(S) >= v
  BY <1>1 DEF Max
<1>3. Max(S) \in Nat /\ m \in Nat /\ Max(S) <= m /\ Max(S) >= m
  BY <1>2
<1> QED
  BY <1>3

\* A commit adds the own draft to the history, or nothing.
LEMMA CommitEffect ==
    ASSUME IInv, NEW r \in Request, Commit(r)
    PROVE  /\ pc[r] = "commit"
           /\ held[r] = seen[r]
           /\ target[r] \in Version
           /\ Actives' = {target[r]} \cup (Actives \ held[r])
           /\ \/ draft[r] = NoVersion /\ Newest' = Newest
              \/ /\ draft[r] = Newest + 1 /\ target[r] = Newest + 1
                 /\ Newest' = Newest + 1
<1> USE ConfigAssumption DEF IInv, Version
<1>1. /\ pc[r] = "commit"
      /\ rows' = [v \in Version |-> IF v = target[r] THEN "active"
                                    ELSE IF v \in held[r] THEN "archived"
                                    ELSE rows[v]]
  BY DEF Commit
<1>2. target[r] \in Version
  BY <1>1 DEF PlaceInv, Stored
<1>3. held[r] = seen[r] /\ seen[r] \subseteq Stored \cup ({draft[r]} \ {NoVersion})
  BY <1>1 DEF SeenInv
<1>4. Actives' = {target[r]} \cup (Actives \ held[r])
  BY <1>1, <1>2 DEF Actives
<1>5. Newest \in Nat \ {0} /\ Stored = 1 .. Newest
  BY DEF HistoryInv
<1>6. CASE draft[r] = NoVersion
  <2>1. target[r] \in Stored
    BY <1>1, <1>5, <1>6 DEF PlaceInv, NoVersion
  <2>2. Stored' = Stored
    BY <1>1, <1>3, <1>6, <2>1 DEF Stored
  <2> QED
    BY <1>1, <1>2, <1>3, <1>4, <1>6, <2>2 DEF Newest
<1>7. CASE draft[r] # NoVersion
  <2>1. draft[r] = Newest + 1 /\ target[r] = Newest + 1
    BY <1>1, <1>7 DEF PlaceInv
  <2>2. \A v \in Version : rows'[v] # "absent" <=> v \in Stored \/ v = Newest + 1
    BY <1>1, <1>3, <2>1 DEF Stored
  <2>3. Stored' = 1 .. (Newest + 1)
    BY <1>2, <1>5, <2>1, <2>2 DEF Stored
  <2>4. Newest' = Newest + 1
    BY <1>5, <2>3, MaxOfInterval DEF Newest
  <2> QED
    BY <1>1, <1>2, <1>3, <1>4, <2>1, <2>4
<1> QED
  BY <1>6, <1>7

\* Steps that commit nothing leave history and active versions alone.
LEMMA OnlyCommitsWrite ==
    ASSUME [Next]_vars, \A r \in Request : ~Commit(r)
    PROVE  rows' = rows
BY DEF Next, Step, vars, BeginActivate, BeginDraft, Number, Insert, Snapshot,
       Archive, Fail

\* What a commit leaves as the newest active version.
LEMMA CommitTop ==
    ASSUME RegisterInv, NEW r \in Request, Commit(r),
           NEW m \in Actives, \A v \in Actives : v <= m
    PROVE  \/ /\ Newest' = Newest + 1
              /\ Newest + 1 \in Actives' /\ \A v \in Actives' : v <= Newest + 1
           \/ /\ Newest' = Newest
              /\ \E t \in (1 .. Newest) \cap Actives' :
                    \A v \in Actives' : v <= t
           \/ /\ Newest' = Newest
              /\ m \in Actives' /\ \A v \in Actives' : v <= m
<1> USE ConfigAssumption DEF RegisterInv, Version
<1>1. Newest \in Nat \ {0} /\ Actives \subseteq 1 .. Newest
  BY DEF IInv, HistoryInv, Actives, Stored
<1>2. PICK k \in 1 .. Newest :
        /\ seen[r] = (1 .. k) \cup ({draft[r]} \ {NoVersion})
        /\ draft[r] = NoVersion => target[r] \in 1 .. k
  BY CommitEffect DEF SnapshotInv
<1>3. /\ Actives' = {target[r]} \cup (Actives \ seen[r])
      /\ \/ draft[r] = NoVersion /\ Newest' = Newest
         \/ target[r] = Newest + 1 /\ Newest' = Newest + 1
  BY CommitEffect
<1>4. CASE target[r] = Newest + 1 /\ Newest' = Newest + 1
  <2>1. \A v \in Actives' : v = Newest + 1 \/ v \in 1 .. Newest
    BY <1>1, <1>3, <1>4
  <2>2. Newest + 1 \in Actives' /\ \A v \in Actives' : v <= Newest + 1
    BY <1>1, <1>3, <1>4, <2>1
  <2> QED
    BY <1>4, <2>2
<1>5. CASE draft[r] = NoVersion /\ Newest' = Newest
  <2>1. seen[r] = 1 .. k /\ target[r] \in 1 .. k
    BY <1>2, <1>5
  <2>2. CASE m > k
    <3>1. m \in Actives'
      BY <1>1, <1>3, <2>1, <2>2
    <3>2. \A v \in Actives' : v = target[r] \/ v \in Actives
      BY <1>3
    <3>3. target[r] <= m
      BY <1>1, <2>1, <2>2
    <3>4. \A v \in Actives' : v <= m
      BY <3>2, <3>3
    <3> QED
      BY <1>5, <3>1, <3>4
  <2>3. CASE ~(m > k)
    <3>0. \A v \in Actives : v \in 1 .. k
      BY <1>1, <2>3
    <3>1. Actives' = {target[r]}
      BY <1>3, <2>1, <3>0
    <3>2. target[r] \in 1 .. Newest
      BY <1>1, <2>1
    <3> QED
      BY <1>1, <1>5, <3>1, <3>2
  <2> QED
    BY <2>2, <2>3
<1> QED
  BY <1>3, <1>4, <1>5

\* The invariant behind the refinement holds at the start,
LEMMA InitRegisterInv == Init => RegisterInv
<1> SUFFICES ASSUME Init PROVE RegisterInv
  OBVIOUS
<1> USE ConfigAssumption DEF Version
<1>1. PICK n \in 1 .. MaxVersion :
        rows = [v \in Version |-> IF v < n THEN "archived"
                                  ELSE IF v = n THEN "active" ELSE "absent"]
  BY DEF Init
<1>2. Actives = {n}
  BY <1>1 DEF Actives
<1>3. TopInv
  BY <1>2 DEF TopInv
<1>4. SnapshotInv
  BY DEF Init, SnapshotInv
<1> QED
  BY <1>3, <1>4, InitIInv DEF RegisterInv

\* and every step keeps it: the snapshot of a request stays a beginning of a
\* history that only grows.
LEMMA StepRegisterInv == RegisterInv /\ [Next]_vars => RegisterInv'
<1> SUFFICES ASSUME RegisterInv, [Next]_vars PROVE RegisterInv'
  OBVIOUS
<1> USE DEF RegisterInv
<1>1. IInv'
  BY StepIInv
<1>2. Newest \in Nat \ {0} /\ Newest' \in Nat \ {0} /\ Newest <= Newest'
  <2>1. Newest \in Nat \ {0} /\ Newest' \in Nat \ {0}
    BY <1>1, ConfigAssumption DEF IInv, HistoryInv, Version
  <2>2. CASE \E r \in Request : Commit(r)
    BY <2>1, <2>2, CommitEffect
  <2>3. CASE \A r \in Request : ~Commit(r)
    BY <2>1, <2>3, OnlyCommitsWrite, QuietKeeps
  <2> QED
    BY <2>1, <2>2, <2>3
<1>3. TopInv'
  <2>1. PICK m \in Actives : \A v \in Actives : v <= m
    BY DEF TopInv
  <2>2. CASE \E r \in Request : Commit(r)
    BY <2>1, <2>2, CommitTop, <1>2 DEF TopInv
  <2>3. CASE \A r \in Request : ~Commit(r)
    BY <2>1, <2>3, OnlyCommitsWrite, QuietKeeps DEF TopInv
  <2> QED
    BY <2>2, <2>3
<1>4. SnapshotInv'
  <2> SUFFICES ASSUME NEW r \in Request, pc'[r] \in {"archive", "commit"}
               PROVE  \E k \in 1 .. Newest' :
                        /\ seen'[r] = (1 .. k) \cup ({draft'[r]} \ {NoVersion})
                        /\ draft'[r] = NoVersion => target'[r] \in 1 .. k
    BY DEF SnapshotInv
  <2>1. CASE Snapshot(r)
    <3>1. /\ pc[r] = "snapshot" /\ UNCHANGED <<rows, target, draft>>
          /\ seen'[r] = Stored \cup ({draft[r]} \ {NoVersion})
      BY <2>1 DEF Snapshot, IInv, TypeOK
    <3>2. Stored = 1 .. Newest /\ Newest' = Newest
      BY <3>1, QuietKeeps DEF IInv, HistoryInv
    <3>3. draft[r] = NoVersion => target[r] \in 1 .. Newest
      BY <1>2, <3>1, <3>2 DEF IInv, PlaceInv, NoVersion
    <3> QED
      BY <1>2, <3>1, <3>2, <3>3
  <2>2. CASE ~Snapshot(r)
    <3>1. /\ pc[r] \in {"archive", "commit"} /\ seen'[r] = seen[r]
          /\ draft'[r] = draft[r] /\ target'[r] = target[r]
      BY <2>2 DEF Next, Step, vars, BeginActivate, BeginDraft, Number, Insert,
                  Snapshot, Archive, Commit, Fail, Close, Goto, IInv, TypeOK
    <3>2. PICK k \in 1 .. Newest :
            /\ seen[r] = (1 .. k) \cup ({draft[r]} \ {NoVersion})
            /\ draft[r] = NoVersion => target[r] \in 1 .. k
      BY <3>1 DEF SnapshotInv
    <3> QED
      BY <1>2, <3>1, <3>2
  <2> QED
    BY <2>1, <2>2
<1> QED
  BY <1>1, <1>3, <1>4

\* The version in force is the newest of the active ones.
LEMMA InForceIs ==
    ASSUME NEW S, S \subseteq Nat, NEW m \in S, \A v \in S : v <= m
    PROVE  Max(S \cup {0}) = m
<1> DEFINE T == S \cup {0}
<1>1. T \subseteq Nat /\ m \in T /\ \A v \in T : v <= m
  OBVIOUS
<1> HIDE DEF T
<1>2. Max(T) = m
  BY <1>1, MaxIs
<1> QED
  BY <1>2 DEF T

\* A commit is a step of the register or none; every other step is none.
LEMMA StepsOfTheRegister ==
    ASSUME RegisterInv, RegisterInv', [Next]_vars
    PROVE  [History!Save \/ History!Activate]_(History!vars)
<1> USE DEF RegisterInv
<1>1. PICK m \in Actives : \A v \in Actives : v <= m
  BY DEF TopInv
<1>2. Actives \subseteq Nat /\ Actives' \subseteq Nat /\ Newest \in Nat
  BY ConfigAssumption DEF IInv, HistoryInv, Actives, Version
<1>3. Max(Actives \cup {0}) = m
  BY <1>1, <1>2, InForceIs
<1>4. ASSUME NEW r \in Request, Commit(r)
      PROVE  \/ Newest' = Newest + 1 /\ Max(Actives \cup {0})' = Newest + 1
             \/ Newest' = Newest /\ Max(Actives \cup {0})' \in 1 .. Newest
             \/ Newest' = Newest /\ Max(Actives \cup {0})' = Max(Actives \cup {0})
  <2>1. CASE /\ Newest' = Newest + 1
             /\ Newest + 1 \in Actives' /\ \A v \in Actives' : v <= Newest + 1
    BY <1>2, <2>1, InForceIs
  <2>2. ASSUME Newest' = Newest,
               NEW t \in (1 .. Newest) \cap Actives', \A v \in Actives' : v <= t
        PROVE  Newest' = Newest /\ Max(Actives \cup {0})' \in 1 .. Newest
    BY <1>2, <2>2, InForceIs
  <2>3. CASE /\ Newest' = Newest
             /\ m \in Actives' /\ \A v \in Actives' : v <= m
    BY <1>2, <1>3, <2>3, InForceIs
  <2> QED
    BY <1>1, <1>4, <2>1, <2>2, <2>3, CommitTop
<1>5. CASE \E r \in Request : Commit(r)
  BY <1>4, <1>5 DEF History!Save, History!Activate, History!vars, Newest
<1>6. CASE \A r \in Request : ~Commit(r)
  BY <1>6, OnlyCommitsWrite, QuietKeeps DEF History!vars, Newest
<1> QED
  BY <1>5, <1>6

\* Saves, rollbacks and activations in any mixture, overlapping and failing as
\* they may, implement the register of VersionRegister.
THEOREM CommitsImplementRegister == Spec => ImplementsVersionRegister
<1>1. Init => History!Init
  <2> SUFFICES ASSUME Init PROVE Max(Actives \cup {0}) = Newest /\ Newest \in Nat \ {0}
    BY DEF History!Init, Newest
  <2>1. PICK n \in 1 .. MaxVersion :
          rows = [v \in Version |-> IF v < n THEN "archived"
                                    ELSE IF v = n THEN "active" ELSE "absent"]
    BY DEF Init
  <2>2. Stored = 1 .. n /\ Actives = {n} /\ n \in Nat \ {0}
    BY <2>1, ConfigAssumption DEF Stored, Actives, Version
  <2>3. Max({n} \cup {0}) = n
    BY <2>2, InForceIs
  <2> QED
    BY <2>2, <2>3, MaxOfInterval DEF Newest
<1>2. RegisterInv /\ RegisterInv' /\ [Next]_vars
        => [History!Save \/ History!Activate]_(History!vars)
  BY StepsOfTheRegister
<1> QED
  BY <1>1, <1>2, InitRegisterInv, StepRegisterInv, PTL
     DEF Spec, ImplementsVersionRegister, History!Spec
=============================================================================
