--------------------------- MODULE SourceFailover ---------------------------
(***************************************************************************)
(* Which data source answers a fetch: the orders of app/datasources/       *)
(* registry.py, the failover of resolve.py with the retries of base.py,    *)
(* the fetch of a round in app/ingest/pipeline.py, and the requests that   *)
(* change the orders (app/services/datasource_service.py).                 *)
(*                                                                         *)
(* The orders are kept in the memory of each process.  Requests run in the *)
(* API process and change its memory while they are still being checked;   *)
(* what they store is committed at their end.  Fetches share nothing, so   *)
(* one at a time is followed.  Upstreams are external.                     *)
(***************************************************************************)
EXTENDS Integers, Sequences, SequencesExt, FiniteSets

CONSTANTS
    Capability,    \* what can be fetched
    RealSource,    \* registered upstreams
    FakeFallback,  \* settings.fake_fallback_enabled
    MaxAttempts,   \* attempts of one source
    Editor,        \* requests for new orders that may be in flight
    NamedOrders,   \* bound: the lists that requests name
    MaxEdits       \* bound: such requests

Fake == "fake"
Source == RealSource \cup {Fake}
Process == {"api", "worker"}

\* An order as a request may name it; Bad stands for an unknown source, an empty
\* list or an unknown capability.
Order == {s \in BoundedSeq(Source, Cardinality(Source)) :
            s # <<>> /\ \A i, j \in 1 .. Len(s) : s[i] = s[j] => i = j}
Bad == <<>>

\* A capability that a request has not set.
Unset == <<>>

\* REAL_CAPABILITY_PROVIDERS: upstreams first, fake at the end.
Installed == CHOOSE s \in Order : ToSet(s) = Source /\ Last(s) = Fake

ASSUME FailoverAssumption ==
    /\ IsFiniteSet(RealSource) /\ Fake \notin RealSource
    /\ FakeFallback \in BOOLEAN
    /\ MaxAttempts \in Nat \ {0} /\ MaxEdits \in Nat
    /\ IsFiniteSet(Editor) /\ NamedOrders \subseteq Order

VARIABLES
    order,     \* [process -> [capability -> sources]]: _CAPABILITY_OVERRIDES
    fetch,     \* the fetch that is followed
    edits,     \* [request -> capabilities still to set, and the lists it has set]
    edited,    \* requests begun
    \* --- observability
    accepted,  \* [capability -> sources]: what the last committed request named
    torn       \* a request failed after a part of it, or two have overlapped

failoverVars == <<order, fetch, edits, edited, accepted, torn>>

NoFetch == [at |-> "idle", process |-> "worker", whole |-> FALSE, order |-> <<>>, index |-> 0,
            attempt |-> 0, failed |-> {}]
NoEdit == [todo |-> <<>>, applied |-> [c \in Capability |-> Unset]]
Defaults == [c \in Capability |-> Installed]

FailoverInit ==
    /\ order = [p \in Process |-> Defaults]
    /\ fetch = NoFetch
    /\ edits = [e \in Editor |-> NoEdit] /\ edited = 0
    /\ accepted = Defaults /\ torn = FALSE

-----------------------------------------------------------------------------
(* A fetch. *)

\* _eligible_order: a list names a source once.
Eligible(sources) == IF FakeFallback THEN sources ELSE RemoveFirst(sources, Fake)

Step(new) == fetch' = new /\ UNCHANGED <<order, edits, edited, accepted, torn>>

\* resolve (whole: with mapping and validation) or resolve_raw.
BeginFetch(p) ==
    /\ fetch = NoFetch
    /\ \E c \in Capability, whole \in BOOLEAN :
         /\ Eligible(order[p][c]) # <<>>
         /\ Step([at |-> "try", process |-> p, whole |-> whole,
                  order |-> Eligible(order[p][c]), index |-> 1, attempt |-> 1,
                  failed |-> {}])

Trying == fetch.at = "try"
Asked == fetch.order[fetch.index]

\* Faulty variant: the first attempt is not counted.
OneRetryMore == fetch.attempt <= MaxAttempts

AttemptIsLeft == fetch.attempt < MaxAttempts

\* request_with_retry: 5xx, 429 and network errors are tried again.
RetrySource ==
    /\ Trying /\ AttemptIsLeft
    /\ Step([fetch EXCEPT !.attempt = @ + 1])

\* The source fails for good, or its payload cannot be mapped: the next one, or
\* an UpstreamError that names all failures.
NextSource ==
    /\ Trying
    /\ Step(IF fetch.index = Len(fetch.order) THEN NoFetch
            ELSE [fetch EXCEPT !.index = @ + 1, !.attempt = 1,
                               !.failed = @ \cup {Asked}])

\* Any other exception leaves the loop at once.
EscapeLoop == Trying /\ Step(NoFetch)

SourceAnswers == Trying /\ Step([fetch EXCEPT !.at = "answered"])

\* The rows are used.  Of a raw payload they are made only now, by
\* contracts_from_raw: when that fails no other source is asked.
EndFetch == fetch.at = "answered" /\ Step(NoFetch)

-----------------------------------------------------------------------------
(* PUT /api/datasources/prefs. *)

BeginEdit(e) ==
    /\ edits[e] = NoEdit /\ edited < MaxEdits
    /\ \E n \in 1 .. 2 : \E todo \in [1 .. n -> Capability \X (NamedOrders \cup {Bad})] :
         /\ \A i, j \in 1 .. n : i # j => todo[i][1] # todo[j][1]
         /\ edits' = [edits EXCEPT ![e].todo = todo]
    /\ edited' = edited + 1
    /\ torn' = (torn \/ \E d \in Editor : edits[d] # NoEdit)
    /\ UNCHANGED <<fetch, order, accepted>>

\* Faulty variant: a list is installed before its sources are looked up.
InstalledBeforeCheck(next) ==
    IF next[2] = Bad THEN [order EXCEPT !["api"][next[1]] = Installed]
    ELSE [order EXCEPT !["api"][next[1]] = next[2]]

\* The memory of the API process after one capability of the request.
OrderAfter(next) ==
    IF next[2] = Bad THEN order ELSE [order EXCEPT !["api"][next[1]] = next[2]]

HasApplied(e) == \E c \in Capability : edits[e].applied[c] # Unset

\* One capability: the memory at once, the priorities of its sources in the
\* transaction.  A list that is refused rolls the transaction back, and the memory
\* keeps what was set before.
EditOne(e) ==
    LET next == Head(edits[e].todo)
    IN /\ edits[e].todo # <<>>
       /\ order' = OrderAfter(next)
       /\ IF next[2] = Bad
          THEN /\ edits' = [edits EXCEPT ![e] = NoEdit]
               /\ torn' = (torn \/ HasApplied(e))
          ELSE /\ edits' = [edits EXCEPT ![e] =
                    [todo |-> Tail(@.todo), applied |-> [@.applied EXCEPT ![next[1]] = next[2]]]]
               /\ UNCHANGED torn
       /\ UNCHANGED <<fetch, edited, accepted>>

\* The database fails under the request.
FailEdit(e) ==
    /\ HasApplied(e)
    /\ edits' = [edits EXCEPT ![e] = NoEdit]
    /\ torn' = TRUE
    /\ UNCHANGED <<fetch, order, edited, accepted>>

\* Orders in which those that a request has set take the place of the older ones.
With(orders, applied) ==
    [c \in Capability |-> IF applied[c] = Unset THEN orders[c] ELSE applied[c]]

CommitEdit(e) ==
    /\ edits[e].todo = <<>> /\ HasApplied(e)
    /\ accepted' = With(accepted, edits[e].applied)
    /\ edits' = [edits EXCEPT ![e] = NoEdit]
    /\ UNCHANGED <<fetch, order, edited, torn>>

\* A process starts with the installed orders: nothing reads stored ones.
RestartProcess(p) ==
    /\ order' = [order EXCEPT ![p] = Defaults]
    /\ fetch' = IF fetch.process = p THEN NoFetch ELSE fetch
    /\ IF p = "api"
       THEN /\ edits' = [e \in Editor |-> NoEdit]
            /\ accepted' = Defaults
       ELSE UNCHANGED <<edits, accepted>>
    /\ UNCHANGED <<edited, torn>>

FailoverNext ==
    \/ RetrySource \/ NextSource \/ EscapeLoop \/ SourceAnswers \/ EndFetch
    \/ \E p \in Process : BeginFetch(p) \/ RestartProcess(p)
    \/ \E e \in Editor :
         BeginEdit(e) \/ EditOne(e) \/ FailEdit(e) \/ CommitEdit(e)

FailoverSpec == FailoverInit /\ [][FailoverNext]_failoverVars

-----------------------------------------------------------------------------
Fetch == [at : {"idle", "try", "answered"}, process : Process, whole : BOOLEAN,
          order : Seq(Source), index : Nat, attempt : 0 .. MaxAttempts,
          failed : SUBSET Source]

FailoverTypeOK ==
    /\ order \in [Process -> [Capability -> Order]]
    /\ fetch \in Fetch
    /\ edits \in [Editor -> [todo : Seq(Capability \X (NamedOrders \cup {Bad})),
                            applied : [Capability -> NamedOrders \cup {Unset}]]]
    /\ edited \in 0 .. MaxEdits
    /\ accepted \in [Capability -> Order]
    /\ torn \in BOOLEAN

\* resolve.py:8-13: the source that answers is one the deployment accepts, and all
\* that come before it in the order have failed in this very fetch, whatever
\* requests change meanwhile.
AnswersFollowTheOrder ==
    fetch.at = "answered" =>
        /\ Asked = Fake => FakeFallback
        /\ ToSet(SubSeq(fetch.order, 1, fetch.index - 1)) = fetch.failed

\* datasource_service.py:94: while no request is under way, the orders of the API
\* process are those that committed requests have named since it started, unless
\* a request failed with a part of its lists installed or two have overlapped.
OrdersAreAccepted ==
    torn \/ (\E e \in Editor : edits[e] # NoEdit) \/ order["api"] = accepted

\* Orders and answers: what is accepted is what is asked, in that order.
SourcesFollowTheOrders == AnswersFollowTheOrder /\ OrdersAreAccepted
=============================================================================
