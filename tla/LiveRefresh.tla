----------------------------- MODULE LiveRefresh -----------------------------
(***************************************************************************)
(* How a new row of the ingest worker reaches an open page: the commit of  *)
(* the task, notify_ingest_completed of app/ingest/events.py, the two      *)
(* levels of app/services/cache_policy.py, the event bus of app/core/      *)
(* ws_bus.py, the connections of app/api/ws.py and the refetch of          *)
(* frontend/src/hooks/useChannelRefresh.ts.  One cached key; a version of  *)
(* its rows is a number.                                                   *)
(*                                                                         *)
(* Time is counted in ticks: an entry lives for its TTL, and a request     *)
(* takes at most MaxAge ticks.  Redis, the sockets and TanStack Query are  *)
(* external.                                                               *)
(***************************************************************************)
EXTENDS Integers

CONSTANTS
    Proc,        \* API processes, each with its own L1
    Slot,        \* requests that may be in flight at the same time
    Pushed,      \* pages that refetch on an event (useChannelRefresh)
    Polled,      \* pages that refetch on a timer (refetchInterval)
    Loaded,      \* pages that were open before, and show the first version
    L1Ttl, L2Ttl,\* lifetime of the entries
    MaxAge,      \* bound: ticks a request takes
    MaxWrites,   \* bound: versions written
    MaxOthers,   \* bound: events of other tasks on the same channel
    MaxFaults    \* bound: crashes, cache errors, lost connections

Page == Pushed \cup Polled
Version == 0 .. MaxWrites
Down == "down"
NoSlot == "none"
Blank == -1      \* nothing on the screen yet: the first load of a page

ASSUME RefreshAssumption ==
    /\ Down \notin Proc /\ NoSlot \notin Slot
    /\ Pushed \cap Polled = {} /\ Loaded \subseteq Page
    /\ L1Ttl \in Nat \ {0} /\ L2Ttl \in Nat \ {0}
    /\ MaxAge \in Nat /\ MaxWrites \in Nat
    /\ MaxOthers \in Nat /\ MaxFaults \in Nat

VARIABLES
    \* --- worker and database
    db,         \* the version committed
    worker,     \* what the worker still has to do for the last task
    others,     \* events published for other tasks
    \* --- caches: [v |-> version, left |-> ticks to live], or Empty
    l2, l1,
    \* --- requests of the API
    stage,      \* [slot -> step of get_or_load, or "free"]
    via,        \* [slot -> process that serves it]
    val,        \* [slot -> version it has read]
    age,        \* [slot -> ticks since it was sent]
    \* --- push
    listening,  \* processes subscribed to the bus
    inbox,      \* [process -> events not yet broadcast]
    conn,       \* [page -> process its socket is connected to, or Down]
    \* --- pages
    wants,      \* pages whose query is invalidated or due
    awaits,     \* [page -> request whose answer it will show]
    shown,      \* [page -> version on the screen, or Blank]
    \* --- bounds and observability
    faults,
    asked,      \* [page -> committed version when it last sent a request]
    outdated    \* [version -> ticks since it was superseded]

store    == <<db, worker, others>>
caches   == <<l2, l1>>
requests == <<stage, via, val, age>>
push     == <<listening, inbox, conn>>
pages    == <<wants, awaits, shown, asked>>
vars     == <<store, caches, requests, push, pages, faults, outdated>>

Empty == [v |-> 0, left |-> 0]
Entry(ttl) == [v : Version, left : 0 .. ttl]
Fresh(v, ttl) == [v |-> v, left |-> ttl]
Hit(entry) == entry.left > 0

\* The longest an answer may have been superseded: the two requests that filled
\* the levels and the ticks an entry lives in each of them.
MaxLag == (L1Ttl - 1) + (L2Ttl - 1) + 2 * MaxAge

Init ==
    /\ db = 0 /\ worker = "idle" /\ others = 0
    /\ l2 = Empty /\ l1 = [p \in Proc |-> Empty]
    /\ stage = [s \in Slot |-> "free"]
    /\ via \in [Slot -> Proc] /\ \A s, t \in Slot : via[s] = via[t]
    /\ val = [s \in Slot |-> 0] /\ age = [s \in Slot |-> 0]
    /\ listening = Proc
    /\ inbox = [p \in Proc |-> 0]
    /\ conn \in [Page -> Proc]
    /\ wants \in SUBSET Page /\ Page \ Loaded \subseteq wants
    /\ awaits = [g \in Page |-> NoSlot]
    /\ shown = [g \in Page |-> IF g \in Loaded THEN 0 ELSE Blank]
    /\ faults = 0
    /\ asked = [g \in Page |-> 0]
    /\ outdated = [v \in Version |-> 0]

Fault == faults < MaxFaults /\ faults' = faults + 1

-----------------------------------------------------------------------------
(* The worker. *)

\* A task that writes the key commits.
Write ==
    /\ worker = "idle" /\ db < MaxWrites
    /\ db' = db + 1
    /\ worker' = "invalidate"
    /\ UNCHANGED <<others, caches, requests, push, pages, faults, outdated>>

\* A task of the same channel that writes other rows: ladder beside
\* limit_up_pool, theme_stocks beside theme_rank.
WriteOther ==
    /\ worker = "idle" /\ others < MaxOthers
    /\ others' = others + 1
    /\ worker' = "publish"
    /\ UNCHANGED <<db, caches, requests, push, pages, faults, outdated>>

\* delete_prefix on the shared L2; an error is logged and passed over.
InvalidateL2 ==
    /\ worker = "invalidate"
    /\ \/ l2' = Empty /\ UNCHANGED faults
       \/ Fault /\ UNCHANGED l2
    /\ worker' = "publish"
    /\ UNCHANGED <<db, others, l1, requests, push, pages, outdated>>

\* Redis pub/sub: the event goes to whoever is subscribed now.
Publish ==
    /\ worker = "publish"
    /\ inbox' = [p \in Proc |-> IF p \in listening THEN inbox[p] + 1
                                                   ELSE inbox[p]]
    /\ worker' = "idle"
    /\ UNCHANGED <<db, others, caches, requests, listening, conn, pages,
                   faults, outdated>>

\* The worker dies between the commit and the event, or the publish fails.
CrashWorker ==
    /\ worker # "idle"
    /\ Fault
    /\ worker' = "idle"
    /\ UNCHANGED <<db, others, caches, requests, push, pages, outdated>>

-----------------------------------------------------------------------------
(* get_or_load, one step per await. *)

Answer(s, v) ==
    /\ stage' = [stage EXCEPT ![s] = "free"]
    /\ val' = [val EXCEPT ![s] = 0]
    /\ age' = [age EXCEPT ![s] = 0]
    /\ shown' = [g \in Page |-> IF awaits[g] = s THEN v ELSE shown[g]]
    /\ awaits' = [g \in Page |-> IF awaits[g] = s THEN NoSlot ELSE awaits[g]]
    /\ UNCHANGED <<store, via, push, wants, asked, outdated>>

GoOn(s, place, v) ==
    /\ stage' = [stage EXCEPT ![s] = place]
    /\ val' = [val EXCEPT ![s] = v]
    /\ UNCHANGED <<store, via, age, push, pages, outdated>>

LookupL1(s) ==
    /\ stage[s] = "l1"
    /\ IF Hit(l1[via[s]]) THEN Answer(s, l1[via[s]].v) ELSE GoOn(s, "l2", 0)
    /\ UNCHANGED <<caches, faults>>

\* Faulty variant: a hit in L2 writes the entry back to both levels.
LookupL2Renewing(s) ==
    /\ stage[s] = "l2"
    /\ IF Hit(l2)
          THEN GoOn(s, "fill1", l2.v) /\ l2' = Fresh(l2.v, L2Ttl)
          ELSE GoOn(s, "load", 0) /\ UNCHANGED l2
    /\ UNCHANGED <<l1, faults>>

\* A failing L2 counts as a miss.
LookupL2(s) ==
    /\ stage[s] = "l2"
    /\ \/ UNCHANGED faults
          /\ IF Hit(l2) THEN GoOn(s, "fill1", l2.v) ELSE GoOn(s, "load", 0)
       \/ Fault /\ GoOn(s, "load", 0)
    /\ UNCHANGED caches

Load(s) ==
    /\ stage[s] = "load"
    /\ GoOn(s, "fill2", db)
    /\ UNCHANGED <<caches, faults>>

FillL2(s) ==
    /\ stage[s] = "fill2"
    /\ \/ l2' = Fresh(val[s], L2Ttl) /\ UNCHANGED faults
       \/ Fault /\ UNCHANGED l2
    /\ GoOn(s, "fill1", val[s])
    /\ UNCHANGED l1

\* Faulty variant: the entry is filled with the lifetime of the other level.
FillL1Long(s) ==
    /\ stage[s] = "fill1"
    /\ l1' = [l1 EXCEPT ![via[s]] = Fresh(val[s], L1Ttl + L2Ttl)]
    /\ Answer(s, val[s])
    /\ UNCHANGED <<l2, faults>>

FillL1(s) ==
    /\ stage[s] = "fill1"
    /\ l1' = [l1 EXCEPT ![via[s]] = Fresh(val[s], L1Ttl)]
    /\ Answer(s, val[s])
    /\ UNCHANGED <<l2, faults>>

Serve(s) ==
    LookupL1(s) \/ LookupL2(s) \/ Load(s) \/ FillL2(s) \/ FillL1(s)

-----------------------------------------------------------------------------
(* The push. *)

Connected(p) == {g \in Pushed : conn[g] = p}

\* Faulty variant: an event joins the request in flight of every page.
RelayJoining(p) ==
    /\ inbox[p] > 0
    /\ inbox' = [inbox EXCEPT ![p] = @ - 1]
    /\ wants' = wants \cup {g \in Connected(p) : awaits[g] = NoSlot}
    /\ UNCHANGED <<store, caches, requests, listening, conn, awaits, shown,
                   asked, faults, outdated>>

\* subscribe_ws_bus hands the event to the connections of its process.  The
\* query of a page that shows something drops its request in flight and asks
\* again; the first load of a page is not dropped: the event joins it.
Relay(p) ==
    /\ inbox[p] > 0
    /\ inbox' = [inbox EXCEPT ![p] = @ - 1]
    /\ LET again == {g \in Connected(p) : shown[g] # Blank} IN
         /\ wants' = wants \cup again
                       \cup {g \in Connected(p) : awaits[g] = NoSlot}
         /\ awaits' = [g \in Page |-> IF g \in again THEN NoSlot ELSE awaits[g]]
    /\ UNCHANGED <<store, caches, requests, listening, conn, shown, asked,
                   faults, outdated>>

\* The subscription breaks and comes back after a pause.
LoseBus(p) ==
    /\ p \in listening
    /\ Fault
    /\ listening' = listening \ {p}
    /\ UNCHANGED <<store, caches, requests, inbox, conn, pages, outdated>>

Resubscribe(p) ==
    /\ p \notin listening
    /\ listening' = listening \cup {p}
    /\ UNCHANGED <<store, caches, requests, inbox, conn, pages, faults, outdated>>

\* A socket breaks; the client reconnects with a backoff and subscribes again.
Disconnect(g) ==
    /\ g \in Pushed /\ conn[g] # Down
    /\ Fault
    /\ conn' = [conn EXCEPT ![g] = Down]
    /\ UNCHANGED <<store, caches, requests, listening, inbox, pages, outdated>>

Reconnect(g) ==
    /\ conn[g] = Down
    /\ \E p \in Proc : conn' = [conn EXCEPT ![g] = p]
    /\ UNCHANGED <<store, caches, requests, listening, inbox, pages, faults,
                   outdated>>

-----------------------------------------------------------------------------
(* The pages. *)

\* The refetchInterval of a polled page has run out.
Poll(g) ==
    /\ g \in Polled /\ g \notin wants /\ awaits[g] = NoSlot
    /\ wants' = wants \cup {g}
    /\ UNCHANGED <<store, caches, requests, push, awaits, shown, asked, faults,
                   outdated>>

\* A request goes to any process.
Send(g) ==
    /\ g \in wants
    /\ \E s \in Slot, p \in Proc :
         /\ stage[s] = "free"
         /\ stage' = [stage EXCEPT ![s] = "l1"]
         /\ via' = [via EXCEPT ![s] = p]
         /\ awaits' = [awaits EXCEPT ![g] = s]
    /\ wants' = wants \ {g}
    /\ asked' = [asked EXCEPT ![g] = db]
    /\ UNCHANGED <<store, caches, val, age, push, shown, faults, outdated>>

-----------------------------------------------------------------------------
Older(entry) == IF entry.left > 1 THEN [entry EXCEPT !.left = @ - 1] ELSE Empty

Tick ==
    /\ \A s \in Slot : stage[s] # "free" => age[s] < MaxAge
    /\ l2' = Older(l2)
    /\ l1' = [p \in Proc |-> Older(l1[p])]
    /\ age' = [s \in Slot |-> IF stage[s] = "free" THEN 0 ELSE age[s] + 1]
    /\ outdated' = [v \in Version |->
                      IF v < db /\ outdated[v] <= MaxLag THEN outdated[v] + 1
                                                         ELSE outdated[v]]
    /\ UNCHANGED <<store, stage, via, val, push, pages, faults>>

Next ==
    \/ Write \/ WriteOther \/ InvalidateL2 \/ Publish \/ CrashWorker
    \/ \E s \in Slot : Serve(s)
    \/ \E p \in Proc : Relay(p) \/ LoseBus(p) \/ Resubscribe(p)
    \/ \E g \in Page : Disconnect(g) \/ Reconnect(g) \/ Poll(g) \/ Send(g)
    \/ Tick

\* The processes run, connections come back, timers fire and requests are
\* served in turn.
Fairness ==
    /\ WF_vars(InvalidateL2 \/ Publish)
    /\ WF_vars(Tick)
    /\ \A s \in Slot : WF_vars(Serve(s))
    /\ \A p \in Proc : WF_vars(Relay(p)) /\ WF_vars(Resubscribe(p))
    /\ \A g \in Page :
         WF_vars(Reconnect(g)) /\ WF_vars(Poll(g)) /\ SF_vars(Send(g))

Spec == Init /\ [][Next]_vars /\ Fairness

-----------------------------------------------------------------------------
TypeOK ==
    /\ db \in Version
    /\ worker \in {"idle", "invalidate", "publish"}
    /\ others \in 0 .. MaxOthers
    /\ l2 \in Entry(L2Ttl)
    /\ l1 \in [Proc -> Entry(L1Ttl)]
    /\ stage \in [Slot -> {"free", "l1", "l2", "load", "fill2", "fill1"}]
    /\ via \in [Slot -> Proc]
    /\ val \in [Slot -> Version]
    /\ age \in [Slot -> 0 .. MaxAge]
    /\ listening \subseteq Proc
    /\ inbox \in [Proc -> 0 .. (MaxWrites + MaxOthers)]
    /\ conn \in [Page -> Proc \cup {Down}]
    /\ wants \subseteq Page
    /\ awaits \in [Page -> Slot \cup {NoSlot}]
    /\ shown \in [Page -> Version \cup {Blank}]
    /\ faults \in 0 .. MaxFaults
    /\ asked \in [Page -> Version]
    /\ outdated \in [Version -> 0 .. (MaxLag + 1)]

\* cache_policy.py: what the invalidation misses, the TTLs make good.  No answer
\* is older than the two TTLs and the two requests that filled the levels,
\* although a load that began before a write may fill them after its
\* invalidation, and an entry of L2 near its end is given a whole life in L1.
StalenessIsBounded ==
    LET answers == {l1[p].v : p \in {q \in Proc : Hit(l1[q])}}
                      \cup {val[s] : s \in {t \in Slot : stage[t] = "fill1"}}
    IN \A v \in answers : outdated[v] <= MaxLag

\* Once the writes are over every process ends up with the last version in
\* both levels, crashes, failed invalidations and late fills included.
CachesCatchUp ==
    /\ <>[](Hit(l2) => l2.v = db)
    /\ \A p \in Proc : <>[](Hit(l1[p]) => l1[p].v = db)

\* The pages with a refetchInterval end up with the last version.
PolledPagesCatchUp == \A g \in Polled : <>[](shown[g] = db)

\* useChannelRefresh.ts:29: as long as nothing is lost, a pushed page that was
\* open before sends a request after every write, also when the event meets a
\* request in flight; one that is being opened may take that request's answer.
PushedPagesAsk ==
    \A g \in Pushed \cap Loaded : <>[](asked[g] = db \/ faults > 0)

\* data-flow.md: after a successful task the page refreshes by itself.
PushedPagesCatchUp == \A g \in Pushed : <>[](shown[g] = db)
=============================================================================
