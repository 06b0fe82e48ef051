---------------------------- MODULE RequestLimits ----------------------------
(***************************************************************************)
(* The limits one client meets: the fixed-window counters and the login    *)
(* lock of app/core/rate_limit.py, the one-time captcha of app/core/       *)
(* captcha.py, and the login of app/services/auth_service.py that goes     *)
(* through them.  All of it is kept in a cache with get, set and delete    *)
(* only, so a counter is read and written in two steps.                    *)
(*                                                                         *)
(* A tick is half a second, the grain of the code's round(): what happens  *)
(* between two ticks counts for the earlier one.  Time is relative: what   *)
(* expires holds its ticks left, also in the hands of a request that has   *)
(* read it.  Beside that an entry has a life in the cache, its TTL.  The   *)
(* cache is external.                                                      *)
(***************************************************************************)
EXTENDS Integers, FiniteSets

CONSTANTS
    Limit,        \* requests of a window
    MaxFailures,  \* wrong passwords until the lock
    Window,       \* ticks of a counter's window, and of the lock: whole seconds
    Visitor,      \* requests that may be in flight at the same time
    MaxCount      \* bound: requests counted in one window

ASSUME LimitsAssumption ==
    /\ Limit \in Nat \ {0} /\ MaxFailures \in Nat \ {0}
    /\ Window \in Nat \ {0} /\ Window % 2 = 0
    /\ IsFiniteSet(Visitor) /\ MaxCount \in Nat

VARIABLES
    hits,         \* counter of the login bucket: [count, left, life]
    fails,        \* counter of wrong passwords
    lock,         \* lock of the client: [until, life]
    captcha,      \* the answer is still stored
    visits,       \* [request -> where it is and what it has read]
    \* --- observability
    overlapped,   \* cells whose read and write have been interleaved, and the
                  \* lock if it was deleted instead of an expired one
    admitted,     \* [a -> requests the limiter let through in the last a + 1 ticks]
    guessed,      \* [a -> wrong passwords that were verified in them]
    answered,     \* the captcha has been presented and dropped
    reused        \* its answer was found by a look that started after that

cells == <<hits, fails, lock, captcha>>
observed == <<overlapped, admitted, guessed, answered, reused>>
limitsVars == <<cells, visits, observed>>

Age == 0 .. (Window - 2)
Entry == [count : Nat, left : 0 .. Window, life : 0 .. Window]
Absent == [count |-> 0, left |-> 0, life |-> 0]
Unlocked == [until |-> 0, life |-> 0]
EmptyHanded(place) == [at |-> place, saw |-> Absent, until |-> 0, found |-> FALSE]
Gone == EmptyHanded("gone")

LimitsInit ==
    /\ hits = Absent /\ fails = Absent /\ lock = Unlocked /\ captcha = TRUE
    /\ visits = [v \in Visitor |-> Gone]
    /\ overlapped = {}
    /\ admitted = [a \in Age |-> 0] /\ guessed = [a \in Age |-> 0]
    /\ answered = FALSE /\ reused = FALSE

\* max(1, round(seconds)) of what has the ticks left, in ticks: an odd number of
\* half seconds is rounded down or up, but never to nothing.
Rounded(left) == IF left % 2 = 1 /\ left > 1 THEN {left - 1, left + 1}
                                             ELSE {left + (left % 2)}

\* A counter that is over, or was never there, starts a window; the life of what
\* is written back is its window as it was read, rounded, and ends with it.
Current(entry) ==
    LET now == IF entry.left = 0 THEN [Absent EXCEPT !.left = Window] ELSE entry
    IN {[now EXCEPT !.life = ttl] : ttl \in Rounded(now.left)}
Counted(entry) ==
    [entry EXCEPT !.count = @ + 1, !.life = IF entry.left < @ THEN entry.left ELSE @]

\* Another request is between its read and its write of the cell.
Writer == [hits |-> "count_hit", fails |-> "count_failure",
           captcha |-> "drop_captcha"]
Busy(v, cell) == \E w \in Visitor \ {v} : visits[w].at = Writer[cell]

-----------------------------------------------------------------------------
Move(v, from, to) ==
    /\ visits[v].at = from
    /\ visits' = [visits EXCEPT ![v] = EmptyHanded(to)]

\* The read of a cell, noted if another request is about to write it.
Look(v, from, cell, entry, found) ==
    /\ visits[v].at = from
    /\ visits' = [visits EXCEPT ![v] =
                    [at |-> Writer[cell], saw |-> entry,
                     until |-> IF cell = "fails" THEN Window ELSE 0,
                     found |-> found]]
    /\ overlapped' = IF Busy(v, cell) THEN overlapped \cup {cell} ELSE overlapped

\* Once the cell has been overlapped nothing more is observed of it.
Observe(count, cell) ==
    [a \in Age |-> IF cell \in overlapped THEN 0 ELSE count[a] + 1]

\* A login comes in.  RateLimiter.hit: get, then set and decide.
ReadHits(v) ==
    /\ hits.count < MaxCount
    /\ \E entry \in Current(hits) : Look(v, "gone", "hits", entry, FALSE)
    /\ UNCHANGED <<cells, admitted, guessed, answered, reused>>

\* Faulty variant: one request more than the limit is let through.
AdmitsOneMore(entry) == entry.count <= Limit + 1

Admits(entry) == entry.count <= Limit

WriteHits(v) ==
    LET entry == Counted(visits[v].saw)
    IN /\ hits' = entry
       /\ Move(v, "count_hit", IF Admits(entry) THEN "lock" ELSE "gone")
       /\ admitted' = IF Admits(entry) THEN Observe(admitted, "hits") ELSE admitted
       /\ UNCHANGED <<fails, lock, captcha, overlapped, guessed, answered, reused>>

\* LoginGuard.locked_seconds: round() makes nothing of the last half second.
Refuses(l) == l.until > 1
Expired(l) == l.until = 0 /\ l.life > 0

CheckLock(v) ==
    /\ Move(v, "lock", IF Refuses(lock) THEN "gone"
                       ELSE IF Expired(lock) THEN "expire" ELSE "verify")
    /\ UNCHANGED <<cells, observed>>

\* The lock that was found to be over is deleted, whatever is there by now.
DropLock(v) ==
    /\ Move(v, "expire", "verify")
    /\ lock' = Unlocked
    /\ overlapped' = IF lock.until > 0 THEN overlapped \cup {"lock"} ELSE overlapped
    /\ UNCHANGED <<hits, fails, captcha, admitted, guessed, answered, reused>>

\* The password is wrong, or the user unknown or disabled.
Reject(v) ==
    /\ Move(v, "verify", "failure")
    /\ guessed' = Observe(guessed, "fails")
    /\ UNCHANGED <<cells, overlapped, admitted, answered, reused>>

\* The password is right.  LoginGuard.reset, two deletions; a success lifts what
\* failures have counted.
Reset(v) ==
    /\ Move(v, "verify", "unlock")
    /\ fails' = Absent
    /\ overlapped' = overlapped \cup {"fails"}
    /\ UNCHANGED <<hits, lock, captcha, admitted, guessed, answered, reused>>
Unlock(v) ==
    /\ Move(v, "unlock", "gone")
    /\ lock' = Unlocked
    /\ UNCHANGED <<hits, fails, captcha, observed>>

\* LoginGuard.record_failure: get, then the counter or the lock.
ReadFailures(v) ==
    /\ \E entry \in Current(fails) : Look(v, "failure", "fails", entry, FALSE)
    /\ UNCHANGED <<cells, admitted, guessed, answered, reused>>

Locks(entry) == entry.count >= MaxFailures

WriteFailures(v) ==
    LET entry == Counted(visits[v].saw)
    IN /\ Move(v, "count_failure", "gone")
       /\ IF Locks(entry)
             THEN /\ lock' = [until |-> visits[v].until, life |-> Window]
                  /\ fails' = Absent
             ELSE fails' = entry /\ UNCHANGED lock
       /\ UNCHANGED <<hits, captcha, observed>>

\* A registration comes in.  consume_captcha: get, delete, compare.
ReadCaptcha(v) ==
    /\ Look(v, "gone", "captcha", Absent, captcha)
    /\ reused' = (reused \/ (captcha /\ answered))
    /\ UNCHANGED <<cells, admitted, guessed, answered>>

\* The captcha is deleted whatever the answer.
Drops(right) == TRUE

DropCaptcha(v) ==
    /\ Move(v, "drop_captcha", "gone")
    /\ \E right \in BOOLEAN : captcha' = (captcha /\ ~Drops(right))
    /\ answered' = TRUE
    /\ UNCHANGED <<hits, fails, lock, overlapped, admitted, guessed, reused>>

\* What has lived its time is gone; it ages in the hands of a request too.
Less(ticks) == IF ticks = 0 THEN 0 ELSE ticks - 1
Older(entry) ==
    IF entry.life <= 1 THEN Absent
    ELSE [entry EXCEPT !.left = Less(@), !.life = Less(@)]
Aged(entry) == [entry EXCEPT !.left = Less(@)]
Shifted(count) == [a \in Age |-> IF a = 0 THEN 0 ELSE count[a - 1]]

Tick ==
    /\ hits' = Older(hits) /\ fails' = Older(fails)
    /\ lock' = [until |-> Less(lock.until), life |-> Less(lock.life)]
    /\ visits' = [v \in Visitor |->
                    [visits[v] EXCEPT !.saw = Aged(@), !.until = Less(@)]]
    /\ admitted' = Shifted(admitted) /\ guessed' = Shifted(guessed)
    /\ UNCHANGED <<captcha, overlapped, answered, reused>>

Login(v) ==
    \/ ReadHits(v) \/ WriteHits(v) \/ CheckLock(v) \/ DropLock(v)
    \/ Reject(v) \/ ReadFailures(v) \/ WriteFailures(v)
    \/ Reset(v) \/ Unlock(v)
Registration(v) == ReadCaptcha(v) \/ DropCaptcha(v)

LimitsNext ==
    \/ \E v \in Visitor : Login(v) \/ Registration(v)
    \/ Tick

LimitsSpec == LimitsInit /\ [][LimitsNext]_limitsVars

-----------------------------------------------------------------------------
Places == {"gone", "count_hit", "lock", "expire", "verify", "unlock", "failure",
           "count_failure", "drop_captcha"}
Visits == [at : Places, saw : Entry, until : 0 .. Window, found : BOOLEAN]

LimitsTypeOK ==
    /\ hits \in Entry /\ fails \in Entry
    /\ lock \in [until : 0 .. Window, life : 0 .. Window]
    /\ captcha \in BOOLEAN /\ answered \in BOOLEAN /\ reused \in BOOLEAN
    /\ visits \in [Visitor -> Visits]
    /\ overlapped \subseteq {"hits", "fails", "lock", "captcha"}
    /\ admitted \in [Age -> Nat] /\ guessed \in [Age -> Nat]

\* RateLimiter: unless two requests have read and written the counter at once, no
\* ticks but one of a window let more than two windows' requests through, wherever
\* the windows fall, however late a request writes, and although the rounded TTL
\* may take an entry away before its window is over.
BurstsAreBounded == "hits" \in overlapped \/ admitted[Window - 2] <= 2 * Limit

\* The wrong passwords of a window that runs out without a lock, but the one
\* that has begun it.
LeftOver == IF MaxFailures = 1 THEN 0 ELSE MaxFailures - 2

\* LoginGuard: unless its counter is used by two requests at once or reset, or a
\* lock deleted in place of an expired one, any ticks but one of a lockout see what
\* is left of a window that ran out, the wrong passwords that lock, and one of each
\* other request that had passed the lock before.
GuessesAreBounded ==
    \/ overlapped \cap {"fails", "lock"} # {}
    \/ guessed[Window - 2] <= LeftOver + MaxFailures + (Cardinality(Visitor) - 1)

\* captcha.py:5: a look that starts after some answer was handled finds nothing,
\* also when that answer was wrong.
CaptchaServesOneLook == ~reused

\* The three guards of the login and of the API, each within what its own
\* counter allows, whatever the others do to the visitor.
LimitsHold == BurstsAreBounded /\ GuessesAreBounded /\ CaptchaServesOneLook
=============================================================================
