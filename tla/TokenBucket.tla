----------------------------- MODULE TokenBucket -----------------------------
(***************************************************************************)
(* The rate limit of one data source in one process: TokenBucket of        *)
(* app/datasources/base.py, used by every fetch of the worker and, in the  *)
(* API process, by manual triggers and connectivity probes beside each     *)
(* other.                                                                  *)
(*                                                                         *)
(* One token is Period units of credit and a tick brings one unit, so that *)
(* the fractions of the code are whole numbers.  Time is relative; a sleep *)
(* ends on time or later.                                                  *)
(***************************************************************************)
EXTENDS Integers, FiniteSetsExt

CONSTANTS
    Capacity,  \* tokens of a full bucket
    Period,    \* ticks that bring one token
    Caller,    \* coroutines that acquire
    Horizon,   \* bound: ticks that the observation reaches back
    MaxDelay   \* bound: ticks by which a sleep may end late

ASSUME BucketAssumption ==
    /\ Capacity \in Nat \ {0} /\ Period \in Nat \ {0}
    /\ IsFiniteSet(Caller)
    /\ Horizon \in Nat \ {0} /\ MaxDelay \in Nat

VARIABLES
    credit,    \* _tokens * Period
    since,     \* clock() - _last; negative after a wait
    sleeps,    \* [Caller -> length of its sleep and what is left of it]
    \* --- observability
    granted,   \* [a -> tokens taken in the last a + 1 ticks]
    together   \* the bucket was used while a caller slept for its deficit

bucketVars == <<credit, since, sleeps, granted, together>>

Full == Capacity * Period
Awake == [length |-> 0, left |-> 0]
Ago == 0 .. (Horizon - 1)
Sleeping == {c \in Caller : sleeps[c] # Awake}

BucketInit ==
    /\ credit = Full /\ since = 0
    /\ sleeps = [c \in Caller |-> Awake]
    /\ granted = [a \in Ago |-> 0]
    /\ together = FALSE

\* _refill: what the elapsed time has brought, and the clock it leaves.
Refilled == IF since > 0 THEN Min({Full, credit + since}) ELSE credit
Since == IF since > 0 THEN 0 ELSE since

Grant == granted' = [a \in Ago |-> granted[a] + 1]
Overlap == together' = (together \/ Sleeping # {})

\* There is a token.
TakeToken(c) ==
    /\ c \notin Sleeping /\ Refilled >= Period
    /\ credit' = Refilled - Period /\ since' = Since
    /\ Grant /\ Overlap
    /\ UNCHANGED sleeps

\* There is none: sleep for what is missing now, whoever else does.
Wait(c) ==
    LET deficit == Period - Refilled
    IN /\ c \notin Sleeping /\ deficit > 0
       /\ credit' = Refilled /\ since' = Since
       /\ sleeps' = [sleeps EXCEPT ![c] = [length |-> deficit, left |-> deficit]]
       /\ Overlap
       /\ UNCHANGED granted

\* Faulty variant: the sleep counts as a refill once more.
ClockThatRanOn(length) == since

\* _last = clock() + wait.
ClockAfterSleep(length) == -length

\* The sleep is over: the token that it brought is taken, and the refill starts
\* only when the same time has gone by once more.
Resume(c) ==
    /\ c \in Sleeping /\ sleeps[c].left <= 0
    /\ credit' = 0 /\ since' = ClockAfterSleep(sleeps[c].length)
    /\ sleeps' = [sleeps EXCEPT ![c] = Awake]
    /\ Grant
    /\ UNCHANGED together

BucketTick ==
    /\ \A c \in Sleeping : sleeps[c].left > -MaxDelay
    /\ since' = Min({since + 1, Full})
    /\ sleeps' = [c \in Caller |->
                    IF c \in Sleeping THEN [sleeps[c] EXCEPT !.left = @ - 1]
                                      ELSE Awake]
    /\ granted' = [a \in Ago |-> IF a = 0 THEN 0 ELSE granted[a - 1]]
    /\ UNCHANGED <<credit, together>>

BucketNext ==
    \/ \E c \in Caller : TakeToken(c) \/ Wait(c) \/ Resume(c)
    \/ BucketTick

BucketSpec == BucketInit /\ [][BucketNext]_bucketVars

-----------------------------------------------------------------------------
BucketTypeOK ==
    /\ credit \in 0 .. Full /\ since \in -Period .. Full
    /\ sleeps \in [Caller -> [length : 0 .. Period, left : -MaxDelay .. Period]]
    /\ granted \in [Ago -> Nat] /\ together \in BOOLEAN

\* base.py:62: as long as nobody uses the bucket while another caller sleeps, the
\* requests of any Horizon ticks are those of a full bucket and of the refill
\* between the first and the last of them, however late the sleeps end.
RateIsKept == together \/ granted[Horizon - 1] * Period <= Full + (Horizon - 1)
=============================================================================
