----------------------------- MODULE Assistant -----------------------------
(***************************************************************************)
(* A conversation with the agent: the loop of app/agent/loop.py around a   *)
(* model that asks for tools, the tools of app/agent/tools, and the        *)
(* confirmations of dangerous ones (app/agent/permissions.py,              *)
(* app/services/agent_service.py) that other requests take up later.       *)
(*                                                                         *)
(* The stream keeps one transaction: what it flushes is committed at its   *)
(* end, and earlier by a denied call.  Confirmations are kept in the       *)
(* cache, outside any transaction.  The model is external: what it asks    *)
(* for is free.                                                            *)
(***************************************************************************)
EXTENDS Integers, FiniteSets

CONSTANTS
    MaxTurns, MaxToolCalls, MaxTokens,  \* Budget
    Token,         \* confirmations that may be issued
    Confirm,       \* confirming requests that may be in flight
    MaxBatch,      \* bound: calls in one answer of the model
    MaxCost,       \* bound: tokens that the usage of one answer reports
    MaxStreams     \* bound: chats of the session

ASSUME AssistantAssumption ==
    /\ MaxTurns \in Nat \ {0} /\ MaxToolCalls \in Nat \ {0}
    /\ MaxTokens \in Nat \ {0}
    /\ IsFiniteSet(Token) /\ IsFiniteSet(Confirm)
    /\ MaxBatch \in Nat /\ MaxCost \in Nat /\ MaxStreams \in Nat

-----------------------------------------------------------------------------
(* The registered tools. *)

ReportTools == {"query_advice", "query_backtest", "list_strategies",
    "get_strategy", "list_factors", "get_factor", "get_factor_effectiveness",
    "get_ingest_health", "list_datasources"}
MarketTools == {"query_stocks", "query_daily_bars", "query_minute_bars",
    "query_limit_up_pool", "query_ladder", "query_sentiment", "query_theme",
    "query_newsflash", "query_monitor"}
ReadingTools == ReportTools \cup MarketTools \cup {"query_table"}

DefinitionTools == {"create_strategy", "update_strategy", "delete_strategy",
    "create_factor", "update_factor", "delete_factor"}
ConfigTools == {"update_strategy_config", "update_factor_config",
    "activate_config_version", "rollback_config_version"}
SwitchTools == {"enable_strategy", "disable_strategy", "enable_datasource",
    "disable_datasource", "set_datasource_priority"}
HeavyTools == {"trigger_ingest", "run_backtest"}

\* mutating, and with required_role admin, all of them.
Mutating == DefinitionTools \cup ConfigTools \cup SwitchTools \cup HeavyTools

\* requires_confirmation.
Dangerous == HeavyTools \cup {"delete_strategy", "delete_factor",
    "activate_config_version", "rollback_config_version"}

Tool == ReadingTools \cup Mutating
Unknown == "a name that is not registered"

-----------------------------------------------------------------------------
VARIABLES
    isAdmin,    \* the role of the user's row is admin
    stream,     \* the chat that runs
    streams,    \* chats begun
    confirming, \* [Confirm -> where the request is and what it has read]
    store,      \* [Token -> "new", "stored" or "gone"]: ConfirmationStore
    saved,      \* what is committed: requests for a confirmation, changes
    \* --- observability
    ran,        \* [Token -> executions that were committed]
    raced,      \* tokens found by two requests before one had deleted it
    lost        \* what a stream that broke had flushed and not committed

assistantVars == <<isAdmin, stream, streams, confirming, store, saved, ran,
                   raced, lost>>

Change == "a change made by a tool that needs no confirmation"

\* turn, used and spent: what counts against the budget; left: calls of the last
\* answer still to handle; open: calls of the context without a result; work:
\* what has been flushed since the last commit.
Quiet == [at |-> "quiet", admin |-> FALSE, turn |-> 0, used |-> 0, spent |-> 0,
          left |-> 0, open |-> 0, work |-> {}]
Unbound == [at |-> "idle", admin |-> FALSE, token |-> "none"]

AssistantInit ==
    /\ isAdmin = TRUE
    /\ stream = Quiet /\ streams = 0
    /\ confirming = [c \in Confirm |-> Unbound]
    /\ store = [t \in Token |-> "new"]
    /\ saved = {}
    /\ ran = [t \in Token |-> 0] /\ raced = {} /\ lost = {}

\* permissions.authorize, with the role that was loaded with the request.
Allowed(tool, admin) == tool \in Mutating => admin
SomeAllowed(tools, admin) == {tool \in tools : Allowed(tool, admin)} # {}

-----------------------------------------------------------------------------
(* The chat. *)

\* The steps of the stream leave the confirming requests alone.
ChatOnly == UNCHANGED <<isAdmin, streams, confirming, ran, raced>>

BeginStream ==
    /\ stream = Quiet /\ streams < MaxStreams
    /\ stream' = [Quiet EXCEPT !.at = "ask", !.admin = isAdmin, !.turn = 1]
    /\ streams' = streams + 1
    /\ UNCHANGED <<isAdmin, confirming, store, saved, ran, raced, lost>>

\* The end of run: what has been flushed is committed.
CloseStream ==
    /\ saved' = saved \cup stream.work
    /\ stream' = Quiet

\* An answer of the model: text only, which ends the chat, or some calls.  Its tokens
\* are counted as the provider reports them, also past the budget.
Answer ==
    /\ stream.at = "ask"
    /\ \/ CloseStream
       \/ /\ \E n \in 1 .. MaxBatch, cost \in 0 .. MaxCost :
               stream' = [stream EXCEPT !.at = "call", !.spent = @ + cost,
                                        !.left = n, !.open = @ + n]
          /\ UNCHANGED saved
    /\ ChatOnly /\ UNCHANGED <<store, lost>>

\* AgentError: the chat ends, and what was done before stays.
ModelFails ==
    /\ stream.at = "ask" /\ CloseStream
    /\ ChatOnly /\ UNCHANGED <<store, lost>>

\* The next call of the answer may be handled; it gets its record and its result.
MayCall == stream.at = "call" /\ stream.left > 0 /\ stream.used < MaxToolCalls
Answered(work) ==
    [stream EXCEPT !.left = @ - 1, !.open = @ - 1, !.used = @ + 1, !.work = work]

\* A tool that is unknown, that refuses its arguments or that only reads.
CallWithoutEffect ==
    /\ MayCall
    /\ SomeAllowed(Tool \cup {Unknown}, stream.admin)
    /\ stream' = Answered(stream.work)
    /\ ChatOnly /\ UNCHANGED <<store, saved, lost>>

\* The denial is committed at once, and with it all that was flushed before.
CallDenied ==
    /\ MayCall
    /\ {tool \in Tool : ~Allowed(tool, stream.admin)} # {}
    /\ saved' = saved \cup stream.work
    /\ stream' = Answered({})
    /\ ChatOnly /\ UNCHANGED <<store, lost>>

\* A dangerous tool leaves a confirmation in the cache, whatever becomes of the
\* transaction.
CallDangerous ==
    /\ MayCall
    /\ SomeAllowed(Dangerous, stream.admin)
    /\ \E t \in Token :
         /\ store[t] = "new"
         /\ store' = [store EXCEPT ![t] = "stored"]
         /\ stream' = Answered(stream.work \cup {t})
    /\ ChatOnly /\ UNCHANGED <<saved, lost>>

\* Any other tool runs at once.  A failure keeps what it flushed before: nothing
\* rolls one call back.
CallMutating ==
    /\ MayCall
    /\ SomeAllowed(Mutating \ Dangerous, stream.admin)
    /\ stream' = Answered(stream.work \cup {Change})
    /\ ChatOnly /\ UNCHANGED <<store, saved, lost>>

\* Faulty variant: only the calls of this answer are given up.
StopTheAnswer ==
    /\ stream' = [stream EXCEPT !.at = "ask", !.turn = @ + 1, !.left = 0]
    /\ UNCHANGED saved

\* The tool calls run out within an answer: the loop is left as well, and the
\* rest of its calls have no result.
StopTheLoop == CloseStream

StopInside ==
    /\ stream.at = "call" /\ stream.left > 0 /\ stream.used >= MaxToolCalls
    /\ StopTheLoop
    /\ ChatOnly /\ UNCHANGED <<store, lost>>

\* All calls of the answer are handled: tokens and turns decide.
EndTurn ==
    /\ stream.at = "call" /\ stream.left = 0
    /\ IF stream.spent >= MaxTokens \/ stream.turn >= MaxTurns
       THEN CloseStream
       ELSE /\ stream' = [stream EXCEPT !.at = "ask", !.turn = @ + 1]
            /\ UNCHANGED saved
    /\ ChatOnly /\ UNCHANGED <<store, lost>>

\* The client goes away, the cache or the database fails inside the stream: the
\* session is closed with or without a commit, depending on when the framework
\* ends the dependencies of a streaming response.
BreakStream ==
    /\ stream # Quiet
    /\ \/ saved' = saved \cup stream.work /\ UNCHANGED lost
       \/ lost' = lost \cup stream.work /\ UNCHANGED saved
    /\ stream' = Quiet
    /\ ChatOnly /\ UNCHANGED store

-----------------------------------------------------------------------------
(* Confirmations. *)

ConfirmOnly == UNCHANGED <<isAdmin, stream, streams, saved, lost>>

\* take, first half: the token is found.  Another one, or one of another user or
\* session, is refused and left alone.
FindToken(c) ==
    /\ confirming[c] = Unbound
    /\ \E t \in Token :
         /\ store[t] = "stored"
         /\ confirming' = [confirming EXCEPT ![c] =
                             [at |-> "found", admin |-> isAdmin, token |-> t]]
         /\ raced' = IF \E d \in Confirm : /\ confirming[d].at = "found"
                                           /\ confirming[d].token = t
                     THEN raced \cup {t} ELSE raced
    /\ ConfirmOnly /\ UNCHANGED <<store, ran>>

\* Faulty variant: the token waits for its lifetime to end.
Kept(t) == "stored"

\* take, second half: the token is gone before its tool runs.
Taken(t) == "gone"

DropToken(c) ==
    /\ confirming[c].at = "found"
    /\ store' = [store EXCEPT ![confirming[c].token] = Taken(confirming[c].token)]
    /\ confirming' = [confirming EXCEPT ![c].at = "taken"]
    /\ ConfirmOnly /\ UNCHANGED <<ran, raced>>

\* authorize, execute and _record_confirmed: the effect, complete or what a
\* failure left of it, is committed with its record.
Execute(c) ==
    /\ confirming[c].at = "taken"
    /\ SomeAllowed(Dangerous, confirming[c].admin)
    /\ ran' = [ran EXCEPT ![confirming[c].token] = @ + 1]
    /\ confirming' = [confirming EXCEPT ![c] = Unbound]
    /\ ConfirmOnly /\ UNCHANGED <<store, raced>>

\* The role is another one by now, the database fails or the process dies: the
\* token is spent and nothing was done.
LoseConfirmation(c) ==
    /\ confirming[c].at = "taken"
    /\ confirming' = [confirming EXCEPT ![c] = Unbound]
    /\ ConfirmOnly /\ UNCHANGED <<store, ran, raced>>

ExpireToken(t) ==
    /\ store[t] = "stored"
    /\ store' = [store EXCEPT ![t] = "gone"]
    /\ ConfirmOnly /\ UNCHANGED <<confirming, ran, raced>>

\* Another administrator changes the user's role.
ChangeRole ==
    /\ isAdmin' = ~isAdmin
    /\ UNCHANGED <<stream, streams, confirming, store, saved, ran, raced, lost>>

AssistantNext ==
    \/ BeginStream \/ Answer \/ ModelFails \/ CallWithoutEffect \/ CallDenied
    \/ CallDangerous \/ CallMutating \/ StopInside \/ EndTurn \/ BreakStream
    \/ \E c \in Confirm :
         FindToken(c) \/ DropToken(c) \/ Execute(c) \/ LoseConfirmation(c)
    \/ \E t \in Token : ExpireToken(t)
    \/ ChangeRole

AssistantSpec == AssistantInit /\ [][AssistantNext]_assistantVars

-----------------------------------------------------------------------------
AssistantTypeOK ==
    /\ isAdmin \in BOOLEAN /\ streams \in 0 .. MaxStreams
    /\ stream.at \in {"quiet", "ask", "call"}
    /\ stream.turn \in 0 .. MaxTurns /\ stream.used \in 0 .. MaxToolCalls
    /\ stream.spent \in 0 .. (MaxTokens - 1 + MaxCost)
    /\ stream.left \in 0 .. MaxBatch /\ stream.open >= stream.left
    /\ stream.work \subseteq Token \cup {Change}
    /\ \A c \in Confirm : /\ confirming[c].at \in {"idle", "found", "taken"}
                          /\ confirming[c].token \in Token \cup {"none"}
    /\ store \in [Token -> {"new", "stored", "gone"}]
    /\ saved \cup lost \subseteq Token \cup {Change}
    /\ ran \in [Token -> 0 .. Cardinality(Confirm)] /\ raced \subseteq Token

\* permissions.py:152: a confirmation is executed once, failed executions
\* included, unless two requests have found it before either deleted it.
ConfirmedOnce == \A t \in Token : t \in raced \/ ran[t] <= 1

\* Whenever the model is asked, every call of the context has its result (the
\* protocol of the model refuses anything else), wherever the budgets have struck.
CallsAreAnswered == stream.at = "ask" => stream.open = 0

\* audit.py:3: what was executed can be traced to the call that asked for it.
\* That row is committed, or the chat still runs, or it broke before its commit.
ExecutedWasAsked ==
    \A t \in Token : ran[t] > 0 => t \in saved \cup stream.work \cup lost

\* What the model is told and what the session keeps agree with what was done.
TranscriptsAreTrue == CallsAreAnswered /\ ExecutedWasAsked
=============================================================================
