-------------------------- MODULE MCIngestScheduler --------------------------
(***************************************************************************)
(* A day of three moments for TLC: 0 is the auction window and the first   *)
(* of the trading hours, 1 the trading hours, 2 the postmarket window.     *)
(***************************************************************************)
EXTENDS IngestScheduler

MCOrder == <<"trading_calendar", "limit_up_pool", "daily_bars",
             "opening_match">>
MCWindow == [trading_calendar |-> 0 .. 2, limit_up_pool |-> {0, 1},
             daily_bars |-> {2}, opening_match |-> {0}]
MCInterval == [trading_calendar |-> 0, limit_up_pool |-> 1,
               daily_bars |-> 0, opening_match |-> 0]
MCRounds == [trading_calendar |-> 1, limit_up_pool |-> 2,
             daily_bars |-> 1, opening_match |-> 1]

\* A shorter day for liveness: 0 is the auction window, 1 the postmarket.
LiveOrder == <<"trading_calendar", "daily_bars", "opening_match">>
LiveWindow == [trading_calendar |-> {0, 1}, daily_bars |-> {1},
               opening_match |-> {0}]
LiveInterval == [trading_calendar |-> 0, daily_bars |-> 0,
                 opening_match |-> 0]
LiveRounds == [trading_calendar |-> 1, daily_bars |-> 1,
               opening_match |-> 1]
=============================================================================
