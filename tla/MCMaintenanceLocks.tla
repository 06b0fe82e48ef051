-------------------------- MODULE MCMaintenanceLocks --------------------------
(***************************************************************************)
(* Three of the five partitioned tables: one with deletes, the table of    *)
(* the marks, and a second one with deletes behind it.                     *)
(***************************************************************************)
EXTENDS MaintenanceLocks

MCTables == <<"daily_bars", "pool_snapshot", "market_sentiment">>
MCDeletes == <<"market_sentiment", "daily_bars">>
=============================================================================
