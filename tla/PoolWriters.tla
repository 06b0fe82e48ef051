---------------------------- MODULE PoolWriters ----------------------------
(***************************************************************************)
(* What the rounds of a trade date leave in the tables that are rewritten  *)
(* all day: the writers of app/ingest/writers.py over app/repositories/    *)
(* pool.py and market.py, run by the worker and, in the API process, by    *)
(* manual triggers (app/ingest/api_hooks.py) beside it.                    *)
(*                                                                         *)
(* A run is one transaction (READ COMMITTED).  A statement works on the    *)
(* rows its snapshot shows; it waits for rows another transaction has      *)
(* changed, and of those it then changes only the ones that are still      *)
(* there: rows deleted and written anew meanwhile escape it.               *)
(***************************************************************************)
EXTENDS Integers, FiniteSets

CONSTANTS
    Stock,         \* securities
    CycleState,    \* states of the market cycle that may be judged
    MaxRuns        \* bound: runs begun

Writers == {"worker", "trigger"}
ReplacedTable == {"limit_up_pool", "theme_stocks"}
NoState == "none"
NoCount == -1

ASSUME WritersAssumption ==
    /\ IsFiniteSet(Stock)
    /\ NoState \notin CycleState
    /\ MaxRuns \in Nat

\* born, of: the runs that inserted the row and that wrote its columns last;
\* filled: the columns that other writers fill in later.
PoolRow == [born : 0 .. MaxRuns, of : 0 .. MaxRuns, filled : SUBSET {"seal", "amount"}]
NoPoolRow == [born |-> 0, of |-> 0, filled |-> {}]

VARIABLES
    table,      \* [table -> [security -> row]]
    coreCount,  \* themes.core_count of the theme that is followed
    quotes,     \* securities in the payload of opening_match
    cycle,      \* cycle_judgements.state of the date
    summed,     \* the mark __pool_amount__ has succeeded
    closed,     \* the trading hours are over
    runs,       \* [writer -> its run]
    runCount,   \* runs begun
    \* --- observability
    current,    \* [table -> the run that replaced it last]
    heard,      \* the state of the cycle that was announced last
    quoted,     \* securities whose quote has ever been committed
    counted,    \* securities with minute bars when the amounts were summed
    mixed       \* what runs in flight together, or failed, may have disturbed

stored == <<table, coreCount, quotes, cycle, summed>>
writersVars == <<stored, closed, runs, runCount, current, heard, quoted, counted, mixed>>

\* rows: securities of the fetched batch, or of the minute bars that are summed; seen: born of the rows in the snapshot
\* of its first statement, or the payload that it read; held: rows it has changed.
NoRun == [op |-> "none", at |-> "none", id |-> 0, rows |-> {}, held |-> {},
          seen |-> [s \in Stock |-> 0], payload |-> {}, state |-> NoState]

WritersInit ==
    /\ table = [t \in ReplacedTable |-> [s \in Stock |-> NoPoolRow]]
    /\ coreCount = NoCount
    /\ quotes = {} /\ cycle = NoState /\ summed = FALSE /\ closed = FALSE
    /\ runs = [w \in Writers |-> NoRun] /\ runCount = 0
    /\ current = [t \in ReplacedTable |-> 0]
    /\ heard = NoState /\ quoted = {} /\ counted = {} /\ mixed = {}

-----------------------------------------------------------------------------
(* A run begins. *)

TableOf(op) ==
    IF op \in {"replace_stocks", "replace_themes"} THEN "theme_stocks"
                                                  ELSE "limit_up_pool"
Replaces == {"replace_pool", "replace_stocks"}
Fills == {"supplement", "sum_amounts"}
TradingOps == Replaces \cup {"replace_themes", "supplement", "judge", "quote"}

\* Which operations a run disturbs, and is disturbed by, while both are open.
Rivals(op) ==
    CASE op = "replace_pool"   -> {"replace_pool", "sum_amounts"}
      [] op = "sum_amounts"    -> {"replace_pool"}
      [] op = "replace_stocks" -> {"replace_stocks", "replace_themes"}
      [] op = "replace_themes" -> {"replace_stocks"}
      [] OTHER                 -> {op} \ {"judge", "supplement"}

First(op) ==
    CASE op \in Replaces -> "delete"
      [] op \in Fills    -> "update"
      [] op = "judge"    -> "sentiment"
      [] op = "quote"    -> "merge"
      [] OTHER           -> "themes"

\* The rounds are fetched, or the minute bars are there for some securities, and
\* the first statement is issued.
BeginWriting(w) ==
    /\ runs[w] = NoRun /\ runCount < MaxRuns
    /\ \E op \in TradingOps \cup {"sum_amounts"}, rows \in SUBSET Stock :
         /\ w = "worker" => (op = "sum_amounts") = closed
         /\ op = "sum_amounts" => w = "worker" /\ ~summed
         /\ op \in {"judge", "replace_themes"} => rows = {}
         /\ op \in {"replace_pool", "supplement", "quote"} => rows # {}
         /\ runs' = [runs EXCEPT ![w] =
                [NoRun EXCEPT !.op = op, !.at = First(op), !.id = runCount + 1,
                              !.rows = rows, !.payload = quotes,
                              !.seen = [s \in Stock |-> table[TableOf(op)][s].born]]]
         /\ mixed' = mixed
                \cup {op2 \in Rivals(op) : \E v \in Writers : runs[v].op = op2}
                \cup (IF op = "replace_pool" /\ summed THEN {"sum_amounts"} ELSE {})
    /\ runCount' = runCount + 1
    /\ UNCHANGED <<stored, closed, current, heard, quoted, counted>>

-----------------------------------------------------------------------------
(* The statements of a run. *)

\* Rows and one-row tables that other runs hold until they end.
Held(w) == UNION {runs[v].held : v \in Writers \ {w}}
Cells(op, rows) == {<<TableOf(op), s>> : s \in rows}
Theme == <<"themes">>
Cycle == <<"cycle_judgements">>
Opening == <<"opening_match">>
Sentiment == <<"market_sentiment">>
Lockable == (ReplacedTable \X Stock) \cup {Theme, Cycle, Opening, Sentiment}
Advance(w, at, held) ==
    runs' = [runs EXCEPT ![w].at = at, ![w].held = @ \cup held]
WritingOnly ==
    UNCHANGED <<stored, closed, runCount, current, heard, quoted, counted, mixed>>

Seen(r) == {s \in Stock : r.seen[s] # 0}
\* What a statement that has waited still finds of what its snapshot showed.
Found(r) == {s \in Seen(r) : table[TableOf(r.op)][s].born = r.seen[s]}

\* Faulty variant: the batch is written over the rows of earlier ones.
NothingDeleted(r) == {}

\* replace_pool and replace_themes delete the rows of the date first.
Deleted(r) == Found(r)

DeleteRows(w) ==
    LET r == runs[w]
    IN /\ r.at = "delete" /\ Cells(r.op, Seen(r)) \cap Held(w) = {}
       /\ Advance(w, "insert", Cells(r.op, Deleted(r)))
       /\ WritingOnly

\* bulk_upsert; for the stocks of the themes also set_core_counts.
InsertRows(w) ==
    LET r == runs[w]
        cells == Cells(r.op, r.rows)
                     \cup (IF r.op = "replace_stocks" /\ r.rows # {} THEN {Theme} ELSE {})
    IN /\ r.at = "insert" /\ cells \cap Held(w) = {}
       /\ Advance(w, "commit", cells)
       /\ WritingOnly

\* merge_supplement and aggregate_amount_from_minutes.
UpdateRows(w) ==
    LET r == runs[w]
        cells == Cells(r.op, Seen(r) \cap r.rows)
    IN /\ r.at = "update" /\ cells \cap Held(w) = {}
       /\ Advance(w, "commit", Cells(r.op, Found(r) \cap r.rows))
       /\ WritingOnly

ReplaceThemes(w) ==
    /\ runs[w].at = "themes" /\ Theme \notin Held(w)
    /\ Advance(w, "commit", {Theme})
    /\ WritingOnly

\* The payload read at the beginning is merged and written back.
MergeQuotes(w) ==
    /\ runs[w].at = "merge" /\ Opening \notin Held(w)
    /\ Advance(w, "commit", {Opening})
    /\ WritingOnly

\* Faulty variant: the row of the date is not written before the judgement.
UnheldSentiment == {}

\* The row of the date is written and held until the run ends.
SentimentRow == {Sentiment}

WriteSentiment(w) ==
    /\ runs[w].at = "sentiment" /\ SentimentRow \cap Held(w) = {}
    /\ runs' = [runs EXCEPT ![w].at = "judge", ![w].held = SentimentRow,
                            ![w].state = cycle]
    /\ WritingOnly

\* The cycle is judged, the change is announced before the commit; a judgement
\* that fails leaves the stored state, an announcement that fails is not repeated.
Judge(w) ==
    /\ runs[w].at = "judge" /\ Cycle \notin Held(w)
    /\ \E s \in CycleState \cup {runs[w].state} :
         /\ runs' = [runs EXCEPT ![w].at = "commit", ![w].state = s,
                                 ![w].held = @ \cup {Cycle}]
         /\ IF s = runs[w].state THEN UNCHANGED <<heard, mixed>>
            ELSE \/ heard' = s /\ UNCHANGED mixed
                 \/ mixed' = mixed \cup {"judge"} /\ UNCHANGED heard
    /\ UNCHANGED <<stored, closed, runCount, current, quoted, counted>>

-----------------------------------------------------------------------------
(* The end of a run. *)

\* A row inserted anew has all columns of the batch.  Over a row that is there,
\* the columns of the conflict clause are set, and the supplements are lost.
Written(r, s) ==
    LET old == table[TableOf(r.op)][s]
        kept == old # NoPoolRow /\ <<TableOf(r.op), s>> \notin Cells(r.op, Deleted(r))
    IN [born |-> IF kept THEN old.born ELSE r.id, of |-> r.id, filled |-> {}]

\* merge_supplement fills the columns of the seals; the amounts are summed for the
\* securities with minute bars, the others keep none.
FilledBy(op) == IF op = "supplement" THEN "seal" ELSE "amount"

TableAfter(r) ==
    LET t == TableOf(r.op)
    IN CASE r.op \in Replaces ->
              [table EXCEPT ![t] = [s \in Stock |->
                  IF s \in r.rows THEN Written(r, s)
                  ELSE IF s \in Deleted(r) THEN NoPoolRow ELSE table[t][s]]]
         [] r.op \in Fills ->
              [table EXCEPT ![t] = [s \in Stock |->
                  IF s \in Found(r) \cap r.rows
                  THEN [table[t][s] EXCEPT !.filled = @ \cup {FilledBy(r.op)}] ELSE table[t][s]]]
         [] OTHER -> table

\* A theme without stocks in the batch keeps the count it has.
CoreCountAfter(r) ==
    CASE r.op = "replace_themes"                   -> NoCount
      [] r.op = "replace_stocks" /\ Theme \in r.held -> Cardinality(r.rows)
      [] OTHER                                     -> coreCount

\* Faulty variant: the payload is written with the quotes of the last run alone.
QuotesOfTheRun(r) == IF r.op = "quote" THEN r.rows ELSE quotes

\* What was read is merged with what was fetched.
QuotesAfter(r) == IF r.op = "quote" THEN r.payload \cup r.rows ELSE quotes

CommitRun(w) ==
    LET r == runs[w]
    IN /\ r.at = "commit"
       /\ table' = TableAfter(r)
       /\ coreCount' = CoreCountAfter(r)
       /\ quotes' = QuotesAfter(r)
       /\ quoted' = quoted \cup quotes'
       /\ counted' = IF r.op = "sum_amounts" THEN r.rows ELSE counted
       /\ cycle' = IF r.op = "judge" THEN r.state ELSE cycle
       /\ summed' = (summed \/ r.op = "sum_amounts")
       /\ current' = IF r.op \in Replaces THEN [current EXCEPT ![TableOf(r.op)] = r.id]
                                          ELSE current
       /\ runs' = [runs EXCEPT ![w] = NoRun]
       /\ UNCHANGED <<closed, runCount, heard, mixed>>

\* A database error, a lost deadlock or a crash: nothing is stored, but what was
\* announced has been heard.
AbortRun(w) ==
    /\ runs[w] # NoRun
    /\ runs' = [runs EXCEPT ![w] = NoRun]
    /\ mixed' = IF runs[w].op = "judge" /\ runs[w].at = "commit"
                THEN mixed \cup {"judge"} ELSE mixed
    /\ UNCHANGED <<stored, closed, runCount, current, heard, quoted, counted>>

CloseTrading ==
    /\ ~closed /\ runs["worker"] = NoRun
    /\ closed' = TRUE
    /\ UNCHANGED <<stored, runs, runCount, current, heard, quoted, counted, mixed>>

WritersNext ==
    \/ \E w \in Writers :
         \/ BeginWriting(w) \/ DeleteRows(w) \/ InsertRows(w) \/ UpdateRows(w)
         \/ ReplaceThemes(w) \/ MergeQuotes(w) \/ WriteSentiment(w) \/ Judge(w)
         \/ CommitRun(w) \/ AbortRun(w)
    \/ CloseTrading

WritersSpec == WritersInit /\ [][WritersNext]_writersVars

-----------------------------------------------------------------------------
Statements == {"none", "delete", "insert", "update", "themes", "merge", "sentiment",
           "judge", "commit"}
WriterRun == [op : TradingOps \cup {"sum_amounts", "none"}, at : Statements, id : 0 .. MaxRuns,
              rows : SUBSET Stock, held : SUBSET Lockable, seen : [Stock -> 0 .. MaxRuns],
              payload : SUBSET Stock, state : CycleState \cup {NoState}]

WritersTypeOK ==
    /\ table \in [ReplacedTable -> [Stock -> PoolRow]]
    /\ coreCount \in {NoCount} \cup 1 .. Cardinality(Stock)
    /\ quotes \subseteq quoted /\ quoted \subseteq Stock /\ counted \subseteq Stock
    /\ cycle \in CycleState \cup {NoState} /\ heard \in CycleState \cup {NoState}
    /\ summed \in BOOLEAN /\ closed \in BOOLEAN
    /\ runs \in [Writers -> WriterRun] /\ runCount \in 0 .. MaxRuns
    /\ current \in [ReplacedTable -> 0 .. MaxRuns]

Rows(t) == {s \in Stock : table[t][s] # NoPoolRow}

\* pool.py:110-118, 165-173: the pool is the last batch, whole and nothing else, unless
\* two replacements have overlapped; once the amounts are summed, the rows that have one
\* are those of securities with minute bars, unless a trigger has replaced the pool
\* beside that or after it.
PoolIsTheLastBatch ==
    LET t == "limit_up_pool"
    IN /\ "replace_pool" \in mixed
              \/ \A s \in Rows(t) : table[t][s].born = current[t] /\ table[t][s].of = current[t]
       /\ summed => {"sum_amounts", "replace_pool"} \cap mixed # {}
                        \/ \A s \in Rows(t) : "amount" \in table[t][s].filled <=> s \in counted

\* writers.py:155-174: the core count of a theme is unknown or counts its stocks.
\* A theme that has dropped out of the stocks keeps its last count.
CoreCountsStocks ==
    \/ {"replace_stocks", "replace_themes"} \cap mixed # {}
    \/ coreCount = NoCount \/ Rows("theme_stocks") = {}
    \/ coreCount = Cardinality(Rows("theme_stocks"))

\* The tables that a batch replaces, and what is counted from them.
TablesHoldTheLastBatch == PoolIsTheLastBatch /\ CoreCountsStocks

\* writers.py:295: later rounds never lose the quotes of earlier ones, unless two
\* runs have read the payload beside each other.
QuotesSurvive == "quote" \in mixed \/ quotes = quoted

\* writers.py:187-191: whenever nothing is being judged, the state announced last
\* is the stored one, unless a run that had announced its state failed or an
\* announcement was lost: triggers and the worker queue at the row of the date.
AnnouncedCycleIsStored ==
    "judge" \in mixed \/ (\E w \in Writers : runs[w].op = "judge") \/ heard = cycle
=============================================================================
