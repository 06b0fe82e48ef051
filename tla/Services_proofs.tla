--------------------------- MODULE Services_proofs ---------------------------
(***************************************************************************)
(* Proofs about the releases over the schema, and about all parts of the   *)
(* service side by side.                                                   *)
(***************************************************************************)
EXTENDS MCServices, Requests_proofs, Collection_proofs, Strategies_proofs,
        FiniteSetTheorems, TLAPS

-----------------------------------------------------------------------------
(***************************************************************************)
(* Releases, for any releases and any width of the version column.         *)
(*                                                                         *)
(* The argument: all revisions but three add tables and columns or make    *)
(* columns optional, so the tables keep what earlier programs use; hence   *)
(* any schema serves the programs of an earlier release that no such       *)
(* revision separates from it.  The containers are started together, the   *)
(* API after the upgrade, and what changes the schema under them is        *)
(* remembered.                                                             *)
(***************************************************************************)

(* The chain of revisions. *)

\* There are eleven revisions.
LEMMA HeadIsEleven == HeadRevision = 11
  BY DEF HeadRevision, RevisionId

\* The schema after each revision is what upgrade() makes of the one before.
LEMMA SchemaFacts ==
  /\ SchemaAt[0] = NoTables
  /\ \A n \in 1 .. 11 : SchemaAt[n] = Upgraded(n, SchemaAt[n - 1])
<1> DEFINE Is(f) == f = [n \in 0 .. 11 |-> IF n = 0 THEN NoTables ELSE Upgraded(n, f[n - 1])]
<1> DEFINE s1 == Upgraded(1, NoTables)
           s2 == Upgraded(2, s1)
           s3 == Upgraded(3, s2)
           s4 == Upgraded(4, s3)
           s5 == Upgraded(5, s4)
           s6 == Upgraded(6, s5)
           s7 == Upgraded(7, s6)
           s8 == Upgraded(8, s7)
           s9 == Upgraded(9, s8)
           s10 == Upgraded(10, s9)
           s11 == Upgraded(11, s10)
           all == [n \in 0 .. 11 |->
                     CASE n = 0 -> NoTables [] n = 1 -> s1 [] n = 2 -> s2 [] n = 3 -> s3
                       [] n = 4 -> s4 [] n = 5 -> s5 [] n = 6 -> s6 [] n = 7 -> s7
                       [] n = 8 -> s8 [] n = 9 -> s9 [] n = 10 -> s10 [] OTHER -> s11]
<1>1. SchemaAt = CHOOSE f : Is(f)
  BY HeadIsEleven DEF SchemaAt
<1>2. Is(all)
  <2> HIDE DEF s1, s2, s3, s4, s5, s6, s7, s8, s9, s10, s11
  <2>1. /\ all[0] = NoTables /\ all[1] = s1 /\ all[2] = s2 /\ all[3] = s3 /\ all[4] = s4
        /\ all[5] = s5 /\ all[6] = s6 /\ all[7] = s7 /\ all[8] = s8 /\ all[9] = s9
        /\ all[10] = s10 /\ all[11] = s11
    OBVIOUS
  <2>2. ASSUME NEW n \in 0 .. 11
        PROVE  all[n] = IF n = 0 THEN NoTables ELSE Upgraded(n, all[n - 1])
    <3>1. CASE n = 0 BY <2>1, <3>1
    <3>2. CASE n = 1 BY <2>1, <3>2 DEF s1
    <3>3. CASE n = 2 BY <2>1, <3>3 DEF s2
    <3>4. CASE n = 3 BY <2>1, <3>4 DEF s3
    <3>5. CASE n = 4 BY <2>1, <3>5 DEF s4
    <3>6. CASE n = 5 BY <2>1, <3>6 DEF s5
    <3>7. CASE n = 6 BY <2>1, <3>7 DEF s6
    <3>8. CASE n = 7 BY <2>1, <3>8 DEF s7
    <3>9. CASE n = 8 BY <2>1, <3>9 DEF s8
    <3>10. CASE n = 9 BY <2>1, <3>10 DEF s9
    <3>11. CASE n = 10 BY <2>1, <3>11 DEF s10
    <3>12. CASE n = 11 BY <2>1, <3>12 DEF s11
    <3>. QED BY <3>1, <3>2, <3>3, <3>4, <3>5, <3>6, <3>7, <3>8, <3>9, <3>10, <3>11, <3>12
  <2>3. all = [n \in 0 .. 11 |-> all[n]] OBVIOUS
  <2> HIDE DEF all
  <2>. QED BY <2>2, <2>3
<1>3. Is(SchemaAt)
  <2> HIDE DEF Is, all
  <2>1. \E f : Is(f) BY <1>2
  <2>. QED BY <1>1, <2>1
<1>4. \A n \in 0 .. 11 : SchemaAt[n] = IF n = 0 THEN NoTables ELSE Upgraded(n, SchemaAt[n - 1])
  BY <1>3
<1>. QED BY <1>4

-----------------------------------------------------------------------------
(* What a revision does to the tables. *)

\* Tables: of each the required columns, the optional ones and the unique keys.
IsTable(t) == t = [required |-> t.required, optional |-> t.optional, unique |-> t.unique]
AreTables(ts) ==
    /\ ts = [name \in DOMAIN ts |-> ts[name]]
    /\ \A name \in DOMAIN ts : IsTable(ts[name])

\* Tables that have all that others have, and ask for no more.
Covers(tables, old) ==
    /\ DOMAIN old \subseteq DOMAIN tables
    /\ \A name \in DOMAIN old :
          /\ Columns(old, name) \subseteq Columns(tables, name)
          /\ tables[name].required \subseteq old[name].required
          /\ old[name].unique \subseteq tables[name].unique

\* A program for the old tables works on them.
LEMMA CoversServes ==
  ASSUME NEW tables, NEW old, Covers(tables, old) PROVE Serves(tables, old)
  BY DEF Covers, Serves, Columns

\* Nothing is lost in a chain.
LEMMA CoversChain ==
  /\ \A a : Covers(a, a)
  /\ \A a, b, c : Covers(a, b) /\ Covers(b, c) => Covers(a, c)
<1>1. \A a : Covers(a, a) BY DEF Covers
<1>2. \A a, b, c : Covers(a, b) /\ Covers(b, c) => Covers(a, c)
  <2> SUFFICES ASSUME NEW a, NEW b, NEW c, Covers(a, b), Covers(b, c)
               PROVE  Covers(a, c)
    OBVIOUS
  <2>1. DOMAIN c \subseteq DOMAIN a BY DEF Covers
  <2>2. ASSUME NEW name \in DOMAIN c
        PROVE  /\ Columns(c, name) \subseteq Columns(a, name)
               /\ a[name].required \subseteq c[name].required
               /\ c[name].unique \subseteq a[name].unique
    BY DEF Covers
  <2>. QED BY <2>1, <2>2 DEF Covers
<1>. QED BY <1>1, <1>2

\* Tables are created beside those that are there.
LEMMA BesideFacts ==
  ASSUME NEW tables, NEW more, AreTables(tables), AreTables(more)
  PROVE  AreTables(Beside(tables, more)) /\ Covers(Beside(tables, more), tables)
<1> DEFINE both == Beside(tables, more)
<1>1. /\ both = [name \in DOMAIN both |-> both[name]]
      /\ DOMAIN both = DOMAIN tables \cup DOMAIN more
      /\ \A name \in DOMAIN tables : both[name] = tables[name]
      /\ \A name \in DOMAIN more \ DOMAIN tables : both[name] = more[name]
  BY DEF Beside
<1> HIDE DEF both
<1>2. AreTables(both) BY <1>1 DEF AreTables
<1>3. Covers(both, tables) BY <1>1 DEF Covers, Columns
<1>. QED BY <1>2, <1>3 DEF both

\* One table, changed, is still a table.
LEMMA ChangedTable ==
  ASSUME NEW tables, AreTables(tables), NEW name, NEW altered, IsTable(altered)
  PROVE  LET now == [tables EXCEPT ![name] = altered]
         IN /\ AreTables(now) /\ DOMAIN now = DOMAIN tables
            /\ \A other \in DOMAIN tables :
                  now[other] = IF other = name THEN altered ELSE tables[other]
  BY DEF AreTables

\* A column that may be missing: nothing is lost.
LEMMA AddColumnsFacts ==
  ASSUME NEW tables, AreTables(tables), NEW name, NEW columns
  PROVE  /\ AreTables(AddColumns(tables, name, columns))
         /\ Covers(AddColumns(tables, name, columns), tables)
<1> DEFINE now == AddColumns(tables, name, columns)
<1>1. CASE name \in DOMAIN tables
  <2> DEFINE old == tables[name]
  <2> DEFINE altered == [old EXCEPT !.optional = old.optional \cup columns]
  <2>1. now = [tables EXCEPT ![name] = altered] BY DEF AddColumns
  <2>2. IsTable(old) BY <1>1 DEF AreTables
  <2>3. /\ IsTable(altered) /\ altered.required = old.required /\ altered.unique = old.unique
        /\ altered.optional = old.optional \cup columns
    <3> HIDE DEF old
    <3>. QED BY <2>2 DEF IsTable
  <2> HIDE DEF altered, now
  <2>4. /\ AreTables(now) /\ DOMAIN now = DOMAIN tables
        /\ \A other \in DOMAIN tables : now[other] = IF other = name THEN altered ELSE tables[other]
    BY <2>1, <2>3, ChangedTable
  <2>5. Covers(now, tables) BY <2>3, <2>4 DEF Covers, Columns
  <2>. QED BY <2>4, <2>5 DEF now
<1>2. CASE name \notin DOMAIN tables
  <2>1. now = tables BY <1>2 DEF AddColumns, AreTables
  <2>. QED BY <2>1, CoversChain
<1>. QED BY <1>1, <1>2

\* Dropped columns leave tables.
LEMMA DropColumnsFacts ==
  ASSUME NEW tables, AreTables(tables), NEW name, NEW columns
  PROVE  AreTables(DropColumns(tables, name, columns))
<1> DEFINE now == DropColumns(tables, name, columns)
<1>1. CASE name \in DOMAIN tables
  <2> DEFINE old == tables[name]
  <2> DEFINE half == [old EXCEPT !.required = old.required \ columns]
  <2> DEFINE altered == [half EXCEPT !.optional = old.optional \ columns]
  <2>1. now = [[tables EXCEPT ![name] = half] EXCEPT ![name] = altered]
    BY <1>1 DEF DropColumns, AreTables, IsTable
  <2>2. IsTable(old) BY <1>1 DEF AreTables
  <2>3. IsTable(half) /\ IsTable(altered)
    <3> HIDE DEF old
    <3>1. IsTable(half) BY <2>2 DEF IsTable
    <3> HIDE DEF half
    <3>. QED BY <3>1 DEF IsTable
  <2> HIDE DEF half, altered, now
  <2>4. AreTables(now) BY <2>1, <2>3, ChangedTable
  <2>. QED BY <2>4 DEF now
<1>2. CASE name \notin DOMAIN tables
  <2>1. now = tables BY <1>2 DEF DropColumns, AreTables
  <2>. QED BY <2>1
<1>. QED BY <1>1, <1>2

\* Columns that become optional are still there.
LEMMA RelaxFacts ==
  ASSUME NEW altered, IsTable(altered), NEW columns
  PROVE  /\ IsTable(Relax(altered, columns))
         /\ Relax(altered, columns).required \subseteq altered.required
         /\ Relax(altered, columns).unique = altered.unique
         /\ altered.required \cup altered.optional \subseteq
              Relax(altered, columns).required \cup Relax(altered, columns).optional
<1> DEFINE half == [altered EXCEPT !.required = altered.required \ columns]
<1> DEFINE now == [half EXCEPT !.optional = altered.optional \cup columns]
<1>1. Relax(altered, columns) = now
  BY DEF Relax, IsTable
<1>2. /\ IsTable(half) /\ half.required = altered.required \ columns
      /\ half.optional = altered.optional /\ half.unique = altered.unique
  BY DEF IsTable
<1> HIDE DEF half
<1>3. /\ IsTable(now) /\ now.required = altered.required \ columns
      /\ now.optional = altered.optional \cup columns /\ now.unique = altered.unique
  BY <1>2 DEF IsTable
<1> HIDE DEF now
<1>. QED BY <1>1, <1>3

\* 0001: the tables that the first revision creates.
LEMMA InitialTables == AreTables(Initial)
<1>1. \A r, o, u : IsTable(Table(r, o, u)) BY DEF IsTable, Table
<1>2. AreTables(InitialAuth) BY <1>1 DEF AreTables, InitialAuth
<1>3. AreTables(InitialBars) BY <1>1 DEF AreTables, InitialBars
<1>4. AreTables(InitialLists) BY <1>1 DEF AreTables, InitialLists
<1>5. AreTables(InitialConfig) BY <1>1 DEF AreTables, InitialConfig
<1>6. AreTables(InitialDerived) BY <1>1 DEF AreTables, InitialDerived
<1>. QED BY <1>2, <1>3, <1>4, <1>5, <1>6, BesideFacts DEF Initial

\* Every revision makes tables of tables, and all but the first and the breaking ones
\* lose nothing that earlier programs use and ask for nothing that they do not give.
LEMMA UpgradedFacts ==
  ASSUME NEW n \in 1 .. 11, NEW tables, AreTables(tables)
  PROVE  /\ AreTables(Upgraded(n, tables))
         /\ n \notin Breaking \cup {1} => Covers(Upgraded(n, tables), tables)
<1>0. \A r, o, u : IsTable(Table(r, o, u)) BY DEF IsTable, Table
<1>1. CASE n = 1
  BY <1>1, InitialTables DEF Upgraded
<1>2. CASE n = 2
  <2> DEFINE now == OptionalColumns(tables)
  <2>1. /\ DOMAIN now = DOMAIN tables /\ now = [name \in DOMAIN now |-> now[name]]
        /\ \A name \in DOMAIN tables :
              now[name] = tables[name] \/ now[name] = Relax(tables[name], Relaxed[name])
    BY DEF OptionalColumns
  <2>2. ASSUME NEW name \in DOMAIN tables
        PROVE  /\ IsTable(now[name])
               /\ Columns(tables, name) \subseteq Columns(now, name)
               /\ now[name].required \subseteq tables[name].required
               /\ tables[name].unique \subseteq now[name].unique
    <3>1. IsTable(tables[name]) BY DEF AreTables
    <3> HIDE DEF now
    <3>2. CASE now[name] = tables[name]
      BY <3>1, <3>2 DEF Columns
    <3>3. CASE now[name] = Relax(tables[name], Relaxed[name])
      BY <3>1, <3>3, RelaxFacts DEF Columns
    <3>. QED BY <2>1, <3>2, <3>3
  <2> HIDE DEF now
  <2>3. AreTables(now) /\ Covers(now, tables)
    BY <2>1, <2>2 DEF AreTables, Covers
  <2>4. Upgraded(n, tables) = now BY <1>2 DEF Upgraded, now
  <2>. QED BY <2>3, <2>4
<1>3. CASE n = 3
  <2> DEFINE now == MinuteAmountOptional(tables)
  <2>1. ASSUME "minute_bars" \in DOMAIN tables PROVE AreTables(now) /\ Covers(now, tables)
    <3> DEFINE altered == Relax(tables["minute_bars"], {"amount_yuan"})
    <3>1. now = [tables EXCEPT !["minute_bars"] = altered]
      BY DEF MinuteAmountOptional
    <3>2. IsTable(tables["minute_bars"]) BY <2>1 DEF AreTables
    <3>3. /\ IsTable(altered) /\ altered.required \subseteq tables["minute_bars"].required
          /\ altered.unique = tables["minute_bars"].unique
          /\ tables["minute_bars"].required \cup tables["minute_bars"].optional
                \subseteq altered.required \cup altered.optional
      BY <3>2, RelaxFacts
    <3> HIDE DEF now, altered
    <3>4. /\ AreTables(now) /\ DOMAIN now = DOMAIN tables
          /\ \A other \in DOMAIN tables :
                now[other] = IF other = "minute_bars" THEN altered ELSE tables[other]
      BY <3>1, <3>3, ChangedTable
    <3>. QED BY <3>3, <3>4 DEF Covers, Columns
  <2>2. ASSUME "minute_bars" \notin DOMAIN tables PROVE AreTables(now) /\ Covers(now, tables)
    <3>1. now = tables BY <2>2 DEF MinuteAmountOptional, AreTables
    <3>. QED BY <3>1, CoversChain
  <2>3. AreTables(now) /\ Covers(now, tables)
    <3> HIDE DEF now
    <3>. QED BY <2>1, <2>2
  <2>4. Upgraded(n, tables) = now BY <1>3 DEF Upgraded
  <2>. QED BY <2>3, <2>4
<1>4. CASE n = 4
  BY <1>4, AddColumnsFacts DEF Upgraded, PoolQuantFields
<1>5. CASE n = 5
  <2>1. AreTables([cycle_judgements |-> Table(
          Sourced \cup {"trade_date", "state", "reasons", "indicators", "overheated",
            "relaxed_needs_confirm", "data_degraded", "ran_at"},
          {"position_factor"}, {{"trade_date"}})])
    BY <1>0 DEF AreTables
  <2>. QED BY <1>5, <2>1, BesideFacts DEF Upgraded, CycleJudgements
<1>6. CASE n = 6
  <2>1. AreTables([dragon_pool |-> Table(
        {"trade_date", "strategy_id", "code", "d_date", "boards", "ran_at", "created_at"},
        {"name", "d_amp_pct", "shape_label"}, {})])
    BY <1>0 DEF AreTables
  <2>. QED BY <1>6, <2>1, BesideFacts DEF Upgraded, DragonPool
<1>7. CASE n = 7
  BY <1>7, DropColumnsFacts DEF Upgraded, DropNewsLevel, Breaking
<1>8. CASE n = 8
  <2> DEFINE half == AddColumns(tables, "advice_reports", {"code"})
  <2> DEFINE keys == {{"trade_date", "kind", "strategy_id", "ran_at", "code"}}
  <2> DEFINE old == half["advice_reports"]
  <2> DEFINE altered == [old EXCEPT !.unique = keys]
  <2>1. AdviceReportCode(tables) = [half EXCEPT !["advice_reports"] = altered]
    BY DEF AdviceReportCode
  <2>2. AreTables(half) BY AddColumnsFacts
  <2>3. AreTables([half EXCEPT !["advice_reports"] = altered])
    <3> HIDE DEF half, keys
    <3>1. CASE "advice_reports" \in DOMAIN half
      <4>1. IsTable(old) BY <2>2, <3>1 DEF AreTables
      <4>2. IsTable(altered)
        <5> HIDE DEF old
        <5>. QED BY <4>1 DEF IsTable
      <4> HIDE DEF altered
      <4>. QED BY <2>2, <4>2, ChangedTable
    <3>2. CASE "advice_reports" \notin DOMAIN half
      <4>1. [half EXCEPT !["advice_reports"] = altered] = half BY <2>2, <3>2 DEF AreTables
      <4>. QED BY <2>2, <4>1
    <3>. QED BY <3>1, <3>2
  <2>4. Upgraded(n, tables) = AdviceReportCode(tables) BY <1>8 DEF Upgraded
  <2> HIDE DEF half, keys, old, altered
  <2>. QED BY <1>8, <2>1, <2>3, <2>4 DEF Breaking
<1>9. CASE n = 9
  BY <1>9, AddColumnsFacts DEF Upgraded, MonitorStockDetails
<1>10. CASE n = 10
  BY <1>10, AddColumnsFacts, DropColumnsFacts DEF Upgraded, PoolSealAndThemeCleanup, Breaking
<1>11. CASE n = 11
  <2> DEFINE half == AddColumns(tables, "users", {"capital_yuan"})
  <2> DEFINE more == [advice_marks |-> Table(
               {"trade_date", "strategy_id", "code", "marked_at", "created_at"},
               {"marked_by"}, {{"trade_date", "strategy_id", "code"}})]
  <2>1. AreTables(more) BY <1>0 DEF AreTables
  <2>2. AreTables(half) /\ Covers(half, tables) BY AddColumnsFacts
  <2>3. Upgraded(n, tables) = Beside(half, more)
    BY <1>11 DEF Upgraded, AdviceMarksAndUserCapital
  <2> HIDE DEF half, more
  <2>. QED BY <2>1, <2>2, <2>3, BesideFacts, CoversChain
<1>. QED BY <1>1, <1>2, <1>3, <1>4, <1>5, <1>6, <1>7, <1>8, <1>9, <1>10, <1>11

\* What no breaking revision separates: the later schema serves the programs of the earlier.
THEOREM SchemaKeeps ==
  ASSUME NEW r \in 1 .. 11, NEW m \in r .. 11, \A n \in Breaking : n \notin r + 1 .. m
  PROVE  Serves(SchemaAt[m], SchemaAt[r])
<1>1. \A n \in 0 .. 11 : AreTables(SchemaAt[n])
  <2>0. AreTables(SchemaAt[0]) BY SchemaFacts DEF NoTables, AreTables
  <2>1. \A n \in 1 .. 11 : AreTables(SchemaAt[n - 1]) => AreTables(SchemaAt[n])
    BY SchemaFacts, UpgradedFacts
  <2>2. AreTables(SchemaAt[1]) BY <2>0, <2>1
  <2>3. AreTables(SchemaAt[2]) BY <2>1, <2>2
  <2>4. AreTables(SchemaAt[3]) BY <2>1, <2>3
  <2>5. AreTables(SchemaAt[4]) BY <2>1, <2>4
  <2>6. AreTables(SchemaAt[5]) BY <2>1, <2>5
  <2>7. AreTables(SchemaAt[6]) BY <2>1, <2>6
  <2>8. AreTables(SchemaAt[7]) BY <2>1, <2>7
  <2>9. AreTables(SchemaAt[8]) BY <2>1, <2>8
  <2>10. AreTables(SchemaAt[9]) BY <2>1, <2>9
  <2>11. AreTables(SchemaAt[10]) BY <2>1, <2>10
  <2>12. AreTables(SchemaAt[11]) BY <2>1, <2>11
  <2>. QED BY <2>0, <2>2, <2>3, <2>4, <2>5, <2>6, <2>7, <2>8, <2>9, <2>10, <2>11, <2>12
<1> DEFINE K(a, b) == Covers(SchemaAt[a], SchemaAt[b])
<1>2. \A n \in 2 .. 11 : n \notin Breaking => K(n, n - 1)
  BY <1>1, SchemaFacts, UpgradedFacts
<1>3. /\ \A a : K(a, a)
      /\ \A a, b, c : K(a, b) /\ K(b, c) => K(a, c)
  BY CoversChain
<1>4. /\ K(2, 1) /\ K(3, 2) /\ K(4, 3) /\ K(5, 4) /\ K(6, 5) /\ K(9, 8) /\ K(11, 10)
  BY <1>2 DEF Breaking
<1> HIDE DEF K
<1>5. K(3, 1) BY <1>3, <1>4
<1>6. K(4, 2) /\ K(4, 1) BY <1>3, <1>4, <1>5
<1>7. K(5, 3) /\ K(5, 2) /\ K(5, 1) BY <1>3, <1>4, <1>6
<1>8. K(6, 4) /\ K(6, 3) /\ K(6, 2) /\ K(6, 1) BY <1>3, <1>4, <1>7
<1>9. K(m, r)
  <2>1. m = r \/ (m <= 6 /\ r < m) \/ (m = 9 /\ r = 8) \/ (m = 11 /\ r = 10)
    BY DEF Breaking
  <2>2. CASE m = r BY <1>3, <2>2
  <2>3. CASE m <= 6 /\ r < m
    <3>1. \/ m = 2 /\ r = 1
          \/ m = 3 /\ r \in {1, 2}
          \/ m = 4 /\ r \in {1, 2, 3}
          \/ m = 5 /\ r \in {1, 2, 3, 4}
          \/ m = 6 /\ r \in {1, 2, 3, 4, 5}
      BY <2>3
    <3>. QED BY <1>4, <1>5, <1>6, <1>7, <1>8, <3>1
  <2>4. CASE (m = 9 /\ r = 8) \/ (m = 11 /\ r = 10) BY <1>4, <2>4
  <2>. QED BY <2>1, <2>2, <2>3, <2>4
<1>. QED BY <1>9, CoversServes DEF K

\* No revision drops a table: those of any revision are among those of the last.
LEMMA TablesStay == \A n \in 0 .. HeadRevision : DOMAIN SchemaAt[n] \subseteq TableName
<1> DEFINE D(n) == DOMAIN SchemaAt[n]
<1>1. ASSUME NEW n \in 1 .. 11, NEW tables
      PROVE  n # 1 => DOMAIN tables \subseteq DOMAIN Upgraded(n, tables)
  BY DEF Upgraded, OptionalColumns, MinuteAmountOptional, PoolQuantFields, CycleJudgements,
         DragonPool, DropNewsLevel, AdviceReportCode, MonitorStockDetails,
         PoolSealAndThemeCleanup, AdviceMarksAndUserCapital, AddColumns, DropColumns, Beside
<1>2. D(0) \subseteq D(1)
  BY SchemaFacts DEF NoTables
<1>3. \A n \in 2 .. 11 : D(n - 1) \subseteq D(n)
  BY <1>1, SchemaFacts
<1> HIDE DEF D
<1>4. /\ D(1) \subseteq D(2) /\ D(2) \subseteq D(3) /\ D(3) \subseteq D(4)
      /\ D(4) \subseteq D(5) /\ D(5) \subseteq D(6) /\ D(6) \subseteq D(7)
      /\ D(7) \subseteq D(8) /\ D(8) \subseteq D(9) /\ D(9) \subseteq D(10)
      /\ D(10) \subseteq D(11)
  BY <1>3
<1>5. \A n \in 0 .. 11 : D(n) \subseteq D(11)
  BY <1>2, <1>4
<1>. QED BY <1>5, HeadIsEleven DEF D, TableName

-----------------------------------------------------------------------------
(* The releases. *)

\* The worker is of the release of the API container.  Unless the database was changed
\* under them, the API serves with the schema of its release.
ReleaseIInv ==
    /\ ReleaseTypeOK
    /\ DOMAIN apiProc = {"of", "at"}
    /\ workerOf \in {0, apiProc.of}
    /\ apiProc.at = "serving" /\ ~apart => installed = apiProc.of

\* The first state.
LEMMA ReleaseInitially == ReleaseInit => ReleaseIInv
<1> SUFFICES ASSUME ReleaseInit PROVE ReleaseIInv OBVIOUS
<1>1. apart \in BOOLEAN
  <2>1. apart = FALSE BY DEF ReleaseInit
  <2>. QED BY <2>1, Zenon
<1>. QED BY <1>1, HeadIsEleven DEF ReleaseInit, ReleaseIInv, ReleaseTypeOK

\* Every step: what changes the database under the containers is known, and starting
\* one brings both to the same release and the database with them.
LEMMA ReleaseStep == ReleaseIInv /\ [ReleaseNext]_releaseVars => ReleaseIInv'
<1> SUFFICES ASSUME ReleaseIInv, [ReleaseNext]_releaseVars PROVE ReleaseIInv' OBVIOUS
<1> USE ReleaseAssumption, HeadIsEleven DEF ReleaseIInv, ReleaseTypeOK
<1>1. CASE BeginScript("upgrade") \/ BeginScript("deploy")
  BY <1>1 DEF BeginScript, Stepping
<1>2. CASE Migrate
  <2>1. apart' \in BOOLEAN /\ (apart => apart') /\ (installed' # installed => apart')
    BY <1>2, Zenon DEF Migrate
  <2>2. installed' \in 0 .. HeadRevision /\ script' \in {"migrated", "failed"}
    BY <1>2 DEF Migrate, CanUpgrade, Stepping
  <2>3. UNCHANGED <<release, image, early, apiProc, workerOf, dump>>
    BY <1>2 DEF Migrate
  <2>. QED BY <2>1, <2>2, <2>3
<1>3. CASE Up
  <2>1. apart' \in BOOLEAN
    <3>1. apart' = apart \/ apart' = FALSE BY <1>3 DEF Up
    <3>. QED BY <3>1, Zenon
  <2>2. /\ UNCHANGED <<release, image, installed, early, dump>> /\ workerOf' = image
        /\ script' = "waiting"
    BY <1>3 DEF Up, Stepping
  <2>3. CASE apiProc.of = image /\ apiProc.at # "down"
    BY <1>3, <2>1, <2>2, <2>3 DEF Up
  <2>4. CASE ~(apiProc.of = image /\ apiProc.at # "down")
    <3>1. apiProc' = [of |-> image, at |-> "starting"]
      BY <1>3, <2>4 DEF Up
    <3>. QED BY <2>1, <2>2, <3>1
  <2>. QED BY <2>3, <2>4
<1>4. CASE WaitReady
  BY <1>4 DEF WaitReady, Stepping
<1>5. CASE StopScript
  BY <1>5 DEF StopScript, Stepping
<1>6. CASE Downgrade
  <2>1. apart' \in BOOLEAN /\ apart'
    <3>1. apart' = TRUE BY <1>6 DEF Downgrade
    <3>. QED BY <3>1, Zenon
  <2>2. installed' \in 0 .. HeadRevision BY <1>6 DEF Downgrade
  <2>. QED BY <1>6, <2>1, <2>2 DEF Downgrade
<1>7. CASE Backup
  BY <1>7 DEF Backup
<1>8. CASE Restore
  BY <1>8 DEF Restore, Stepping
<1>9. CASE StartServing
  BY <1>9 DEF StartServing, MayServe
<1>10. CASE ApiFails
  BY <1>10 DEF ApiFails
<1>11. CASE EnsureSchema
  <2>1. early' \subseteq TableName
    <3>1. workerOf \in 0 .. HeadRevision BY <1>11 DEF EnsureSchema
    <3>2. Created(installed, workerOf) \subseteq TableName
      BY <3>1, TablesStay DEF Created
    <3>. QED BY <1>11, <3>2 DEF EnsureSchema
  <2>. QED BY <1>11, <2>1 DEF EnsureSchema
<1>12. CASE UNCHANGED releaseVars
  BY <1>12 DEF releaseVars
<1>. QED
  BY <1>1, <1>2, <1>3, <1>4, <1>5, <1>6, <1>7, <1>8, <1>9, <1>10, <1>11,
     <1>12 DEF ReleaseNext

\* It implies what the run checks.
LEMMA ReleaseIInvSuffices == ReleaseIInv => ServedTablesFit
<1> SUFFICES ASSUME ReleaseIInv, apiProc.at = "serving", NEW r \in {apiProc.of, workerOf} \ {0}
             PROVE  \/ Serves(SchemaAt[installed], SchemaAt[r])
                    \/ apart /\ (installed < r \/ \E n \in Breaking : n \in r + 1 .. installed)
  BY DEF ServedTablesFit
<1>1. r = apiProc.of /\ r \in 1 .. 11 /\ installed \in 0 .. 11
  BY ReleaseAssumption, HeadIsEleven DEF ReleaseIInv, ReleaseTypeOK
<1>2. CASE installed \in r .. 11 /\ \A n \in Breaking : n \notin r + 1 .. installed
  BY <1>1, <1>2, SchemaKeeps
<1>3. CASE ~(installed \in r .. 11 /\ \A n \in Breaking : n \notin r + 1 .. installed)
  <2>1. installed < r \/ \E n \in Breaking : n \in r + 1 .. installed
    BY <1>1, <1>3
  <2>2. installed # apiProc.of
    BY <1>1, <2>1 DEF Breaking
  <2>. QED BY <2>1, <2>2 DEF ReleaseIInv
<1>. QED BY <1>2, <1>3

\* The types of the containers, the script and the database.
THEOREM ReleaseTypeCorrect == ReleaseSpec => []ReleaseTypeOK
<1>1. ReleaseIInv => ReleaseTypeOK BY DEF ReleaseIInv
<1>. QED BY <1>1, ReleaseInitially, ReleaseStep, PTL DEF ReleaseSpec

\* docker-compose.yml:94, upgrade.sh:26-30: whatever releases are deployed, upgraded, rolled
\* back and restored, the API and the worker find the tables they use, but for the time
\* between a change of the database under them and their restart, and then only when it
\* went below their release or over a breaking revision.
THEOREM ServedTablesAlwaysFit == ReleaseSpec => []ServedTablesFit
BY ReleaseInitially, ReleaseStep, ReleaseIInvSuffices, PTL DEF ReleaseSpec

-----------------------------------------------------------------------------
(***************************************************************************)
(* The parts together.                                                     *)
(*                                                                         *)
(* Each part is implemented by the composition: a step of the composition  *)
(* is a step of the part that runs and a stutter of every other.  What was *)
(* proved of a part alone therefore holds beside the others.               *)
(***************************************************************************)

\* The parts start as they would alone.
LEMMA PartsStart ==
    ServicesInit =>
        /\ AccountsInit /\ LimitsInit /\ AssistantInit /\ BucketInit /\ FailoverInit
        /\ WritersInit /\ BacktestInit /\ ReleaseInit /\ PhasesInit
BY DEF ServicesInit

servicesVars == <<part, accountsVars, limitsVars, assistantVars, bucketVars,
                  failoverVars, writersVars, backtestVars, releaseVars, phasesVars>>

\* A step of the composition, seen from each part.
LEMMA PartsStep ==
    [ServicesNext]_servicesVars =>
        /\ [AccountsNext]_accountsVars
        /\ [LimitsNext]_limitsVars
        /\ [AssistantNext]_assistantVars
        /\ [BucketNext]_bucketVars
        /\ [FailoverNext]_failoverVars
        /\ [WritersNext]_writersVars
        /\ [BacktestNext]_backtestVars
        /\ [ReleaseNext]_releaseVars
        /\ [PhasesNext]_phasesVars
<1> SUFFICES ASSUME [ServicesNext]_servicesVars
             PROVE  PartsStep!2
    OBVIOUS
<1> USE DEF servicesVars, Resting_accounts, Resting_limits, Resting_assistant, Resting_bucket,
              Resting_sources, Resting_writers, Resting_backtests, Resting_releases, Resting_phases
<1>1. CASE part = "accounts" /\ AccountsNext /\ Resting_accounts
    BY <1>1
<1>2. CASE part = "assistant" /\ AssistantNext /\ Resting_assistant
    BY <1>2
<1>3. CASE part = "bucket" /\ BucketNext /\ Resting_bucket
    BY <1>3
<1>4. CASE part = "sources" /\ FailoverNext /\ Resting_sources
    BY <1>4
<1>5. CASE part = "writers" /\ WritersNext /\ Resting_writers
    BY <1>5
<1>6. CASE part = "backtests" /\ BacktestNext /\ Resting_backtests
    BY <1>6
<1>7. CASE part = "releases" /\ ReleaseNext /\ Resting_releases
    BY <1>7
<1>8. CASE part = "phases" /\ PhasesNext /\ Resting_phases
    BY <1>8
<1>9. CASE part = "login" /\ Followed /\ ((\E v \in Visitor : Login(v)) \/ Tick)
             /\ Resting_limits
    BY <1>9 DEF LimitsNext
<1>10. CASE part = "registration" /\ ((\E v \in Visitor : Registration(v)) \/ Tick)
              /\ Resting_limits
    BY <1>10 DEF LimitsNext
<1>11. CASE UNCHANGED servicesVars
    BY <1>11
<1> QED
    BY <1>1, <1>2, <1>3, <1>4, <1>5, <1>6, <1>7, <1>8, <1>9, <1>10, <1>11 DEF ServicesNext

\* Every part behaves beside the others as it does alone.
THEOREM PartsAreImplemented ==
    ServicesSpec =>
        /\ AccountsSpec /\ LimitsSpec /\ AssistantSpec /\ BucketSpec /\ FailoverSpec
        /\ WritersSpec /\ BacktestSpec /\ ReleaseSpec /\ PhasesSpec
BY PartsStart, PartsStep, PTL
   DEF ServicesSpec, servicesVars, AccountsSpec, LimitsSpec, AssistantSpec,
       BucketSpec, FailoverSpec, WritersSpec, BacktestSpec, ReleaseSpec, PhasesSpec

\* The parts of the service keep their types side by side: requests, counters, chats, the bucket,
\* the sources, the writers, the backtests, the containers and the phases.
THEOREM ServicesTypeCorrect == ServicesSpec => []ServicesTypeOK
<1>1. /\ AccountsTypeOK /\ LimitsTypeOK /\ AssistantTypeOK /\ BucketTypeOK /\ FailoverTypeOK
      /\ WritersTypeOK /\ BacktestTypeOK /\ ReleaseTypeOK /\ PhasesTypeOK
      => ServicesTypeOK
    BY DEF ServicesTypeOK
<1> QED
    BY <1>1, PartsAreImplemented, AccountsTypeCorrect, LimitsTypeCorrect, AssistantTypeCorrect,
       BucketTypeCorrect, FailoverTypeCorrect, WritersTypeCorrect,
       BacktestTypeCorrect, ReleaseTypeCorrect, PhasesTypeCorrect, PTL

\* And what each of them promises it promises beside the others: one administrator and one
\* use of an invitation, the limits, the confirmations and transcripts, the rate and the
\* order of the sources, the tables of the writers, final backtests, fitting tables and
\* whole phases.
THEOREM PromisesHoldTogether ==
    ServicesSpec =>
        /\ []AdministrationHolds /\ []InvitationsServeOnce /\ []LimitsHold
        /\ []ConfirmedOnce /\ []TranscriptsAreTrue
        /\ []RateIsKept /\ []SourcesFollowTheOrders
        /\ []TablesHoldTheLastBatch /\ []AnnouncedCycleIsStored /\ []QuotesSurvive
        /\ []EndedRunsAreFinal /\ []ServedTablesFit /\ []SucceededPhasesAreWhole
BY PartsAreImplemented, AdministrationWorks, InvitationsServeOneUser, LimitsAlwaysHold,
   ExecutedOnce, NothingUnasked, RateIsAlwaysKept, SourcesAlwaysFollowTheOrders,
   TablesAlwaysHoldTheLastBatch, AnnouncedCycleIsAlwaysStored, QuotesAlwaysSurvive,
   EndedIsFinal, ServedTablesAlwaysFit, SucceededPhasesAreAlwaysWhole, PTL
=============================================================================
