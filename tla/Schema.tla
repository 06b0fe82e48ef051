---------------------------- MODULE Schema ----------------------------
(***************************************************************************)
(* The tables: what the first revision creates, what every later one makes *)
(* of them (backend/alembic/versions), and what the models of the program  *)
(* declare (backend/app/models).                                           *)
(*                                                                         *)
(* A table is the columns that a row must have, those it may have, and its *)
(* unique keys; the surrogate column id, types and defaults are left out.  *)
(***************************************************************************)
EXTENDS Integers, Sequences

Table(required, optional, unique) ==
    [required |-> required, optional |-> optional, unique |-> unique]

\* Tables and those that are created beside them.
Beside(tables, more) ==
    [name \in DOMAIN tables \cup DOMAIN more |->
        IF name \in DOMAIN tables THEN tables[name] ELSE more[name]]

\* The columns of SourceMixin and of TimestampMixin.
Sourced == {"source", "ingested_at"}
Stamped == {"created_at", "updated_at"}

-----------------------------------------------------------------------------
(* 0001_initial. *)

InitialAuth ==
    [roles |-> Table(
        {"name", "label", "is_builtin", "created_at"}, {}, {}),
     users |-> Table(
        Stamped \cup {"username", "password_hash", "role", "enabled"},
        {"last_login_at"}, {{"username"}}),
     role_pages |-> Table(
        {"role", "page_key"}, {}, {{"role", "page_key"}}),
     invitations |-> Table(
        {"code", "role", "revoked", "created_at"}, {"expires_at", "used_by",
        "used_at"}, {{"code"}}),
     audit_logs |-> Table(
        {"ts", "action"}, {"actor", "target", "detail", "ip", "request_id"},
        {})]

InitialBars ==
    [stocks |-> Table(
        Sourced \cup {"code", "name", "market", "board", "is_st",
        "updated_at"}, {"list_date"}, {}),
     daily_bars |-> Table(
        Sourced \cup {"code", "trade_date", "open", "high", "low", "close",
        "pre_close", "volume_shares", "amount_yuan"}, {}, {{"code",
        "trade_date"}}),
     minute_bars |-> Table(
        Sourced \cup {"code", "trade_date", "minute_index", "time_label",
        "price", "volume_lots", "amount_yuan"}, {}, {{"code", "trade_date",
        "minute_index"}}),
     limit_up_pool |-> Table(
        Sourced \cup {"trade_date", "code", "name", "continue_days",
        "seal_amount_yuan", "open_times", "turnover_rate", "amount_yuan",
        "market_cap_yuan", "pool_type"}, {"limit_up_time"}, {{"trade_date",
        "pool_type", "code"}}),
     pool_snapshot |-> Table(
        Sourced \cup {"trade_date", "pool_name", "payload"}, {},
        {{"trade_date", "pool_name"}}),
     market_sentiment |-> Table(
        Sourced \cup {"trade_date", "temperature", "stage", "limit_up_count",
        "limit_down_count", "broken_board_count", "broken_rate", "up_count",
        "down_count", "max_continue_days", "premium_rate"}, {},
        {{"trade_date"}})]

InitialLists ==
    [news_flash |-> Table(
        Sourced \cup {"ts", "level", "title", "symbols", "categories"},
        {"summary"}, {{"ts", "title"}}),
     themes |-> Table(
        Sourced \cup {"trade_date", "rank", "name", "core_avg_pct",
        "core_count"}, {"description"}, {{"trade_date", "name"}}),
     theme_stocks |-> Table(
        Sourced \cup {"trade_date", "theme_name", "code", "name", "price",
        "pct", "turnover_rate", "continue_days"}, {"selected_at"},
        {{"trade_date", "theme_name", "code"}}),
     monitor_stocks |-> Table(
        Sourced \cup {"trade_date", "kind", "code", "name"}, {"reason"},
        {{"trade_date", "kind", "code"}}),
     ladder_rows |-> Table(
        Sourced \cup {"trade_date", "code", "name", "continue_days"},
        {"first_seal_time"}, {{"trade_date", "code"}})]

InitialConfig ==
    [strategy_defs |-> Table(
        Stamped \cup {"strategy_id", "label", "version", "enabled",
        "params_schema", "gate_matrix"}, {"description"}, {}),
     strategy_configs |-> Table(
        {"strategy_id", "version", "status", "params", "created_at"}, {"note",
        "created_by"}, {{"strategy_id", "version"}}),
     factor_defs |-> Table(
        Stamped \cup {"factor_id", "label", "category", "params_schema",
        "enabled"}, {"description"}, {}),
     factor_configs |-> Table(
        {"factor_id", "version", "status", "params", "created_at"}, {"note",
        "created_by"}, {{"factor_id", "version"}}),
     datasource_registry |-> Table(
        Stamped \cup {"source_id", "label", "kind", "capabilities",
        "rate_limit_per_min", "enabled", "priority"}, {}, {}),
     datasource_health |-> Table(
        {"source_id", "capability", "ok", "checked_at"}, {"latency_ms",
        "detail"}, {})]

InitialDerived ==
    [advice_reports |-> Table(
        {"trade_date", "kind", "strategy_id", "payload", "ran_at",
        "created_at"}, {"strategy_version"}, {{"trade_date", "kind",
        "strategy_id", "ran_at"}}),
     backtest_runs |-> Table(
        {"run_id", "status", "start_date", "end_date", "strategies",
        "params"}, {"report", "error", "started_at", "finished_at",
        "created_by"}, {{"run_id"}}),
     ingest_jobs |-> Table(
        {"job_id", "capability", "source", "status", "rows", "attempts"},
        {"trade_date", "error", "started_at", "finished_at"}, {{"job_id"}}),
     agent_sessions |-> Table(
        Stamped \cup {"session_id", "user_id"}, {"title"}, {{"session_id"}}),
     agent_messages |-> Table(
        {"session_id", "role", "tokens", "created_at"}, {"content",
        "tool_calls"}, {}),
     agent_tool_calls |-> Table(
        {"session_id", "tool_name", "arguments", "ok", "denied",
        "created_at"}, {"result_summary", "duration_ms"}, {}),
     raw_responses |-> Table(
        {"source", "capability", "args_hash", "payload", "sha256",
        "fetched_at"}, {"trade_date", "http_status", "elapsed_ms"}, {})]

\* Tables that are there before the first revision: none.
NoTables == [t \in {} |-> Table({}, {}, {})]

Initial ==
    Beside(InitialAuth, Beside(InitialBars, Beside(InitialLists,
        Beside(InitialConfig, InitialDerived))))

-----------------------------------------------------------------------------
(* The later revisions. *)

AddColumns(tables, name, columns) ==
    [tables EXCEPT ![name].optional = @ \cup columns]
DropColumns(tables, name, columns) ==
    [tables EXCEPT ![name].required = @ \ columns, ![name].optional = @ \ columns]
Relax(table, columns) ==
    [table EXCEPT !.required = @ \ columns, !.optional = @ \cup columns]

Relaxed ==
    [daily_bars       |-> {"pre_close"},
     limit_up_pool    |-> {"seal_amount_yuan", "open_times", "turnover_rate",
                           "amount_yuan", "market_cap_yuan"},
     market_sentiment |-> {"stage", "max_continue_days"},
     news_flash       |-> {"level"},
     themes           |-> {"core_avg_pct", "core_count"},
     theme_stocks     |-> {"continue_days"}]

OptionalColumns(tables) ==
    [name \in DOMAIN tables |->
        IF name \in DOMAIN Relaxed THEN Relax(tables[name], Relaxed[name])
                                   ELSE tables[name]]

MinuteAmountOptional(tables) ==
    [tables EXCEPT !["minute_bars"] = Relax(@, {"amount_yuan"})]

PoolQuantFields(tables) ==
    AddColumns(tables, "limit_up_pool",
        {"price", "change_pct", "volume_bias_ratio", "free_cap_yuan", "seal_ratio",
         "reason", "plates", "timeline"})

CycleJudgements(tables) ==
    Beside(tables, [cycle_judgements |-> Table(
        Sourced \cup {"trade_date", "state", "reasons", "indicators", "overheated",
        "relaxed_needs_confirm", "data_degraded", "ran_at"},
        {"position_factor"}, {{"trade_date"}})])

DragonPool(tables) ==
    Beside(tables, [dragon_pool |-> Table(
        {"trade_date", "strategy_id", "code", "d_date", "boards", "ran_at", "created_at"},
        {"name", "d_amp_pct", "shape_label"}, {})])

DropNewsLevel(tables) == DropColumns(tables, "news_flash", {"level"})

AdviceReportCode(tables) ==
    [AddColumns(tables, "advice_reports", {"code"}) EXCEPT !["advice_reports"].unique =
        {{"trade_date", "kind", "strategy_id", "ran_at", "code"}}]

MonitorStockDetails(tables) ==
    AddColumns(tables, "monitor_stocks",
        {"start_date", "end_date", "notice_date", "info_code", "reason_type", "link_url"})

PoolSealAndThemeCleanup(tables) ==
    DropColumns(AddColumns(tables, "limit_up_pool", {"max_seal_amount_yuan"}),
                "theme_stocks", {"selected_at"})

AdviceMarksAndUserCapital(tables) ==
    Beside(AddColumns(tables, "users", {"capital_yuan"}),
           [advice_marks |-> Table(
               {"trade_date", "strategy_id", "code", "marked_at", "created_at"},
               {"marked_by"}, {{"trade_date", "strategy_id", "code"}})])

\* The revisions in the order of their down_revision.
RevisionId ==
    <<"0001_initial", "0002_optional_columns", "0003_minute_amount_optional",
      "0004_pool_quant_fields", "0005_cycle_judgements", "0006_dragon_pool",
      "0007_drop_news_level", "0008_advice_report_code", "0009_monitor_stock_details",
      "0010_pool_seal_and_theme_cleanup", "0011_advice_marks_and_user_capital">>
HeadRevision == Len(RevisionId)

\* upgrade() of the n-th revision.
Upgraded(n, tables) ==
    CASE n = 1  -> Initial
      [] n = 2  -> OptionalColumns(tables)
      [] n = 3  -> MinuteAmountOptional(tables)
      [] n = 4  -> PoolQuantFields(tables)
      [] n = 5  -> CycleJudgements(tables)
      [] n = 6  -> DragonPool(tables)
      [] n = 7  -> DropNewsLevel(tables)
      [] n = 8  -> AdviceReportCode(tables)
      [] n = 9  -> MonitorStockDetails(tables)
      [] n = 10 -> PoolSealAndThemeCleanup(tables)
      [] OTHER  -> AdviceMarksAndUserCapital(tables)

\* The tables after every number of revisions.
SchemaAt[n \in 0 .. HeadRevision] == IF n = 0 THEN NoTables ELSE Upgraded(n, SchemaAt[n - 1])

-----------------------------------------------------------------------------
(* app/models. *)

DeclaredAuth ==
    [roles |-> Table(
        {"name", "label", "is_builtin", "created_at"}, {}, {}),
     users |-> Table(
        Stamped \cup {"username", "password_hash", "role", "enabled"},
        {"last_login_at", "capital_yuan"}, {{"username"}}),
     role_pages |-> Table(
        {"role", "page_key"}, {}, {{"role", "page_key"}}),
     invitations |-> Table(
        {"code", "role", "revoked", "created_at"}, {"expires_at", "used_by",
        "used_at"}, {{"code"}}),
     audit_logs |-> Table(
        {"ts", "action"}, {"actor", "target", "detail", "ip", "request_id"},
        {})]

DeclaredBars ==
    [stocks |-> Table(
        Sourced \cup {"code", "name", "market", "board", "is_st",
        "updated_at"}, {"list_date"}, {}),
     daily_bars |-> Table(
        Sourced \cup {"code", "trade_date", "open", "high", "low", "close",
        "volume_shares", "amount_yuan"}, {"pre_close"}, {{"code",
        "trade_date"}}),
     minute_bars |-> Table(
        Sourced \cup {"code", "trade_date", "minute_index", "time_label",
        "price", "volume_lots"}, {"amount_yuan"}, {{"code", "trade_date",
        "minute_index"}}),
     limit_up_pool |-> Table(
        Sourced \cup {"trade_date", "code", "name", "continue_days",
        "pool_type"}, {"limit_up_time", "seal_amount_yuan",
        "max_seal_amount_yuan", "open_times", "turnover_rate", "amount_yuan",
        "market_cap_yuan", "price", "change_pct", "volume_bias_ratio",
        "free_cap_yuan", "seal_ratio", "reason", "plates", "timeline"},
        {{"trade_date", "pool_type", "code"}})]

DeclaredDay ==
    [pool_snapshot |-> Table(
        Sourced \cup {"trade_date", "pool_name", "payload"}, {},
        {{"trade_date", "pool_name"}}),
     market_sentiment |-> Table(
        Sourced \cup {"trade_date", "temperature", "limit_up_count",
        "limit_down_count", "broken_board_count", "broken_rate", "up_count",
        "down_count", "premium_rate"}, {"stage", "max_continue_days"},
        {{"trade_date"}}),
     cycle_judgements |-> Table(
        Sourced \cup {"trade_date", "state", "reasons", "indicators",
        "overheated", "relaxed_needs_confirm", "data_degraded", "ran_at"},
        {"position_factor"}, {{"trade_date"}})]

DeclaredLists ==
    [news_flash |-> Table(
        Sourced \cup {"ts", "title", "symbols", "categories"}, {"summary"},
        {{"ts", "title"}}),
     themes |-> Table(
        Sourced \cup {"trade_date", "rank", "name"}, {"core_avg_pct",
        "description", "core_count"}, {{"trade_date", "name"}}),
     theme_stocks |-> Table(
        Sourced \cup {"trade_date", "theme_name", "code", "name", "price",
        "pct", "turnover_rate"}, {"continue_days"}, {{"trade_date",
        "theme_name", "code"}}),
     monitor_stocks |-> Table(
        Sourced \cup {"trade_date", "kind", "code", "name"}, {"reason",
        "start_date", "end_date", "notice_date", "info_code", "reason_type",
        "link_url"}, {{"trade_date", "kind", "code"}}),
     ladder_rows |-> Table(
        Sourced \cup {"trade_date", "code", "name", "continue_days"},
        {"first_seal_time"}, {{"trade_date", "code"}})]

DeclaredConfig ==
    [strategy_defs |-> Table(
        Stamped \cup {"strategy_id", "label", "version", "enabled",
        "params_schema", "gate_matrix"}, {"description"}, {}),
     strategy_configs |-> Table(
        {"strategy_id", "version", "status", "params", "created_at"}, {"note",
        "created_by"}, {{"strategy_id", "version"}}),
     factor_defs |-> Table(
        Stamped \cup {"factor_id", "label", "category", "params_schema",
        "enabled"}, {"description"}, {}),
     factor_configs |-> Table(
        {"factor_id", "version", "status", "params", "created_at"}, {"note",
        "created_by"}, {{"factor_id", "version"}}),
     datasource_registry |-> Table(
        Stamped \cup {"source_id", "label", "kind", "capabilities",
        "rate_limit_per_min", "enabled", "priority"}, {}, {}),
     datasource_health |-> Table(
        {"source_id", "capability", "ok", "checked_at"}, {"latency_ms",
        "detail"}, {})]

DeclaredAdvice ==
    [dragon_pool |-> Table(
        {"trade_date", "strategy_id", "code", "d_date", "boards", "ran_at",
        "created_at"}, {"name", "d_amp_pct", "shape_label"}, {}),
     advice_reports |-> Table(
        {"trade_date", "kind", "strategy_id", "payload", "ran_at",
        "created_at"}, {"code", "strategy_version"}, {{"trade_date", "kind",
        "strategy_id", "ran_at", "code"}}),
     advice_marks |-> Table(
        {"trade_date", "strategy_id", "code", "marked_at", "created_at"},
        {"marked_by"}, {{"trade_date", "strategy_id", "code"}})]

DeclaredRuns ==
    [backtest_runs |-> Table(
        {"run_id", "status", "start_date", "end_date", "strategies",
        "params"}, {"report", "error", "started_at", "finished_at",
        "created_by"}, {{"run_id"}}),
     ingest_jobs |-> Table(
        {"job_id", "capability", "source", "status", "rows", "attempts"},
        {"trade_date", "error", "started_at", "finished_at"}, {{"job_id"}}),
     agent_sessions |-> Table(
        Stamped \cup {"session_id", "user_id"}, {"title"}, {{"session_id"}}),
     agent_messages |-> Table(
        {"session_id", "role", "tokens", "created_at"}, {"content",
        "tool_calls"}, {}),
     agent_tool_calls |-> Table(
        {"session_id", "tool_name", "arguments", "ok", "denied",
        "created_at"}, {"result_summary", "duration_ms"}, {}),
     raw_responses |-> Table(
        {"source", "capability", "args_hash", "payload", "sha256",
        "fetched_at"}, {"trade_date", "http_status", "elapsed_ms"}, {})]

Declared ==
    Beside(DeclaredAuth, Beside(DeclaredBars, Beside(DeclaredDay, Beside(DeclaredLists,
        Beside(DeclaredConfig, Beside(DeclaredAdvice, DeclaredRuns))))))

Columns(tables, name) == tables[name].required \cup tables[name].optional

\* A program written for the tables in "used" finds its tables, its columns and the
\* keys of its upserts in the tables there are, and gives every column they require.
Serves(tables, used) ==
    \A name \in DOMAIN used :
        /\ name \in DOMAIN tables
        /\ Columns(used, name) \subseteq Columns(tables, name)
        /\ tables[name].required \subseteq Columns(used, name)
        /\ used[name].unique \subseteq tables[name].unique

\* The chain of revisions ends in what the models declare.
SchemaAssumption == SchemaAt[HeadRevision] = Declared

=============================================================================
