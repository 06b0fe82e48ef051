---------------------------- MODULE Releases ----------------------------
(***************************************************************************)
(* Releases over the schema: the operator's scripts (scripts/upgrade.sh,   *)
(* deploy.sh, restore.sh, and the rollback that upgrade.sh prints), the    *)
(* API container, which migrates before it serves, and the worker          *)
(* container, which does not wait for the API and creates the tables that  *)
(* it misses by itself (deploy/docker-compose.yml, _ensure_schema of       *)
(* app/ingest/scheduler.py).                                               *)
(*                                                                         *)
(* A release is known by the number of revisions it has.  An upgrade is    *)
(* one PostgreSQL transaction (alembic/env.py): it installs all missing    *)
(* revisions or none.  Alembic keeps the identifier of the last one in a   *)
(* column of VersionWidth characters.                                      *)
(***************************************************************************)
EXTENDS Schema, FiniteSets

CONSTANTS
    Release,        \* releases that are deployed
    VersionWidth    \* width of alembic_version.version_num

ASSUME ReleaseAssumption ==
    /\ Release \subseteq 1 .. HeadRevision /\ Release # {}
    /\ VersionWidth \in Nat

VARIABLES
    release,     \* the release that is checked out
    image,       \* the release of the image built last, 0 before the first
    installed,   \* revisions in the database
    early,       \* its tables that the worker created before their revision
    apiProc,     \* the API container: [of, at]
    workerOf,    \* the release of the worker container, 0 while it is down
    script,      \* where the operator's script is
    dump,        \* the backup at hand: [installed, early], or NoDump
    \* --- observability
    apart        \* the database was migrated or downgraded under containers

releaseVars ==
    <<release, image, installed, early, apiProc, workerOf, script, dump, apart>>

NoDump == [installed |-> -1, early |-> {}]

ReleaseInit ==
    /\ release \in Release /\ image = 0 /\ installed = 0 /\ early = {}
    /\ apiProc = [of |-> 0, at |-> "down"] /\ workerOf = 0
    /\ script = "idle" /\ dump = NoDump /\ apart = FALSE

-----------------------------------------------------------------------------
(* alembic. *)

\* The identifiers that the version column is given one after another.
Storable(from, to) == \A n \in from + 1 .. to : Len(RevisionId[n]) <= VersionWidth

\* The tables that the revisions after from up to to create.
Created(from, to) == DOMAIN SchemaAt[to] \ DOMAIN SchemaAt[from]

\* upgrade head of release r: fails for a revision that the release does not
\* know, for an identifier that is too long, and for a table that is there.
CanUpgrade(r) ==
    /\ installed <= r
    /\ Storable(installed, r)
    /\ early \cap Created(installed, r) = {}

-----------------------------------------------------------------------------
(* The operator. *)

Stepping(to) == script' = to

\* git pull or checkout, then build; deploy.sh goes on without a migration.
BeginScript(kind) ==
    /\ script \in {"idle", "failed"}
    /\ release' \in Release
    /\ image' = release'
    /\ Stepping(kind)
    /\ UNCHANGED <<installed, early, apiProc, workerOf, dump, apart>>

Migrate ==
    /\ script = "upgrade"
    /\ IF CanUpgrade(image)
       THEN /\ installed' = image
            /\ apart' = (apart \/ installed # image)
            /\ Stepping("migrated")
       ELSE Stepping("failed") /\ UNCHANGED <<installed, apart>>
    /\ UNCHANGED <<release, image, early, apiProc, workerOf, dump>>

\* up -d: containers that are down or of another image are created anew.
Up ==
    /\ script \in {"deploy", "migrated", "restored"}
    /\ IF apiProc.of = image /\ apiProc.at # "down"
       THEN UNCHANGED <<apiProc, apart>>
       ELSE apiProc' = [of |-> image, at |-> "starting"] /\ apart' = FALSE
    /\ workerOf' = image
    /\ Stepping("waiting")
    /\ UNCHANGED <<release, image, installed, early, dump>>

WaitReady ==
    /\ script = "waiting"
    /\ \/ apiProc.at = "serving" /\ Stepping("idle")
       \/ apiProc.at # "serving" /\ Stepping("failed")
    /\ UNCHANGED <<release, image, installed, early, apiProc, workerOf, dump, apart>>

\* The script is stopped, or docker or a build fails.
StopScript ==
    /\ script \notin {"idle", "failed"}
    /\ Stepping("failed")
    /\ UNCHANGED <<release, image, installed, early, apiProc, workerOf, dump, apart>>

\* downgrade -1, which needs an image that knows the revision.
Downgrade ==
    /\ script = "failed" /\ installed \in 1 .. image
    /\ installed' = installed - 1
    /\ apart' = TRUE
    /\ UNCHANGED <<release, image, early, apiProc, workerOf, script, dump>>

Backup ==
    /\ script = "idle" /\ image > 0
    /\ dump' = [installed |-> installed, early |-> early]
    /\ UNCHANGED <<release, image, installed, early, apiProc, workerOf, script, apart>>

\* restore.sh stops both containers before it replaces the database.
Restore ==
    /\ script \in {"idle", "failed"} /\ dump # NoDump
    /\ apiProc' = [apiProc EXCEPT !.at = "down"] /\ workerOf' = 0
    /\ installed' = dump.installed /\ early' = dump.early
    /\ Stepping("restored")
    /\ UNCHANGED <<release, image, dump, apart>>

-----------------------------------------------------------------------------
(* The containers. *)

\* Faulty variant: "alembic upgrade head; uvicorn".
MayServeAnyhow == TRUE

\* "alembic upgrade head && exec uvicorn".
MayServe == CanUpgrade(apiProc.of)

\* A start that fails is repeated (restart: unless-stopped).
StartServing ==
    /\ apiProc.at = "starting" /\ MayServe
    /\ apiProc' = [apiProc EXCEPT !.at = "serving"]
    /\ installed' = IF CanUpgrade(apiProc.of) THEN apiProc.of ELSE installed
    /\ UNCHANGED <<release, image, early, workerOf, script, dump, apart>>

ApiFails ==
    /\ apiProc.at = "serving"
    /\ apiProc' = [apiProc EXCEPT !.at = "starting"]
    /\ UNCHANGED <<release, image, installed, early, workerOf, script, dump, apart>>

\* Every start of the worker: create_all of the tables that are not there.
EnsureSchema ==
    /\ workerOf # 0
    /\ early' = early \cup Created(installed, workerOf)
    /\ UNCHANGED <<release, image, installed, apiProc, workerOf, script, dump, apart>>

ReleaseNext ==
    \/ BeginScript("upgrade") \/ BeginScript("deploy") \/ Migrate \/ Up \/ WaitReady
    \/ StopScript \/ Downgrade \/ Backup \/ Restore
    \/ StartServing \/ ApiFails \/ EnsureSchema

ReleaseSpec == ReleaseInit /\ [][ReleaseNext]_releaseVars

-----------------------------------------------------------------------------
\* No revision drops a table.
TableName == DOMAIN SchemaAt[HeadRevision]

ReleaseTypeOK ==
    /\ release \in Release /\ image \in Release \cup {0}
    /\ installed \in 0 .. HeadRevision /\ early \subseteq TableName
    /\ dump = NoDump \/ dump \in [installed : 0 .. HeadRevision, early : SUBSET TableName]
    /\ apiProc.of \in Release \cup {0} /\ apiProc.at \in {"down", "starting", "serving"}
    /\ workerOf \in Release \cup {0}
    /\ script \in {"idle", "upgrade", "deploy", "migrated", "restored", "waiting", "failed"}
    /\ apart \in BOOLEAN

\* Revisions under which programs of earlier releases do not work on: they drop a
\* column or replace the key of an upsert.
Breaking == {7, 8, 10}

\* docker-compose.yml:94, upgrade.sh:26-30: while the API serves, it and the worker
\* find the columns and keys they use.  Only between a migration or downgrade and
\* the restart of the containers may that fail, and a migration takes it from them
\* only by one of the breaking revisions.
ServedTablesFit ==
    apiProc.at = "serving" =>
        \A r \in {apiProc.of, workerOf} \ {0} :
            \/ Serves(SchemaAt[installed], SchemaAt[r])
            \/ apart /\ (installed < r \/ \E n \in Breaking : n \in r + 1 .. installed)
=============================================================================
