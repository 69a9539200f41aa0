-------------------------------- MODULE Startup --------------------------------
(***************************************************************************)
(* The life of the API process: the container command that migrates and    *)
(* then serves, the application factory and the lifespan that build the    *)
(* container, check the schema against the configuration (ADR-0004) and    *)
(* release everything at the end, and the schema the migrations build.     *)
(* The database may be unreachable at any moment, another replica or an    *)
(* operator may migrate it up or down with any language in between, a      *)
(* shutdown may be cancelled and the process may be killed.                *)
(***************************************************************************)
EXTENDS Integers, Sequences

CONSTANTS
    Languages,    \* values of KA_FTS_LANGUAGE, "english" among them
    MaxCancels    \* bound: how often one shutdown is cancelled

ASSUME LanguagesAssumption == "english" \in Languages /\ "none" \notin Languages
ASSUME CancelsAssumption == MaxCancels \in Nat

VARIABLES
    stage,      \* where the process is
    config,     \* its language, whether OTel is on, and what is wrong with the rest
    schema,     \* the database: its revision, the language of chunks.tsv, schema_meta
    seen,       \* the revision that alembic found before it began to upgrade
    dbUp,       \* the database can be reached
    resources,  \* what became of each long-lived resource
    telemetry,  \* what became of each part of OpenTelemetry
    closing,    \* the index of the resource being closed
    cancels     \* how often this shutdown has been cancelled

vars == <<stage, config, schema, seen, dbUp, resources, telemetry, closing, cancels>>

\* In the order _close_resources closes them.
Resources == <<"embedding_http_client", "llm_http_client", "engine">>
ResourceNames == {Resources[i] : i \in DOMAIN Resources}

\* In the order TelemetryRuntime.shutdown takes them down.
Parts == <<"fastapi", "httpx", "sqlalchemy", "meter", "tracer">>
PartNames == {Parts[i] : i \in DOMAIN Parts}

Head4 == 4
Stages == {"stopped", "migrating", "upgrading", "loading", "building", "checking",
           "serving", "closing", "flushing"}

-----------------------------------------------------------------------------
(* The configuration.  0 is an unset dimension; the flags say whether a     *)
(* value is there and can be used.                                          *)

Providers == {"ollama", "openai"}

Environments ==
    [language : Languages, otel : BOOLEAN, otlp_endpoint : BOOLEAN,
     max_chars : {1, 2}, overlap : {0, 1, 2}, fetch_limit : {1, 2}, top_k : {1, 2},
     embedding_provider : Providers, embedding_api_key : BOOLEAN, dimension : {0, 768, 1536},
     llm_provider : Providers, llm_api_key : BOOLEAN,
     database_url : BOOLEAN, embedding_base_url : BOOLEAN]

\* Settings: the limits that go together.
ValidSettings(env) ==
    /\ env.overlap < env.max_chars
    /\ env.fetch_limit >= env.top_k
    /\ env.otel => env.otlp_endpoint

SchemaEmbeddingDimension == 768

\* What is not set comes from the provider.
Dimension(env) ==
    IF env.dimension # 0 THEN env.dimension
    ELSE IF env.embedding_provider = "ollama" THEN 768 ELSE 1536

\* What build_container looks at before it opens anything (ADR-0001).
PassesGuards(env) ==
    /\ env.embedding_provider = "openai" => env.embedding_api_key
    /\ Dimension(env) = SchemaEmbeddingDimension
    /\ env.llm_provider = "openai" => env.llm_api_key

Faults == {"none", "settings", "guards", "database_url", "embedding_base_url"}

\* The first thing wrong, in the order in which the boot meets it.
FaultOf(env) ==
    IF ~ValidSettings(env) THEN "settings"
    ELSE IF ~PassesGuards(env) THEN "guards"
    ELSE IF ~env.database_url THEN "database_url"
    ELSE IF ~env.embedding_base_url THEN "embedding_base_url" ELSE "none"

Configurations ==
    {[language |-> env.language, otel |-> env.otel, fault |-> FaultOf(env)] :
        env \in Environments}

Init ==
    /\ stage = "stopped"
    /\ config \in Configurations
    /\ schema = [revision |-> 0, tsv |-> "none", meta |-> "none"]
    /\ seen = 0
    /\ dbUp = TRUE
    /\ resources = [r \in ResourceNames |-> "none"]
    /\ telemetry = [p \in PartNames |-> "off"]
    /\ closing = 0
    /\ cancels = 0

-----------------------------------------------------------------------------
(* The migrations.  "none" is a column or a table that does not exist.      *)

\* 0001 creates the tables with an English tsv column.
CreateKnowledgeBase(s) == [s EXCEPT !.tsv = "english"]
DropKnowledgeBase(s) == [s EXCEPT !.tsv = "none"]

\* 0003 drops the column and generates it again for the language.
RecreateTsv(s, language) == [s EXCEPT !.tsv = language]

\* 0004 records the language it reads off the column's expression.
RecordLanguage(s) == [s EXCEPT !.meta = s.tsv]
DropMeta(s) == [s EXCEPT !.meta = "none"]

\* 0002 adds the content hash, which nothing here looks at.
Upgrade(s, n, language) ==
    [CASE n = 1 -> CreateKnowledgeBase(s)
       [] n = 2 -> s
       [] n = 3 -> RecreateTsv(s, language)
       [] n = 4 -> RecordLanguage(s)
     EXCEPT !.revision = n]

\* Undoing revision n, the current one.
Downgrade(s, n) ==
    [CASE n = 1 -> DropKnowledgeBase(s)
       [] n = 2 -> s
       [] n = 3 -> RecreateTsv(s, "english")
       [] n = 4 -> DropMeta(s)
     EXCEPT !.revision = n - 1]

\* alembic upgrade: the pending migrations in order, in one transaction.
UpgradeTo(s, target, language) ==
    LET Pending(t, n) ==
            IF t.revision < n /\ n <= target THEN Upgrade(t, n, language) ELSE t
    IN  Pending(Pending(Pending(Pending(s, 1), 2), 3), 4)

-----------------------------------------------------------------------------
(* The process.                                                            *)

\* "alembic upgrade head && exec uvicorn" in the image, uvicorn alone elsewhere.
Start ==
    /\ stage = "stopped"
    /\ stage' \in {"migrating", "loading"}
    /\ config' \in Configurations
    /\ resources' = [r \in ResourceNames |-> "none"]
    /\ telemetry' = [p \in PartNames |-> "off"]
    /\ cancels' = 0
    /\ UNCHANGED <<schema, seen, dbUp, closing>>

\* The environment that has something wrong may fail the migrations too: they
\* read the language and the URL from it.
MigrationMayFail == ~dbUp \/ config.fault # "none"

ReadRevision ==
    /\ stage = "migrating"
    /\ \/ dbUp /\ stage' = "upgrading" /\ seen' = schema.revision
       \/ MigrationMayFail /\ stage' = "stopped" /\ UNCHANGED seen
    /\ UNCHANGED <<config, schema, dbUp, resources, telemetry, closing, cancels>>

\* A plausible slip: migrating an up-to-date schema is an error.
ApplyMigrationsOnce ==
    /\ stage = "upgrading"
    /\ \/ /\ dbUp /\ seen < Head4 /\ seen = schema.revision
          /\ schema' = UpgradeTo(schema, Head4, config.language)
          /\ stage' = "loading"
       \/ /\ MigrationMayFail \/ seen \in {schema.revision, Head4}
          /\ stage' = "stopped" /\ UNCHANGED schema
    /\ seen' = 0
    /\ UNCHANGED <<config, dbUp, resources, telemetry, closing, cancels>>

\* A plausible slip: the revisions after the one seen are applied to whatever
\* the schema has become.
ApplyMigrationsBlindly ==
    /\ stage = "upgrading"
    /\ \/ /\ dbUp
          /\ schema' = UpgradeTo([schema EXCEPT !.revision = seen], Head4, config.language)
          /\ stage' = "loading"
       \/ MigrationMayFail /\ stage' = "stopped" /\ UNCHANGED schema
    /\ seen' = 0
    /\ UNCHANGED <<config, dbUp, resources, telemetry, closing, cancels>>

\* The pending revisions in one transaction.  Alembic moves alembic_version
\* from the revision it saw: when another migration has moved it since, no row
\* matches (or the DDL collides), it raises, and everything is rolled back.
ApplyMigrations ==
    /\ stage = "upgrading"
    /\ \/ /\ dbUp /\ seen \in {schema.revision, Head4}
          /\ schema' = IF seen = Head4 THEN schema
                       ELSE UpgradeTo(schema, Head4, config.language)
          /\ stage' = "loading"
       \/ /\ MigrationMayFail \/ seen \notin {schema.revision, Head4}
          /\ stage' = "stopped" /\ UNCHANGED schema
    /\ seen' = 0
    /\ UNCHANGED <<config, dbUp, resources, telemetry, closing, cancels>>

Configured == PartNames \ {"sqlalchemy"}

\* create_app: settings, then the OTel providers and instrumentors, if on.
CreateApp ==
    /\ stage = "loading"
    /\ \/ config.fault = "settings" /\ stage' = "stopped" /\ UNCHANGED telemetry
       \/ /\ config.fault # "settings"
          /\ telemetry' = [p \in PartNames |->
                 IF config.otel /\ p \in Configured THEN "on" ELSE "off"]
          /\ stage' = "building"
    /\ UNCHANGED <<config, schema, seen, dbUp, resources, closing, cancels>>

\* What build_container creates before it meets the fault: first the LLM client,
\* then the engine, then the embedding client.
BuiltBefore(fault) ==
    CASE fault = "none" -> ResourceNames
      [] fault = "embedding_base_url" -> {"llm_http_client", "engine"}
      [] fault = "database_url" -> {"llm_http_client"}
      [] OTHER -> {}

\* A resource is idle until it is first used: it holds no connection.
Build ==
    /\ stage = "building"
    /\ resources' = [r \in ResourceNames |->
           IF r \in BuiltBefore(config.fault) THEN "idle" ELSE "none"]
    /\ \/ /\ config.fault = "none"
          /\ telemetry' =
                 [telemetry EXCEPT !["sqlalchemy"] = IF config.otel THEN "on" ELSE "off"]
          /\ stage' = "checking"
       \/ config.fault # "none" /\ stage' = "flushing" /\ UNCHANGED telemetry
    /\ UNCHANGED <<config, schema, seen, dbUp, closing, cancels>>

Refuse == stage' = "closing" /\ closing' = 1
Serve == stage' = "serving" /\ UNCHANGED closing

\* What the driver raises when the database cannot be reached: a refused
\* connection escapes SQLAlchemy as a bare OSError (session.py:35-38).
UnreachableErrors == {"OSError", "OperationalError"}

\* The parity query opens a connection if it can; it stays in the pool.
Connect == resources' = [resources EXCEPT !["engine"] = IF dbUp THEN "open" ELSE @]

\* A plausible slip: a refused boot leaves the container as it is.
CheckParityNoFinally ==
    /\ stage = "checking"
    /\ Connect
    /\ \/ dbUp /\ schema.meta = config.language /\ Serve
       \/ dbUp /\ schema.meta # config.language /\ stage' = "flushing" /\ UNCHANGED closing
       \/ ~dbUp /\ \E exc \in UnreachableErrors :
              IF exc = "OperationalError" THEN Serve ELSE Refuse
    /\ UNCHANGED <<config, schema, seen, dbUp, telemetry, cancels>>

\* A plausible slip: the table is there: that is all the guard looks at.
CheckParityTableOnly ==
    /\ stage = "checking"
    /\ Connect
    /\ \/ dbUp /\ schema.meta # "none" /\ Serve
       \/ dbUp /\ schema.meta = "none" /\ Refuse
       \/ ~dbUp /\ \E exc \in UnreachableErrors :
              IF exc = "OperationalError" THEN Serve ELSE Refuse
    /\ UNCHANGED <<config, schema, seen, dbUp, telemetry, cancels>>

CheckParity ==
    /\ stage = "checking"
    /\ Connect
    /\ \/ dbUp /\ schema.meta = config.language /\ Serve
       \/ dbUp /\ schema.meta # config.language /\ Refuse
       \/ ~dbUp /\ \E exc \in UnreachableErrors :
              IF exc = "OperationalError" THEN Serve ELSE Refuse
    /\ UNCHANGED <<config, schema, seen, dbUp, telemetry, cancels>>

\* A request makes a resource open connections (see Service).
Use(r) ==
    /\ stage = "serving" /\ resources[r] = "idle"
    /\ resources' = [resources EXCEPT ![r] = "open"]
    /\ UNCHANGED <<stage, config, schema, seen, dbUp, telemetry, closing, cancels>>

Shutdown ==
    /\ stage = "serving"
    /\ Refuse
    /\ UNCHANGED <<config, schema, seen, dbUp, resources, telemetry, cancels>>

\* One resource closes, or its close fails, and the next is tried.
Close ==
    /\ stage = "closing" /\ closing \in DOMAIN Resources
    /\ \E outcome \in {"closed", "failed"} :
           resources' = [resources EXCEPT ![Resources[closing]] = outcome]
    /\ closing' = closing + 1
    /\ UNCHANGED <<stage, config, schema, seen, dbUp, telemetry, cancels>>

\* A plausible slip: telemetry is flushed after aclose, not in a finally.
ClosedThenFlush ==
    /\ stage = "closing" /\ closing \notin DOMAIN Resources
    /\ stage' = IF \A r \in ResourceNames : resources[r] = "closed"
                THEN "flushing" ELSE "stopped"
    /\ closing' = 0
    /\ UNCHANGED <<config, schema, seen, dbUp, resources, telemetry, cancels>>

\* aclose returns, raises its failures as a group or raises the cancellation;
\* the finally around it goes on in any case.
Closed ==
    /\ stage = "closing" /\ closing \notin DOMAIN Resources
    /\ stage' = "flushing"
    /\ closing' = 0
    /\ UNCHANGED <<config, schema, seen, dbUp, resources, telemetry, cancels>>

\* In a thread, part by part, those that are on; the first that raises ends it.
Flush ==
    /\ stage = "flushing"
    /\ \E raising \in {i \in DOMAIN Parts : telemetry[Parts[i]] = "on"} \cup {Len(Parts) + 1} :
           telemetry' = [p \in PartNames |->
               IF telemetry[p] = "off" THEN "off"
               ELSE IF \E i \in 1 .. raising - 1 : Parts[i] = p THEN "down"
               ELSE IF \E i \in {raising} \cap DOMAIN Parts : Parts[i] = p THEN "failed"
               ELSE "skipped"]
    /\ stage' = "stopped"
    /\ UNCHANGED <<config, schema, seen, dbUp, resources, closing, cancels>>

\* The first cancellation hits the shield; aclose then awaits the close task
\* itself, so a later one reaches the close that is running.
CancelClose ==
    /\ stage = "closing" /\ closing \in DOMAIN Resources
    /\ cancels < MaxCancels
    /\ cancels' = cancels + 1
    /\ \/ cancels = 0 /\ UNCHANGED <<resources, closing>>
       \/ /\ cancels > 0
          /\ resources' = [resources EXCEPT ![Resources[closing]] = "interrupted"]
          /\ closing' = closing + 1
    /\ UNCHANGED <<stage, config, schema, seen, dbUp, telemetry>>

\* A cancellation that comes before the thread has begun keeps it from running.
CancelFlush ==
    /\ stage = "flushing"
    /\ cancels < MaxCancels
    /\ cancels' = cancels + 1
    /\ telemetry' = [p \in PartNames |-> IF telemetry[p] = "on" THEN "skipped" ELSE "off"]
    /\ stage' = "stopped"
    /\ UNCHANGED <<config, schema, seen, dbUp, resources, closing>>

\* SIGKILL: the operating system takes everything back.
Kill ==
    /\ stage # "stopped"
    /\ stage' = "stopped"
    /\ resources' = [r \in ResourceNames |-> "none"]
    /\ telemetry' = [p \in PartNames |-> "off"]
    /\ seen' = 0 /\ closing' = 0 /\ cancels' = 0
    /\ UNCHANGED <<config, schema, dbUp>>

-----------------------------------------------------------------------------
(* The environment.                                                        *)

Outage ==
    /\ dbUp' = ~dbUp
    /\ UNCHANGED <<stage, config, schema, seen, resources, telemetry, closing, cancels>>

\* alembic upgrade from another replica or a shell, alembic downgrade by one.
OtherMigrates ==
    /\ dbUp
    /\ \/ \E target \in schema.revision + 1 .. Head4, language \in Languages :
              schema' = UpgradeTo(schema, target, language)
       \/ schema.revision > 0 /\ schema' = Downgrade(schema, schema.revision)
    /\ UNCHANGED <<stage, config, seen, dbUp, resources, telemetry, closing, cancels>>

Process ==
    \/ Start \/ ReadRevision \/ ApplyMigrations \/ CreateApp \/ Build \/ CheckParity
    \/ Close \/ Closed \/ Flush

Next ==
    \/ Process \/ Shutdown \/ CancelClose \/ CancelFlush \/ Kill \/ Outage \/ OtherMigrates
    \/ \E r \in ResourceNames : Use(r)

Spec == Init /\ [][Next]_vars

\* docker-compose restarts the process (restart: unless-stopped) and every
\* step of it returns.
FairSpec == Spec /\ WF_vars(Process)

-----------------------------------------------------------------------------
\* The type invariant.
TypeOK ==
    /\ stage \in Stages
    /\ config \in [language : Languages, otel : BOOLEAN, fault : Faults]
    /\ schema \in [revision : 0 .. Head4, tsv : Languages \cup {"none"},
                   meta : Languages \cup {"none"}]
    /\ seen \in 0 .. Head4
    /\ dbUp \in BOOLEAN
    /\ resources \in [ResourceNames ->
           {"none", "idle", "open", "closed", "failed", "interrupted"}]
    /\ telemetry \in [PartNames -> {"off", "on", "down", "failed", "skipped"}]
    /\ closing \in 0 .. Len(Resources) + 1
    /\ cancels \in 0 .. MaxCancels

\* Through every race of migrations, up and down and with any languages, the
\* schema is that of its revision: the tables exist from 0001 on, the column
\* is English before 0003, and schema_meta exists exactly at head and
\* describes the column as it is (ADR-0004).
SchemaMatchesRevision ==
    /\ schema.tsv # "none" <=> schema.revision >= 1
    /\ schema.revision \in {1, 2} => schema.tsv = "english"
    /\ schema.meta = IF schema.revision = Head4 THEN schema.tsv ELSE "none"

\* When the database answers the parity check, the process starts serving only
\* on a migrated schema whose text search speaks the configured language.
ServesOnlyItsLanguage ==
    [][stage = "checking" /\ dbUp /\ stage' = "serving" =>
           schema.revision = Head4 /\ schema.tsv = config.language]_vars

\* However a process ends, by a fault in its configuration, a refused boot, a
\* shutdown or a cancelled one, no resource that was used is left open without
\* an attempt to close it.
NothingLeftOpen ==
    stage = "stopped" => \A r \in ResourceNames : resources[r] # "open"

\* When a process ends, whatever part of its telemetry is still on is taken down,
\* the exporters last, also after a refused boot, a close that failed and one
\* that was cancelled.  Only three things cut this short: a part that raises
\* costs itself and the parts after it, a cancellation that arrives before the
\* thread begins costs all of them, and so does a SIGKILL.  (docs/07-observability.md:62-63
\* promises a flush at every graceful shutdown, without the first two.)
FlushedUnlessCutShort ==
    [][stage # "stopped" /\ stage' = "stopped" =>
           \/ Kill
           \/ stage = "flushing" /\ cancels' > cancels
           \/ \A i \in DOMAIN Parts : telemetry[Parts[i]] = "on" =>
                  \/ telemetry'[Parts[i]] = "down"
                  \/ \E j \in 1 .. i : telemetry'[Parts[j]] = "failed"]_vars

\* Once the database stays reachable and the configuration right for it, and
\* nobody kills it, the process, restarted as often as it stops, serves again
\* and again.
ServesInTheEnd ==
    (/\ <>[](/\ dbUp /\ config.fault = "none"
             /\ schema.tsv = config.language /\ schema.revision = Head4)
     /\ <>[][~Kill]_vars)
        => []<>(stage = "serving")

\* schema_meta.py:15-17: with the database unreachable, warn and boot anyway.
OutageDoesNotStopBoot ==
    [][stage = "checking" /\ ~dbUp /\ stage' \in {"serving", "closing"} =>
           stage' = "serving"]_vars
=============================================================================
