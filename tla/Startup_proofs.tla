---------------------------- MODULE Startup_proofs ----------------------------
(***************************************************************************)
(* What the boot promises whatever the languages are and however often a   *)
(* shutdown is cancelled.  The invariant says what each stage knows of the *)
(* resources and of telemetry; the schema is taken through one migration   *)
(* at a time.                                                              *)
(***************************************************************************)
EXTENDS Startup, TLAPS

-----------------------------------------------------------------------------
(* The migrations.                                                          *)

Schemas ==
    [revision : 0 .. Head4, tsv : Languages \cup {"none"}, meta : Languages \cup {"none"}]

\* The schema is that of its revision.
Matches(s) ==
    /\ s.tsv # "none" <=> s.revision >= 1
    /\ s.revision \in {1, 2} => s.tsv = "english"
    /\ s.meta = IF s.revision = Head4 THEN s.tsv ELSE "none"

\* One migration up takes a schema that matches to the next that does.
LEMMA UpgradeMatches ==
    ASSUME NEW s \in Schemas, Matches(s), NEW n \in 1 .. Head4, s.revision = n - 1,
           NEW language \in Languages
    PROVE  /\ Upgrade(s, n, language) \in Schemas
           /\ Matches(Upgrade(s, n, language))
           /\ Upgrade(s, n, language).revision = n
           /\ n >= 3 => Upgrade(s, n, language).tsv = IF n = 3 THEN language ELSE s.tsv
  <1> DEFINE u == Upgrade(s, n, language)
  <1>0. /\ s = [revision |-> s.revision, tsv |-> s.tsv, meta |-> s.meta]
        /\ s.tsv \in Languages \cup {"none"} /\ s.meta \in Languages \cup {"none"}
    BY DEF Schemas
  <1>1. CASE n = 1
    <2>0. CreateKnowledgeBase(s) = [revision |-> s.revision, tsv |-> "english", meta |-> s.meta]
      BY <1>0 DEF CreateKnowledgeBase
    <2>1. u = [revision |-> 1, tsv |-> "english", meta |-> s.meta]
      BY <1>1, <2>0 DEF Upgrade
    <2>. QED
      BY <1>0, <1>1, <2>1, LanguagesAssumption DEF Schemas, Matches, Head4
  <1>2. CASE n = 2
    <2>1. u = [revision |-> 2, tsv |-> s.tsv, meta |-> s.meta]
      BY <1>0, <1>2 DEF Upgrade
    <2>. QED
      BY <1>0, <1>2, <2>1 DEF Schemas, Matches, Head4
  <1>3. CASE n = 3
    <2>0. RecreateTsv(s, language) = [revision |-> s.revision, tsv |-> language, meta |-> s.meta]
      BY <1>0 DEF RecreateTsv
    <2>1. u = [revision |-> 3, tsv |-> language, meta |-> s.meta]
      BY <1>3, <2>0 DEF Upgrade
    <2>. QED
      BY <1>0, <1>3, <2>1, LanguagesAssumption DEF Schemas, Matches, Head4
  <1>4. CASE n = 4
    <2>0. RecordLanguage(s) = [revision |-> s.revision, tsv |-> s.tsv, meta |-> s.tsv]
      BY <1>0 DEF RecordLanguage
    <2>1. u = [revision |-> 4, tsv |-> s.tsv, meta |-> s.tsv]
      BY <1>4, <2>0 DEF Upgrade
    <2>. QED
      BY <1>0, <1>4, <2>1 DEF Schemas, Matches, Head4
  <1>. QED
    BY <1>1, <1>2, <1>3, <1>4 DEF Head4

\* So does one migration down.
LEMMA DowngradeMatches ==
    ASSUME NEW s \in Schemas, Matches(s), s.revision > 0
    PROVE  Downgrade(s, s.revision) \in Schemas /\ Matches(Downgrade(s, s.revision))
  <1> DEFINE d == Downgrade(s, s.revision)
  <1>0. /\ s = [revision |-> s.revision, tsv |-> s.tsv, meta |-> s.meta]
        /\ s.tsv \in Languages \cup {"none"} /\ s.meta \in Languages \cup {"none"}
        /\ s.revision \in 1 .. 4
    BY DEF Schemas, Head4
  <1>1. CASE s.revision = 1
    <2>0. DropKnowledgeBase(s) = [revision |-> s.revision, tsv |-> "none", meta |-> s.meta]
      BY <1>0 DEF DropKnowledgeBase
    <2>1. d = [revision |-> 0, tsv |-> "none", meta |-> s.meta]
      BY <1>1, <2>0 DEF Downgrade
    <2>. QED
      BY <1>0, <1>1, <2>1 DEF Schemas, Matches, Head4
  <1>2. CASE s.revision = 2
    <2>1. d = [revision |-> 1, tsv |-> s.tsv, meta |-> s.meta]
      BY <1>0, <1>2 DEF Downgrade
    <2>. QED
      BY <1>0, <1>2, <2>1 DEF Schemas, Matches, Head4
  <1>3. CASE s.revision = 3
    <2>0. RecreateTsv(s, "english") =
              [revision |-> s.revision, tsv |-> "english", meta |-> s.meta]
      BY <1>0 DEF RecreateTsv
    <2>1. d = [revision |-> 2, tsv |-> "english", meta |-> s.meta]
      BY <1>3, <2>0 DEF Downgrade
    <2>. QED
      BY <1>0, <1>3, <2>1, LanguagesAssumption DEF Schemas, Matches, Head4
  <1>4. CASE s.revision = 4
    <2>0. DropMeta(s) = [revision |-> s.revision, tsv |-> s.tsv, meta |-> "none"]
      BY <1>0 DEF DropMeta
    <2>1. d = [revision |-> 3, tsv |-> s.tsv, meta |-> "none"]
      BY <1>4, <2>0 DEF Downgrade
    <2>. QED
      BY <1>0, <1>4, <2>1 DEF Schemas, Matches, Head4
  <1>. QED
    BY <1>0, <1>1, <1>2, <1>3, <1>4

\* The pending migrations in order: the schema matches after each of them.
LEMMA UpgradeToMatches ==
    ASSUME NEW s \in Schemas, Matches(s), NEW target \in 0 .. Head4, NEW language \in Languages
    PROVE  UpgradeTo(s, target, language) \in Schemas /\ Matches(UpgradeTo(s, target, language))
  <1> DEFINE Pending(t, n) ==
                IF t.revision < n /\ n <= target THEN Upgrade(t, n, language) ELSE t
  <1>1. ASSUME NEW t \in Schemas, Matches(t), NEW n \in 1 .. Head4,
               t.revision >= n - 1 \/ n > target
        PROVE  /\ Pending(t, n) \in Schemas /\ Matches(Pending(t, n))
               /\ Pending(t, n).revision >= n \/ n + 1 > target
    <2>1. CASE t.revision < n /\ n <= target
      <3>1. t.revision = n - 1
        BY <1>1, <2>1 DEF Schemas, Head4
      <3>. QED
        BY <1>1, <2>1, <3>1, UpgradeMatches DEF Head4
    <2>2. CASE ~(t.revision < n /\ n <= target)
      BY <1>1, <2>2 DEF Schemas, Head4
    <2>. QED
      BY <2>1, <2>2
  <1>2. s.revision >= 0
    BY DEF Schemas
  <1> HIDE DEF Pending
  <1> DEFINE s1 == Pending(s, 1)
             s2 == Pending(s1, 2)
             s3 == Pending(s2, 3)
             s4 == Pending(s3, 4)
  <1>3. s1 \in Schemas /\ Matches(s1) /\ (s1.revision >= 1 \/ 2 > target)
    BY <1>1, <1>2 DEF Head4
  <1>4. s2 \in Schemas /\ Matches(s2) /\ (s2.revision >= 2 \/ 3 > target)
    BY <1>1, <1>3 DEF Head4
  <1>5. s3 \in Schemas /\ Matches(s3) /\ (s3.revision >= 3 \/ 4 > target)
    BY <1>1, <1>4 DEF Head4
  <1>6. s4 \in Schemas /\ Matches(s4)
    BY <1>1, <1>5 DEF Head4
  <1>7. s4 = UpgradeTo(s, target, language)
    BY DEF UpgradeTo, Pending
  <1>. QED
    BY <1>6, <1>7

-----------------------------------------------------------------------------
(* The inductive invariant.                                                 *)

\* A resource is open, and a part of telemetry on, only while the process is
\* in the stages that take them down afterwards; what is before the index that
\* closes has been taken down.
Running ==
    /\ stage \notin {"checking", "serving", "closing"} =>
           \A r \in ResourceNames : resources[r] # "open"
    /\ stage = "closing" =>
           \A i \in DOMAIN Resources : i < closing => resources[Resources[i]] # "open"
    /\ stage \in {"stopped", "migrating", "upgrading", "loading"} =>
           \A p \in PartNames : telemetry[p] # "on"

\* alembic has seen a revision, and only a shutdown has an index.
Indices ==
    /\ stage = "closing" => closing \in 1 .. 4
    /\ stage # "closing" => closing = 0

IInv == TypeOK /\ SchemaMatchesRevision /\ Running /\ Indices

\* The names, one by one.
LEMMA Names ==
    /\ ResourceNames = {"embedding_http_client", "llm_http_client", "engine"}
    /\ DOMAIN Resources = 1 .. 3 /\ Len(Resources) = 3
    /\ \A i \in 1 .. 3 : Resources[i] \in ResourceNames
    /\ \A r \in ResourceNames : \E i \in 1 .. 3 : Resources[i] = r
    /\ PartNames = {"fastapi", "httpx", "sqlalchemy", "meter", "tracer"}
    /\ DOMAIN Parts = 1 .. 5 /\ Len(Parts) = 5
    /\ \A i \in 1 .. 5 : Parts[i] \in PartNames
  <1>1. DOMAIN Resources = 1 .. 3 /\ Len(Resources) = 3
    BY DEF Resources
  <1>2. /\ Resources[1] = "embedding_http_client" /\ Resources[2] = "llm_http_client"
        /\ Resources[3] = "engine"
    BY DEF Resources
  <1>3. DOMAIN Parts = 1 .. 5 /\ Len(Parts) = 5
    BY DEF Parts
  <1>4. /\ Parts[1] = "fastapi" /\ Parts[2] = "httpx" /\ Parts[3] = "sqlalchemy"
        /\ Parts[4] = "meter" /\ Parts[5] = "tracer"
    BY DEF Parts
  <1>5. ResourceNames = {"embedding_http_client", "llm_http_client", "engine"}
    BY <1>1, <1>2 DEF ResourceNames
  <1>6. PartNames = {"fastapi", "httpx", "sqlalchemy", "meter", "tracer"}
    BY <1>3, <1>4 DEF PartNames
  <1>. QED
    BY <1>1, <1>2, <1>3, <1>4, <1>5, <1>6

\* Every configuration the environment can give has one of the faults.
LEMMA ConfigurationTypes ==
    ASSUME NEW c \in Configurations
    PROVE  c \in [language : Languages, otel : BOOLEAN, fault : Faults]
  BY DEF Configurations, Environments, FaultOf, Faults

\* At first the process is stopped and the database empty.
LEMMA InitInv == Init => IInv
  BY LanguagesAssumption, CancelsAssumption, Names, ConfigurationTypes
     DEF Init, IInv, TypeOK, SchemaMatchesRevision, Running, Indices, Stages, Head4

\* The schema of the invariant is one of the migrations' lemmas.
LEMMA SchemaFits ==
    TypeOK /\ SchemaMatchesRevision <=> TypeOK /\ schema \in Schemas /\ Matches(schema)
  BY DEF TypeOK, SchemaMatchesRevision, Schemas, Matches

\* A step that leaves the schema alone, or migrates it.
SchemaStep ==
    \/ UNCHANGED schema
    \/ \E target \in 0 .. Head4, language \in Languages :
           schema' = UpgradeTo(schema, target, language)
    \/ schema.revision > 0 /\ schema' = Downgrade(schema, schema.revision)

\* Every step is one of these.
LEMMA SchemaSteps == ASSUME IInv, [Next]_vars PROVE SchemaStep
  <1>1. CASE ApplyMigrations
    BY <1>1 DEF ApplyMigrations, SchemaStep, IInv, TypeOK, Head4
  <1>2. CASE OtherMigrates
    <2>1. CASE \E target \in schema.revision + 1 .. Head4, language \in Languages :
                   schema' = UpgradeTo(schema, target, language)
      <3>1. schema.revision + 1 .. Head4 \subseteq 0 .. Head4
        BY DEF IInv, TypeOK, Head4
      <3>. QED
        BY <2>1, <3>1 DEF SchemaStep
    <2>. QED
      BY <1>2, <2>1 DEF OtherMigrates, SchemaStep
  <1>3. CASE UNCHANGED schema
    BY <1>3 DEF SchemaStep
  <1>. QED
    BY <1>1, <1>2, <1>3 DEF Next, Process, Start, ReadRevision, CreateApp, Build, CheckParity,
       Close, Closed, Flush, Shutdown, CancelClose, CancelFlush, Kill, Outage, Use, vars

\* So every step keeps the schema that of its revision.
LEMMA SchemaKept ==
    ASSUME IInv, SchemaStep
    PROVE  schema' \in Schemas /\ Matches(schema')
  <1>1. schema \in Schemas /\ Matches(schema)
    BY SchemaFits DEF IInv
  <1>2. CASE UNCHANGED schema
    BY <1>1, <1>2
  <1>3. ASSUME NEW target \in 0 .. Head4, NEW language \in Languages,
               schema' = UpgradeTo(schema, target, language)
        PROVE  schema' \in Schemas /\ Matches(schema')
    BY <1>1, <1>3, UpgradeToMatches
  <1>4. CASE schema.revision > 0 /\ schema' = Downgrade(schema, schema.revision)
    BY <1>1, <1>4, DowngradeMatches
  <1>. QED
    BY <1>2, <1>3, <1>4 DEF SchemaStep

\* The rest of the type, for a step whose schema fits.
Others ==
    /\ stage \in Stages
    /\ config \in [language : Languages, otel : BOOLEAN, fault : Faults]
    /\ seen \in 0 .. Head4
    /\ dbUp \in BOOLEAN
    /\ resources \in [ResourceNames ->
           {"none", "idle", "open", "closed", "failed", "interrupted"}]
    /\ telemetry \in [PartNames -> {"off", "on", "down", "failed", "skipped"}]
    /\ cancels \in 0 .. MaxCancels

\* Every step keeps what a stage knows of the resources and of telemetry.
LEMMA NextOthers ==
    ASSUME IInv, [Next]_vars
    PROVE  Others' /\ Running' /\ Indices'
  <1> USE Names, CancelsAssumption DEF IInv, TypeOK, Others, Running, Indices, Stages
  <1>1. CASE Start
    BY <1>1, ConfigurationTypes DEF Start
  <1>2. CASE ReadRevision
    BY <1>2 DEF ReadRevision, Head4
  <1>3. CASE ApplyMigrations
    BY <1>3 DEF ApplyMigrations, Head4
  <1>4. CASE CreateApp
    BY <1>4 DEF CreateApp, Configured
  <1>5. CASE Build
    BY <1>5 DEF Build, BuiltBefore, Faults
  <1>6. CASE CheckParity
    BY <1>6 DEF CheckParity, Connect, Serve, Refuse, UnreachableErrors
  <1>7. CASE Close
    BY <1>7 DEF Close
  <1>8. CASE Closed
    BY <1>8 DEF Closed
  <1>9. CASE Flush
    BY <1>9 DEF Flush
  <1>10. CASE Shutdown
    BY <1>10 DEF Shutdown, Refuse
  <1>11. CASE CancelClose
    BY <1>11 DEF CancelClose
  <1>12. CASE CancelFlush
    BY <1>12 DEF CancelFlush
  <1>13. CASE Kill
    BY <1>13 DEF Kill, Head4
  <1>14. CASE Outage
    BY <1>14 DEF Outage
  <1>15. CASE OtherMigrates
    BY <1>15 DEF OtherMigrates
  <1>16. ASSUME NEW r \in ResourceNames, Use(r) PROVE Others' /\ Running' /\ Indices'
    BY <1>16 DEF Use
  <1>17. CASE UNCHANGED vars
    BY <1>17 DEF vars
  <1>. QED
    BY <1>1, <1>2, <1>3, <1>4, <1>5, <1>6, <1>7, <1>8, <1>9, <1>10, <1>11, <1>12, <1>13,
       <1>14, <1>15, <1>16, <1>17 DEF Next, Process

\* Every step keeps the invariant.
LEMMA NextInv == IInv /\ [Next]_vars => IInv'
  <1> SUFFICES ASSUME IInv, [Next]_vars PROVE IInv'
    OBVIOUS
  <1>1. schema' \in Schemas /\ Matches(schema')
    BY SchemaSteps, SchemaKept
  <1>2. Others' /\ Running' /\ Indices'
    BY NextOthers
  <1>3. TypeOK'
    BY <1>1, <1>2, Names DEF TypeOK, Others, Indices, Schemas
  <1>4. SchemaMatchesRevision'
    BY <1>1 DEF SchemaMatchesRevision, Matches
  <1>. QED
    BY <1>2, <1>3, <1>4 DEF IInv

\* The invariant holds in every reachable state.
THEOREM Invariance == Spec => []IInv
  BY InitInv, NextInv, PTL DEF Spec

-----------------------------------------------------------------------------
(* The properties.                                                          *)

\* Whatever migrations race, up and down, the schema is that of its revision
\* and schema_meta describes the column (ADR-0004).
THEOREM SchemaIsThatOfItsRevision == Spec => []SchemaMatchesRevision
  <1>1. IInv => SchemaMatchesRevision
    BY DEF IInv
  <1>. QED
    BY <1>1, Invariance, PTL

\* However a process ends, what it used has been closed or tried to.
THEOREM EverythingIsClosed == Spec => []NothingLeftOpen
  <1>1. IInv => NothingLeftOpen
    BY DEF IInv, Running, NothingLeftOpen
  <1>. QED
    BY <1>1, Invariance, PTL

\* A process that ends takes down what is on of its telemetry, in order, up to
\* the first part that raises, unless it is killed or its flush is cancelled
\* before it began.
THEOREM FlushIsLostOnlyWhenCutShort == Spec => FlushedUnlessCutShort
  <1> DEFINE TakenDown(i) ==
               \/ telemetry'[Parts[i]] = "down"
               \/ \E j \in 1 .. i : telemetry'[Parts[j]] = "failed"
             Ends == stage # "stopped" /\ stage' = "stopped"
             Excused == Kill \/ (stage = "flushing" /\ cancels' > cancels)
             AllDown == \A i \in DOMAIN Parts : telemetry[Parts[i]] = "on" => TakenDown(i)
  <1>1. ASSUME IInv, Next, Ends, ~Kill PROVE Excused \/ AllDown
    <2>1. CASE stage # "flushing"
      <3>1. \A p \in PartNames : telemetry[p] # "on"
        <4>1. ReadRevision \/ ApplyMigrations \/ CreateApp
          BY <1>1, <2>1 DEF Next, Process, Start, Build, CheckParity, Serve, Refuse, Close, Closed,
             Flush, Shutdown, CancelClose, CancelFlush, Outage, OtherMigrates, Use
        <4>2. stage \in {"migrating", "upgrading", "loading"}
          BY <4>1 DEF ReadRevision, ApplyMigrations, CreateApp
        <4>. QED
          BY <4>2, <1>1 DEF IInv, Running
      <3>2. \A i \in DOMAIN Parts : Parts[i] \in PartNames
        BY DEF PartNames
      <3>. QED
        BY <3>1, <3>2
    <2>2. CASE stage = "flushing"
      <3>1. Flush \/ CancelFlush
        BY <1>1, <2>2 DEF Next, Process, Start, ReadRevision, ApplyMigrations, CreateApp, Build,
           CheckParity, Close, Closed, Shutdown, CancelClose, Outage, OtherMigrates, Use
      <3>2. CASE CancelFlush
        BY <3>2, <2>2, <1>1, CancelsAssumption DEF CancelFlush, IInv, TypeOK
      <3>3. CASE Flush
        <4>1. PICK raising \in {i \in DOMAIN Parts : telemetry[Parts[i]] = "on"} \cup {Len(Parts) + 1} :
                telemetry' = [p \in PartNames |->
                  IF telemetry[p] = "off" THEN "off"
                  ELSE IF \E i \in 1 .. raising - 1 : Parts[i] = p THEN "down"
                  ELSE IF \E i \in {raising} \cap DOMAIN Parts : Parts[i] = p THEN "failed"
                  ELSE "skipped"]
          BY <3>3 DEF Flush
        <4>2. SUFFICES ASSUME NEW i \in 1 .. 5, telemetry[Parts[i]] = "on" PROVE TakenDown(i)
          BY Names
        <4>3. Parts[i] \in PartNames /\ raising \in 1 .. 6
          BY <4>1, Names
        <4>4. CASE i < raising
          <5>. i \in 1 .. raising - 1
            BY <4>3, <4>4
          <5>. QED
            BY <4>1, <4>2, <4>3
        <4>5. CASE raising <= i
          <5>1. raising \in 1 .. i /\ raising \in 1 .. 5 /\ raising \in DOMAIN Parts
            BY <4>3, <4>5, Names
          <5>2. telemetry[Parts[raising]] = "on" /\ Parts[raising] \in PartNames
            BY <4>1, <5>1, Names
          <5>3. \A j \in 1 .. raising - 1 : Parts[j] # Parts[raising]
            BY <5>1 DEF Parts
          <5>4. telemetry'[Parts[raising]] = "failed"
            BY <4>1, <5>1, <5>2, <5>3
          <5>. QED
            BY <5>1, <5>4
        <4>. QED
          BY <4>3, <4>4, <4>5
      <3>. QED
        BY <3>1, <3>2, <3>3
    <2>. QED
      BY <2>1, <2>2
  <1>2. IInv /\ [Next]_vars => [Ends => Kill \/ (stage = "flushing" /\ cancels' > cancels) \/ AllDown]_vars
    BY <1>1
  <1>. QED
    BY <1>2, Invariance, PTL DEF Spec, FlushedUnlessCutShort

\* A process that could ask the database serves only the language of its column.
THEOREM OneLanguage == Spec => ServesOnlyItsLanguage
  <1>1. IInv /\ [Next]_vars =>
          [stage = "checking" /\ dbUp /\ stage' = "serving" =>
               schema.revision = Head4 /\ schema.tsv = config.language]_vars
    <2> SUFFICES ASSUME IInv, Next, stage = "checking", dbUp, stage' = "serving"
                 PROVE  schema.revision = Head4 /\ schema.tsv = config.language
      BY DEF vars
    <2>1. CheckParity
      BY DEF Next, Process, Start, ReadRevision, ApplyMigrations, CreateApp, Build, Close, Closed,
             Flush, Shutdown, CancelClose, CancelFlush, Kill, Outage, OtherMigrates, Use
    <2>2. schema.meta = config.language
      BY <2>1 DEF CheckParity, Refuse
    <2>3. config.language \in Languages /\ config.language # "none"
      BY LanguagesAssumption DEF IInv, TypeOK
    <2>. QED
      BY <2>2, <2>3 DEF IInv, SchemaMatchesRevision
  <1>. QED
    BY <1>1, Invariance, PTL DEF Spec, ServesOnlyItsLanguage
=============================================================================
