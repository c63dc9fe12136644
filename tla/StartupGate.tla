----------------------------- MODULE StartupGate -----------------------------
(***************************************************************************)
(* How the service starts, refuses to start and is started again:          *)
(* app.db.database at import, then create_app and the lifespan of          *)
(* src/app/main.py, under the settings of src/app/core/config.py and the   *)
(* restart policy of src/docker-compose.yml.  The environment of a         *)
(* container changes only when it is deployed anew; the database comes and *)
(* goes at any time.                                                       *)
(***************************************************************************)
EXTENDS Naturals

CONSTANTS
    MaxDeaths,    \* bound: stops of the process that are not refusals
    MaxOutages,   \* bound: times the database goes away
    MaxDeploys,   \* bound: containers, one after the other
    None

VARIABLES
    config,       \* the environment the container is deployed with, None before
    database,     \* the database answers
    process,      \* the process: how far its start is, and what it has set up
    deaths, outages, deploys   \* how often each has happened

vars == <<config, database, process, deaths, outages, deploys>>

-----------------------------------------------------------------------------

\* spelled: the name that the environment is given under.  Settings reads it in any
\* case, database.py as VNP_ENV only.
Config ==
    [env : {"production", "development"}, spelled : {"VNP_ENV", "vnp_env"},
     url : BOOLEAN, demo : BOOLEAN, requireDb : BOOLEAN, slashing : BOOLEAN,
     origins : {"none", "listed", "wildcard"}]

IsProduction == config.env = "production"

\* What database.py takes for production.
NamedProduction == config.env = "production" /\ config.spelled = "VNP_ENV"

DemoModeActive == config.demo /\ ~ IsProduction

\* The origins that the service answers to.
CorsOrigins ==
    IF config.origins # "none" THEN config.origins
    ELSE IF IsProduction THEN "veklom" ELSE "wildcard"

Stopped ==
    [stage |-> "stopped", engine |-> None, origins |-> None, demoRoutes |-> FALSE,
     demoData |-> FALSE, checked |-> FALSE]

TypeOK ==
    /\ config \in Config \cup {None}
    /\ config = None => process.stage = "absent"
    /\ database \in BOOLEAN
    /\ process \in [stage : {"absent", "stopped", "refused", "imported", "created", "validated",
                             "checked", "serving"},
                    engine : {"given", "localhost", None},
                    origins : {"listed", "wildcard", "veklom", None},
                    demoRoutes : BOOLEAN, demoData : BOOLEAN, checked : BOOLEAN]
    /\ process.engine = None => process.stage \in {"absent", "stopped", "refused"}
    /\ process.demoData => process.stage = "serving"
    /\ deaths \in 0..MaxDeaths
    /\ outages \in 0..MaxOutages
    /\ deploys \in 0..MaxDeploys

Init ==
    /\ config = None
    /\ database = TRUE
    /\ process = [Stopped EXCEPT !.stage = "absent"]
    /\ deaths = 0
    /\ outages = 0
    /\ deploys = 0

-----------------------------------------------------------------------------
(* The world of the process *)

DatabaseGoes ==
    /\ database /\ outages < MaxOutages
    /\ database' = FALSE
    /\ outages' = outages + 1
    /\ UNCHANGED <<config, process, deaths, deploys>>

DatabaseComes ==
    /\ ~ database
    /\ database' = TRUE
    /\ UNCHANGED <<config, process, deaths, outages, deploys>>

\* A container is put up, in place of the one there was.
Deploy ==
    /\ deploys < MaxDeploys
    /\ config' \in Config
    /\ process' = Stopped
    /\ deploys' = deploys + 1
    /\ UNCHANGED <<database, deaths, outages>>

Die ==
    /\ process.stage \notin {"absent", "stopped", "refused"} /\ deaths < MaxDeaths
    /\ process' = Stopped
    /\ deaths' = deaths + 1
    /\ UNCHANGED <<config, database, outages, deploys>>

\* Mutated form: a process that refused to start is left alone.
RestartAfterDeath ==
    /\ process.stage = "refused" /\ FALSE
    /\ process' = Stopped
    /\ UNCHANGED <<config, database, deaths, outages, deploys>>

\* restart: unless-stopped.
Restart ==
    /\ process.stage = "refused"
    /\ process' = Stopped
    /\ UNCHANGED <<config, database, deaths, outages, deploys>>

-----------------------------------------------------------------------------
(* The start *)

Reaches(stage) == process' = [process EXCEPT !.stage = stage]

Refuses == process' = [Stopped EXCEPT !.stage = "refused"]

\* The engine is made when app.db.database is imported, before the settings are read.
ImportDatabase ==
    /\ process.stage = "stopped"
    /\ IF ~ config.url /\ NamedProduction THEN Refuses
       ELSE process' = [process EXCEPT !.stage = "imported",
                                       !.engine = IF config.url THEN "given" ELSE "localhost"]
    /\ UNCHANGED <<config, database, deaths, outages, deploys>>

\* The routes are mounted and the allowlist is set before anything is validated.
MountRoutes ==
    /\ process.stage = "imported"
    /\ process' = [process EXCEPT !.stage = "created", !.origins = CorsOrigins,
                                  !.demoRoutes = DemoModeActive]
    /\ UNCHANGED <<config, database, deaths, outages, deploys>>

Unsafe ==
    IsProduction /\ (config.demo \/ CorsOrigins = "wildcard" \/ config.slashing)

\* Mutated form: the configured origins are not looked at.
ValidateDemo ==
    /\ process.stage = "created"
    /\ IF IsProduction /\ (config.demo \/ config.slashing) THEN Refuses
       ELSE Reaches("validated")
    /\ UNCHANGED <<config, database, deaths, outages, deploys>>

Validate ==
    /\ process.stage = "created"
    /\ IF Unsafe THEN Refuses ELSE Reaches("validated")
    /\ UNCHANGED <<config, database, deaths, outages, deploys>>

CheckDatabase ==
    /\ process.stage = "validated"
    /\ IF ~ (IsProduction /\ config.requireDb) THEN Reaches("checked")
       ELSE IF database THEN process' = [process EXCEPT !.stage = "checked", !.checked = TRUE]
       ELSE Refuses
    /\ UNCHANGED <<config, database, deaths, outages, deploys>>

Serve ==
    /\ process.stage = "checked"
    /\ process' = [process EXCEPT !.stage = "serving", !.demoData = DemoModeActive]
    /\ UNCHANGED <<config, database, deaths, outages, deploys>>

Start == ImportDatabase \/ MountRoutes \/ Validate \/ CheckDatabase \/ Serve

Next == Start \/ Restart \/ Die \/ Deploy \/ DatabaseGoes \/ DatabaseComes

Spec == Init /\ [][Next]_vars

\* A start takes its steps, the restart policy is carried out, and a database that is
\* gone comes back.
Fairness == WF_vars(Start) /\ WF_vars(Restart) /\ WF_vars(DatabaseComes)

FairSpec == Spec /\ Fairness

-----------------------------------------------------------------------------
(* What a start promises *)

Serving == process.stage = "serving"

\* What production serves is safe, although it is mounted before the settings are
\* validated: no demo routes and no demo data, no wildcard origin, no autonomous
\* slashing, and no built-in database unless database.py has missed the environment.
\* Where the database is required, it has answered this very process, however it comes
\* and goes meanwhile.
ProductionServesSafely ==
    Serving /\ IsProduction =>
      /\ ~ process.demoRoutes /\ ~ process.demoData
      /\ process.origins # "wildcard"
      /\ ~ config.slashing
      /\ config.spelled = "VNP_ENV" => process.engine = "given"
      /\ config.requireDb => process.checked

\* The gate has no objection to this configuration.
Acceptable == config # None /\ ~ Unsafe /\ (config.url \/ ~ NamedProduction)

\* A configuration that the gate has no objection to is served in the end without an
\* operator (unless it is replaced by one that is refused): a refusal that an outage
\* of the database caused is retried.
ComesUp == Acceptable ~> Serving \/ ~ Acceptable

=============================================================================
