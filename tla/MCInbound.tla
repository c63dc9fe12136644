------------------------------ MODULE MCInbound ------------------------------
(* An instance for TLC of what reaches the service: its start (StartupGate), events
   for the database (EventIngest) and probes for the cache (ProbeCache).  They share
   no state, so that mixing their steps shows nothing: a behaviour has steps of one
   of them only. *)
EXTENDS EventIngest, TLC

CONSTANTS
    Probe, Worker, Batches, TTL, MaxTime, Absent, \* ProbeCache
    MaxDeaths, MaxOutages, MaxDeploys, None       \* StartupGate

ASSUME TTLAssumption == TTL \in Nat \ {0}

ASSUME ProbeAssumption ==
    MaxTime \in Nat /\ Absent \notin Nat /\ Batches \subseteq Seq(Probe)

VARIABLES
    now, expires, probes, accepted,
    config, database, process, deaths, outages, deploys

Cache == INSTANCE ProbeCache WITH batch <- probes

Gate == INSTANCE StartupGate

ASSUME GateAssumption ==
    /\ {MaxDeaths, MaxOutages, MaxDeploys} \subseteq Nat
    /\ None \notin {"given", "localhost", "listed", "wildcard", "veklom"} \cup Gate!Config

cacheVars == <<now, expires, probes, accepted>>
gateVars == <<config, database, process, deaths, outages, deploys>>

-----------------------------------------------------------------------------
(* Events and batches *)

Sent(kind, id, fault) == [kind |-> kind, id |-> id, fault |-> fault]

U1 == Sent("usage", 1, "none")
U2 == Sent("usage", 2, "none")
U3 == Sent("usage", 3, "unstorable")
U4 == Sent("usage", 4, "future")
P1 == Sent("probe", 1, "none")
P2 == Sent("probe", 2, "none")
P3 == Sent("probe", 3, "implausible")
P4 == Sent("probe", 2, "signature")

MCEvent == {U1, U2, U3, U4, P1, P2, P3, P4}

\* Repeated batches, the same events in opposite orders, an event twice, a batch
\* that is aborted after an accepted event, one the table refuses half-way.
MCBatch == {<<U1, U2>>, <<U2, U1>>, <<U1, U4, U1>>, <<U2, U3, U1>>,
            <<P1, P2>>, <<P2, P1>>, <<P1, P3>>, <<P4, P2>>}

\* Batches of probes that overlap, and one that names a probe twice.
MCBatches == {<<"p1", "p2">>, <<"p2", "p1", "p2">>}

-----------------------------------------------------------------------------

InboundInit == Init /\ Cache!Init /\ Gate!Init

\* All but one of the three are as they began.
OneMoves ==
    \/ Init /\ Cache!Init
    \/ Init /\ Gate!Init
    \/ Cache!Init /\ Gate!Init

InboundNext ==
    /\ \/ Next /\ UNCHANGED <<cacheVars, gateVars>>
       \/ Cache!Next /\ UNCHANGED <<vars, gateVars>>
       \/ Gate!Next /\ UNCHANGED <<vars, cacheVars>>
    /\ OneMoves'

\* The fairness of EventIngest and of StartupGate.
InboundSpec ==
    /\ InboundInit /\ [][InboundNext]_<<vars, cacheVars, gateVars>>
    /\ Fairness /\ Gate!Fairness

-----------------------------------------------------------------------------
(* The properties of all three, as stated there *)

\* The types of the event tables and batches, of the cache, and of the process.
TypesOK == TypeOK /\ Cache!TypeOK /\ Gate!TypeOK

\* A cached probe is not taken as new, but by a batch that looked it up before.
AcceptedTwiceOnlyByRace == Cache!AcceptedTwiceOnlyByRace

\* What production serves is safe.
ProductionServesSafely == Gate!ProductionServesSafely

\* An acceptable configuration is served in the end.
ComesUp == Gate!ComesUp

=============================================================================
