---------------------------- MODULE NodeRegistry ----------------------------
(***************************************************************************)
(* The node view of GET /nexus/nodes (app/api/routers/nexus.py:227-315)    *)
(* over the tables that NodeTelemetry and EventIngest write.  One          *)
(* statement loads all node rows; two more for each node look for its      *)
(* latest heartbeat and count the probe events of its region, while        *)
(* heartbeats, observations and probe events go on being committed.        *)
(***************************************************************************)
EXTENDS NodeTelemetry

CONSTANTS
    ViewRequest,       \* GET /nexus/nodes
    LocationOf,        \* region_code of each registered node
    CanonicalLocation, \* CANONICAL_LOCATION_CODES
    Configured         \* nodes with host, application, image and key all recorded

ASSUME RegistryAssumption == LocationOf \in [Node -> CanonicalLocation] /\ Configured \subseteq Node

VARIABLES
    probed, \* locations that some stored probe event names as worker_region
    view    \* the requests

registryVars == <<probed, view>>

Status == {"Live", "Config Incomplete", "Insufficient Evidence"}

Entry == [health : Health, version : Version \cup {None}, last_heartbeat : BOOLEAN,
          status : Status]

\* "rows" are the node rows as loaded, "heartbeat" what was found for the node
\* under way, "entries" what the answer says so far.
ViewLocal == [at : {"idle", "heartbeats", "probes", "answered"},
              rows : [Node -> NodeRow], current : Node \cup {None}, heartbeat : BOOLEAN,
              entries : [Node -> Entry \cup {None}]]

RegistryTypeOK ==
    /\ probed \subseteq CanonicalLocation
    /\ view \in [ViewRequest -> ViewLocal]

RegistryInit ==
    /\ Init
    /\ probed = {}
    /\ view = [v \in ViewRequest |->
                 [at |-> "idle", rows |-> node, current |-> None, heartbeat |-> FALSE,
                  entries |-> [n \in Node |-> None]]]

-----------------------------------------------------------------------------

\* A batch of probe events of one location is committed.
CommitProbe(location) ==
    /\ probed' = probed \cup {location}
    /\ UNCHANGED <<view, vars>>

LoadNodes(v) ==
    /\ view[v].at = "idle"
    /\ view' = [view EXCEPT ![v].at = "heartbeats", ![v].rows = node]
    /\ UNCHANGED <<probed, vars>>

Described(v) == {n \in Node : view[v].entries[n] # None}

\* A heartbeat of any age will do.
FindHeartbeat(v, n) ==
    /\ view[v].at = "heartbeats" /\ n \notin Described(v)
    /\ view' = [view EXCEPT ![v].at = "probes", ![v].current = n,
                            ![v].heartbeat = \E h \in heartbeats : h.node = n]
    /\ UNCHANGED <<probed, vars>>

OperationalState(n, heartbeat, counted) ==
    IF n \notin Configured THEN "Config Incomplete"
    ELSE IF heartbeat /\ counted THEN "Live" ELSE "Insufficient Evidence"

\* Mutated form: the answer takes the node row as it is by now.
CountProbesFresh(v) ==
    LET n == view[v].current
    IN  /\ view[v].at = "probes"
        /\ view' = [view EXCEPT ![v].at = "heartbeats", ![v].entries[n] =
                      [health |-> node[n].health, version |-> node[n].version,
                       last_heartbeat |-> view[v].heartbeat,
                       status |-> OperationalState(n, view[v].heartbeat,
                                                   LocationOf[n] \in probed)]]
        /\ UNCHANGED <<probed, vars>>

CountProbes(v) ==
    LET n == view[v].current
    IN  /\ view[v].at = "probes"
        /\ view' = [view EXCEPT ![v].at = "heartbeats", ![v].entries[n] =
                      [health |-> view[v].rows[n].health, version |-> view[v].rows[n].version,
                       last_heartbeat |-> view[v].heartbeat,
                       status |-> OperationalState(n, view[v].heartbeat,
                                                   LocationOf[n] \in probed)]]
        /\ UNCHANGED <<probed, vars>>

\* Locations without a node follow with "Config Incomplete" and nothing else.
Answer(v) ==
    /\ view[v].at = "heartbeats" /\ Described(v) = Node
    /\ view' = [view EXCEPT ![v].at = "answered"]
    /\ UNCHANGED <<probed, vars>>

ViewStep(v) ==
    LoadNodes(v) \/ (\E n \in Node : FindHeartbeat(v, n)) \/ CountProbes(v) \/ Answer(v)

RegistryNext ==
    \/ Next /\ UNCHANGED registryVars
    \/ \E location \in CanonicalLocation : CommitProbe(location)
    \/ \E v \in ViewRequest : ViewStep(v)

RegistrySpec == RegistryInit /\ [][RegistryNext]_<<vars, registryVars>>

-----------------------------------------------------------------------------
(* What an answer says hangs together *)

\* An entry holds together, although its statements see different snapshots: a node that
\* it shows on standby, or with a software version, has the heartbeat it shows with it;
\* a node that it shows as live is configured, has a stored heartbeat of its own, and a
\* probe event was stored for its location.
EntryCoherent ==
    \A v \in ViewRequest, n \in Node :
      LET entry == view[v].entries[n]
      IN  entry # None =>
            /\ entry.health = "standby" \/ entry.version # None => entry.last_heartbeat
            /\ entry.status = "Live" =>
                 /\ n \in Configured
                 /\ \E h \in heartbeats : h.node = n
                 /\ LocationOf[n] \in probed

=============================================================================
