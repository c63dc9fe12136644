-------------------------- MODULE CapabilityStatus --------------------------
(***************************************************************************)
(* GET /v1/status/capabilities (src/app/api/routers/status.py): a report   *)
(* made of an answer of BYOS, one pair of statements for each of four      *)
(* tables, and a second answer of BYOS.  Every statement of a request sees *)
(* its own snapshot, rows arrive between any two of them, and the database *)
(* may be lost at each.  Counts and dates are kept, freshness is left out: *)
(* it is the distance from last to the time of the answer.                 *)
(***************************************************************************)
EXTENDS Naturals, Sequences, FiniteSets, FiniteSetsExt, SequencesExt, Orderings

CONSTANTS
    Request,      \* requests for the report
    MaxRows,      \* bound: rows of one table, each with its own date
    Methodology,  \* what BYOS may answer: sequences of [section, status]
    Topology,     \* what BYOS may answer: [active, keyed, expected]
    None

VARIABLES
    rows,         \* rows[c]: the dates of the rows behind capability c
    report        \* report[r]: the report that request r is making

vars == <<rows, report>>

-----------------------------------------------------------------------------

Vocabulary == {"Live", "Connected", "Partially Implemented", "Demo Mode",
               "Methodology Target", "Not Yet Wired", "Config Incomplete",
               "Disconnected", "Auth Required", "Insufficient Evidence"}

CapabilityOf ==
    [section \in {"Physical measurements", "Signed telemetry", "Robust scoring",
                  "x402 settlement evidence", "PGL audit trails",
                  "Agent/runtime enforcement"} |->
       CASE section = "Physical measurements"     -> "vnp_physical_probes"
         [] section = "Signed telemetry"          -> "vnp_signed_telemetry"
         [] section = "Robust scoring"            -> "vnp_regional_scoring"
         [] section = "x402 settlement evidence"  -> "vnp_usage_metering"
         [] section = "PGL audit trails"          -> "pgl_audit_trails"
         [] section = "Agent/runtime enforcement" -> "agent_runtime_enforcement"]

Capability == {CapabilityOf[section] : section \in DOMAIN CapabilityOf}

\* The capabilities that a table is evidence of: observations, regional_telemetry,
\* usage_events, claim_requests.
Evidential ==
    {"vnp_physical_probes", "vnp_regional_scoring", "vnp_usage_metering",
     "vnp_provider_claims"}

\* The capabilities that every report ends with.
Always ==
    {"vnp_node_registry", "vabp_certification", "vnp_performance_assurance", "vnp_streaming"}

\* The order in which a report is made, and the order after the database was lost.
Order ==
    <<"vnp_physical_probes", "vnp_regional_scoring", "vnp_usage_metering",
      "vnp_signed_telemetry", "pgl_audit_trails", "agent_runtime_enforcement",
      "vnp_provider_claims">>

DisconnectedOrder ==
    <<"vnp_physical_probes", "vnp_regional_scoring", "vnp_provider_claims",
      "vnp_usage_metering", "vnp_signed_telemetry", "pgl_audit_trails",
      "agent_runtime_enforcement">>

Date == 1..MaxRows

Said(id, state, count, last) ==
    [id |-> id, state |-> state, count |-> count, last |-> last]

Item == [section : DOMAIN CapabilityOf, status : Vocabulary]

Line == [id : Capability \cup Evidential \cup Always, state : Vocabulary, count : Nat,
         last : Date \cup {None}]

Report == [at : {"idle", "methodology", "next", "newest", "topology", "answered"},
           methodology : Seq(Item), position : 1..Len(Order) + 1, counted : 0..MaxRows,
           lines : Seq(Line), reachable : BOOLEAN]

TypeOK ==
    /\ rows \in [Evidential -> SUBSET Date]
    /\ report \in [Request -> Report]

Init ==
    /\ rows = [c \in Evidential |-> {}]
    /\ report = [r \in Request |->
                   [at |-> "idle", methodology |-> <<>>, position |-> 1, counted |-> 0,
                    lines |-> <<>>, reachable |-> TRUE]]

-----------------------------------------------------------------------------
(* The tables grow; nothing deletes from them *)

Insert(c, date) ==
    /\ date \notin rows[c]
    /\ rows' = [rows EXCEPT ![c] = @ \cup {date}]
    /\ UNCHANGED report

-----------------------------------------------------------------------------
(* The report *)

Begin(r) ==
    /\ report[r].at = "idle"
    /\ report' = [report EXCEPT ![r].at = "methodology"]
    /\ UNCHANGED rows

\* Mutated form: the status is not looked up in the vocabulary.
ApprovedAnyStatus(answer) ==
    Only(answer, {item \in ToSet(answer) : item.section \in DOMAIN CapabilityOf})

\* The items of an answer that count.
Approved(answer) ==
    Only(answer, {item \in ToSet(answer) : /\ item.section \in DOMAIN CapabilityOf
                                           /\ item.status \in Vocabulary})

\* BYOS answers, or fails in any way and counts as having said nothing.
AskMethodology(r) ==
    /\ report[r].at = "methodology"
    /\ \E answer \in Methodology \cup {<<>>} :
         report' = [report EXCEPT ![r].at = "next", ![r].methodology = Approved(answer)]
    /\ UNCHANGED rows

\* What BYOS says of capability c; of two items for one section the later counts.
SaysOf(r, c) ==
    {i \in DOMAIN report[r].methodology : CapabilityOf[report[r].methodology[i].section] = c}

Speaks(r, c) == SaysOf(r, c) # {}

Spoken(r, c) ==
    LET status == report[r].methodology[Max(SaysOf(r, c))].status
    IN  Said(c, IF status = "Live" THEN "Connected" ELSE status, 1, None)

Current(r) == Order[report[r].position]

AtCapability(r) == report[r].at = "next" /\ report[r].position <= Len(Order)

Append1(r, line) ==
    [report EXCEPT ![r].at = "next", ![r].position = @ + 1,
                   ![r].lines = Append(@, line)]

\* What BYOS says of a capability goes before the database.
TakeMethodology(r) ==
    /\ AtCapability(r) /\ Speaks(r, Current(r))
    /\ report' = Append1(r, Spoken(r, Current(r)))
    /\ UNCHANGED rows

\* A capability without a table is left out when BYOS does not name it.
LeaveOut(r) ==
    /\ AtCapability(r) /\ ~ Speaks(r, Current(r)) /\ Current(r) \notin Evidential
    /\ report' = [report EXCEPT ![r].position = @ + 1]
    /\ UNCHANGED rows

CountRows(r) ==
    /\ AtCapability(r) /\ ~ Speaks(r, Current(r)) /\ Current(r) \in Evidential
    /\ report' = [report EXCEPT ![r].at = "newest",
                                ![r].counted = Cardinality(rows[Current(r)])]
    /\ UNCHANGED rows

\* Mutated form: the date decides whether there is evidence, not the count.
EvidenceLineByDate(c, counted, newest) ==
    IF newest = None THEN Said(c, "Insufficient Evidence", 0, None)
    ELSE Said(c, "Connected", counted, newest)

\* The line of capability c, from a count and the newest date read after it.
EvidenceLine(c, counted, newest) ==
    IF counted = 0 THEN Said(c, "Insufficient Evidence", 0, None)
    ELSE Said(c, "Connected", counted, newest)

ReadNewest(r) ==
    LET c == Current(r)
    IN  /\ report[r].at = "newest"
        /\ report' = Append1(r, EvidenceLine(c, report[r].counted,
                                  IF rows[c] = {} THEN None ELSE Max(rows[c])))
        /\ UNCHANGED rows

AllRead(r) ==
    /\ report[r].at = "next" /\ report[r].position > Len(Order)
    /\ report' = [report EXCEPT ![r].at = "topology"]
    /\ UNCHANGED rows

\* The lines of a report that lost the database.
Disconnected(r) ==
    LET named == Only(DisconnectedOrder, Evidential \cup {c \in Capability : Speaks(r, c)})
    IN  [i \in DOMAIN named |->
           IF Speaks(r, named[i]) THEN Spoken(r, named[i])
           ELSE Said(named[i], "Disconnected", 0, None)]

\* Mutated form: the lines that were made before stay in the report.
LoseDatabaseKeep(r) ==
    /\ report[r].at = "newest"
    /\ report' = [report EXCEPT ![r].at = "topology", ![r].reachable = FALSE,
                                ![r].lines = @ \o Disconnected(r)]
    /\ UNCHANGED rows

\* Either statement fails: the report starts again without the database.
LoseDatabase(r) ==
    /\ \/ report[r].at = "newest"
       \/ AtCapability(r) /\ ~ Speaks(r, Current(r)) /\ Current(r) \in Evidential
    /\ report' = [report EXCEPT ![r].at = "topology", ![r].reachable = FALSE,
                                ![r].lines = Disconnected(r)]
    /\ UNCHANGED rows

\* The registry of nodes as BYOS describes it, dates left out.
RegistryLine(answer) ==
    IF answer = None THEN Said("vnp_node_registry", "Not Yet Wired", 0, None)
    ELSE IF answer.active >= answer.expected /\ answer.keyed >= answer.expected
         THEN Said("vnp_node_registry", "Connected", answer.active, None)
         ELSE Said("vnp_node_registry", "Config Incomplete", answer.active, None)

\* The second answer of BYOS completes the report; no answer is one too.
AskTopology(r) ==
    /\ report[r].at = "topology"
    /\ \E answer \in Topology \cup {None} :
         report' = [report EXCEPT
           ![r].at = "answered",
           ![r].lines = @ \o
             <<RegistryLine(answer),
               Said("vabp_certification", "Not Yet Wired", 0, None),
               Said("vnp_performance_assurance", "Not Yet Wired", 0, None),
               Said("vnp_streaming",
                    IF report[r].reachable THEN "Connected" ELSE "Disconnected", 0, None)>>]
    /\ UNCHANGED rows

RequestStep(r) ==
    \/ Begin(r) \/ AskMethodology(r) \/ TakeMethodology(r) \/ LeaveOut(r) \/ CountRows(r)
    \/ ReadNewest(r) \/ AllRead(r) \/ LoseDatabase(r) \/ AskTopology(r)

Next ==
    \/ \E c \in Evidential, date \in Date : Insert(c, date)
    \/ \E r \in Request : RequestStep(r)

Spec == Init /\ [][Next]_vars

-----------------------------------------------------------------------------
(* What a report says hangs together *)

Lines(r) == {report[r].lines[i] : i \in DOMAIN report[r].lines}

Answered(r) == report[r].at = "answered"

\* However the database fails, a report is whole and of one mind: it names the eight
\* capabilities that are always there and any other just when BYOS spoke of it, each
\* once, and it shows the streams as disconnected just when it shows every line so that
\* a table should back.
ReportComplete ==
    \A r \in Request : Answered(r) =>
      LET named == {line.id : line \in Lines(r)}
          spoken == {CapabilityOf[report[r].methodology[i].section] :
                       i \in DOMAIN report[r].methodology}
          backed == {line \in Lines(r) : line.id \in Evidential /\ ~ Speaks(r, line.id)}
          lost(line) == line.state = "Disconnected"
      IN  /\ Len(report[r].lines) = Cardinality(named)
          /\ named = Evidential \cup spoken \cup Always
          /\ \A line \in Lines(r), other \in backed :
               line.id = "vnp_streaming" => (lost(line) <=> lost(other))

\* A line that is backed by a table and connected has a positive count, no larger
\* than the table by now, and the date of a row: the two statements it is read with
\* see different snapshots.
EvidenceDated ==
    \A r \in Request : \A line \in Lines(r) :
      line.id \in Evidential /\ ~ Speaks(r, line.id) /\ line.state = "Connected" =>
        /\ line.count \in 1..Cardinality(rows[line.id])
        /\ line.last \in rows[line.id]

=============================================================================
