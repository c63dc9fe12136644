---------------------------- MODULE AtomicBonds ----------------------------
(***************************************************************************)
(* What the staking router and the slashing engine promise, request by     *)
(* request: each operation tests the current rows and changes them in one  *)
(* indivisible step.  Requests, external services and crashes are not      *)
(* visible here, only the three tables are.                                *)
(***************************************************************************)

CONSTANTS Bond, Challenge, ResolveRequest, Evaluation, None

VARIABLES bond, challenge, resolutions

tables == <<bond, challenge, resolutions>>

Init ==
    /\ bond = [b \in Bond |-> "absent"]
    /\ challenge = [c \in Challenge |->
                      [bond |-> None, state |-> "absent", resolved_at |-> "null"]]
    /\ resolutions = {}

Create(b) ==
    /\ bond[b] = "absent"
    /\ bond' = [bond EXCEPT ![b] = "draft"]
    /\ UNCHANGED <<challenge, resolutions>>

Fund(b) ==
    /\ bond[b] = "draft"
    /\ bond' = [bond EXCEPT ![b] = "active"]
    /\ UNCHANGED <<challenge, resolutions>>

\* A challenge by a user puts a live bond in breach.
Contest(b, c) ==
    /\ bond[b] \in {"active", "breach_pending"}
    /\ challenge[c].state = "absent"
    /\ bond' = [bond EXCEPT ![b] = "breach_pending"]
    /\ challenge' = [challenge EXCEPT ![c] =
                       [bond |-> b, state |-> "verifying", resolved_at |-> "null"]]
    /\ UNCHANGED resolutions

\* A challenge by the engine leaves the bond as it is.
Suspect(b, c) ==
    /\ bond[b] = "active"
    /\ challenge[c].state = "absent"
    /\ challenge' = [challenge EXCEPT ![c] =
                       [bond |-> b, state |-> "pending", resolved_at |-> "null"]]
    /\ UNCHANGED <<bond, resolutions>>

Closed(c, state) == challenge' = [challenge EXCEPT ![c].state = state, ![c].resolved_at = "set"]

Recorded(c, action) ==
    \E writer \in ResolveRequest \cup Evaluation, id \in {"pgl", "local_uuid", "pending_pgl"} :
      resolutions' = resolutions \cup
        {[by |-> writer, challenge |-> c, action |-> action, receipt |-> id]}

Release(c) ==
    /\ challenge[c].state # "absent"
    /\ bond' = [bond EXCEPT ![challenge[c].bond] = "released"]
    /\ Closed(c, "rejected")
    /\ Recorded(c, "release")

Dismiss(c) ==
    /\ challenge[c].state # "absent"
    /\ bond' = [bond EXCEPT ![challenge[c].bond] = "active"]
    /\ Closed(c, "rejected")
    /\ Recorded(c, "dismiss")

\* Only a live bond is slashed, and only on the engine's own open challenge.
Slash(c) ==
    /\ challenge[c].state = "pending"
    /\ bond[challenge[c].bond] = "active"
    /\ bond' = [bond EXCEPT ![challenge[c].bond] = "slashed"]
    /\ Closed(c, "upheld")
    /\ Recorded(c, "slash")

Next ==
    \/ \E b \in Bond : Create(b) \/ Fund(b)
    \/ \E b \in Bond, c \in Challenge : Contest(b, c) \/ Suspect(b, c)
    \/ \E c \in Challenge : Release(c) \/ Dismiss(c) \/ Slash(c)

Spec == Init /\ [][Next]_tables

=============================================================================
