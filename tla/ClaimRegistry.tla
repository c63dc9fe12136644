--------------------------- MODULE ClaimRegistry ---------------------------
(***************************************************************************)
(* What claiming an API promises (app/api/routers/claims.py): a company    *)
(* asks for an API, proves with a TXT record that the domain is its own,   *)
(* and is verified in one indivisible step.  The first company verified    *)
(* owns the API, and keeps it.  Polling, requests and expiry are not       *)
(* visible here.                                                           *)
(***************************************************************************)

CONSTANTS Claim, Api, None

VARIABLES
    asked,     \* the API each claim is for
    published, \* claims whose TXT record has been published
    verified,  \* claims verified at some time
    owner      \* the claim whose company each API is registered to

vars == <<asked, published, verified, owner>>

Init ==
    /\ asked = [c \in Claim |-> None]
    /\ published = {}
    /\ verified = {}
    /\ owner = [a \in Api |-> None]

Ask(c, a) ==
    /\ asked[c] = None
    /\ asked' = [asked EXCEPT ![c] = a]
    /\ UNCHANGED <<published, verified, owner>>

Publish(c) ==
    /\ asked[c] # None
    /\ published' = published \cup {c}
    /\ UNCHANGED <<asked, verified, owner>>

Verify(c) ==
    /\ c \in published
    /\ verified' = verified \cup {c}
    /\ owner' = [owner EXCEPT ![asked[c]] = IF @ = None THEN c ELSE @]
    /\ UNCHANGED <<asked, published>>

Next == \E c \in Claim : (\E a \in Api : Ask(c, a)) \/ Publish(c) \/ Verify(c)

Spec == Init /\ [][Next]_vars

=============================================================================
