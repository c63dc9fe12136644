---------------------------- MODULE MCBondLedger ----------------------------
(* Instances of BondLedger for TLC. *)
EXTENDS BondLedger, TLC

\* Identifiers and requests of one kind are interchangeable.
Symmetry ==
    UNION {Permutations(S) : S \in {Bond, Challenge, FundRequest, ChallengeRequest,
                                    ResolveRequest, Evaluation}}

=============================================================================
