----------------------------- MODULE MCCampaign -----------------------------
(* Small instances of Campaign for TLC. *)
EXTENDS Campaign, TLC

CONSTANTS c1, c2, p1, p2, p3, w1, w2, r1, r2

\* The ids are interchangeable: no action or property tells one from another.
Symmetry ==
    Permutations(Campaigns) \cup Permutations(Contacts)
        \cup Permutations(Workers) \cup Permutations(Requests)
=============================================================================
