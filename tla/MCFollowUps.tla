---------------------------- MODULE MCFollowUps -----------------------------
(* Small instances of FollowUps for TLC. *)
EXTENDS FollowUps, TLC

CONSTANTS n1, n2, c1, c2, w1, w2, h1, r1

TextOrTemplate == {[text |-> TRUE, template |-> TRUE]}
OneOfThem == {[text |-> TRUE, template |-> FALSE],
              [text |-> FALSE, template |-> TRUE]}

\* Replicas of the worker are alike; so are conversations and free rows.
Alike == Permutations({n1, n2}) \cup Permutations({c1, c2})
            \cup Permutations({w1, w2})
=============================================================================
