----------------------------- MODULE MCOffice -----------------------------
(* Small instances of the parts of Office for TLC. *)
EXTENDS Office, TLC

CONSTANTS e1, e2

\* The two templates are on different pages.
Pages == (e1 :> 1) @@ (e2 :> 2)
=============================================================================
