----------------------------- MODULE MCStartup ------------------------------
(* Small instances of Startup for TLC.                                      *)
EXTENDS Startup, TLC

CONSTANTS p1, p2, admin, other, guest

\* The CMD of the Dockerfile, and the migrate-seed target of the Makefile beside it.
Container  == {{"migrate", "seed", "run"}}
Deployment == Container \cup {{"migrate", "seed"}, {"run"}}

FourTables == <<"users", "refresh_tokens", "documents", "signatures">>
OneSeed   == <<admin>>
TwoSeeds  == <<admin, other>>
Symmetric == Permutations(Processes)
=============================================================================
