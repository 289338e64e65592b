---------------------------- MODULE MCDashboard ----------------------------
(* A small instance of Dashboard for TLC.                                  *)
EXTENDS Dashboard, TLC

CONSTANTS j1, j2, opt

\* j1 is what the form creates; j2 has the same URL or another.
TwoJobs == {(j1 :> "u1") @@ (j2 :> u) : u \in {"u1", "u2"}}
OneJob == {j1 :> u : u \in {"u1", "u2"}}
============================================================================
