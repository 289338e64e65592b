----------------------------- MODULE MCBreaker -----------------------------
(* Small instances of CircuitBreaker for TLC.                              *)
EXTENDS CircuitBreaker, TLC

CONSTANTS i1, i2, c1, c2, c3

\* Three calls in one process.
OneProcess == (c1 :> i1) @@ (c2 :> i1) @@ (c3 :> i1)

\* Two processes, two calls in the first one.
TwoProcesses == (c1 :> i1) @@ (c2 :> i1) @@ (c3 :> i2)
============================================================================
