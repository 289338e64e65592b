----------------------------- MODULE MCBrowser -----------------------------
(* Small instances of BrowserService for TLC.                              *)
EXTENDS BrowserService, TLC

CONSTANTS r1, r2
============================================================================
