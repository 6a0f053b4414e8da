----------------------------- MODULE MCWebTerminal -----------------------------
(* Model checking of WebTerminal: all the constants are numbers.            *)
EXTENDS WebTerminal
=============================================================================
