----------------------------- MODULE MCSimUnlock -----------------------------
(* SimUnlock with the tests' three PIN attempts and one PUK attempt.       *)
EXTENDS SimUnlock

MCPinTries == 3
MCPukTries == 1
=============================================================================
