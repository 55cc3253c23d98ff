----------------------------- MODULE ReleaseMC -----------------------------
EXTENDS Release

CONSTANTS a, b, x, y, m, n

(* Both runs may want either id; a pins both models, of which n is *)
(* overridden; b pins none (all its models are hosted elsewhere).            *)
Either == [p \in Operators |-> Ids]
Pins   == [p \in Operators |-> IF p = a THEN {m, n} ELSE {}]
=============================================================================
