------------------------------- MODULE MCMesh -------------------------------
EXTENDS Mesh, TLC

CONSTANTS a, b, q, none

\* A line: a is in range of b only, b of a and the queen.
MCNbrs == (a :> {b}) @@ (b :> {a, q}) @@ (q :> {b})
=============================================================================
