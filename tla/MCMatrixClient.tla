-------------------------- MODULE MCMatrixClient ----------------------------
(* A small set of callers for MatrixClient.                                *)
EXTENDS MatrixClient

CONSTANTS r1, r2, w1
=============================================================================
