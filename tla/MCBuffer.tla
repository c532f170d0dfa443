------------------------------ MODULE MCBuffer ------------------------------
(* Buffer for TLC: a small vector, calls of up to two bytes.                *)
EXTENDS Buffer
=============================================================================
