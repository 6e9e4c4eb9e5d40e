----------------------------- MODULE MCSerScif ------------------------------
(* An instance of SerScif with short FIFOs.                                *)
EXTENDS SerScif
=============================================================================
