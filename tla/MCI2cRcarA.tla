----------------------------- MODULE MCI2cRcarA -----------------------------
(* Model-checking instances of I2cRcarA: the bounds and the faults of each *)
(* run are in its configuration.                                           *)
EXTENDS I2cRcarA
=============================================================================
