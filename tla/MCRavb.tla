------------------------------- MODULE MCRavb -------------------------------
(* Instances of Ravb for TLC.  The mbufs are interchangeable: no property  *)
(* of the safety runs names one.                                           *)
EXTENDS Ravb, TLC

MbufSymmetry == Permutations(Mbufs)
=============================================================================
