------------------------------- MODULE MCSdio -------------------------------
(* Instances of Sdio: a card is inserted, removed, and replaced.           *)
EXTENDS Sdio
=============================================================================
