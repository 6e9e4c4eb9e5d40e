------------------------------- MODULE FreeRam -------------------------------
(***************************************************************************)
(* What the RAM list of startup promises: a set of free addresses to which *)
(* RAM is added, without the boot image that lies in it, and from which    *)
(* exactly those contiguous ranges are taken that somebody is given.       *)
(***************************************************************************)
EXTENDS Integers

CONSTANTS
  Top,       \* addresses are 0 .. Top
  Blocks,    \* the sets of addresses that may be added
  Boot       \* the addresses of the image, never free

VARIABLES
  free,
  given      \* the addresses that somebody has been given

FreeInit == free = {} /\ given \subseteq 0 .. Top /\ Boot \subseteq given

(* A range is given to somebody; with s above e, nothing.                  *)
Given(s, e) == given' = given \cup (s .. e)

(* A range to work in, which stays free for the kernel.                    *)
Lend == free' = free /\ \E s, e \in 0 .. Top : Given(s, e)

(* The RAM may bring the first room for such a range.                      *)
Add == /\ \E b \in Blocks : free' = (free \cup b) \ Boot
       /\ \E s, e \in 0 .. Top : Given(s, e)

Take == \E s, e \in 0 .. Top : free' = free \ (s .. e) /\ Given(s, e)

FreeSpec == FreeInit /\ [][Lend \/ Add \/ Take]_<<free, given>>
=============================================================================
