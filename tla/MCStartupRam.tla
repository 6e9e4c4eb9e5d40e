---------------------------- MODULE MCStartupRam ----------------------------
(* An instance of StartupRam: two regions that touch and one apart, an     *)
(* image at the start of the first, and a compressed image behind it.      *)
EXTENDS StartupRam

SomeRegions == {Entry(1, 10), Entry(11, 9), Entry(23, 3)}
SomeReserved == {Entry(15, 2)}
SomeAsks == {[size |-> 2, align |-> 2], [size |-> 3, align |-> 1]}
StoredAt == [start |-> 13, end |-> 14]
=============================================================================
