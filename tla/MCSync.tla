------------------------------- MODULE MCSync -------------------------------
(* Small instances of Sync.                                                *)
EXTENDS Sync, TLC

CONSTANTS alice, bob

Two == {alice, bob}
Renamed == Permutations(Two)
=============================================================================
