---------------------------- MODULE MCPoolPatch ----------------------------
(* Instances of PoolPatch for TLC: organisations, which are located and    *)
(* may have a parent organisation, and locations.  Both have ids of their  *)
(* own.  The target does not have the table gone.                          *)
EXTENDS PoolPromise, TLC

CONSTANTS org, loc, gone

Both == {org, loc}
All == {org, loc, gone}

(* References within a table, so that rows of one patch can form a cycle.  *)
RefersToParent == (org :> {org, loc}) @@ (loc :> {})

(* References to the other table only.                                     *)
RefersToLocation == (org :> {loc}) @@ (loc :> {})
RefersToLocationOfAll == (org :> {loc}) @@ (loc :> {}) @@ (gone :> {})

NoTableOption == <<>>
OrgGoneLoc == <<org, gone, loc>>
=============================================================================
