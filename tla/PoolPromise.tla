---------------------------- MODULE PoolPromise ----------------------------
(* What PoolPatch is for: it implements DependencyApply.                   *)
EXTENDS PoolPatch

(* The promise, of which the pool is the means.                            *)
Status ==
  IF pc = "buffer" THEN "reading"
  ELSE IF pc \in {"emit", "pass", "replay"} THEN "applying"
  ELSE IF pc \in {"save", "done"} THEN "done"
  ELSE "stuck"

Promise == INSTANCE DependencyApply WITH status <- Status

(* Placeholders, deferred rows, passes over several tables and a pool file *)
(* between patches come to this: each row is written once, after the rows  *)
(* it refers to and with the ids that they were given, and the program     *)
(* ends, or gives up on a cycle, with nothing else left to write.          *)
KeepsPromise == Promise!Spec
=============================================================================
