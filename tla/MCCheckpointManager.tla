------------------------ MODULE MCCheckpointManager ------------------------
(* Model-checking instance of CheckpointManager: two checkpoints of        *)
(* different priority, periods and start heights (k1 saves every 2 blocks  *)
(* and promotes its default 2 blocks later, k2 every 3 blocks from height  *)
(* 2); the other bounds are set per run in the .cfg files.               *)
EXTENDS CheckpointManager, TLC

CONSTANTS k1, k2, va, vb

MCKeys == {k1, k2}
MCPriority == (k1 :> 0) @@ (k2 :> 3)
MCStartHeight == (k1 :> 0) @@ (k2 :> 2)
MCSavePeriod == (k1 :> 2) @@ (k2 :> 3)
MCSaveStartHeight == (k1 :> 0) @@ (k2 :> 1)
MCEffectivePeriod == (k1 :> 2) @@ (k2 :> 3)

\* Symmetry is not sound: the two keys have different parameters.
=============================================================================
