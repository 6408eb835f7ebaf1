-------------------------- MODULE MC_SyncProgress --------------------------
(* Instantiates SyncProgress for TLC with the bounds of MC_ResyncDB and a *)
(* chunk of two blocks, so that heights 0..3 reach both reports of the     *)
(* loop: the run's first block and the first block after a chunk.         *)
EXTENDS SyncProgress

MCChunk == 2

(* Every call of resyncDB that can fail. *)
MCAllOps == RS!Ops
=============================================================================
