-------------------------- MODULE MCBatchedWebHook --------------------------
(***************************************************************************)
(* BatchedWebHook with contents of two sizes.                              *)
(***************************************************************************)
EXTENDS BatchedWebHook, TLC

CONSTANTS short, long

MCContents == {short, long}
MCSizeOf == (short :> 1) @@ (long :> 2) @@ (None :> 0)

=============================================================================
