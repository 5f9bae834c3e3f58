-------------------------- MODULE MCStreamManager --------------------------
(***************************************************************************)
(* TLC instances of StreamManager.  Addresses are numbers; the allocator   *)
(* returns the lowest free one, so that a freed address comes back at      *)
(* once, which is when a stale pointer would be mistaken for a new one.    *)
(***************************************************************************)
EXTENDS StreamManager

MCMem == 1 .. MaxFrameNum + 2
MCScarceMem == 1 .. MaxFrameNum + 1
MCMalloc(used) == {b \in Mem \ used : \A c \in Mem \ used : b <= c}
MCNoSeek == {}
=============================================================================
