---------------------------- MODULE MCBufferQueue ----------------------------
(* Small instances of BufferQueue for TLC.                                  *)
EXTENDS BufferQueue
==============================================================================
