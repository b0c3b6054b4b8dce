---------------------------- MODULE MCDurability ----------------------------
(* Small instances of BufferManagerDurability for TLC.                     *)
EXTENDS MCBufferManager, BufferManagerDurability
=============================================================================
