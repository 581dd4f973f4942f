---------------------------- MODULE MCNativeEngine ----------------------------
(* NativeEngine with the threads and the failures its configurations give. *)
EXTENDS NativeEngine

=============================================================================
