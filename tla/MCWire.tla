------------------------------- MODULE MCWire -------------------------------
(***************************************************************************)
(* Words of four bytes with two values each.  The field values are the two *)
(* ids of a list of two processes, the first that is none and the largest  *)
(* word.  A datagram may be empty, end inside its type, or be cut to the   *)
(* size of a smaller struct.  In these words kAckMessageType and           *)
(* kSeqAckMessageType are each other's byte-swapped values.                *)
(***************************************************************************)
EXTENDS Wire

MCWords == {0, 1, 2, 15}
MCCuts == {0, 2, 4, 12, 16}
=============================================================================
