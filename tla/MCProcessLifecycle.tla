------------------------ MODULE MCProcessLifecycle ------------------------
(***************************************************************************)
(* Three processes, of which the one in the middle is this one, so that a  *)
(* sender has exchanges before and after those with its own process, and   *)
(* three messages.                                                         *)
(***************************************************************************)
EXTENDS ProcessLifecycle
=============================================================================
