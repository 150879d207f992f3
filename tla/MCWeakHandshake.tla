--------------------------- MODULE MCWeakHandshake ---------------------------
(***************************************************************************)
(* MCWeakHandshake.cfg: one run for a local and a remote target with a     *)
(* share CPU.  MCWeakInit.cfg: initialization, which never ends when an    *)
(* acknowledgement is overwritten.                                         *)
(***************************************************************************)
EXTENDS WeakHandshake
==============================================================================
