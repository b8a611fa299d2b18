---------------------------- MODULE MCWriteback ----------------------------
(***************************************************************************)
(* A small instance of Writeback: the answers of one key get lost, those   *)
(* of the other never do.                                                  *)
(***************************************************************************)
EXTENDS Writeback

CONSTANTS k1, k2

Mute == {k2}
=============================================================================
