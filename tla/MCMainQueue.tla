---------------------------- MODULE MCMainQueue ----------------------------
(* Two workers, one service and nested message loops for MainQueue. *)
EXTENDS MainQueue, TLC
=============================================================================
