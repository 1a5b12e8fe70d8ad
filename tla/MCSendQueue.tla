---------------------------- MODULE MCSendQueue ----------------------------
(* The windows of a metacontact and of the subcontact that it sends to, and  *)
(* two slots, for SendQueue.                                                 *)
EXTENDS SendQueue

CONSTANTS c1, c2, m1

\* The window of metacontact m1 sends to its subcontact c1.
MCActiveContact == [w \in Window |-> IF w = m1 THEN c1 ELSE w]
=============================================================================
