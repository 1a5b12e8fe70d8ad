----------------------------- MODULE MCHistory -----------------------------
(* One metacontact, ordinary contacts and two threads for History. *)
EXTENDS History, TLC

CONSTANTS c1, c2, m1, p1, p2

\* The ordinary contacts are alike, and so are the threads.
HistorySymmetry == Permutations(Contact \ Meta) \cup Permutations(Proc)
=============================================================================
