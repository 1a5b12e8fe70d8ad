------------------------------ MODULE MCHooks ------------------------------
(* Two notifying threads, one event, one object and one plugin for Hooks. *)
EXTENDS Hooks, TLC

CONSTANTS p1, p2

ProcSymmetry == Permutations(Proc)

\* Bound: nested notifications are explored with two subscriptions to one event;
\* without nesting, three subscriptions and an event that is created again.
NestedBound ==
  (\E p \in Proc : Len(frames[p]) > 1) => nsub <= 2 /\ sttHookId <= 2
=============================================================================
