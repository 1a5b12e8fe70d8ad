------------------------------ MODULE SyncCall ------------------------------
(***************************************************************************)
(* What CallFunctionSync, CallServiceSync and NotifyEventHooks promise to  *)
(* a thread other than the main one: the call is executed once, by the     *)
(* main thread, while its caller waits, and returns the answer of that     *)
(* very execution.                                                         *)
(***************************************************************************)
EXTENDS Integers

CONSTANTS Worker,     \* threads other than the main one
          MaxCalls    \* bound: calls each of them makes

VARIABLES
  phase,    \* where each thread is in a synchronous call
  n,        \* the number of its last call
  answer,   \* the answer of the execution, Unset before it
  last      \* the answer its last synchronous call returned

vars == <<phase, n, answer, last>>

Unset == -1
NotFound == 0

Init ==
  /\ phase = [w \in Worker |-> "idle"]
  /\ n = [w \in Worker |-> 0]
  /\ answer = [w \in Worker |-> Unset]
  /\ last = [w \in Worker |-> Unset]

\* The answer of call k is k itself, or NotFound for a service that is not there.
Answers(k) == {k, NotFound}

Call(w) ==
  /\ phase[w] = "idle" /\ n[w] < MaxCalls
  /\ phase' = [phase EXCEPT ![w] = "called"]
  /\ n' = [n EXCEPT ![w] = @ + 1]
  /\ answer' = [answer EXCEPT ![w] = Unset]
  /\ UNCHANGED last

\* CallFunctionAsync: nothing to wait for.
CallAsync(w) ==
  /\ phase[w] = "idle" /\ n[w] < MaxCalls
  /\ n' = [n EXCEPT ![w] = @ + 1]
  /\ UNCHANGED <<phase, answer, last>>

Execute(w) ==
  /\ phase[w] = "called"
  /\ phase' = [phase EXCEPT ![w] = "done"]
  /\ \E a \in Answers(n[w]) : answer' = [answer EXCEPT ![w] = a]
  /\ UNCHANGED <<n, last>>

Return(w) ==
  /\ phase[w] = "done"
  /\ phase' = [phase EXCEPT ![w] = "idle"]
  /\ last' = [last EXCEPT ![w] = answer[w]]
  /\ UNCHANGED <<n, answer>>

Die(w) ==
  /\ phase[w] # "dead"
  /\ phase' = [phase EXCEPT ![w] = "dead"]
  /\ answer' = [answer EXCEPT ![w] = Unset]
  /\ UNCHANGED <<n, last>>

Next == \E w \in Worker : Call(w) \/ CallAsync(w) \/ Execute(w) \/ Return(w) \/ Die(w)

Spec == Init /\ [][Next]_vars
=============================================================================
