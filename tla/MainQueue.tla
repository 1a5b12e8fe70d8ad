----------------------------- MODULE MainQueue -----------------------------
(***************************************************************************)
(* Calls into the main thread (mir_core, modules.cpp): a worker puts an    *)
(* item on its own stack, posts its address to the hidden APC window and   *)
(* waits for an auto-reset event it owns; the main thread's message loop   *)
(* runs the item, stores the result in it and sets the event.  A function  *)
(* that runs a message loop itself (a dialog) dispatches further items on  *)
(* top of the one it runs for.  With them the table of services, which any *)
(* thread may change at any moment.                                        *)
(***************************************************************************)
EXTENDS Integers, Sequences

CONSTANTS Worker,      \* threads other than the main one
          Service,     \* names of services
          Object,      \* owners of services
          None,        \* the null pointer
          Fn,          \* a call of a function or of an event's subscribers
          MaxCalls,    \* bound: calls each worker makes
          QueueLimit,  \* messages the window's queue can hold
          MaxDepth     \* bound: message loops nested in the main thread

ASSUME MainQueueAssumption ==
  /\ MaxCalls \in Nat /\ QueueLimit \in Nat /\ MaxDepth \in Nat
  /\ None \notin Object /\ Fn \notin Service

VARIABLES
  up,         \* the APC window exists and the main thread serves it
  pc,         \* each worker: idle, posted (its call is made), dead
  call,       \* the number of its last call
  result,     \* the result field of the item on its stack
  signalled,  \* the workers whose event is signalled
  queue,      \* messages of the APC window
  stack,      \* what the main thread is running, innermost last
  owner,      \* the owner of each service, None if it does not exist
  got         \* what the last synchronous call of each worker returned

vars == <<up, pc, call, result, signalled, queue, stack, owner, got>>

Unset == -1      \* the field is not initialised
NotFound == 0    \* CALLSERVICE_NOTFOUND; call number k answers k

Request == {Fn} \cup Service

Init ==
  /\ up = TRUE
  /\ pc = [w \in Worker |-> "idle"]
  /\ call = [w \in Worker |-> 0]
  /\ result = [w \in Worker |-> Unset]
  /\ signalled = {}
  /\ queue = <<>>
  /\ stack = <<>>
  /\ owner = [s \in Service |-> None]
  /\ got = [w \in Worker |-> Unset]

----------------------------------------------------------------------------
(* Workers.                                                                *)

\* PostMessage; nobody looks at its result.
Post(m) == queue' = IF up /\ Len(queue) < QueueLimit THEN Append(queue, m) ELSE queue

\* Mutated: the worker goes on without waiting for the event.
CallSyncNoWait(w, r) ==
  /\ pc[w] = "idle" /\ call[w] < MaxCalls
  /\ call' = [call EXCEPT ![w] = @ + 1]
  /\ result' = [result EXCEPT ![w] = Unset]
  /\ Post([w |-> w, n |-> call[w] + 1, kind |-> "sync", req |-> r])
  /\ UNCHANGED <<up, pc, signalled, stack, owner, got>>

\* CallFunctionSync, NotifyEventHooks (r = Fn) and CallServiceSync.
CallSync(w, r) ==
  /\ pc[w] = "idle" /\ call[w] < MaxCalls
  /\ call' = [call EXCEPT ![w] = @ + 1]
  /\ pc' = [pc EXCEPT ![w] = "posted"]
  /\ result' = [result EXCEPT ![w] = Unset]
  /\ Post([w |-> w, n |-> call[w] + 1, kind |-> "sync", req |-> r])
  /\ UNCHANGED <<up, signalled, stack, owner, got>>

CallFunctionAsync(w) ==
  /\ pc[w] = "idle" /\ call[w] < MaxCalls
  /\ call' = [call EXCEPT ![w] = @ + 1]
  /\ Post([w |-> w, n |-> call[w] + 1, kind |-> "async", req |-> Fn])
  /\ UNCHANGED <<up, pc, result, signalled, stack, owner, got>>

\* Mutated: the event is not reset by the wait.
WaitReturnsManualReset(w) ==
  /\ pc[w] = "posted" /\ w \in signalled
  /\ pc' = [pc EXCEPT ![w] = "idle"]
  /\ got' = [got EXCEPT ![w] = result[w]]
  /\ UNCHANGED <<up, call, result, signalled, queue, stack, owner>>

\* WaitForSingleObject returns, which resets the event, and the caller reads
\* the result.
WaitReturns(w) ==
  /\ pc[w] = "posted" /\ w \in signalled
  /\ signalled' = signalled \ {w}
  /\ pc' = [pc EXCEPT ![w] = "idle"]
  /\ got' = [got EXCEPT ![w] = result[w]]
  /\ UNCHANGED <<up, call, result, queue, stack, owner>>

\* TerminateThread, or the worker's own end when it is idle.  A terminated
\* worker runs no DllMain: its event stays open.
Die(w) ==
  /\ pc[w] # "dead"
  /\ pc' = [pc EXCEPT ![w] = "dead"]
  /\ UNCHANGED <<up, call, result, signalled, queue, stack, owner, got>>

----------------------------------------------------------------------------
(* The main thread.                                                        *)

Top == stack[Len(stack)]

SetPhase(ph) == stack' = [stack EXCEPT ![Len(stack)].phase = ph]

\* Only a running function can pump messages.
Pumping == up /\ Len(stack) < MaxDepth /\ (stack # <<>> => Top.phase = "run")

Frame(m) == [w |-> m.w, n |-> m.n, kind |-> m.kind, req |-> m.req,
             phase |-> IF m.req = Fn THEN "run" ELSE "begin"]

\* Mutated: the newest message first.
DispatchNewest ==
  /\ Pumping /\ queue # <<>>
  /\ stack' = Append(stack, Frame(queue[Len(queue)]))
  /\ queue' = SubSeq(queue, 1, Len(queue) - 1)
  /\ UNCHANGED <<up, pc, call, result, signalled, owner, got>>

\* A message loop hands the oldest message to APCWndProc.
Dispatch ==
  /\ Pumping /\ queue # <<>>
  /\ stack' = Append(stack, Frame(Head(queue)))
  /\ queue' = Tail(queue)
  /\ UNCHANGED <<up, pc, call, result, signalled, owner, got>>

\* CallService looks the name up under csServices ...
FindService ==
  /\ up /\ stack # <<>> /\ Top.phase = "begin"
  /\ IF owner[Top.req] = None
     THEN /\ result' = [result EXCEPT ![Top.w] = NotFound]
          /\ SetPhase("stored")
     ELSE SetPhase("found") /\ UNCHANGED result
  /\ UNCHANGED <<up, pc, call, signalled, queue, owner, got>>

\* ... and reads the TService after the lock is released: if it has been freed
\* by then, the old contents or a fault.
EnterService ==
  /\ up /\ stack # <<>> /\ Top.phase \in {"found", "freed"}
  /\ \/ SetPhase("run") /\ UNCHANGED up
     \/ Top.phase = "freed" /\ up' = FALSE /\ UNCHANGED stack
  /\ UNCHANGED <<pc, call, result, signalled, queue, owner, got>>

\* Mutated: the event is set before the result is stored.
FunctionReturnsSignalFirst ==
  /\ up /\ stack # <<>> /\ Top.phase = "run"
  /\ signalled' = IF Top.kind = "sync" THEN signalled \cup {Top.w} ELSE signalled
  /\ IF Top.kind = "sync" THEN SetPhase("stored") ELSE stack' = SubSeq(stack, 1, Len(stack) - 1)
  /\ UNCHANGED <<up, pc, call, result, queue, owner, got>>

\* The function has returned: its result goes into the item.
FunctionReturns ==
  /\ up /\ stack # <<>> /\ Top.phase = "run"
  /\ IF Top.kind = "sync"
     THEN /\ result' = [result EXCEPT ![Top.w] = Top.n]
          /\ SetPhase("stored")
     ELSE /\ stack' = SubSeq(stack, 1, Len(stack) - 1)
          /\ UNCHANGED result
  /\ UNCHANGED <<up, pc, call, signalled, queue, owner, got>>

\* Mutated: the event is forgotten.
SetEventForgotten ==
  /\ up /\ stack # <<>> /\ Top.phase = "stored"
  /\ stack' = SubSeq(stack, 1, Len(stack) - 1)
  /\ UNCHANGED <<up, pc, call, result, signalled, queue, owner, got>>

SetEvent ==
  /\ up /\ stack # <<>> /\ Top.phase = "stored"
  /\ signalled' = signalled \cup {Top.w}
  /\ stack' = SubSeq(stack, 1, Len(stack) - 1)
  /\ UNCHANGED <<up, pc, call, result, queue, owner, got>>

\* The item is on the stack of a terminated thread: touching it may fault.
DeadItemFault ==
  /\ up /\ stack # <<>> /\ Top.kind = "sync" /\ pc[Top.w] = "dead"
  /\ up' = FALSE
  /\ UNCHANGED <<pc, call, result, signalled, queue, stack, owner, got>>

\* UnloadCoreModule: DestroyWindow drops the messages, later posts fail.
UnloadCoreModule ==
  /\ up /\ stack = <<>>
  /\ up' = FALSE
  /\ queue' = <<>>
  /\ UNCHANGED <<pc, call, result, signalled, stack, owner, got>>

----------------------------------------------------------------------------
(* Services, by any thread.                                                *)

CreateServiceFunction(s, o) ==
  /\ owner[s] = None
  /\ owner' = [owner EXCEPT ![s] = o]
  /\ UNCHANGED <<up, pc, call, result, signalled, queue, stack, got>>

\* The TServices are freed, also under a CallService that has found one.
FreeServices(S) ==
  /\ S # {}
  /\ owner' = [s \in Service |-> IF s \in S THEN None ELSE owner[s]]
  /\ stack' = [i \in DOMAIN stack |->
                 IF stack[i].phase = "found" /\ stack[i].req \in S
                 THEN [stack[i] EXCEPT !.phase = "freed"] ELSE stack[i]]
  /\ UNCHANGED <<up, pc, call, result, signalled, queue, got>>

DestroyServiceFunction(s) == owner[s] # None /\ FreeServices({s})

\* KillObjectServices; KillModuleServices is the same with modules for owners.
KillObjectServices(o) == FreeServices({s \in Service : owner[s] = o})

----------------------------------------------------------------------------
WorkerStep(w) ==
  \/ \E r \in Request : CallSync(w, r)
  \/ CallFunctionAsync(w) \/ WaitReturns(w) \/ Die(w)

MainServes == Dispatch \/ FindService \/ EnterService \/ FunctionReturns \/ SetEvent

MainStep == MainServes \/ DeadItemFault \/ UnloadCoreModule

ServiceStep ==
  \/ \E s \in Service : \/ DestroyServiceFunction(s)
                        \/ \E o \in Object : CreateServiceFunction(s, o)
  \/ \E o \in Object : KillObjectServices(o)

Next == (\E w \in Worker : WorkerStep(w)) \/ MainStep \/ ServiceStep

\* The main thread keeps serving its queue and the functions it runs return;
\* a worker whose event is set is scheduled.
Fairness == WF_vars(MainServes) /\ \A w \in Worker : WF_vars(WaitReturns(w))

Spec == Init /\ [][Next]_vars

FairSpec == Spec /\ Fairness

----------------------------------------------------------------------------
(* Properties.                                                             *)

Message == [w : Worker, n : 1..MaxCalls, kind : {"sync", "async"}, req : Request]

Running == [w : Worker, n : 1..MaxCalls, kind : {"sync", "async"}, req : Request,
            phase : {"begin", "found", "freed", "run", "stored"}]

\* Types; the queue never holds more than PostMessage accepts.
TypeOK ==
  /\ up \in BOOLEAN
  /\ pc \in [Worker -> {"idle", "posted", "dead"}]
  /\ call \in [Worker -> 0..MaxCalls]
  /\ result \in [Worker -> -1..MaxCalls]
  /\ signalled \subseteq Worker
  /\ queue \in Seq(Message) /\ Len(queue) <= QueueLimit
  /\ stack \in Seq(Running)
  /\ owner \in [Service -> Object \cup {None}]
  /\ got \in [Worker -> -1..MaxCalls]

\* The main thread only ever holds the address of an item whose owner still
\* waits in that very call; the exception is an owner that was terminated.
ItemAlive ==
  /\ \A i \in DOMAIN queue : queue[i].kind = "sync" =>
       pc[queue[i].w] = "dead" \/ (pc[queue[i].w] = "posted" /\ call[queue[i].w] = queue[i].n)
  /\ \A i \in DOMAIN stack : stack[i].kind = "sync" =>
       pc[stack[i].w] = "dead" \/ (pc[stack[i].w] = "posted" /\ call[stack[i].w] = stack[i].n)

\* The event is used again for every call of its thread: when it is set, the
\* thread is in a call and the item holds the answer of that call, so no wait
\* is ended by the signal of an earlier one.
SignalIsFresh ==
  \A w \in signalled : pc[w] # "dead" =>
    pc[w] = "posted" /\ result[w] \in {call[w], NotFound}

\* A synchronous call does not overtake the asynchronous ones its thread made
\* before: once it runs, none of them is still waiting in the queue.
AsyncNotOvertaken ==
  \A i \in DOMAIN stack : stack[i].kind = "sync" /\ pc[stack[i].w] # "dead" =>
    \A j \in DOMAIN queue : queue[j].w # stack[i].w

InFlight(w) ==
  /\ pc[w] = "posted"
  /\ \/ w \in signalled
     \/ \E i \in DOMAIN queue : queue[i].w = w /\ queue[i].n = call[w]
     \/ \E i \in DOMAIN stack : stack[i].w = w /\ stack[i].n = call[w]

\* A synchronous call that was accepted by the queue returns, unless its thread
\* is terminated or the main thread stops serving.
AcceptedCallReturns ==
  \A w \in Worker : InFlight(w) ~> (pc[w] # "posted" \/ ~up)

\* Synchronous calls, seen from their callers.
PhaseSeen == [w \in Worker |-> IF pc[w] # "posted" THEN pc[w]
                               ELSE IF result[w] = Unset THEN "called" ELSE "done"]

AnswerSeen == [w \in Worker |-> IF pc[w] = "dead" THEN Unset ELSE result[w]]

Sync == INSTANCE SyncCall WITH phase <- PhaseSeen, n <- call, answer <- AnswerSeen, last <- got

\* Every call is executed once, while its caller waits, and returns the answer
\* of that execution: MainQueue implements SyncCall.
ImplementsSyncCall == Sync!Spec
=============================================================================
