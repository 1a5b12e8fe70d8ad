------------------------------ MODULE Threads ------------------------------
(***************************************************************************)
(* The thread registry of mir_core (Windows/threads.cpp) and the shutdown  *)
(* of the message loop that waits for it (Windows/miranda.cpp).            *)
(*                                                                         *)
(* Every thread is forked through mir_forkthread, mir_forkthreadex or      *)
(* mir_forkthreadowner.  The forker creates the thread and blocks on an    *)
(* event until the child has put itself into the list `threads'; the child *)
(* takes itself out when its body returns.  The manual-reset event         *)
(* hThreadQueueEmpty is meant to be signalled exactly while the list is    *)
(* empty: the main thread waits for it before it unloads the program.      *)
(* Every section under csThreads is one step; what happens outside the     *)
(* lock (ResetEvent, SetEvent, CloseHandle, the waits) is a step of its    *)
(* own.  Time is not modelled: a timeout may expire whenever its wait is   *)
(* pending.                                                                *)
(***************************************************************************)
CONSTANTS Thread,   \* the threads that may be forked, each used once
          Owner,    \* objects (accounts) that own threads
          Main,     \* the main thread, never in the list
          None      \* the null pointer

ASSUME ThreadsAssumption ==
  /\ Main \notin Thread
  /\ None \notin Owner
  /\ None \notin Thread

VARIABLES
  threads,    \* the list: threads that have a THREAD_WAIT_ENTRY
  signalled,  \* hThreadQueueEmpty
  pc,         \* where every thread is
  ret,        \* what a forker goes back to
  child,      \* the thread a forker is forking
  kind,       \* the fork function: "plain" | "ex" | "worker"
  obj,        \* THREAD_WAIT_ENTRY.pObject
  arg,        \* the owner a KillObjectThreadsWorker was started for
  hEvent,     \* threads whose FORK_ARG.hEvent has been set
  hValid,     \* FALSE: the child read FORK_ARG.hThread before it was stored
  open,       \* threads whose THREAD_WAIT_ENTRY.hThread is an open handle
  pool,       \* the handles a KillObjectThreadsWorker collected
  phase       \* the main thread in EnterMessageLoop

vars == <<threads, signalled, pc, ret, child, kind, obj, arg, hEvent, hValid,
          open, pool, phase>>

Proc == Thread \cup {Main}

\* Every place a thread that is between its insertion into the list and
\* its Thread_Pop can be at.
Body == {"pushed", "running", "killing", "creating", "forking",
         "collect", "wait", "waiting", "kill", "closing", "popping"}

Gone == {"dead", "killed"}

ThreadPC == Body \cup Gone \cup {"unborn", "created", "reset", "exiting"}

MainPC == {"running", "killing", "creating", "forking"}

Init ==
  /\ threads = {}
  /\ signalled = TRUE
  /\ pc = [p \in Proc |-> IF p = Main THEN "running" ELSE "unborn"]
  /\ ret = [p \in Proc |-> "running"]
  /\ child = [p \in Proc |-> None]
  /\ kind = [t \in Thread |-> "plain"]
  /\ obj = [t \in Thread |-> None]
  /\ arg = [t \in Thread |-> None]
  /\ hEvent = {}
  /\ hValid = [t \in Thread |-> TRUE]
  /\ open = {}
  /\ pool = [t \in Thread |-> {}]
  /\ phase = "up"

----------------------------------------------------------------------------
(* Forking.  The main thread pumps messages inside KillObjectThreads and   *)
(* Thread_Wait, so a message handler may fork there too.                   *)

MayFork(p) ==
  \/ pc[p] = "running" /\ (p = Main => phase # "down")
  \/ p = Main /\ pc[p] = "killing"

CreateThread(p, t, k, back) ==
  /\ pc[t] = "unborn"
  /\ pc' = [pc EXCEPT ![p] = "creating", ![t] = "created"]
  /\ ret' = [ret EXCEPT ![p] = back]
  /\ child' = [child EXCEPT ![p] = t]
  /\ kind' = [kind EXCEPT ![t] = k]
  /\ UNCHANGED <<threads, signalled, hEvent, hValid, open, pool, phase>>

mir_forkthread(p, t) ==
  /\ MayFork(p)
  /\ CreateThread(p, t, "plain", pc[p])
  /\ UNCHANGED <<obj, arg>>

\* mir_forkthreadex when o is None.
mir_forkthreadowner(p, t, o) ==
  /\ MayFork(p)
  /\ CreateThread(p, t, "ex", pc[p])
  /\ obj' = [obj EXCEPT ![t] = o]
  /\ UNCHANGED arg

\* The result of CreateThread reaches fa.hThread; the forker starts to wait.
StoreHandle(p) ==
  /\ pc[p] = "creating"
  /\ pc' = [pc EXCEPT ![p] = "forking"]
  /\ UNCHANGED <<threads, signalled, ret, child, kind, obj, arg, hEvent,
                 hValid, open, pool, phase>>

\* Mutated: the forker does not wait for the child's event.
ForkReturnAtOnce(p) ==
  /\ pc[p] = "forking"
  /\ pc' = [pc EXCEPT ![p] = ret[p]]
  /\ ret' = [ret EXCEPT ![p] = "running"]
  /\ child' = [child EXCEPT ![p] = None]
  /\ UNCHANGED <<threads, signalled, kind, obj, arg, hEvent, hValid, open,
                 pool, phase>>

ForkReturn(p) ==
  /\ pc[p] = "forking"
  /\ child[p] \in hEvent
  /\ pc' = [pc EXCEPT ![p] = ret[p]]
  /\ ret' = [ret EXCEPT ![p] = "running"]
  /\ child' = [child EXCEPT ![p] = None]
  /\ UNCHANGED <<threads, signalled, kind, obj, arg, hEvent, hValid, open,
                 pool, phase>>

----------------------------------------------------------------------------
(* The life of a forked thread: forkthread_r and forkthreadex_r.           *)

\* The child reads its FORK_ARG and enters Thread_Push, which resets the
\* event before it takes the lock.
PushReset(t) ==
  /\ pc[t] = "created"
  /\ pc' = [pc EXCEPT ![t] = "reset"]
  /\ signalled' = FALSE
  /\ hValid' = [hValid EXCEPT ![t] =
                  kind[t] = "ex" \/ \E p \in Proc : child[p] = t /\ pc[p] = "forking"]
  /\ UNCHANGED <<threads, ret, child, kind, obj, arg, hEvent, open, pool, phase>>

PushInsert(t) ==
  /\ pc[t] = "reset"
  /\ pc' = [pc EXCEPT ![t] = "pushed"]
  /\ threads' = threads \cup {t}
  /\ open' = open \cup {t}
  /\ UNCHANGED <<signalled, ret, child, kind, obj, arg, hEvent, hValid, pool, phase>>

\* Mutated: SetEvent(fa->hEvent) is forgotten.
PushSignalForgotten(t) ==
  /\ pc[t] = "pushed"
  /\ pc' = [pc EXCEPT ![t] = IF kind[t] = "worker" THEN "collect" ELSE "running"]
  /\ UNCHANGED <<threads, signalled, ret, child, kind, obj, arg, hEvent, hValid,
                 open, pool, phase>>

PushSignal(t) ==
  /\ pc[t] = "pushed"
  /\ pc' = [pc EXCEPT ![t] = IF kind[t] = "worker" THEN "collect" ELSE "running"]
  /\ hEvent' = hEvent \cup {t}
  /\ UNCHANGED <<threads, signalled, ret, child, kind, obj, arg, hValid, open,
                 pool, phase>>

BodyReturn(t) ==
  /\ pc[t] = "running"
  /\ pc' = [pc EXCEPT ![t] = IF kind[t] = "ex" THEN "popping" ELSE "closing"]
  /\ UNCHANGED <<threads, signalled, ret, child, kind, obj, arg, hEvent,
                 hValid, open, pool, phase>>

\* forkthread_r closes the handle it read from FORK_ARG, the one the forker
\* was given.  A value read too early is garbage: closing it does nothing or
\* closes any other handle, the one of a list entry included.
CloseForkHandle(t) ==
  /\ pc[t] = "closing"
  /\ pc' = [pc EXCEPT ![t] = "popping"]
  /\ IF hValid[t]
     THEN UNCHANGED open
     ELSE open' \in {open} \cup {open \ {u} : u \in open}
  /\ UNCHANGED <<threads, signalled, ret, child, kind, obj, arg, hEvent,
                 hValid, pool, phase>>

\* Mutated: the last thread leaves without SetEvent(hThreadQueueEmpty).
Thread_PopNoSetEvent(t) ==
  /\ pc[t] = "popping"
  /\ pc' = [pc EXCEPT ![t] = "exiting"]
  /\ threads' = threads \ {t}
  /\ open' = IF t \in threads THEN open \ {t} ELSE open
  /\ UNCHANGED <<signalled, ret, child, kind, obj, arg, hEvent, hValid, pool, phase>>

Thread_Pop(t) ==
  /\ pc[t] = "popping"
  /\ pc' = [pc EXCEPT ![t] = "exiting"]
  /\ threads' = threads \ {t}
  /\ open' = IF t \in threads THEN open \ {t} ELSE open
  /\ signalled' = (signalled \/ threads = {t})
  /\ UNCHANGED <<ret, child, kind, obj, arg, hEvent, hValid, pool, phase>>

ThreadExit(t) ==
  /\ pc[t] = "exiting"
  /\ pc' = [pc EXCEPT ![t] = "dead"]
  /\ pool' = [pool EXCEPT ![t] = {}]
  /\ UNCHANGED <<threads, signalled, ret, child, kind, obj, arg, hEvent,
                 hValid, open, phase>>

----------------------------------------------------------------------------
(* Getting rid of the threads of one object.                               *)

\* Mutated: the entries of terminated threads stay in the list.
TerminateKeepsEntries(victims, next) ==
  /\ pc' = [p \in Proc |->
              IF p \in victims /\ p \in open THEN "killed" ELSE next[p]]
  /\ threads' = threads
  /\ open' = open \ victims

\* TerminateThread, CloseHandle and removal of the entries of the victims.
\* TerminateThread has no effect through a handle that is not open.
Terminate(victims, next) ==
  /\ pc' = [p \in Proc |->
              IF p \in victims /\ p \in open THEN "killed" ELSE next[p]]
  /\ threads' = threads \ victims
  /\ open' = open \ victims

KillObjectThreads(p, t, o) ==
  /\ pc[p] = "running" /\ (p = Main => phase # "down")
  /\ CreateThread(p, t, "worker", "killing")
  /\ arg' = [arg EXCEPT ![t] = o]
  /\ UNCHANGED obj

\* The worker ended, its handle was closed under the wait, or 6 s have passed.
KillObjectThreadsReturn(p) ==
  /\ pc[p] = "killing"
  /\ pc' = [pc EXCEPT ![p] = "running"]
  /\ UNCHANGED <<threads, signalled, ret, child, kind, obj, arg, hEvent,
                 hValid, open, pool, phase>>

WorkerCollect(t) ==
  /\ pc[t] = "collect"
  /\ pool' = [pool EXCEPT ![t] = {u \in threads : obj[u] = arg[t]}]
  /\ pc' = [pc EXCEPT ![t] = IF pool'[t] = {} THEN "closing" ELSE "wait"]
  /\ UNCHANGED <<threads, signalled, ret, child, kind, obj, arg, hEvent,
                 hValid, open, phase>>

\* WaitForMultipleObjects fails at once if a handle has been closed since it
\* was collected; otherwise the objects stay referenced during the wait.
WorkerWait(t) ==
  /\ pc[t] = "wait"
  /\ pc' = [pc EXCEPT ![t] =
              IF pool[t] \subseteq open THEN "waiting" ELSE "closing"]
  /\ UNCHANGED <<threads, signalled, ret, child, kind, obj, arg, hEvent,
                 hValid, open, pool, phase>>

WorkerWaitDone(t) ==
  /\ pc[t] = "waiting"
  /\ \A u \in pool[t] : pc[u] \in Gone
  /\ pc' = [pc EXCEPT ![t] = "closing"]
  /\ UNCHANGED <<threads, signalled, ret, child, kind, obj, arg, hEvent,
                 hValid, open, pool, phase>>

WorkerWaitTimeout(t) ==
  /\ pc[t] = "waiting"
  /\ \E u \in pool[t] : pc[u] \notin Gone
  /\ pc' = [pc EXCEPT ![t] = "kill"]
  /\ UNCHANGED <<threads, signalled, ret, child, kind, obj, arg, hEvent,
                 hValid, open, pool, phase>>

WorkerKill(t) ==
  /\ pc[t] = "kill"
  /\ Terminate({u \in threads : obj[u] = arg[t]}, [pc EXCEPT ![t] = "closing"])
  /\ UNCHANGED <<signalled, ret, child, kind, obj, arg, hEvent, hValid, pool, phase>>

----------------------------------------------------------------------------
(* Shutdown: EnterMessageLoop, Thread_Wait and its 5 s timer, which nobody *)
(* kills and which therefore fires again and again.                        *)

Thread_Wait ==
  /\ phase = "up" /\ pc[Main] = "running"
  /\ phase' = "waiting"
  /\ UNCHANGED <<threads, signalled, pc, ret, child, kind, obj, arg, hEvent,
                 hValid, open, pool>>

Thread_WaitReturn ==
  /\ phase = "waiting" /\ pc[Main] = "running"
  /\ signalled
  /\ phase' = "shutdown"
  /\ UNCHANGED <<threads, signalled, pc, ret, child, kind, obj, arg, hEvent,
                 hValid, open, pool>>

\* The shutdown hooks have run and the second WM_QUIT ends the loop.
LeaveMessageLoop ==
  /\ phase = "shutdown" /\ pc[Main] = "running"
  /\ phase' = "down"
  /\ UNCHANGED <<threads, signalled, pc, ret, child, kind, obj, arg, hEvent,
                 hValid, open, pool>>

\* Mutated: the list is thrown away without terminating the threads.
KillAllThreadsForget ==
  /\ phase \in {"waiting", "shutdown"} /\ pc[Main] \in {"running", "killing"}
  /\ threads' = {}
  /\ signalled' = TRUE
  /\ UNCHANGED <<pc, ret, child, kind, obj, arg, hEvent, hValid, open, pool, phase>>

\* Mutated: the timer does not set the event after emptying the list.
KillAllThreadsNoSetEvent ==
  /\ phase \in {"waiting", "shutdown"} /\ pc[Main] \in {"running", "killing"}
  /\ Terminate(threads, pc)
  /\ UNCHANGED <<signalled, ret, child, kind, obj, arg, hEvent, hValid, pool, phase>>

KillAllThreads ==
  /\ phase \in {"waiting", "shutdown"} /\ pc[Main] \in {"running", "killing"}
  /\ Terminate(threads, pc)
  /\ signalled' = TRUE
  /\ UNCHANGED <<ret, child, kind, obj, arg, hEvent, hValid, pool, phase>>

----------------------------------------------------------------------------
Code(p) ==
  \/ \E t \in Thread : mir_forkthread(p, t)
  \/ \E t \in Thread, o \in Owner \cup {None} : mir_forkthreadowner(p, t, o)
  \/ \E t \in Thread, o \in Owner : KillObjectThreads(p, t, o)

Resume(p) == StoreHandle(p) \/ ForkReturn(p) \/ KillObjectThreadsReturn(p)

Push(t) == PushReset(t) \/ PushInsert(t) \/ PushSignal(t)

Leave(t) == CloseForkHandle(t) \/ Thread_Pop(t) \/ ThreadExit(t)

Worker(t) ==
  \/ WorkerCollect(t) \/ WorkerWait(t) \/ WorkerWaitDone(t)
  \/ WorkerWaitTimeout(t) \/ WorkerKill(t)

Next ==
  \/ \E p \in Proc : Code(p) \/ Resume(p)
  \/ \E t \in Thread : Push(t) \/ BodyReturn(t) \/ Leave(t) \/ Worker(t)
  \/ Thread_Wait \/ Thread_WaitReturn \/ LeaveMessageLoop \/ KillAllThreads

\* Every runnable thread is scheduled and timers fire; a thread's own code
\* (Code, BodyReturn) and the user's exit (Thread_Wait) may never happen.
Fairness ==
  /\ \A p \in Proc : WF_vars(Resume(p))
  /\ \A t \in Thread : WF_vars(Push(t)) /\ WF_vars(Leave(t)) /\ WF_vars(Worker(t))
  /\ WF_vars(Thread_WaitReturn) /\ WF_vars(LeaveMessageLoop) /\ WF_vars(KillAllThreads)

Spec == Init /\ [][Next]_vars

FairSpec == Spec /\ Fairness

----------------------------------------------------------------------------
(* Properties.                                                             *)

\* Types; only forked threads are in the list, and the main thread never ends.
TypeOK ==
  /\ threads \subseteq Thread
  /\ signalled \in BOOLEAN
  /\ pc \in [Proc -> ThreadPC]
  /\ pc[Main] \in MainPC
  /\ ret \in [Proc -> {"running", "killing"}]
  /\ child \in [Proc -> Thread \cup {None}]
  /\ kind \in [Thread -> {"plain", "ex", "worker"}]
  /\ obj \in [Thread -> Owner \cup {None}]
  /\ arg \in [Thread -> Owner \cup {None}]
  /\ hEvent \subseteq Thread
  /\ hValid \in [Thread -> BOOLEAN]
  /\ open \subseteq Thread
  /\ pool \in [Thread -> SUBSET Thread]
  /\ phase \in {"up", "waiting", "shutdown", "down"}

\* A list entry always belongs to a thread that is still executing its body:
\* neither Thread_Pop nor a forced termination leaves a stale entry behind,
\* so the next killer never terminates through a handle of a finished thread.
NoStaleEntry == \A t \in threads : pc[t] \in Body

\* Nobody read FORK_ARG.hThread before its forker stored it.
NoEarlyRead == \A t \in Thread : hValid[t]

\* As long as no child lost the race for FORK_ARG.hThread, every thread
\* between its insertion and its Thread_Pop has an entry with an open handle:
\* the shutdown and KillObjectThreads can see and terminate all of them.
RegisteredWhileRunning ==
  NoEarlyRead =>
    \A t \in Thread : pc[t] \in Body => t \in threads /\ t \in open

\* hThreadQueueEmpty cannot stay reset over an empty list (Thread_Wait would
\* sit out the 5 s timer although everybody has left): if it is reset, some
\* thread is in the list or about to enter it.
NoLostWakeup ==
  NoEarlyRead /\ ~signalled =>
    threads # {} \/ \E t \in Thread : pc[t] = "reset"

\* FORK_ARG lives on the forker's stack.  Until the child has set fa->hEvent
\* its forker is still inside mir_forkthread, unless the forker has been
\* terminated in the meantime.
ForkArgAlive ==
  \A t \in Thread :
    pc[t] \in {"created", "reset", "pushed"} =>
      \E p \in Proc : child[p] = t /\ pc[p] \in {"creating", "forking", "killed"}

\* The comment at threads.cpp:297: Thread_Wait waits "til the thread list is
\* empty".
WaitTilListEmpty ==
  [][NoEarlyRead /\ phase = "waiting" /\ phase' = "shutdown" => threads = {}]_vars

\* The comment at threads.cpp:227 "wait'em all": unless it goes on to kill
\* them, the worker leaves its wait only when no thread it collected still
\* executes its body.
WaitEmAll ==
  [][\A t \in Thread :
       NoEarlyRead /\ pc[t] \in {"wait", "waiting"} /\ pc'[t] = "closing" =>
         \A u \in pool[t] : pc[u] \notin Body]_vars

\* A forker that nobody will wake: its child was terminated between its
\* insertion into the list and its SetEvent.
Stuck(p) == pc[p] = "forking" /\ pc[child[p]] = "killed" /\ child[p] \notin hEvent

\* A fork returns: a forker comes back from mir_forkthread, or is terminated,
\* or its child was terminated before it could set the event.
ForkReturns ==
  \A p \in Proc :
    pc[p] \in {"creating", "forking"}
      ~> (pc[p] \notin {"creating", "forking"} \/ Stuck(p))

\* Once the main thread waits for the threads it gets out of the message loop,
\* whatever the threads do, because the timer terminates those that stay.
ShutdownCompletes == phase = "waiting" ~> (phase = "down" \/ Stuck(Main))
=============================================================================
