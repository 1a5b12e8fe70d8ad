--------------------------- MODULE ThreadsProofs ---------------------------
(***************************************************************************)
(* Proofs about Threads for any set of threads and owners.                 *)
(***************************************************************************)
EXTENDS Threads, TLAPS

(* What the invariants need besides each other: a fresh thread has no      *)
(* owner and has not raced for its handle, a KillObjectThreadsWorker is    *)
(* never a thread of an object, and fa->hEvent is set after the insertion. *)
Bookkeeping ==
  \A t \in Thread :
    /\ pc[t] = "unborn" => obj[t] = None
    /\ pc[t] \in {"unborn", "created"} => hValid[t]
    /\ kind[t] = "worker" => obj[t] = None /\ arg[t] \in Owner
    /\ pc[t] \in {"collect", "wait", "waiting", "kill"} => kind[t] = "worker"
    /\ t \in hEvent => pc[t] \notin {"unborn", "created", "reset", "pushed"}

Inv ==
  /\ TypeOK
  /\ NoStaleEntry
  /\ RegisteredWhileRunning
  /\ NoLostWakeup
  /\ ForkArgAlive
  /\ Bookkeeping

USE DEF Proc, ThreadPC, MainPC, Body, Gone

(* It holds initially: nothing runs but the main thread. *)
LEMMA InvInit == Init => Inv
BY ThreadsAssumption
   DEF Init, Inv, TypeOK, NoStaleEntry, RegisteredWhileRunning, NoEarlyRead,
       NoLostWakeup, ForkArgAlive, Bookkeeping

(* Forking: p goes to "creating", the fresh thread t to "created". *)
LEMMA CreateThreadInv ==
  ASSUME Inv, NEW p \in Proc, NEW t \in Thread, NEW k \in {"plain", "ex", "worker"},
         NEW back \in {"running", "killing"},
         pc[p] \in {"running", "killing"}, CreateThread(p, t, k, back),
         obj' \in [Thread -> Owner \cup {None}], arg' \in [Thread -> Owner \cup {None}],
         \A u \in Thread \ {t} : obj'[u] = obj[u] /\ arg'[u] = arg[u],
         k = "worker" => obj'[t] = None /\ arg'[t] \in Owner
  PROVE  Inv'
<1> USE DEF CreateThread
<1>1. p # t
  BY DEF Inv, TypeOK
<1>2. TypeOK'
  BY ThreadsAssumption, <1>1 DEF Inv, TypeOK
<1>3. NoStaleEntry'
  BY <1>1, ThreadsAssumption DEF Inv, TypeOK, NoStaleEntry
<1>4. RegisteredWhileRunning'
  BY <1>1, ThreadsAssumption DEF Inv, TypeOK, RegisteredWhileRunning, NoEarlyRead
<1>5. NoLostWakeup'
  BY <1>1, ThreadsAssumption DEF Inv, TypeOK, NoLostWakeup, NoEarlyRead
<1>6. ForkArgAlive'
  BY <1>1, ThreadsAssumption DEF Inv, TypeOK, ForkArgAlive
<1>7. Bookkeeping'
  BY <1>1, ThreadsAssumption DEF Inv, TypeOK, Bookkeeping
<1> QED BY <1>2, <1>3, <1>4, <1>5, <1>6, <1>7 DEF Inv

(* The forker stores the handle. *)
LEMMA StoreHandleInv ==
  ASSUME Inv, NEW p \in Proc, StoreHandle(p)
  PROVE  Inv'
<1> USE DEF StoreHandle
<1>1. TypeOK'
  BY ThreadsAssumption DEF Inv, TypeOK
<1>2. NoStaleEntry'
  BY ThreadsAssumption DEF Inv, TypeOK, NoStaleEntry
<1>3. RegisteredWhileRunning'
  BY ThreadsAssumption DEF Inv, TypeOK, RegisteredWhileRunning, NoEarlyRead, Bookkeeping
<1>4. NoLostWakeup'
  BY ThreadsAssumption DEF Inv, TypeOK, NoLostWakeup, NoEarlyRead, RegisteredWhileRunning, Bookkeeping
<1>5. ForkArgAlive'
  BY ThreadsAssumption DEF Inv, TypeOK, ForkArgAlive, Bookkeeping
<1>6. Bookkeeping'
  BY ThreadsAssumption DEF Inv, TypeOK, Bookkeeping
<1> QED BY <1>1, <1>2, <1>3, <1>4, <1>5, <1>6 DEF Inv

(* The forker comes back. *)
LEMMA ForkReturnInv ==
  ASSUME Inv, NEW p \in Proc, ForkReturn(p)
  PROVE  Inv'
<1> USE DEF ForkReturn
<1>1. TypeOK'
  BY ThreadsAssumption DEF Inv, TypeOK
<1>2. NoStaleEntry'
  BY ThreadsAssumption DEF Inv, TypeOK, NoStaleEntry
<1>3. RegisteredWhileRunning'
  BY ThreadsAssumption DEF Inv, TypeOK, RegisteredWhileRunning, NoEarlyRead, Bookkeeping
<1>4. NoLostWakeup'
  BY ThreadsAssumption DEF Inv, TypeOK, NoLostWakeup, NoEarlyRead, RegisteredWhileRunning, Bookkeeping
<1>5. ForkArgAlive'
  BY ThreadsAssumption DEF Inv, TypeOK, ForkArgAlive, Bookkeeping
<1>6. Bookkeeping'
  BY ThreadsAssumption DEF Inv, TypeOK, Bookkeeping
<1> QED BY <1>1, <1>2, <1>3, <1>4, <1>5, <1>6 DEF Inv

(* KillObjectThreads returns. *)
LEMMA KillReturnInv ==
  ASSUME Inv, NEW p \in Proc, KillObjectThreadsReturn(p)
  PROVE  Inv'
<1> USE DEF KillObjectThreadsReturn
<1>1. TypeOK'
  BY ThreadsAssumption DEF Inv, TypeOK
<1>2. NoStaleEntry'
  BY ThreadsAssumption DEF Inv, TypeOK, NoStaleEntry
<1>3. RegisteredWhileRunning'
  BY ThreadsAssumption DEF Inv, TypeOK, RegisteredWhileRunning, NoEarlyRead, Bookkeeping
<1>4. NoLostWakeup'
  BY ThreadsAssumption DEF Inv, TypeOK, NoLostWakeup, NoEarlyRead, RegisteredWhileRunning, Bookkeeping
<1>5. ForkArgAlive'
  BY ThreadsAssumption DEF Inv, TypeOK, ForkArgAlive, Bookkeeping
<1>6. Bookkeeping'
  BY ThreadsAssumption DEF Inv, TypeOK, Bookkeeping
<1> QED BY <1>1, <1>2, <1>3, <1>4, <1>5, <1>6 DEF Inv

(* The child resets the event. *)
LEMMA PushResetInv ==
  ASSUME Inv, NEW t \in Thread, PushReset(t)
  PROVE  Inv'
<1> USE DEF PushReset
<1>1. TypeOK'
  BY ThreadsAssumption DEF Inv, TypeOK
<1>2. NoStaleEntry'
  BY ThreadsAssumption DEF Inv, TypeOK, NoStaleEntry
<1>3. RegisteredWhileRunning'
  BY ThreadsAssumption DEF Inv, TypeOK, RegisteredWhileRunning, NoEarlyRead, Bookkeeping
<1>4. NoLostWakeup'
  BY ThreadsAssumption DEF Inv, TypeOK, NoLostWakeup, NoEarlyRead, RegisteredWhileRunning, Bookkeeping
<1>5. ForkArgAlive'
  BY ThreadsAssumption DEF Inv, TypeOK, ForkArgAlive, Bookkeeping
<1>6. Bookkeeping'
  BY ThreadsAssumption DEF Inv, TypeOK, Bookkeeping
<1> QED BY <1>1, <1>2, <1>3, <1>4, <1>5, <1>6 DEF Inv

(* The child enters the list. *)
LEMMA PushInsertInv ==
  ASSUME Inv, NEW t \in Thread, PushInsert(t)
  PROVE  Inv'
<1> USE DEF PushInsert
<1>1. TypeOK'
  BY ThreadsAssumption DEF Inv, TypeOK
<1>2. NoStaleEntry'
  BY ThreadsAssumption DEF Inv, TypeOK, NoStaleEntry
<1>3. RegisteredWhileRunning'
  BY ThreadsAssumption DEF Inv, TypeOK, RegisteredWhileRunning, NoEarlyRead, Bookkeeping
<1>4. NoLostWakeup'
  BY ThreadsAssumption DEF Inv, TypeOK, NoLostWakeup, NoEarlyRead, RegisteredWhileRunning, Bookkeeping
<1>5. ForkArgAlive'
  BY ThreadsAssumption DEF Inv, TypeOK, ForkArgAlive, Bookkeeping
<1>6. Bookkeeping'
  BY ThreadsAssumption DEF Inv, TypeOK, Bookkeeping
<1> QED BY <1>1, <1>2, <1>3, <1>4, <1>5, <1>6 DEF Inv

(* The child wakes its forker. *)
LEMMA PushSignalInv ==
  ASSUME Inv, NEW t \in Thread, PushSignal(t)
  PROVE  Inv'
<1> USE DEF PushSignal
<1>1. TypeOK'
  BY ThreadsAssumption DEF Inv, TypeOK
<1>2. NoStaleEntry'
  BY ThreadsAssumption DEF Inv, TypeOK, NoStaleEntry
<1>3. RegisteredWhileRunning'
  BY ThreadsAssumption DEF Inv, TypeOK, RegisteredWhileRunning, NoEarlyRead, Bookkeeping
<1>4. NoLostWakeup'
  BY ThreadsAssumption DEF Inv, TypeOK, NoLostWakeup, NoEarlyRead, RegisteredWhileRunning, Bookkeeping
<1>5. ForkArgAlive'
  BY ThreadsAssumption DEF Inv, TypeOK, ForkArgAlive, Bookkeeping
<1>6. Bookkeeping'
  BY ThreadsAssumption DEF Inv, TypeOK, Bookkeeping
<1> QED BY <1>1, <1>2, <1>3, <1>4, <1>5, <1>6 DEF Inv

(* The body returns. *)
LEMMA BodyReturnInv ==
  ASSUME Inv, NEW t \in Thread, BodyReturn(t)
  PROVE  Inv'
<1> USE DEF BodyReturn
<1>1. TypeOK'
  BY ThreadsAssumption DEF Inv, TypeOK
<1>2. NoStaleEntry'
  BY ThreadsAssumption DEF Inv, TypeOK, NoStaleEntry
<1>3. RegisteredWhileRunning'
  BY ThreadsAssumption DEF Inv, TypeOK, RegisteredWhileRunning, NoEarlyRead, Bookkeeping
<1>4. NoLostWakeup'
  BY ThreadsAssumption DEF Inv, TypeOK, NoLostWakeup, NoEarlyRead, RegisteredWhileRunning, Bookkeeping
<1>5. ForkArgAlive'
  BY ThreadsAssumption DEF Inv, TypeOK, ForkArgAlive, Bookkeeping
<1>6. Bookkeeping'
  BY ThreadsAssumption DEF Inv, TypeOK, Bookkeeping
<1> QED BY <1>1, <1>2, <1>3, <1>4, <1>5, <1>6 DEF Inv

(* The child closes the handle it read. *)
LEMMA CloseForkHandleInv ==
  ASSUME Inv, NEW t \in Thread, CloseForkHandle(t)
  PROVE  Inv'
<1> USE DEF CloseForkHandle
<1>1. TypeOK'
  BY ThreadsAssumption DEF Inv, TypeOK
<1>2. NoStaleEntry'
  BY ThreadsAssumption DEF Inv, TypeOK, NoStaleEntry
<1>3. RegisteredWhileRunning'
  BY ThreadsAssumption DEF Inv, TypeOK, RegisteredWhileRunning, NoEarlyRead, Bookkeeping
<1>4. NoLostWakeup'
  BY ThreadsAssumption DEF Inv, TypeOK, NoLostWakeup, NoEarlyRead, RegisteredWhileRunning, Bookkeeping
<1>5. ForkArgAlive'
  BY ThreadsAssumption DEF Inv, TypeOK, ForkArgAlive, Bookkeeping
<1>6. Bookkeeping'
  BY ThreadsAssumption DEF Inv, TypeOK, Bookkeeping
<1> QED BY <1>1, <1>2, <1>3, <1>4, <1>5, <1>6 DEF Inv

(* The child leaves the list. *)
LEMMA ThreadPopInv ==
  ASSUME Inv, NEW t \in Thread, Thread_Pop(t)
  PROVE  Inv'
<1> USE DEF Thread_Pop
<1>1. TypeOK'
  BY ThreadsAssumption DEF Inv, TypeOK
<1>2. NoStaleEntry'
  BY ThreadsAssumption DEF Inv, TypeOK, NoStaleEntry
<1>3. RegisteredWhileRunning'
  BY ThreadsAssumption DEF Inv, TypeOK, RegisteredWhileRunning, NoEarlyRead, Bookkeeping
<1>4. NoLostWakeup'
  BY ThreadsAssumption DEF Inv, TypeOK, NoLostWakeup, NoEarlyRead, RegisteredWhileRunning, Bookkeeping
<1>5. ForkArgAlive'
  BY ThreadsAssumption DEF Inv, TypeOK, ForkArgAlive, Bookkeeping
<1>6. Bookkeeping'
  BY ThreadsAssumption DEF Inv, TypeOK, Bookkeeping
<1> QED BY <1>1, <1>2, <1>3, <1>4, <1>5, <1>6 DEF Inv

(* The thread ends. *)
LEMMA ThreadExitInv ==
  ASSUME Inv, NEW t \in Thread, ThreadExit(t)
  PROVE  Inv'
<1> USE DEF ThreadExit
<1>1. TypeOK'
  BY ThreadsAssumption DEF Inv, TypeOK
<1>2. NoStaleEntry'
  BY ThreadsAssumption DEF Inv, TypeOK, NoStaleEntry
<1>3. RegisteredWhileRunning'
  BY ThreadsAssumption DEF Inv, TypeOK, RegisteredWhileRunning, NoEarlyRead, Bookkeeping
<1>4. NoLostWakeup'
  BY ThreadsAssumption DEF Inv, TypeOK, NoLostWakeup, NoEarlyRead, RegisteredWhileRunning, Bookkeeping
<1>5. ForkArgAlive'
  BY ThreadsAssumption DEF Inv, TypeOK, ForkArgAlive, Bookkeeping
<1>6. Bookkeeping'
  BY ThreadsAssumption DEF Inv, TypeOK, Bookkeeping
<1> QED BY <1>1, <1>2, <1>3, <1>4, <1>5, <1>6 DEF Inv

(* A worker collects the threads of its object. *)
LEMMA WorkerCollectInv ==
  ASSUME Inv, NEW t \in Thread, WorkerCollect(t)
  PROVE  Inv'
<1> USE DEF WorkerCollect
<1>1. TypeOK'
  BY ThreadsAssumption DEF Inv, TypeOK
<1>2. NoStaleEntry'
  BY ThreadsAssumption DEF Inv, TypeOK, NoStaleEntry
<1>3. RegisteredWhileRunning'
  BY ThreadsAssumption DEF Inv, TypeOK, RegisteredWhileRunning, NoEarlyRead, Bookkeeping
<1>4. NoLostWakeup'
  BY ThreadsAssumption DEF Inv, TypeOK, NoLostWakeup, NoEarlyRead, RegisteredWhileRunning, Bookkeeping
<1>5. ForkArgAlive'
  BY ThreadsAssumption DEF Inv, TypeOK, ForkArgAlive, Bookkeeping
<1>6. Bookkeeping'
  BY ThreadsAssumption DEF Inv, TypeOK, Bookkeeping
<1> QED BY <1>1, <1>2, <1>3, <1>4, <1>5, <1>6 DEF Inv

(* A worker starts to wait. *)
LEMMA WorkerWaitInv ==
  ASSUME Inv, NEW t \in Thread, WorkerWait(t)
  PROVE  Inv'
<1> USE DEF WorkerWait
<1>1. TypeOK'
  BY ThreadsAssumption DEF Inv, TypeOK
<1>2. NoStaleEntry'
  BY ThreadsAssumption DEF Inv, TypeOK, NoStaleEntry
<1>3. RegisteredWhileRunning'
  BY ThreadsAssumption DEF Inv, TypeOK, RegisteredWhileRunning, NoEarlyRead, Bookkeeping
<1>4. NoLostWakeup'
  BY ThreadsAssumption DEF Inv, TypeOK, NoLostWakeup, NoEarlyRead, RegisteredWhileRunning, Bookkeeping
<1>5. ForkArgAlive'
  BY ThreadsAssumption DEF Inv, TypeOK, ForkArgAlive, Bookkeeping
<1>6. Bookkeeping'
  BY ThreadsAssumption DEF Inv, TypeOK, Bookkeeping
<1> QED BY <1>1, <1>2, <1>3, <1>4, <1>5, <1>6 DEF Inv

(* A worker's wait succeeds. *)
LEMMA WorkerWaitDoneInv ==
  ASSUME Inv, NEW t \in Thread, WorkerWaitDone(t)
  PROVE  Inv'
<1> USE DEF WorkerWaitDone
<1>1. TypeOK'
  BY ThreadsAssumption DEF Inv, TypeOK
<1>2. NoStaleEntry'
  BY ThreadsAssumption DEF Inv, TypeOK, NoStaleEntry
<1>3. RegisteredWhileRunning'
  BY ThreadsAssumption DEF Inv, TypeOK, RegisteredWhileRunning, NoEarlyRead, Bookkeeping
<1>4. NoLostWakeup'
  BY ThreadsAssumption DEF Inv, TypeOK, NoLostWakeup, NoEarlyRead, RegisteredWhileRunning, Bookkeeping
<1>5. ForkArgAlive'
  BY ThreadsAssumption DEF Inv, TypeOK, ForkArgAlive, Bookkeeping
<1>6. Bookkeeping'
  BY ThreadsAssumption DEF Inv, TypeOK, Bookkeeping
<1> QED BY <1>1, <1>2, <1>3, <1>4, <1>5, <1>6 DEF Inv

(* A worker's wait times out. *)
LEMMA WorkerWaitTimeoutInv ==
  ASSUME Inv, NEW t \in Thread, WorkerWaitTimeout(t)
  PROVE  Inv'
<1> USE DEF WorkerWaitTimeout
<1>1. TypeOK'
  BY ThreadsAssumption DEF Inv, TypeOK
<1>2. NoStaleEntry'
  BY ThreadsAssumption DEF Inv, TypeOK, NoStaleEntry
<1>3. RegisteredWhileRunning'
  BY ThreadsAssumption DEF Inv, TypeOK, RegisteredWhileRunning, NoEarlyRead, Bookkeeping
<1>4. NoLostWakeup'
  BY ThreadsAssumption DEF Inv, TypeOK, NoLostWakeup, NoEarlyRead, RegisteredWhileRunning, Bookkeeping
<1>5. ForkArgAlive'
  BY ThreadsAssumption DEF Inv, TypeOK, ForkArgAlive, Bookkeeping
<1>6. Bookkeeping'
  BY ThreadsAssumption DEF Inv, TypeOK, Bookkeeping
<1> QED BY <1>1, <1>2, <1>3, <1>4, <1>5, <1>6 DEF Inv

(* A worker terminates the threads of its object, never itself. *)
LEMMA WorkerKillInv ==
  ASSUME Inv, NEW t \in Thread, WorkerKill(t)
  PROVE  Inv'
<1> USE DEF WorkerKill, Terminate
<1>1. TypeOK'
  BY ThreadsAssumption DEF Inv, TypeOK
<1>2. NoStaleEntry'
  BY ThreadsAssumption DEF Inv, TypeOK, NoStaleEntry
<1>3. RegisteredWhileRunning'
  BY ThreadsAssumption DEF Inv, TypeOK, RegisteredWhileRunning, NoEarlyRead, Bookkeeping
<1>4. NoLostWakeup'
  BY ThreadsAssumption DEF Inv, TypeOK, NoLostWakeup, NoEarlyRead, RegisteredWhileRunning, Bookkeeping
<1>5. ForkArgAlive'
  BY ThreadsAssumption DEF Inv, TypeOK, ForkArgAlive, Bookkeeping
<1>6. Bookkeeping'
  BY ThreadsAssumption DEF Inv, TypeOK, Bookkeeping
<1> QED BY <1>1, <1>2, <1>3, <1>4, <1>5, <1>6 DEF Inv

(* The timer terminates every thread of the list. *)
LEMMA KillAllThreadsInv ==
  ASSUME Inv, KillAllThreads
  PROVE  Inv'
<1> USE DEF KillAllThreads, Terminate
<1>1. TypeOK'
  BY ThreadsAssumption DEF Inv, TypeOK
<1>2. NoStaleEntry'
  BY ThreadsAssumption DEF Inv, TypeOK, NoStaleEntry
<1>3. RegisteredWhileRunning'
  BY ThreadsAssumption DEF Inv, TypeOK, RegisteredWhileRunning, NoEarlyRead, Bookkeeping
<1>4. NoLostWakeup'
  BY ThreadsAssumption DEF Inv, TypeOK, NoLostWakeup, NoEarlyRead, RegisteredWhileRunning, Bookkeeping
<1>5. ForkArgAlive'
  BY ThreadsAssumption DEF Inv, TypeOK, ForkArgAlive, Bookkeeping
<1>6. Bookkeeping'
  BY ThreadsAssumption DEF Inv, TypeOK, Bookkeeping
<1> QED BY <1>1, <1>2, <1>3, <1>4, <1>5, <1>6 DEF Inv

(* Shutdown begins. *)
LEMMA ThreadWaitInv ==
  ASSUME Inv, Thread_Wait
  PROVE  Inv'
<1> USE DEF Thread_Wait
<1>1. TypeOK'
  BY ThreadsAssumption DEF Inv, TypeOK
<1>2. NoStaleEntry'
  BY ThreadsAssumption DEF Inv, TypeOK, NoStaleEntry
<1>3. RegisteredWhileRunning'
  BY ThreadsAssumption DEF Inv, TypeOK, RegisteredWhileRunning, NoEarlyRead, Bookkeeping
<1>4. NoLostWakeup'
  BY ThreadsAssumption DEF Inv, TypeOK, NoLostWakeup, NoEarlyRead, RegisteredWhileRunning, Bookkeeping
<1>5. ForkArgAlive'
  BY ThreadsAssumption DEF Inv, TypeOK, ForkArgAlive, Bookkeeping
<1>6. Bookkeeping'
  BY ThreadsAssumption DEF Inv, TypeOK, Bookkeeping
<1> QED BY <1>1, <1>2, <1>3, <1>4, <1>5, <1>6 DEF Inv

(* The event is signalled. *)
LEMMA ThreadWaitReturnInv ==
  ASSUME Inv, Thread_WaitReturn
  PROVE  Inv'
<1> USE DEF Thread_WaitReturn
<1>1. TypeOK'
  BY ThreadsAssumption DEF Inv, TypeOK
<1>2. NoStaleEntry'
  BY ThreadsAssumption DEF Inv, TypeOK, NoStaleEntry
<1>3. RegisteredWhileRunning'
  BY ThreadsAssumption DEF Inv, TypeOK, RegisteredWhileRunning, NoEarlyRead, Bookkeeping
<1>4. NoLostWakeup'
  BY ThreadsAssumption DEF Inv, TypeOK, NoLostWakeup, NoEarlyRead, RegisteredWhileRunning, Bookkeeping
<1>5. ForkArgAlive'
  BY ThreadsAssumption DEF Inv, TypeOK, ForkArgAlive, Bookkeeping
<1>6. Bookkeeping'
  BY ThreadsAssumption DEF Inv, TypeOK, Bookkeeping
<1> QED BY <1>1, <1>2, <1>3, <1>4, <1>5, <1>6 DEF Inv

(* The loop ends. *)
LEMMA LeaveMessageLoopInv ==
  ASSUME Inv, LeaveMessageLoop
  PROVE  Inv'
<1> USE DEF LeaveMessageLoop
<1>1. TypeOK'
  BY ThreadsAssumption DEF Inv, TypeOK
<1>2. NoStaleEntry'
  BY ThreadsAssumption DEF Inv, TypeOK, NoStaleEntry
<1>3. RegisteredWhileRunning'
  BY ThreadsAssumption DEF Inv, TypeOK, RegisteredWhileRunning, NoEarlyRead, Bookkeeping
<1>4. NoLostWakeup'
  BY ThreadsAssumption DEF Inv, TypeOK, NoLostWakeup, NoEarlyRead, RegisteredWhileRunning, Bookkeeping
<1>5. ForkArgAlive'
  BY ThreadsAssumption DEF Inv, TypeOK, ForkArgAlive, Bookkeeping
<1>6. Bookkeeping'
  BY ThreadsAssumption DEF Inv, TypeOK, Bookkeeping
<1> QED BY <1>1, <1>2, <1>3, <1>4, <1>5, <1>6 DEF Inv

(* Code that runs in the body of a thread or in a message handler. *)
LEMMA CodeInv ==
  ASSUME Inv, NEW p \in Proc, Code(p)
  PROVE  Inv'
<1>1. ASSUME NEW t \in Thread, mir_forkthread(p, t)
      PROVE  Inv'
  <2>1. pc[p] \in {"running", "killing"} /\ CreateThread(p, t, "plain", pc[p])
    BY <1>1 DEF mir_forkthread, MayFork
  <2>2. obj' = obj /\ arg' = arg
    BY <1>1 DEF mir_forkthread
  <2> QED BY <2>1, <2>2, CreateThreadInv DEF Inv, TypeOK
<1>2. ASSUME NEW t \in Thread, NEW o \in Owner \cup {None}, mir_forkthreadowner(p, t, o)
      PROVE  Inv'
  <2>1. pc[p] \in {"running", "killing"} /\ CreateThread(p, t, "ex", pc[p])
    BY <1>2 DEF mir_forkthreadowner, MayFork
  <2>2. obj' = [obj EXCEPT ![t] = o] /\ arg' = arg
    BY <1>2 DEF mir_forkthreadowner
  <2> QED BY <2>1, <2>2, CreateThreadInv DEF Inv, TypeOK
<1>3. ASSUME NEW t \in Thread, NEW o \in Owner, KillObjectThreads(p, t, o)
      PROVE  Inv'
  <2>1. pc[p] = "running" /\ CreateThread(p, t, "worker", "killing")
    BY <1>3 DEF KillObjectThreads
  <2>2. obj' = obj /\ arg' = [arg EXCEPT ![t] = o]
    BY <1>3 DEF KillObjectThreads
  <2>3. obj[t] = None
    BY <2>1 DEF CreateThread, Inv, Bookkeeping
  <2>4. arg'[t] = o
    BY <2>2 DEF Inv, TypeOK
  <2> QED BY <2>1, <2>2, <2>3, <2>4, CreateThreadInv DEF Inv, TypeOK
<1> QED BY <1>1, <1>2, <1>3 DEF Code

(* The invariant is inductive: one case per group of actions of Next. *)
LEMMA InvNext == Inv /\ [Next]_vars => Inv'
<1> SUFFICES ASSUME Inv, [Next]_vars PROVE Inv'
  OBVIOUS
<1>1. CASE \E p \in Proc : Code(p) \/ Resume(p)
  BY <1>1, CodeInv, StoreHandleInv, ForkReturnInv, KillReturnInv DEF Resume
<1>2. CASE \E t \in Thread : Push(t) \/ BodyReturn(t) \/ Leave(t) \/ Worker(t)
  <2> PICK t \in Thread : Push(t) \/ BodyReturn(t) \/ Leave(t) \/ Worker(t)
    BY <1>2
  <2>1. CASE Push(t)
    BY <2>1, PushResetInv, PushInsertInv, PushSignalInv DEF Push
  <2>2. CASE BodyReturn(t)
    BY <2>2, BodyReturnInv
  <2>3. CASE Leave(t)
    BY <2>3, CloseForkHandleInv, ThreadPopInv, ThreadExitInv DEF Leave
  <2>4. CASE Worker(t)
    BY <2>4, WorkerCollectInv, WorkerWaitInv, WorkerWaitDoneInv,
       WorkerWaitTimeoutInv, WorkerKillInv DEF Worker
  <2> QED BY <2>1, <2>2, <2>3, <2>4
<1>3. CASE Thread_Wait \/ Thread_WaitReturn \/ LeaveMessageLoop \/ KillAllThreads
  BY <1>3, ThreadWaitInv, ThreadWaitReturnInv, LeaveMessageLoopInv, KillAllThreadsInv
<1>4. CASE UNCHANGED vars
  BY <1>4 DEF vars, Inv, TypeOK, NoStaleEntry, RegisteredWhileRunning, NoEarlyRead,
              NoLostWakeup, ForkArgAlive, Bookkeeping
<1> QED BY <1>1, <1>2, <1>3, <1>4 DEF Next

(* The inductive invariant, from which the results below follow. *)
THEOREM ThreadsInvariant == Spec => []Inv
BY InvInit, InvNext, PTL DEF Spec

(* Every variable of the registry keeps its type. *)
THEOREM TypeCorrect == Spec => []TypeOK
BY ThreadsInvariant, PTL DEF Inv

(* No stale list entry: whoever is in the list still executes its body, so
   KillObjectThreadsWorker and KillAllThreads only terminate live threads. *)
THEOREM RegistryIsLive == Spec => []NoStaleEntry
BY ThreadsInvariant, PTL DEF Inv

(* Unless a child raced its forker for FORK_ARG.hThread, every thread between
   Thread_Push and Thread_Pop is in the list with an open handle. *)
THEOREM RegistryIsComplete == Spec => []RegisteredWhileRunning
BY ThreadsInvariant, PTL DEF Inv

(* hThreadQueueEmpty is never left reset over an empty list. *)
THEOREM NoWakeupIsLost == Spec => []NoLostWakeup
BY ThreadsInvariant, PTL DEF Inv

(* The FORK_ARG on the forker's stack outlives the child's use of it, unless
   the forker was terminated. *)
THEOREM ForkArgIsAlive == Spec => []ForkArgAlive
BY ThreadsInvariant, PTL DEF Inv

(* A forker waits for a thread that will wake it. *)

(* The child has not set fa->hEvent yet. *)
Early == {"created", "reset", "pushed"}

(* A forker knows its child, and the child has set fa->hEvent or is on its way
   there; only a child that was terminated leaves it waiting. *)
ForkerIsAwaited ==
  \A p \in Proc : pc[p] \in {"creating", "forking"} =>
    /\ child[p] \in Thread
    /\ child[p] \in hEvent \/ pc[child[p]] \in Early \cup {"killed"}

(* What a step may do to a child that has not set the event, and to a forker. *)
ForkStep ==
  /\ hEvent \subseteq hEvent'
  /\ \A t \in Thread :
       /\ pc[t] \in Early => pc'[t] \in Early \cup {"killed"} \/ t \in hEvent'
       /\ pc[t] = "killed" => pc'[t] = "killed"
  /\ \A p \in Proc : pc'[p] \in {"creating", "forking"} =>
       \/ child'[p] = child[p] /\ pc[p] \in {"creating", "forking"}
       \/ child'[p] \in Thread /\ pc'[child'[p]] = "created"

(* A step in which only q moves, and neither starts a fork nor goes astray. *)
LEMMA OneMoves ==
  ASSUME TypeOK, NEW q \in Proc, NEW c, pc' = [pc EXCEPT ![q] = c],
         UNCHANGED child, hEvent \subseteq hEvent',
         pc[q] # "killed", pc[q] \in Early => c \in Early \/ q \in hEvent',
         c \in {"creating", "forking"} => pc[q] \in {"creating", "forking"}
  PROVE  ForkStep
BY DEF ForkStep, TypeOK

(* The main thread's and the threads' own forks. *)
LEMMA CodeForks ==
  ASSUME Inv, NEW p \in Proc, Code(p)
  PROVE  ForkStep
<1>1. PICK t \in Thread, k \in {"plain", "ex", "worker"}, back \in {"running", "killing"} :
        CreateThread(p, t, k, back) /\ pc[p] \in {"running", "killing"}
  BY DEF Code, mir_forkthread, mir_forkthreadowner, KillObjectThreads, MayFork
<1>2. /\ pc[t] = "unborn" /\ pc' = [pc EXCEPT ![p] = "creating", ![t] = "created"]
      /\ child' = [child EXCEPT ![p] = t] /\ hEvent' = hEvent /\ p # t
  BY <1>1 DEF CreateThread
<1>3. /\ pc'[p] = "creating" /\ pc'[t] = "created" /\ child'[p] = t
      /\ \A q \in Proc \ {p, t} : pc'[q] = pc[q]
      /\ \A q \in Proc \ {p} : child'[q] = child[q]
  BY <1>2 DEF Inv, TypeOK
<1>4. \A u \in Thread :
        /\ pc[u] \in Early => pc'[u] \in Early \cup {"killed"}
        /\ pc[u] = "killed" => pc'[u] = "killed"
  BY <1>1, <1>2, <1>3 DEF Early
<1>5. \A q \in Proc : pc'[q] \in {"creating", "forking"} =>
        \/ child'[q] = child[q] /\ pc[q] \in {"creating", "forking"}
        \/ child'[q] \in Thread /\ pc'[child'[q]] = "created"
  BY <1>2, <1>3
<1> QED BY <1>2, <1>4, <1>5 DEF ForkStep

(* Every other step of a thread. *)
LEMMA OthersFork ==
  ASSUME Inv, (\E p \in Proc : Resume(p)) \/
              (\E t \in Thread : Push(t) \/ BodyReturn(t) \/ Leave(t) \/ Worker(t)) \/
              Thread_Wait \/ Thread_WaitReturn \/ LeaveMessageLoop \/ KillAllThreads \/
              UNCHANGED vars
  PROVE  ForkStep
<1> USE DEF Early
<1>1. TypeOK
  BY DEF Inv
<1>2. ASSUME NEW p \in Proc, Resume(p) PROVE ForkStep
  <2>1. CASE StoreHandle(p)
    BY <1>1, <2>1, OneMoves DEF StoreHandle
  <2>2. CASE KillObjectThreadsReturn(p)
    BY <1>1, <2>2, OneMoves DEF KillObjectThreadsReturn
  <2>3. CASE ForkReturn(p)
    <3>1. /\ pc[p] = "forking" /\ pc' = [pc EXCEPT ![p] = ret[p]] /\ hEvent' = hEvent
          /\ child' = [child EXCEPT ![p] = None] /\ ret[p] \in {"running", "killing"}
      BY <1>1, <2>3 DEF ForkReturn, TypeOK
    <3> QED BY <1>1, <3>1 DEF ForkStep, TypeOK
  <2> QED BY <1>2, <2>1, <2>2, <2>3 DEF Resume
<1>3. ASSUME NEW t \in Thread, Push(t) \/ BodyReturn(t) \/ Leave(t) PROVE ForkStep
  <2>1. CASE Push(t)
    <3>1. PICK c : /\ pc' = [pc EXCEPT ![t] = c] /\ c \in {"reset", "pushed", "collect", "running"}
                   /\ pc[t] \in Early /\ (c \in Early \/ t \in hEvent')
                   /\ UNCHANGED child /\ hEvent \subseteq hEvent'
      BY <2>1 DEF Push, PushReset, PushInsert, PushSignal
    <3> QED BY <1>1, <3>1, OneMoves
  <2>2. CASE BodyReturn(t) \/ Leave(t)
    <3>1. PICK c : /\ pc' = [pc EXCEPT ![t] = c] /\ c \in {"popping", "closing", "exiting", "dead"}
                   /\ pc[t] \in {"running", "closing", "popping", "exiting"}
                   /\ UNCHANGED <<child, hEvent>>
      BY <2>2 DEF BodyReturn, Leave, CloseForkHandle, Thread_Pop, ThreadExit
    <3> QED BY <1>1, <3>1, OneMoves
  <2> QED BY <1>3, <2>1, <2>2
<1>4. ASSUME NEW victims, NEW next \in [Proc -> ThreadPC], Terminate(victims, next),
             UNCHANGED <<child, hEvent>>,
             \A p \in Proc : next[p] = pc[p] \/ (pc[p] = "kill" /\ next[p] = "closing")
      PROVE  ForkStep
  <2>1. \A p \in Proc : pc'[p] = "killed" \/ pc'[p] = next[p]
    BY <1>4 DEF Terminate
  <2> QED BY <1>4, <2>1 DEF ForkStep
<1>5. ASSUME NEW t \in Thread, Worker(t) PROVE ForkStep
  <2>1. CASE WorkerKill(t)
    <3>1. /\ pc[t] = "kill" /\ UNCHANGED <<child, hEvent>>
          /\ Terminate({u \in threads : obj[u] = arg[t]}, [pc EXCEPT ![t] = "closing"])
      BY <2>1 DEF WorkerKill
    <3>2. /\ [pc EXCEPT ![t] = "closing"] \in [Proc -> ThreadPC]
          /\ \A p \in Proc : \/ [pc EXCEPT ![t] = "closing"][p] = pc[p]
                             \/ pc[p] = "kill" /\ [pc EXCEPT ![t] = "closing"][p] = "closing"
      BY <1>1, <3>1 DEF TypeOK
    <3> QED BY <1>4, <3>1, <3>2
  <2>2. CASE WorkerCollect(t) \/ WorkerWait(t) \/ WorkerWaitDone(t) \/ WorkerWaitTimeout(t)
    <3>1. PICK c : /\ pc' = [pc EXCEPT ![t] = c] /\ c \in {"wait", "waiting", "kill", "closing"}
                   /\ pc[t] \in {"collect", "wait", "waiting"}
                   /\ UNCHANGED <<child, hEvent>>
      BY <2>2 DEF WorkerCollect, WorkerWait, WorkerWaitDone, WorkerWaitTimeout
    <3> QED BY <1>1, <3>1, OneMoves
  <2> QED BY <1>5, <2>1, <2>2 DEF Worker
<1>6. CASE Thread_Wait \/ Thread_WaitReturn \/ LeaveMessageLoop \/ UNCHANGED vars
  <2>1. UNCHANGED <<pc, child, hEvent>>
    BY <1>6 DEF Thread_Wait, Thread_WaitReturn, LeaveMessageLoop, vars
  <2> QED BY <2>1 DEF ForkStep
<1>7. CASE KillAllThreads
  <2>1. Terminate(threads, pc) /\ UNCHANGED <<child, hEvent>> /\ pc \in [Proc -> ThreadPC]
    BY <1>1, <1>7 DEF KillAllThreads, TypeOK
  <2> QED BY <1>4, <2>1
<1> QED BY <1>2, <1>3, <1>5, <1>6, <1>7

(* No forker waits for an event that nobody is left to set, except one whose
   child was terminated before it could: the part of ForkReturns that is not a
   matter of fairness. *)
THEOREM ForkersAreAwaited == Spec => []ForkerIsAwaited
<1>1. Init => ForkerIsAwaited
  BY DEF Init, ForkerIsAwaited
<1>2. Inv /\ ForkerIsAwaited /\ [Next]_vars => ForkerIsAwaited'
  <2> SUFFICES ASSUME Inv, ForkerIsAwaited, [Next]_vars,
                      NEW p \in Proc, pc'[p] \in {"creating", "forking"}
               PROVE  /\ child'[p] \in Thread
                      /\ child'[p] \in hEvent' \/ pc'[child'[p]] \in Early \cup {"killed"}
    BY DEF ForkerIsAwaited
  <2>1. ForkStep
    BY CodeForks, OthersFork DEF Next
  <2>2. CASE child'[p] = child[p] /\ pc[p] \in {"creating", "forking"}
    <3>1. child[p] \in Thread /\ (child[p] \in hEvent \/ pc[child[p]] \in Early \cup {"killed"})
      BY <2>2 DEF ForkerIsAwaited
    <3> QED BY <2>1, <2>2, <3>1 DEF ForkStep
  <2>3. CASE child'[p] \in Thread /\ pc'[child'[p]] = "created"
    BY <2>3 DEF Early
  <2> QED BY <2>1, <2>2, <2>3 DEF ForkStep
<1> QED BY <1>1, <1>2, ThreadsInvariant, PTL DEF Spec
=============================================================================
