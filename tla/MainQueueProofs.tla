-------------------------- MODULE MainQueueProofs --------------------------
(***************************************************************************)
(* Proofs about MainQueue for any workers, services and bounds: the        *)
(* invariants the runs check, and that MainQueue implements SyncCall.      *)
(***************************************************************************)
EXTENDS MainQueue, TLAPS

(* The entry's caller is alive and waits for it. *)
Waits(x) == x.kind = "sync" /\ pc[x.w] # "dead"

EntryOK(x) ==
  /\ x.n <= call[x.w]
  /\ Waits(x) => pc[x.w] = "posted" /\ x.n = call[x.w] /\ x.w \notin signalled

QueueOK ==
  /\ \A i \in DOMAIN queue :
       /\ EntryOK(queue[i])
       /\ Waits(queue[i]) => result[queue[i].w] = Unset
       /\ queue[i].req # Fn => queue[i].kind = "sync"
  /\ \A i, j \in DOMAIN queue : i < j /\ queue[i].w = queue[j].w => queue[i].n < queue[j].n

StackOK ==
  /\ \A i \in DOMAIN stack :
       /\ EntryOK(stack[i])
       /\ Waits(stack[i]) => (stack[i].phase = "stored" <=> result[stack[i].w] # Unset)
       /\ stack[i].phase # "run" => stack[i].kind = "sync"
  /\ \A i, j \in DOMAIN stack : i < j /\ stack[i].w = stack[j].w => stack[i].n < stack[j].n

(* The calls of a worker are dispatched in the order they were made. *)
BetweenOK ==
  \A i \in DOMAIN stack, j \in DOMAIN queue :
    stack[i].w = queue[j].w => stack[i].n < queue[j].n

ReplyOK ==
  /\ \A w \in signalled : pc[w] # "dead" => pc[w] = "posted" /\ result[w] # Unset
  /\ \A w \in Worker : pc[w] = "posted" => result[w] \in {Unset, NotFound, call[w]}

Inv == TypeOK /\ QueueOK /\ StackOK /\ BetweenOK /\ ReplyOK

(* Nothing is posted and nothing runs at first. *)
LEMMA InvInit == Init => Inv
<1> SUFFICES ASSUME Init PROVE Inv
  OBVIOUS
<1> USE MainQueueAssumption DEF Init, Unset
<1>1. TypeOK
  <2>1. queue \in Seq(Message) /\ Len(queue) <= QueueLimit /\ stack \in Seq(Running)
    OBVIOUS
  <2>2. /\ call \in [Worker -> 0..MaxCalls] /\ result \in [Worker -> -1..MaxCalls]
        /\ got \in [Worker -> -1..MaxCalls]
    OBVIOUS
  <2>3. /\ pc \in [Worker -> {"idle", "posted", "dead"}] /\ signalled \subseteq Worker
        /\ owner \in [Service -> Object \cup {None}] /\ up \in BOOLEAN
    OBVIOUS
  <2> QED BY <2>1, <2>2, <2>3 DEF TypeOK
<1>2. QueueOK /\ StackOK /\ BetweenOK
  BY DEF QueueOK, StackOK, BetweenOK
<1>3. ReplyOK
  BY DEF ReplyOK
<1> QED BY <1>1, <1>2, <1>3 DEF Inv

(* A post leaves the queue alone or adds the message behind it. *)
LEMMA PostEffect ==
  ASSUME TypeOK, NEW m \in Message, Post(m)
  PROVE  /\ queue' \in Seq(Message) /\ Len(queue') <= QueueLimit
         /\ \A i \in DOMAIN queue' :
              \/ i \in DOMAIN queue /\ queue'[i] = queue[i]
              \/ i = Len(queue) + 1 /\ queue'[i] = m
<1>1. queue \in Seq(Message) /\ Len(queue) <= QueueLimit
  BY DEF TypeOK
<1>2. CASE queue' = queue
  BY <1>1, <1>2
<1>3. CASE Len(queue) < QueueLimit /\ queue' = Append(queue, m)
  BY <1>1, <1>3, MainQueueAssumption
<1> QED BY <1>2, <1>3 DEF Post

(* Removing the innermost frame leaves the others where they are. *)
LEMMA PopEffect ==
  ASSUME TypeOK, stack # <<>>, stack' = SubSeq(stack, 1, Len(stack) - 1)
  PROVE  /\ stack' \in Seq(Running) /\ Len(stack) \in DOMAIN stack
         /\ \A i \in DOMAIN stack' : i \in DOMAIN stack /\ i < Len(stack) /\ stack'[i] = stack[i]
<1>1. stack \in Seq(Running) /\ Len(stack) \in Nat /\ Len(stack) # 0
  BY DEF TypeOK
<1>2. ASSUME NEW q \in Seq(Running), NEW m \in Nat, m <= Len(q)
      PROVE  /\ SubSeq(q, 1, m) \in Seq(Running) /\ Len(SubSeq(q, 1, m)) = m
             /\ \A n \in 1..m : SubSeq(q, 1, m)[n] = q[n]
  BY <1>2
<1>3. Len(stack) - 1 \in Nat /\ Len(stack) - 1 <= Len(stack)
  BY <1>1
<1>4. /\ stack' \in Seq(Running) /\ Len(stack') = Len(stack) - 1
      /\ \A i \in 1..(Len(stack) - 1) : stack'[i] = stack[i]
  BY <1>1, <1>2, <1>3
<1> QED BY <1>1, <1>4

(* A new phase of the innermost frame. *)
LEMMA SetPhaseEffect ==
  ASSUME TypeOK, stack # <<>>, NEW ph \in {"begin", "found", "freed", "run", "stored"},
         SetPhase(ph)
  PROVE  /\ stack' \in Seq(Running) /\ DOMAIN stack' = DOMAIN stack
         /\ Len(stack) \in DOMAIN stack /\ Len(stack) \in Nat
         /\ \A i \in DOMAIN stack :
              /\ stack'[i].w = stack[i].w /\ stack'[i].n = stack[i].n
              /\ stack'[i].kind = stack[i].kind /\ stack'[i].req = stack[i].req
              /\ stack'[i].phase = IF i = Len(stack) THEN ph ELSE stack[i].phase
<1>1. stack \in Seq(Running) /\ Len(stack) \in Nat /\ Len(stack) # 0
  BY DEF TypeOK
<1>2. Len(stack) \in DOMAIN stack /\ DOMAIN stack = 1..Len(stack)
  BY <1>1
<1>3. stack[Len(stack)] \in Running
  BY <1>1, <1>2
<1> DEFINE t == [stack[Len(stack)] EXCEPT !.phase = ph]
<1>4. /\ t \in Running /\ t.w = stack[Len(stack)].w /\ t.n = stack[Len(stack)].n
      /\ t.kind = stack[Len(stack)].kind /\ t.req = stack[Len(stack)].req /\ t.phase = ph
  BY <1>3 DEF Running
<1>5. stack' = [stack EXCEPT ![Len(stack)] = t]
  BY DEF SetPhase
<1> HIDE DEF t
<1>6. stack' \in Seq(Running) /\ DOMAIN stack' = DOMAIN stack
  BY <1>1, <1>2, <1>4, <1>5
<1>7. \A i \in DOMAIN stack : stack'[i] = IF i = Len(stack) THEN t ELSE stack[i]
  BY <1>2, <1>5
<1> QED BY <1>1, <1>2, <1>4, <1>6, <1>7

(* A worker that makes a call: its earlier entries are asynchronous ones. *)
LEMMA CallInv ==
  ASSUME Inv, NEW w \in Worker,
         (\E r \in Request : CallSync(w, r)) \/ CallFunctionAsync(w)
  PROVE  Inv'
<1>1. PICK kind \in {"sync", "async"}, r \in Request :
        /\ r # Fn => kind = "sync"
        /\ pc[w] = "idle" /\ call[w] < MaxCalls
        /\ call' = [call EXCEPT ![w] = @ + 1]
        /\ pc' = IF kind = "sync" THEN [pc EXCEPT ![w] = "posted"] ELSE pc
        /\ result' = IF kind = "sync" THEN [result EXCEPT ![w] = Unset] ELSE result
        /\ Post([w |-> w, n |-> call[w] + 1, kind |-> kind, req |-> r])
        /\ UNCHANGED <<up, signalled, stack, owner, got>>
  <2>1. CASE CallFunctionAsync(w)
    BY <2>1 DEF CallFunctionAsync, Request
  <2>2. CASE \E r \in Request : CallSync(w, r)
    BY <2>2 DEF CallSync
  <2> QED BY <2>1, <2>2
<1>2. /\ pc \in [Worker -> {"idle", "posted", "dead"}] /\ call \in [Worker -> 0..MaxCalls]
      /\ result \in [Worker -> -1..MaxCalls] /\ call[w] \in Nat /\ call[w] + 1 \in 1..MaxCalls
      /\ queue \in Seq(Message) /\ stack \in Seq(Running)
  BY <1>1, MainQueueAssumption DEF Inv, TypeOK
<1>3. PICK m \in Message : /\ m = [w |-> w, n |-> call[w] + 1, kind |-> kind, req |-> r]
                          /\ m.w = w /\ m.n = call[w] + 1 /\ m.kind = kind /\ m.req = r
  <2>1. [w |-> w, n |-> call[w] + 1, kind |-> kind, req |-> r] \in Message
    BY <1>2 DEF Message
  <2> QED BY <2>1
<1>4. /\ queue' \in Seq(Message) /\ Len(queue') <= QueueLimit
      /\ \A i \in DOMAIN queue' :
           \/ i \in DOMAIN queue /\ queue'[i] = queue[i]
           \/ i = Len(queue) + 1 /\ queue'[i] = m
  BY <1>1, <1>3, PostEffect DEF Inv
<1>5. /\ call'[w] = call[w] + 1 /\ \A u \in Worker \ {w} : call'[u] = call[u]
      /\ \A u \in Worker : call'[u] >= call[u] /\ call[u] \in Nat /\ call'[u] \in Nat
  BY <1>1, <1>2, MainQueueAssumption
<1>6. \A u \in Worker \ {w} : pc'[u] = pc[u] /\ result'[u] = result[u]
  BY <1>1, <1>2
<1>7. /\ kind = "sync" => pc'[w] = "posted" /\ result'[w] = Unset
      /\ kind = "async" => pc'[w] = "idle" /\ pc' = pc /\ result' = result
  BY <1>1, <1>2
<1>8. w \notin signalled
  BY <1>1 DEF Inv, ReplyOK
<1>9. TypeOK'
  <2>1. call' \in [Worker -> 0..MaxCalls]
    BY <1>1, <1>2, MainQueueAssumption
  <2>2. pc' \in [Worker -> {"idle", "posted", "dead"}]
    BY <1>1, <1>2
  <2>3. result' \in [Worker -> -1..MaxCalls]
    BY <1>1, <1>2, MainQueueAssumption DEF Unset
  <2> QED BY <1>1, <1>4, <2>1, <2>2, <2>3 DEF Inv, TypeOK
<1>10. ASSUME NEW x, x.w \in Worker, x.n \in Nat, EntryOK(x)
       PROVE  /\ EntryOK(x)' /\ x.n <= call[x.w]
              /\ Waits(x)' => Waits(x) /\ x.w # w
  <2>1. x.w = w => x.kind # "sync"
    BY <1>1, <1>10 DEF EntryOK, Waits
  <2>2. x.w # w => call'[x.w] = call[x.w] /\ pc'[x.w] = pc[x.w]
    BY <1>5, <1>6, <1>10
  <2>3. x.n <= call'[x.w]
    BY <1>5, <1>10 DEF EntryOK
  <2> QED BY <1>1, <1>10, <2>1, <2>2, <2>3 DEF EntryOK, Waits
<1>11. /\ \A i \in DOMAIN queue : queue[i].w \in Worker /\ queue[i].n \in Nat
       /\ \A i \in DOMAIN stack : stack[i].w \in Worker /\ stack[i].n \in Nat
  <2>1. \A x \in Message \cup Running : x.w \in Worker /\ x.n \in Nat
    BY MainQueueAssumption DEF Message, Running
  <2>2. /\ \A i \in DOMAIN queue : queue[i] \in Message
        /\ \A i \in DOMAIN stack : stack[i] \in Running
    BY <1>2
  <2> QED BY <2>1, <2>2
<1>12. EntryOK(m)'
  BY <1>1, <1>2, <1>3, <1>5, <1>7, <1>8 DEF EntryOK, Waits
<1>13. QueueOK'
  <2>1. ASSUME NEW i \in DOMAIN queue'
        PROVE  /\ EntryOK(queue[i])'
               /\ Waits(queue[i])' => result'[queue'[i].w] = Unset
               /\ queue'[i].req # Fn => queue'[i].kind = "sync"
    <3>1. CASE queue'[i] = m
      <4>1. EntryOK(queue[i])'
        BY <3>1, <1>12 DEF EntryOK, Waits
      <4>2. Waits(queue[i])' => result'[queue'[i].w] = Unset
        BY <3>1, <1>3, <1>7 DEF Waits
      <4> QED BY <4>1, <4>2, <3>1, <1>1, <1>3
    <3>2. CASE i \in DOMAIN queue /\ queue'[i] = queue[i]
      <4>1. EntryOK(queue[i])' /\ (Waits(queue[i])' => Waits(queue[i]) /\ queue[i].w # w)
        BY <3>2, <1>10, <1>11 DEF Inv, QueueOK, EntryOK, Waits
      <4> QED BY <3>2, <4>1, <1>6, <1>11 DEF Inv, QueueOK
    <3> QED BY <3>1, <3>2, <1>4
  <2>2. ASSUME NEW i \in DOMAIN queue', NEW j \in DOMAIN queue', i < j, queue'[i].w = queue'[j].w
        PROVE  queue'[i].n < queue'[j].n
    <3>1. i \in DOMAIN queue /\ queue'[i] = queue[i]
      <4>1. Len(queue) \in Nat /\ \A k \in DOMAIN queue : k \in Nat /\ k <= Len(queue)
        BY <1>2
      <4>2. i \in Nat /\ j \in Nat
        BY <4>1, <1>4
      <4> QED BY <2>2, <4>1, <4>2, <1>4
    <3>2. queue[i].n \in Nat /\ queue[i].w \in Worker /\ queue[i].n <= call[queue[i].w]
      BY <3>1, <1>11 DEF Inv, QueueOK, EntryOK
    <3>3. CASE queue'[j] = m
      BY <2>2, <3>1, <3>2, <3>3, <1>2, <1>3
    <3>4. CASE j \in DOMAIN queue /\ queue'[j] = queue[j]
      BY <2>2, <3>1, <3>4 DEF Inv, QueueOK
    <3> QED BY <3>3, <3>4, <1>4
  <2> QED BY <2>1, <2>2 DEF QueueOK
<1>14. StackOK'
  <2>1. ASSUME NEW i \in DOMAIN stack
        PROVE  /\ EntryOK(stack[i])'
               /\ Waits(stack[i])' => (stack'[i].phase = "stored" <=> result'[stack'[i].w] # Unset)
               /\ stack'[i].phase # "run" => stack'[i].kind = "sync"
    <3>1. EntryOK(stack[i])' /\ (Waits(stack[i])' => Waits(stack[i]) /\ stack[i].w # w)
      BY <1>1, <1>10, <1>11 DEF Inv, StackOK, EntryOK, Waits
    <3> QED BY <3>1, <1>1, <1>6, <1>11 DEF Inv, StackOK
  <2> QED BY <2>1, <1>1 DEF Inv, StackOK
<1>15. BetweenOK'
  <2> SUFFICES ASSUME NEW i \in DOMAIN stack, NEW j \in DOMAIN queue', stack[i].w = queue'[j].w
               PROVE  stack[i].n < queue'[j].n
    BY <1>1 DEF BetweenOK
  <2>1. stack[i].n \in Nat /\ stack[i].w \in Worker /\ stack[i].n <= call[stack[i].w]
    BY <1>11 DEF Inv, StackOK, EntryOK
  <2>2. CASE queue'[j] = m
    BY <2>1, <2>2, <1>2, <1>3
  <2>3. CASE j \in DOMAIN queue /\ queue'[j] = queue[j]
    BY <2>3 DEF Inv, BetweenOK
  <2> QED BY <2>2, <2>3, <1>4
<1>16. ReplyOK'
  <2>1. ASSUME NEW u \in signalled, pc'[u] # "dead" PROVE pc'[u] = "posted" /\ result'[u] # Unset
    BY <2>1, <1>6, <1>8 DEF Inv, ReplyOK, TypeOK
  <2>2. ASSUME NEW u \in Worker, pc'[u] = "posted"
        PROVE  result'[u] \in {Unset, NotFound, call'[u]}
    BY <2>2, <1>5, <1>6, <1>7 DEF Inv, ReplyOK
  <2> QED BY <2>1, <2>2, <1>1 DEF ReplyOK
<1> QED BY <1>9, <1>13, <1>14, <1>15, <1>16 DEF Inv

(* What the entries of the queue and of the stack are. *)
LEMMA EntryTypes ==
  ASSUME TypeOK
  PROVE  /\ Len(queue) \in Nat /\ DOMAIN queue = 1..Len(queue)
         /\ Len(stack) \in Nat /\ DOMAIN stack = 1..Len(stack)
         /\ \A i \in DOMAIN queue :
              queue[i] \in Message /\ queue[i].w \in Worker /\ queue[i].n \in Nat
         /\ \A i \in DOMAIN stack :
              stack[i] \in Running /\ stack[i].w \in Worker /\ stack[i].n \in Nat
<1>1. queue \in Seq(Message) /\ stack \in Seq(Running)
  BY DEF TypeOK
<1>2. \A x \in Message \cup Running : x.w \in Worker /\ x.n \in Nat
  BY MainQueueAssumption DEF Message, Running
<1>3. /\ \A i \in DOMAIN queue : queue[i] \in Message
      /\ \A i \in DOMAIN stack : stack[i] \in Running
  BY <1>1
<1> QED BY <1>1, <1>2, <1>3

(* A worker whose wait ends, or that dies, has no waiting entry any more. *)
LEMMA LeaveInv ==
  ASSUME Inv, NEW w \in Worker, WaitReturns(w) \/ Die(w)
  PROVE  Inv'
<1>1. /\ pc' = [pc EXCEPT ![w] = pc'[w]] /\ pc'[w] \in {"idle", "dead"}
      /\ signalled' \subseteq signalled /\ (w \in signalled' => pc'[w] = "dead")
      /\ got' \in [Worker -> -1..MaxCalls]
      /\ UNCHANGED <<up, call, result, queue, stack, owner>>
      /\ w \in signalled \/ pc'[w] = "dead"
      /\ pc[w] # "dead"
  <2>1. /\ pc \in [Worker -> {"idle", "posted", "dead"}] /\ got \in [Worker -> -1..MaxCalls]
        /\ result \in [Worker -> -1..MaxCalls]
    BY DEF Inv, TypeOK
  <2>2. CASE WaitReturns(w)
    BY <2>1, <2>2 DEF WaitReturns
  <2>3. CASE Die(w)
    BY <2>1, <2>3 DEF Die
  <2> QED BY <2>2, <2>3
<1>2. /\ pc \in [Worker -> {"idle", "posted", "dead"}]
      /\ \A u \in Worker \ {w} : pc'[u] = pc[u]
  BY <1>1 DEF Inv, TypeOK
<1>3. TypeOK'
  <2>1. pc' \in [Worker -> {"idle", "posted", "dead"}] /\ signalled' \subseteq Worker
    BY <1>1, <1>2 DEF Inv, TypeOK
  <2> QED BY <1>1, <2>1 DEF Inv, TypeOK
<1>4. ASSUME NEW x, x.w \in Worker, EntryOK(x)
      PROVE  EntryOK(x)' /\ (Waits(x)' => Waits(x))
  <2>1. Waits(x)' => x.w # w
    BY <1>1, <1>4 DEF EntryOK, Waits
  <2>2. x.w # w => pc'[x.w] = pc[x.w]
    BY <1>2, <1>4
  <2> QED BY <1>1, <1>4, <2>1, <2>2 DEF EntryOK, Waits
<1>5. /\ \A i \in DOMAIN queue : queue[i].w \in Worker
      /\ \A i \in DOMAIN stack : stack[i].w \in Worker
  BY EntryTypes DEF Inv
<1>6. QueueOK'
  <2>1. \A i \in DOMAIN queue : EntryOK(queue[i])' /\ (Waits(queue[i])' => Waits(queue[i]))
    BY <1>1, <1>4, <1>5 DEF Inv, QueueOK, EntryOK, Waits
  <2> QED BY <1>1, <2>1 DEF Inv, QueueOK
<1>7. StackOK'
  <2>1. \A i \in DOMAIN stack : EntryOK(stack[i])' /\ (Waits(stack[i])' => Waits(stack[i]))
    BY <1>1, <1>4, <1>5 DEF Inv, StackOK, EntryOK, Waits
  <2> QED BY <1>1, <2>1 DEF Inv, StackOK
<1>8. BetweenOK'
  BY <1>1 DEF Inv, BetweenOK
<1>9. ReplyOK'
  <2>1. ASSUME NEW u \in signalled', pc'[u] # "dead" PROVE pc'[u] = "posted" /\ result'[u] # Unset
    BY <2>1, <1>1, <1>2 DEF Inv, ReplyOK, TypeOK
  <2>2. ASSUME NEW u \in Worker, pc'[u] = "posted"
        PROVE  result'[u] \in {Unset, NotFound, call'[u]}
    BY <2>2, <1>1, <1>2 DEF Inv, ReplyOK
  <2> QED BY <2>1, <2>2 DEF ReplyOK
<1> QED BY <1>3, <1>6, <1>7, <1>8, <1>9 DEF Inv

(* Steps that change phases short of "stored", services, or whether the main *)
(* thread serves: callers see nothing of them.                             *)
LEMMA PhaseInv ==
  ASSUME Inv, UNCHANGED <<pc, call, result, signalled, got>>,
         queue' \in {queue, <<>>}, up' \in BOOLEAN,
         owner' \in [Service -> Object \cup {None}],
         stack' \in Seq(Running), DOMAIN stack' = DOMAIN stack,
         \A i \in DOMAIN stack :
           /\ stack'[i].w = stack[i].w /\ stack'[i].n = stack[i].n
           /\ stack'[i].kind = stack[i].kind
           /\ stack'[i].phase = "stored" <=> stack[i].phase = "stored"
           /\ stack'[i].phase # "run" => stack[i].phase # "run"
  PROVE  Inv'
<1>1. queue' \in Seq(Message) /\ Len(queue') <= QueueLimit
  <2>1. CASE queue' = queue
    BY <2>1 DEF Inv, TypeOK
  <2>2. CASE queue' = <<>>
    BY <2>2, MainQueueAssumption
  <2> QED BY <2>1, <2>2
<1>2. TypeOK'
  BY <1>1 DEF Inv, TypeOK
<1>3. \A i \in DOMAIN queue' : i \in DOMAIN queue /\ queue'[i] = queue[i]
  OBVIOUS
<1>4. QueueOK'
  <2>1. \A i \in DOMAIN queue' : EntryOK(queue[i])' /\ (Waits(queue[i])' => Waits(queue[i]))
    BY <1>3 DEF Inv, QueueOK, EntryOK, Waits
  <2> QED BY <1>3, <2>1 DEF Inv, QueueOK
<1>5. StackOK'
  <2>1. \A i \in DOMAIN stack : EntryOK(stack[i])' /\ (Waits(stack[i])' => Waits(stack[i]))
    BY DEF Inv, StackOK, EntryOK, Waits
  <2> QED BY <2>1 DEF Inv, StackOK
<1>6. BetweenOK'
  BY <1>3 DEF Inv, BetweenOK
<1>7. ReplyOK'
  BY DEF Inv, ReplyOK
<1> QED BY <1>2, <1>4, <1>5, <1>6, <1>7 DEF Inv

(* The oldest message becomes the innermost frame. *)
LEMMA DispatchInv ==
  ASSUME Inv, Dispatch
  PROVE  Inv'
<1>1. /\ queue # <<>> /\ queue' = Tail(queue) /\ stack' = Append(stack, Frame(Head(queue)))
      /\ UNCHANGED <<up, pc, call, result, signalled, owner, got>>
  BY DEF Dispatch
<1>2. /\ queue \in Seq(Message) /\ Len(queue) \in Nat /\ Len(queue) <= QueueLimit
      /\ stack \in Seq(Running) /\ Len(stack) \in Nat /\ QueueLimit \in Nat
  BY MainQueueAssumption DEF Inv, TypeOK
<1>3. 1 \in DOMAIN queue /\ Head(queue) = queue[1] /\ queue[1] \in Message
  BY <1>1, <1>2
<1>4. PICK f \in Running :
        /\ stack' = Append(stack, f)
        /\ f.w = queue[1].w /\ f.n = queue[1].n /\ f.kind = queue[1].kind
        /\ f.phase = IF queue[1].req = Fn THEN "run" ELSE "begin"
  <2>1. Frame(queue[1]) \in Running
    BY <1>3 DEF Frame, Message, Running
  <2>2. /\ Frame(queue[1]).w = queue[1].w /\ Frame(queue[1]).n = queue[1].n
        /\ Frame(queue[1]).kind = queue[1].kind
        /\ Frame(queue[1]).phase = IF queue[1].req = Fn THEN "run" ELSE "begin"
    BY DEF Frame
  <2> QED BY <1>1, <1>3, <2>1, <2>2
<1>5. /\ queue' \in Seq(Message) /\ Len(queue') <= QueueLimit
      /\ \A i \in DOMAIN queue' : i \in Nat /\ i + 1 \in DOMAIN queue /\ queue'[i] = queue[i + 1]
                                 /\ 1 < i + 1
  BY <1>1, <1>2
<1>6. /\ stack' \in Seq(Running)
      /\ \A i \in DOMAIN stack' : \/ i \in DOMAIN stack /\ stack'[i] = stack[i]
                                  \/ i = Len(stack) + 1 /\ stack'[i] = f
      /\ \A i \in DOMAIN stack : i <= Len(stack) /\ i \in Nat
  BY <1>2, <1>4
<1>7. TypeOK'
  BY <1>1, <1>5, <1>6 DEF Inv, TypeOK
<1>8. /\ EntryOK(queue[1]) /\ (queue[1].req # Fn => queue[1].kind = "sync")
      /\ Waits(queue[1]) => result[queue[1].w] = Unset
  BY <1>3 DEF Inv, QueueOK
<1>9. EntryOK(f) /\ (Waits(f) => result[f.w] = Unset)
  BY <1>4, <1>8 DEF EntryOK, Waits
<1>10. QueueOK'
  <2>1. \A i \in DOMAIN queue' : EntryOK(queue[i])' /\ (Waits(queue[i])' => Waits(queue[i + 1]))
    BY <1>1, <1>5 DEF Inv, QueueOK, EntryOK, Waits
  <2>2. \A i, j \in DOMAIN queue' : i < j /\ queue'[i].w = queue'[j].w => queue'[i].n < queue'[j].n
    BY <1>5 DEF Inv, QueueOK
  <2> QED BY <1>1, <1>5, <2>1, <2>2 DEF Inv, QueueOK
<1>11. StackOK'
  <2>1. ASSUME NEW i \in DOMAIN stack'
        PROVE  /\ EntryOK(stack[i])'
               /\ Waits(stack[i])' => (stack'[i].phase = "stored" <=> result'[stack'[i].w] # Unset)
               /\ stack'[i].phase # "run" => stack'[i].kind = "sync"
    <3>1. CASE i \in DOMAIN stack /\ stack'[i] = stack[i]
      BY <3>1, <1>1 DEF Inv, StackOK, EntryOK, Waits
    <3>2. CASE stack'[i] = f
      BY <3>2, <1>1, <1>4, <1>8, <1>9 DEF EntryOK, Waits
    <3> QED BY <3>1, <3>2, <1>6
  <2>2. ASSUME NEW i \in DOMAIN stack', NEW j \in DOMAIN stack', i < j, stack'[i].w = stack'[j].w
        PROVE  stack'[i].n < stack'[j].n
    <3>1. i \in DOMAIN stack /\ stack'[i] = stack[i]
      BY <2>2, <1>2, <1>6
    <3>2. CASE j \in DOMAIN stack /\ stack'[j] = stack[j]
      BY <2>2, <3>1, <3>2 DEF Inv, StackOK
    <3>3. CASE stack'[j] = f
      BY <2>2, <3>1, <3>3, <1>3, <1>4 DEF Inv, BetweenOK
    <3> QED BY <3>2, <3>3, <1>6
  <2> QED BY <2>1, <2>2 DEF StackOK
<1>12. BetweenOK'
  <2> SUFFICES ASSUME NEW i \in DOMAIN stack', NEW j \in DOMAIN queue', stack'[i].w = queue'[j].w
               PROVE  stack'[i].n < queue'[j].n
    BY DEF BetweenOK
  <2>1. CASE i \in DOMAIN stack /\ stack'[i] = stack[i]
    BY <2>1, <1>5 DEF Inv, BetweenOK
  <2>2. CASE stack'[i] = f
    BY <2>2, <1>3, <1>4, <1>5 DEF Inv, QueueOK
  <2> QED BY <2>1, <2>2, <1>6
<1>13. ReplyOK'
  BY <1>1 DEF Inv, ReplyOK
<1> QED BY <1>7, <1>10, <1>11, <1>12, <1>13 DEF Inv

(* No other entry of the innermost frame's caller is waited for. *)
LEMMA TopAlone ==
  ASSUME Inv, stack # <<>>, Top.kind = "sync"
  PROVE  /\ \A i \in DOMAIN queue : Waits(queue[i]) => queue[i].w # Top.w
         /\ \A i \in DOMAIN stack : i < Len(stack) /\ Waits(stack[i]) => stack[i].w # Top.w
<1>1. Len(stack) \in DOMAIN stack /\ Top = stack[Len(stack)] /\ Top.n \in Nat
  BY EntryTypes DEF Inv, Top
<1>2. ASSUME NEW i \in DOMAIN queue, Waits(queue[i]), queue[i].w = Top.w PROVE FALSE
  <2>1. queue[i].n = call[queue[i].w] /\ Top.n = call[Top.w]
    BY <1>1, <1>2 DEF Inv, QueueOK, StackOK, EntryOK, Waits
  <2>2. Top.n < queue[i].n
    BY <1>1, <1>2 DEF Inv, BetweenOK
  <2> QED BY <1>1, <1>2, <2>1, <2>2
<1>3. ASSUME NEW i \in DOMAIN stack, i < Len(stack), Waits(stack[i]), stack[i].w = Top.w PROVE FALSE
  <2>1. stack[i].n = call[stack[i].w] /\ Top.n = call[Top.w]
    BY <1>1, <1>3 DEF Inv, StackOK, EntryOK, Waits
  <2>2. stack[i].n < Top.n
    BY <1>1, <1>3 DEF Inv, StackOK
  <2> QED BY <1>1, <1>3, <2>1, <2>2
<1> QED BY <1>2, <1>3

(* An answer is stored in the item of the innermost frame's caller. *)
LEMMA StoreInv ==
  ASSUME Inv, stack # <<>>, Top.kind = "sync", Top.phase # "stored",
         NEW v \in {NotFound, Top.n}, result' = [result EXCEPT ![Top.w] = v], SetPhase("stored"),
         UNCHANGED <<up, pc, call, signalled, queue, owner, got>>
  PROVE  Inv'
<1>1. /\ stack' \in Seq(Running) /\ DOMAIN stack' = DOMAIN stack
      /\ Len(stack) \in DOMAIN stack /\ Len(stack) \in Nat
      /\ \A i \in DOMAIN stack :
           /\ stack'[i].w = stack[i].w /\ stack'[i].n = stack[i].n
           /\ stack'[i].kind = stack[i].kind
           /\ stack'[i].phase = IF i = Len(stack) THEN "stored" ELSE stack[i].phase
  BY SetPhaseEffect DEF Inv
<1>2. /\ Top = stack[Len(stack)] /\ Top \in Running /\ Top.w \in Worker /\ Top.n \in 1..MaxCalls
      /\ \A i \in DOMAIN stack : stack[i].w \in Worker /\ i \in Nat /\ i <= Len(stack)
      /\ \A i \in DOMAIN queue : queue[i].w \in Worker
  BY <1>1, EntryTypes DEF Inv, Top, Running
<1>3. v \in 0..MaxCalls /\ v # Unset
  BY <1>2, MainQueueAssumption DEF NotFound, Unset
<1>4. result \in [Worker -> -1..MaxCalls]
  BY DEF Inv, TypeOK
<1>5. result'[Top.w] = v /\ \A u \in Worker \ {Top.w} : result'[u] = result[u]
  BY <1>2, <1>4
<1>6. TypeOK'
  <2>1. v \in -1..MaxCalls
    BY <1>3, MainQueueAssumption
  <2>2. result' \in [Worker -> -1..MaxCalls]
    BY <1>4, <2>1
  <2> QED BY <1>1, <2>2 DEF Inv, TypeOK
<1>7. QueueOK'
  <2>1. \A i \in DOMAIN queue : /\ EntryOK(queue[i])' /\ (Waits(queue[i])' => Waits(queue[i]))
    BY DEF Inv, QueueOK, EntryOK, Waits
  <2>2. \A i \in DOMAIN queue : Waits(queue[i])' => result'[queue[i].w] = Unset
    BY <2>1, <1>2, <1>5, TopAlone DEF Inv, QueueOK
  <2> QED BY <2>1, <2>2 DEF Inv, QueueOK
<1>8. StackOK'
  <2>1. \A i \in DOMAIN stack : EntryOK(stack[i])' /\ (Waits(stack[i])' => Waits(stack[i]))
    BY <1>1 DEF Inv, StackOK, EntryOK, Waits
  <2>2. ASSUME NEW i \in DOMAIN stack, Waits(stack[i])'
        PROVE  stack'[i].phase = "stored" <=> result'[stack'[i].w] # Unset
    <3>1. CASE i = Len(stack)
      BY <3>1, <1>1, <1>2, <1>3, <1>5
    <3>2. CASE i # Len(stack)
      <4>1. Waits(stack[i]) /\ stack[i].w # Top.w
        BY <3>2, <2>1, <2>2, <1>2, <1>1, TopAlone
      <4>2. result'[stack'[i].w] = result[stack[i].w] /\ stack'[i].phase = stack[i].phase
        BY <3>2, <4>1, <1>1, <1>2, <1>5
      <4> QED BY <4>1, <4>2 DEF Inv, StackOK
    <3> QED BY <3>1, <3>2
  <2>3. \A i \in DOMAIN stack : stack'[i].phase # "run" => stack'[i].kind = "sync"
    BY <1>1, <1>2 DEF Inv, StackOK
  <2>4. \A i, j \in DOMAIN stack : i < j /\ stack'[i].w = stack'[j].w => stack'[i].n < stack'[j].n
    BY <1>1 DEF Inv, StackOK
  <2> QED BY <2>1, <2>2, <2>3, <2>4, <1>1 DEF StackOK
<1>9. BetweenOK'
  BY <1>1 DEF Inv, BetweenOK
<1>10. ReplyOK'
  <2>1. ASSUME NEW u \in signalled, pc[u] # "dead" PROVE pc[u] = "posted" /\ result'[u] # Unset
    BY <2>1, <1>3, <1>5 DEF Inv, ReplyOK, TypeOK
  <2>2. ASSUME NEW u \in Worker, pc[u] = "posted" PROVE result'[u] \in {Unset, NotFound, call[u]}
    <3>1. CASE u = Top.w
      <4>1. Waits(Top)
        BY <3>1, <2>2 DEF Waits
      <4>2. Top.n = call[Top.w]
        BY <4>1, <1>1, <1>2 DEF Inv, StackOK, EntryOK
      <4> QED BY <3>1, <4>2, <1>5
    <3>2. CASE u # Top.w
      BY <3>2, <2>2, <1>5 DEF Inv, ReplyOK
    <3> QED BY <3>1, <3>2
  <2> QED BY <2>1, <2>2 DEF ReplyOK
<1> QED BY <1>6, <1>7, <1>8, <1>9, <1>10 DEF Inv

(* The innermost frame ends; its caller is signalled if it was answered. *)
LEMMA EndFrameInv ==
  ASSUME Inv, stack # <<>>, stack' = SubSeq(stack, 1, Len(stack) - 1),
         \/ signalled' = signalled
         \/ signalled' = signalled \cup {Top.w} /\ Top.phase = "stored",
         UNCHANGED <<up, pc, call, result, queue, owner, got>>
  PROVE  Inv'
<1>1. /\ stack' \in Seq(Running) /\ Len(stack) \in DOMAIN stack
      /\ \A i \in DOMAIN stack' : i \in DOMAIN stack /\ i < Len(stack) /\ stack'[i] = stack[i]
  BY PopEffect DEF Inv
<1>2. /\ Top = stack[Len(stack)] /\ Top.w \in Worker
      /\ Top.phase # "run" => Top.kind = "sync"
      /\ Waits(Top) => /\ pc[Top.w] = "posted"
                       /\ Top.phase = "stored" => result[Top.w] # Unset
  BY <1>1, EntryTypes DEF Inv, Top, StackOK, EntryOK
<1>3. TypeOK'
  BY <1>1, <1>2 DEF Inv, TypeOK
<1>4. ASSUME NEW i \in DOMAIN queue, Waits(queue[i]) PROVE queue[i].w \notin signalled'
  BY <1>2, <1>4, TopAlone DEF Inv, QueueOK, EntryOK
<1>5. ASSUME NEW i \in DOMAIN stack', Waits(stack[i]) PROVE stack[i].w \notin signalled'
  BY <1>1, <1>2, <1>5, TopAlone DEF Inv, StackOK, EntryOK
<1>6. QueueOK'
  <2>1. \A i \in DOMAIN queue : EntryOK(queue[i])' /\ (Waits(queue[i])' => Waits(queue[i]))
    BY <1>4 DEF Inv, QueueOK, EntryOK, Waits
  <2> QED BY <2>1 DEF Inv, QueueOK
<1>7. StackOK'
  <2>1. \A i \in DOMAIN stack' : EntryOK(stack[i])' /\ (Waits(stack[i])' => Waits(stack[i]))
    BY <1>1, <1>5 DEF Inv, StackOK, EntryOK, Waits
  <2>2. \A i \in DOMAIN stack' :
          /\ Waits(stack[i])' => (stack'[i].phase = "stored" <=> result'[stack'[i].w] # Unset)
          /\ stack'[i].phase # "run" => stack'[i].kind = "sync"
    BY <2>1, <1>1 DEF Inv, StackOK
  <2>3. \A i, j \in DOMAIN stack' : i < j /\ stack'[i].w = stack'[j].w => stack'[i].n < stack'[j].n
    BY <1>1 DEF Inv, StackOK
  <2> QED BY <2>1, <2>2, <2>3 DEF StackOK
<1>8. BetweenOK'
  BY <1>1 DEF Inv, BetweenOK
<1>9. ReplyOK'
  <2>1. ASSUME NEW u \in signalled', pc[u] # "dead" PROVE pc[u] = "posted" /\ result[u] # Unset
    <3>1. CASE u \in signalled
      BY <2>1, <3>1 DEF Inv, ReplyOK
    <3>2. CASE u = Top.w /\ Top.phase = "stored"
      BY <2>1, <3>2, <1>2 DEF Waits
    <3> QED BY <3>1, <3>2, <2>1
  <2> QED BY <2>1 DEF Inv, ReplyOK
<1> QED BY <1>3, <1>6, <1>7, <1>8, <1>9 DEF Inv

(* FindService stores NotFound or goes on to the service. *)
LEMMA FindServiceInv ==
  ASSUME Inv, FindService
  PROVE  Inv'
<1>1. /\ stack # <<>> /\ Top.phase = "begin"
      /\ UNCHANGED <<up, pc, call, signalled, queue, owner, got>>
  BY DEF FindService
<1>2. Top.kind = "sync"
  <2>1. Len(stack) \in DOMAIN stack
    BY <1>1, EntryTypes DEF Inv
  <2> QED BY <1>1, <2>1 DEF Inv, StackOK, Top
<1>3. CASE result' = [result EXCEPT ![Top.w] = NotFound] /\ SetPhase("stored")
  BY <1>1, <1>2, <1>3, StoreInv
<1>4. CASE SetPhase("found") /\ result' = result
  <2>1. /\ stack' \in Seq(Running) /\ DOMAIN stack' = DOMAIN stack
        /\ \A i \in DOMAIN stack :
             /\ stack'[i].w = stack[i].w /\ stack'[i].n = stack[i].n
             /\ stack'[i].kind = stack[i].kind
             /\ stack'[i].phase = IF i = Len(stack) THEN "found" ELSE stack[i].phase
    BY <1>1, <1>4, SetPhaseEffect DEF Inv
  <2>2. up' \in BOOLEAN /\ owner' \in [Service -> Object \cup {None}]
    BY <1>1 DEF Inv, TypeOK
  <2> QED BY <1>1, <1>4, <2>1, <2>2, PhaseInv DEF Top
<1> QED BY <1>3, <1>4 DEF FindService

(* Entering the service, or a fault on the way. *)
LEMMA EnterServiceInv ==
  ASSUME Inv, EnterService
  PROVE  Inv'
<1>1. /\ stack # <<>> /\ Top.phase \in {"found", "freed"}
      /\ UNCHANGED <<pc, call, result, signalled, queue, owner, got>>
      /\ (SetPhase("run") /\ up' = up) \/ (up' = FALSE /\ stack' = stack)
  BY Zenon DEF EnterService
<1>2. up' \in BOOLEAN /\ owner' \in [Service -> Object \cup {None}] /\ stack \in Seq(Running)
  BY <1>1 DEF Inv, TypeOK
<1>3. CASE SetPhase("run")
  <2>1. /\ stack' \in Seq(Running) /\ DOMAIN stack' = DOMAIN stack
        /\ \A i \in DOMAIN stack :
             /\ stack'[i].w = stack[i].w /\ stack'[i].n = stack[i].n
             /\ stack'[i].kind = stack[i].kind
             /\ stack'[i].phase = IF i = Len(stack) THEN "run" ELSE stack[i].phase
    BY <1>1, <1>3, SetPhaseEffect DEF Inv
  <2> QED BY <1>1, <1>2, <2>1, PhaseInv DEF Top
<1>4. CASE stack' = stack
  BY <1>1, <1>2, <1>4, PhaseInv
<1> QED BY <1>1, <1>3, <1>4

(* Services are created and freed; a frame that found one may lose it. *)
LEMMA ServiceInv ==
  ASSUME Inv, ServiceStep
  PROVE  Inv'
<1>1. /\ up \in BOOLEAN /\ owner \in [Service -> Object \cup {None}] /\ stack \in Seq(Running)
  BY DEF Inv, TypeOK
<1>2. ASSUME NEW s \in Service, NEW o \in Object, CreateServiceFunction(s, o) PROVE Inv'
  <2>1. /\ owner' \in [Service -> Object \cup {None}]
        /\ UNCHANGED <<up, pc, call, result, signalled, queue, stack, got>>
    BY <1>1, <1>2 DEF CreateServiceFunction
  <2> QED BY <1>1, <2>1, PhaseInv
<1>3. ASSUME NEW S, FreeServices(S) PROVE Inv'
  <2>1. /\ UNCHANGED <<up, pc, call, result, signalled, queue, got>>
        /\ owner' \in [Service -> Object \cup {None}]
        /\ stack' = [i \in DOMAIN stack |->
                       IF stack[i].phase = "found" /\ stack[i].req \in S
                       THEN [stack[i] EXCEPT !.phase = "freed"] ELSE stack[i]]
    BY <1>1, <1>3 DEF FreeServices
  <2>2. ASSUME NEW x \in Running
        PROVE  /\ [x EXCEPT !.phase = "freed"] \in Running
               /\ [x EXCEPT !.phase = "freed"].w = x.w /\ [x EXCEPT !.phase = "freed"].n = x.n
               /\ [x EXCEPT !.phase = "freed"].kind = x.kind
               /\ [x EXCEPT !.phase = "freed"].phase = "freed"
    BY DEF Running
  <2>3. /\ Len(stack) \in Nat /\ DOMAIN stack = 1..Len(stack)
        /\ \A i \in DOMAIN stack : stack[i] \in Running
    BY <1>1
  <2>4. DOMAIN stack' = DOMAIN stack /\ \A i \in DOMAIN stack :
          /\ stack'[i] \in Running
          /\ stack'[i].w = stack[i].w /\ stack'[i].n = stack[i].n
          /\ stack'[i].kind = stack[i].kind
          /\ \/ stack'[i].phase = stack[i].phase
             \/ stack[i].phase = "found" /\ stack'[i].phase = "freed"
    <3>1. DOMAIN stack' = DOMAIN stack
      BY <2>1
    <3>2. ASSUME NEW i \in DOMAIN stack
          PROVE  /\ stack'[i] \in Running
                 /\ stack'[i].w = stack[i].w /\ stack'[i].n = stack[i].n
                 /\ stack'[i].kind = stack[i].kind
                 /\ \/ stack'[i].phase = stack[i].phase
                    \/ stack[i].phase = "found" /\ stack'[i].phase = "freed"
      <4>1. CASE stack[i].phase = "found" /\ stack[i].req \in S
        <5>1. stack'[i] = [stack[i] EXCEPT !.phase = "freed"]
          BY <2>1, <4>1
        <5> QED BY <4>1, <5>1, <2>2, <2>3
      <4>2. CASE ~(stack[i].phase = "found" /\ stack[i].req \in S)
        <5>1. stack'[i] = stack[i]
          <6>1. CASE stack[i].phase # "found"
            BY <2>1, <6>1
          <6>2. CASE stack[i].req \notin S
            BY <2>1, <6>2
          <6> QED BY <4>2, <6>1, <6>2
        <5> QED BY <5>1, <2>3
      <4> QED BY <4>1, <4>2
    <3> QED BY <3>1, <3>2
  <2>5. stack' \in Seq(Running)
    <3>1. stack' \in [1..Len(stack) -> Running]
      BY <2>1, <2>3, <2>4
    <3> QED BY <2>3, <3>1
  <2> QED BY <1>1, <2>1, <2>4, <2>5, PhaseInv
<1> QED BY <1>2, <1>3 DEF ServiceStep, DestroyServiceFunction, KillObjectServices

(* Every step keeps the invariant. *)
LEMMA InvNext == Inv /\ [Next]_vars => Inv'
<1> SUFFICES ASSUME Inv, [Next]_vars PROVE Inv'
  OBVIOUS
<1>1. /\ up \in BOOLEAN /\ owner \in [Service -> Object \cup {None}] /\ stack \in Seq(Running)
  BY DEF Inv, TypeOK
<1>2. ASSUME NEW w \in Worker, WorkerStep(w) PROVE Inv'
  BY <1>2, CallInv, LeaveInv DEF WorkerStep
<1>3. CASE Dispatch
  BY <1>3, DispatchInv
<1>4. CASE FindService
  BY <1>4, FindServiceInv
<1>5. CASE EnterService
  BY <1>5, EnterServiceInv
<1>6. CASE FunctionReturns
  <2>1. /\ stack # <<>> /\ Top.phase = "run"
        /\ UNCHANGED <<up, pc, call, signalled, queue, owner, got>>
    BY <1>6 DEF FunctionReturns
  <2>2. CASE Top.kind = "sync"
    <3>1. result' = [result EXCEPT ![Top.w] = Top.n] /\ SetPhase("stored")
      BY <1>6, <2>2 DEF FunctionReturns
    <3> QED BY <2>1, <2>2, <3>1, StoreInv
  <2>3. CASE Top.kind # "sync"
    <3>1. result' = result /\ stack' = SubSeq(stack, 1, Len(stack) - 1)
      BY <1>6, <2>3 DEF FunctionReturns
    <3> QED BY <2>1, <3>1, EndFrameInv
  <2> QED BY <2>2, <2>3
<1>7. CASE SetEvent
  BY <1>7, EndFrameInv DEF SetEvent
<1>8. CASE DeadItemFault
  BY <1>1, <1>8, PhaseInv DEF DeadItemFault
<1>9. CASE UnloadCoreModule
  BY <1>1, <1>9, PhaseInv DEF UnloadCoreModule
<1>10. CASE ServiceStep
  BY <1>10, ServiceInv
<1>11. CASE UNCHANGED vars
  BY <1>1, <1>11, PhaseInv DEF vars
<1> QED BY <1>2, <1>3, <1>4, <1>5, <1>6, <1>7, <1>8, <1>9, <1>10, <1>11
        DEF Next, MainStep, MainServes

(* The inductive invariant of the calls into the main thread. *)
THEOREM MainQueueInvariant == Spec => []Inv
BY InvInit, InvNext, PTL DEF Spec

(* Every variable keeps its type, the queue its limit. *)
THEOREM MainQueueTypeCorrect == Spec => []TypeOK
<1>1. Inv => TypeOK
  BY DEF Inv
<1> QED BY <1>1, MainQueueInvariant, PTL

(* The main thread never touches the item of a call that has returned. *)
THEOREM ItemsAreAlive == Spec => []ItemAlive
<1>1. Inv => ItemAlive
  BY DEF Inv, QueueOK, StackOK, EntryOK, Waits, ItemAlive
<1> QED BY <1>1, MainQueueInvariant, PTL

(* A signal always belongs to the call its thread is in. *)
THEOREM SignalsAreFresh == Spec => []SignalIsFresh
<1>1. Inv => SignalIsFresh
  BY DEF Inv, ReplyOK, TypeOK, SignalIsFresh
<1> QED BY <1>1, MainQueueInvariant, PTL

(* A synchronous call runs after the asynchronous ones its thread made before. *)
THEOREM AsyncIsNotOvertaken == Spec => []AsyncNotOvertaken
<1>1. Inv => AsyncNotOvertaken
  <2> SUFFICES ASSUME Inv, NEW i \in DOMAIN stack, Waits(stack[i]),
                      NEW j \in DOMAIN queue, queue[j].w = stack[i].w
               PROVE  FALSE
    BY DEF AsyncNotOvertaken, Waits
  <2>1. stack[i].n = call[stack[i].w] /\ queue[j].n <= call[stack[i].w]
    BY DEF Inv, StackOK, QueueOK, EntryOK
  <2>2. stack[i].n < queue[j].n
    BY DEF Inv, BetweenOK
  <2>3. stack[i].n \in Nat /\ queue[j].n \in Nat
    BY EntryTypes DEF Inv
  <2> QED BY <2>1, <2>2, <2>3
<1> QED BY <1>1, MainQueueInvariant, PTL

(* A step of a worker or of the main thread is one step of SyncCall or none. *)
LEMMA StepRefines == Inv /\ Inv' /\ [Next]_vars => [Sync!Next]_Sync!vars
<1> SUFFICES ASSUME Inv, Inv', [Next]_vars PROVE Sync!Next \/ UNCHANGED Sync!vars
  OBVIOUS
<1>1. /\ pc \in [Worker -> {"idle", "posted", "dead"}] /\ result \in [Worker -> -1..MaxCalls]
      /\ call \in [Worker -> 0..MaxCalls] /\ got \in [Worker -> -1..MaxCalls]
  BY DEF Inv, TypeOK
<1>2. ASSUME UNCHANGED <<pc, call, result, got>> PROVE UNCHANGED Sync!vars
  BY <1>2 DEF Sync!vars, PhaseSeen, AnswerSeen
<1>3. ASSUME NEW w \in Worker, NEW r \in Request, CallSync(w, r) PROVE Sync!Call(w)
  <2>1. /\ pc[w] = "idle" /\ call[w] < MaxCalls /\ call' = [call EXCEPT ![w] = @ + 1]
        /\ pc' = [pc EXCEPT ![w] = "posted"] /\ result' = [result EXCEPT ![w] = Unset]
        /\ got' = got
    BY <1>3 DEF CallSync
  <2>2. PhaseSeen[w] = "idle" /\ PhaseSeen' = [PhaseSeen EXCEPT ![w] = "called"]
    BY <1>1, <2>1 DEF PhaseSeen
  <2>3. AnswerSeen' = [AnswerSeen EXCEPT ![w] = Unset]
    BY <1>1, <2>1 DEF AnswerSeen
  <2> QED BY <2>1, <2>2, <2>3 DEF Sync!Call, Sync!Unset, Unset
<1>4. ASSUME NEW w \in Worker, CallFunctionAsync(w) PROVE Sync!CallAsync(w)
  <2>1. /\ pc[w] = "idle" /\ call[w] < MaxCalls /\ call' = [call EXCEPT ![w] = @ + 1]
        /\ UNCHANGED <<pc, result, got>>
    BY <1>4 DEF CallFunctionAsync
  <2>2. PhaseSeen[w] = "idle" /\ PhaseSeen' = PhaseSeen /\ AnswerSeen' = AnswerSeen
    BY <2>1 DEF PhaseSeen, AnswerSeen
  <2> QED BY <2>1, <2>2 DEF Sync!CallAsync
<1>5. ASSUME NEW w \in Worker, WaitReturns(w) PROVE Sync!Return(w)
  <2>1. /\ pc[w] = "posted" /\ w \in signalled /\ pc' = [pc EXCEPT ![w] = "idle"]
        /\ got' = [got EXCEPT ![w] = result[w]] /\ UNCHANGED <<call, result>>
    BY <1>5 DEF WaitReturns
  <2>2. result[w] # Unset
    BY <2>1 DEF Inv, ReplyOK
  <2>3. PhaseSeen[w] = "done" /\ PhaseSeen' = [PhaseSeen EXCEPT ![w] = "idle"]
    BY <1>1, <2>1, <2>2 DEF PhaseSeen
  <2>4. AnswerSeen[w] = result[w] /\ AnswerSeen' = AnswerSeen
    BY <1>1, <2>1 DEF AnswerSeen
  <2> QED BY <2>1, <2>3, <2>4 DEF Sync!Return
<1>6. ASSUME NEW w \in Worker, Die(w) PROVE Sync!Die(w)
  <2>1. pc[w] # "dead" /\ pc' = [pc EXCEPT ![w] = "dead"] /\ UNCHANGED <<call, result, got>>
    BY <1>6 DEF Die
  <2>2. PhaseSeen[w] # "dead" /\ PhaseSeen' = [PhaseSeen EXCEPT ![w] = "dead"]
    BY <1>1, <2>1 DEF PhaseSeen
  <2>3. AnswerSeen' = [AnswerSeen EXCEPT ![w] = Unset]
    BY <1>1, <2>1 DEF AnswerSeen
  <2> QED BY <2>1, <2>2, <2>3 DEF Sync!Die, Sync!Unset, Unset
<1>7. ASSUME stack # <<>>, Top.kind = "sync", Top.phase # "stored", NEW v \in {NotFound, Top.n},
             result' = [result EXCEPT ![Top.w] = v], UNCHANGED <<pc, call, got>>
      PROVE  Sync!Next \/ UNCHANGED Sync!vars
  <2>1. /\ Len(stack) \in DOMAIN stack /\ Top = stack[Len(stack)] /\ Top.w \in Worker
        /\ Top.n \in Nat /\ EntryOK(Top)
        /\ Waits(Top) => (Top.phase = "stored" <=> result[Top.w] # Unset)
    BY <1>7, EntryTypes DEF Inv, StackOK, Top
  <2>2. v # Unset
    BY <1>7, <2>1 DEF NotFound, Unset
  <2>3. CASE pc[Top.w] = "dead"
    <3>1. PhaseSeen' = PhaseSeen /\ AnswerSeen' = AnswerSeen
      BY <1>1, <1>7, <2>1, <2>3 DEF PhaseSeen, AnswerSeen
    <3> QED BY <1>7, <3>1 DEF Sync!vars
  <2>4. CASE pc[Top.w] # "dead"
    <3>1. pc[Top.w] = "posted" /\ Top.n = call[Top.w] /\ result[Top.w] = Unset
      BY <1>7, <2>1, <2>4 DEF Waits, EntryOK
    <3>2. PhaseSeen[Top.w] = "called" /\ PhaseSeen' = [PhaseSeen EXCEPT ![Top.w] = "done"]
      BY <1>1, <1>7, <2>1, <2>2, <3>1 DEF PhaseSeen
    <3>3. AnswerSeen' = [AnswerSeen EXCEPT ![Top.w] = v]
      BY <1>1, <1>7, <2>1, <3>1 DEF AnswerSeen
    <3>4. v \in Sync!Answers(call[Top.w])
      BY <1>7, <3>1 DEF Sync!Answers, Sync!NotFound, NotFound
    <3>5. Sync!Execute(Top.w)
      BY <1>7, <3>2, <3>3, <3>4 DEF Sync!Execute
    <3> QED BY <2>1, <3>5 DEF Sync!Next
  <2> QED BY <2>3, <2>4
<1>8. CASE FindService
  <2>1. stack # <<>> /\ Top.phase = "begin" /\ UNCHANGED <<pc, call, got>>
    BY <1>8 DEF FindService
  <2>2. Top.kind = "sync"
    <3>1. Len(stack) \in DOMAIN stack
      BY <2>1, EntryTypes DEF Inv
    <3> QED BY <2>1, <3>1 DEF Inv, StackOK, Top
  <2>3. result' = [result EXCEPT ![Top.w] = NotFound] \/ result' = result
    BY <1>8 DEF FindService
  <2> QED BY <2>1, <2>2, <2>3, <1>2, <1>7
<1>9. CASE FunctionReturns
  <2>1. stack # <<>> /\ Top.phase = "run" /\ UNCHANGED <<pc, call, got>>
    BY <1>9 DEF FunctionReturns
  <2>2. (Top.kind = "sync" /\ result' = [result EXCEPT ![Top.w] = Top.n]) \/ result' = result
    BY <1>9 DEF FunctionReturns
  <2> QED BY <2>1, <2>2, <1>2, <1>7
<1>10. CASE Dispatch \/ EnterService \/ SetEvent \/ DeadItemFault \/ UnloadCoreModule
  BY <1>2, <1>10 DEF Dispatch, EnterService, SetEvent, DeadItemFault, UnloadCoreModule
<1>11. CASE ServiceStep
  BY <1>2, <1>11 DEF ServiceStep, CreateServiceFunction, DestroyServiceFunction,
                     KillObjectServices, FreeServices
<1>12. CASE UNCHANGED vars
  BY <1>2, <1>12 DEF vars
<1> QED BY <1>3, <1>4, <1>5, <1>6, <1>8, <1>9, <1>10, <1>11, <1>12
        DEF Next, WorkerStep, MainStep, MainServes, Sync!Next

(* Every synchronous call is executed once, while its caller waits, and     *)
(* returns the answer of that execution.                                   *)
THEOREM MainQueueImplementsSyncCall == Spec => ImplementsSyncCall
<1>1. Init => Sync!Init
  BY DEF Init, Sync!Init, PhaseSeen, AnswerSeen, Sync!Unset, Unset
<1> QED BY <1>1, MainQueueInvariant, StepRefines, PTL DEF Spec, ImplementsSyncCall, Sync!Spec

(* An accepted call stays accepted. *)

(* What is posted or running: whose call, its number and its kind. *)
Entry(x) == <<x.w, x.n, x.kind>>

Entries == {Entry(queue[i]) : i \in DOMAIN queue} \cup {Entry(stack[i]) : i \in DOMAIN stack}

(* The call a worker waits in was not an asynchronous one. *)
WaitsForSync ==
  \A e \in Entries : pc[e[1]] = "posted" /\ e[2] = call[e[1]] => e[3] = "sync"

(* A caller is not forgotten: its call is in the queue, on the main thread's   *)
(* stack or answered until the wait returns, its thread dies or the main     *)
(* thread stops serving.                                                   *)
NotForgotten == \A w \in Worker : InFlight(w) => InFlight(w)' \/ pc'[w] # "posted" \/ ~up'

(* Entries are of calls that were made, and InFlight speaks of them. *)
EntriesOK ==
  /\ \A e \in Entries : e[1] \in Worker /\ e[2] \in Nat /\ e[2] <= call[e[1]]
  /\ \A w \in Worker :
       InFlight(w) <=> /\ pc[w] = "posted"
                       /\ w \in signalled \/ \E k : <<w, call[w], k>> \in Entries

(* The invariant says so. *)
LEMMA EntryFacts == Inv => EntriesOK
<1> SUFFICES ASSUME Inv PROVE EntriesOK
  OBVIOUS
<1>1. \A e \in Entries : e[1] \in Worker /\ e[2] \in Nat /\ e[2] <= call[e[1]]
  <2>1. /\ \A i \in DOMAIN queue : queue[i].n <= call[queue[i].w]
        /\ \A i \in DOMAIN stack : stack[i].n <= call[stack[i].w]
    BY DEF Inv, QueueOK, StackOK, EntryOK
  <2> QED BY <2>1, EntryTypes DEF Inv, Entries, Entry
<1>2. ASSUME NEW w \in Worker
      PROVE  /\ (\E k : <<w, call[w], k>> \in Entries) <=>
                  \/ \E i \in DOMAIN queue : queue[i].w = w /\ queue[i].n = call[w]
                  \/ \E i \in DOMAIN stack : stack[i].w = w /\ stack[i].n = call[w]
  BY DEF Entries, Entry
<1> QED BY <1>1, <1>2 DEF EntriesOK, InFlight

(* A call adds its own entry at most. *)
LEMMA CallEntries ==
  ASSUME Inv, NEW w \in Worker, (\E r \in Request : CallSync(w, r)) \/ CallFunctionAsync(w)
  PROVE  /\ pc[w] = "idle" /\ pc'[w] \in {"idle", "posted"}
         /\ call' = [call EXCEPT ![w] = @ + 1]
         /\ \A u \in Worker \ {w} : pc'[u] = pc[u]
         /\ UNCHANGED <<up, signalled>>
         /\ Entries \subseteq Entries'
         /\ \E k : /\ Entries' \subseteq Entries \cup {<<w, call[w] + 1, k>>}
                   /\ pc'[w] = "posted" => k = "sync"
<1>1. PICK m : /\ Post(m) /\ m.w = w /\ m.n = call[w] + 1
               /\ pc'[w] = "posted" => m.kind = "sync"
  <2>1. pc \in [Worker -> {"idle", "posted", "dead"}]
    BY DEF Inv, TypeOK
  <2>2. CASE \E r \in Request : CallSync(w, r)
    BY <2>1, <2>2 DEF CallSync
  <2>3. CASE CallFunctionAsync(w)
    <3>1. pc'[w] # "posted"
      BY <2>3 DEF CallFunctionAsync
    <3> QED BY <2>3, <3>1 DEF CallFunctionAsync
  <2> QED BY <2>2, <2>3
<1>2. /\ queue \in Seq(Message) /\ Len(queue) \in Nat
      /\ pc \in [Worker -> {"idle", "posted", "dead"}]
  BY DEF Inv, TypeOK
<1>3. /\ pc[w] = "idle" /\ pc'[w] \in {"idle", "posted"}
      /\ call' = [call EXCEPT ![w] = @ + 1]
      /\ \A u \in Worker \ {w} : pc'[u] = pc[u]
      /\ UNCHANGED <<up, signalled, stack>>
  BY <1>2 DEF CallSync, CallFunctionAsync
<1>4. \/ queue' = queue
      \/ /\ DOMAIN queue' = DOMAIN queue \cup {Len(queue) + 1}
         /\ \A i \in DOMAIN queue : queue'[i] = queue[i]
         /\ queue'[Len(queue) + 1] = m
  <2>1. CASE queue' = queue
    BY <2>1
  <2>2. CASE queue' = Append(queue, m)
    <3>1. DOMAIN queue = 1..Len(queue)
      BY <1>2
    <3>2. DOMAIN queue' = 1..(Len(queue) + 1)
      BY <1>2, <2>2
    <3>3. \A i \in 1..Len(queue) : queue'[i] = queue[i]
      BY <1>2, <2>2
    <3>4. queue'[Len(queue) + 1] = m
      BY <1>2, <2>2
    <3>5. 1..(Len(queue) + 1) = (1..Len(queue)) \cup {Len(queue) + 1}
      BY <1>2
    <3> QED BY <3>1, <3>2, <3>3, <3>4, <3>5
  <2> QED BY <1>1, <2>1, <2>2 DEF Post
<1>5. Entries \subseteq Entries' /\ Entries' \subseteq Entries \cup {Entry(m)}
  BY <1>3, <1>4 DEF Entries
<1> QED BY <1>1, <1>3, <1>5 DEF Entry

(* Entries that only change their phase stay the same entries. *)
LEMMA PhaseEntries ==
  ASSUME UNCHANGED queue, DOMAIN stack' = DOMAIN stack,
         \A i \in DOMAIN stack :
           stack'[i].w = stack[i].w /\ stack'[i].n = stack[i].n /\ stack'[i].kind = stack[i].kind
  PROVE  Entries' = Entries
<1>1. \A i \in DOMAIN stack : Entry(stack'[i]) = Entry(stack[i])
  BY DEF Entry
<1> QED BY <1>1 DEF Entries

(* What the main thread does to the entries: it takes one from the queue to  *)
(* the stack, works on the innermost, or ends it.                           *)
LEMMA MainEntries ==
  ASSUME Inv, MainServes
  PROVE  /\ UNCHANGED <<pc, call>>
         /\ \/ Entries' = Entries /\ UNCHANGED signalled
            \/ \E e \in Entries :
                 /\ Entries' \subseteq Entries /\ Entries \subseteq Entries' \cup {e}
                 /\ signalled \subseteq signalled'
                 /\ e[3] = "sync" => e[1] \in signalled'
<1>1. TypeOK /\ queue \in Seq(Message) /\ stack \in Seq(Running)
      /\ Len(queue) \in Nat /\ Len(stack) \in Nat
  BY DEF Inv, TypeOK
<1>2. ASSUME stack # <<>>, NEW ph \in {"begin", "found", "freed", "run", "stored"}, SetPhase(ph),
             UNCHANGED queue
      PROVE  Entries' = Entries
  BY <1>1, <1>2, SetPhaseEffect, PhaseEntries
<1>3. ASSUME stack # <<>>, stack' = SubSeq(stack, 1, Len(stack) - 1), UNCHANGED queue
      PROVE  /\ Entry(Top) \in Entries /\ Entries' \subseteq Entries
             /\ Entries \subseteq Entries' \cup {Entry(Top)}
  <2>1. /\ Len(stack) \in DOMAIN stack
        /\ \A i \in DOMAIN stack' : i \in DOMAIN stack /\ stack'[i] = stack[i]
    BY <1>1, <1>3, PopEffect
  <2>2. \A i \in DOMAIN stack : i # Len(stack) => i \in DOMAIN stack'
    <3>1. DOMAIN stack = 1..Len(stack) /\ Len(stack) # 0
      BY <1>1, <1>3
    <3>2. DOMAIN stack' = 1..(Len(stack) - 1)
      BY <1>1, <1>3, <3>1
    <3> QED BY <1>1, <3>1, <3>2
  <2> QED BY <1>3, <2>1, <2>2 DEF Entries, Top
<1>4. CASE Dispatch
  <2>1. /\ queue # <<>> /\ queue' = Tail(queue) /\ stack' = Append(stack, Frame(queue[1]))
        /\ UNCHANGED <<pc, call, signalled>>
    BY <1>1, <1>4 DEF Dispatch
  <2>2. Entry(Frame(queue[1])) = Entry(queue[1])
    BY DEF Entry, Frame
  <2>3. /\ DOMAIN stack' = DOMAIN stack \cup {Len(stack) + 1}
        /\ \A i \in DOMAIN stack : stack'[i] = stack[i]
        /\ stack'[Len(stack) + 1] = Frame(queue[1])
    <3>1. DOMAIN stack = 1..Len(stack) /\ DOMAIN stack' = 1..(Len(stack) + 1)
      BY <1>1, <2>1
    <3>2. /\ \A i \in 1..Len(stack) : stack'[i] = stack[i]
          /\ stack'[Len(stack) + 1] = Frame(queue[1])
      BY <1>1, <2>1
    <3>3. 1..(Len(stack) + 1) = (1..Len(stack)) \cup {Len(stack) + 1}
      BY <1>1
    <3> QED BY <3>1, <3>2, <3>3
  <2>4. /\ \A i \in DOMAIN queue : i = 1 \/ (i - 1 \in DOMAIN queue' /\ queue'[i - 1] = queue[i])
        /\ \A i \in DOMAIN queue' : i + 1 \in DOMAIN queue /\ queue'[i] = queue[i + 1]
        /\ 1 \in DOMAIN queue
    <3>1. DOMAIN queue = 1..Len(queue) /\ Len(queue) # 0
      BY <1>1, <2>1
    <3>2. DOMAIN queue' = 1..(Len(queue) - 1)
      BY <1>1, <2>1, <3>1
    <3>3. \A i \in 1..(Len(queue) - 1) : queue'[i] = queue[i + 1]
      BY <1>1, <2>1
    <3> QED BY <1>1, <3>1, <3>2, <3>3
  <2>5. Entries' \subseteq Entries
    BY <2>2, <2>3, <2>4 DEF Entries
  <2>6. Entries \subseteq Entries'
    BY <2>2, <2>3, <2>4 DEF Entries
  <2> QED BY <2>1, <2>5, <2>6
<1>5. CASE FindService \/ EnterService
  <2>1. UNCHANGED <<pc, call, signalled, queue>> /\ stack # <<>>
    BY <1>5 DEF FindService, EnterService
  <2>2. stack' = stack \/ \E ph \in {"begin", "found", "freed", "run", "stored"} : SetPhase(ph)
    BY <1>5 DEF FindService, EnterService
  <2>3. stack' = stack => Entries' = Entries
    BY <2>1 DEF Entries
  <2> QED BY <1>2, <2>1, <2>2, <2>3
<1>6. CASE FunctionReturns
  <2>1. stack # <<>> /\ UNCHANGED <<pc, call, signalled, queue>>
    BY <1>6 DEF FunctionReturns
  <2>2. CASE Top.kind = "sync"
    BY <1>2, <1>6, <2>1, <2>2 DEF FunctionReturns
  <2>3. CASE Top.kind # "sync"
    <3>1. stack' = SubSeq(stack, 1, Len(stack) - 1)
      BY <1>6, <2>3 DEF FunctionReturns
    <3>2. Entry(Top)[3] # "sync"
      BY <2>3 DEF Entry
    <3> QED BY <1>3, <2>1, <3>1, <3>2
  <2> QED BY <2>2, <2>3
<1>7. CASE SetEvent
  <2>1. /\ stack # <<>> /\ UNCHANGED <<pc, call, queue>>
        /\ stack' = SubSeq(stack, 1, Len(stack) - 1)
        /\ signalled' = signalled \cup {Entry(Top)[1]}
    BY <1>7 DEF SetEvent, Entry
  <2> QED BY <1>3, <2>1
<1> QED BY <1>4, <1>5, <1>6, <1>7 DEF MainServes

(* The other steps leave the entries alone, or end the service. *)
LEMMA OtherEntries ==
  ASSUME Inv, \/ \E w \in Worker : WaitReturns(w) \/ Die(w)
              \/ DeadItemFault \/ UnloadCoreModule \/ ServiceStep \/ UNCHANGED vars
  PROVE  /\ UNCHANGED call
         /\ \A w \in Worker : pc'[w] = pc[w] \/ pc'[w] # "posted"
         /\ \A w \in signalled : w \in signalled' \/ pc'[w] # "posted"
         /\ Entries' = Entries \/ (Entries' \subseteq Entries /\ ~up')
<1>1. /\ pc \in [Worker -> {"idle", "posted", "dead"}] /\ signalled \subseteq Worker
      /\ stack \in Seq(Running)
  BY DEF Inv, TypeOK
<1>2. CASE \E w \in Worker : WaitReturns(w) \/ Die(w)
  <2>1. PICK w \in Worker : WaitReturns(w) \/ Die(w)
    BY <1>2
  <2>2. /\ UNCHANGED <<call, queue, stack>> /\ signalled \subseteq signalled' \cup {w}
        /\ pc'[w] # "posted" /\ \A u \in Worker \ {w} : pc'[u] = pc[u]
    BY <1>1, <2>1 DEF WaitReturns, Die
  <2>3. Entries' = Entries
    BY <2>2 DEF Entries
  <2> QED BY <1>1, <2>2, <2>3
<1>3. CASE DeadItemFault \/ UnloadCoreModule
  <2>1. UNCHANGED <<call, pc, signalled, stack>> /\ ~up' /\ queue' \in {queue, <<>>}
    BY <1>3 DEF DeadItemFault, UnloadCoreModule
  <2>2. Entries' \subseteq Entries
    BY <2>1 DEF Entries
  <2> QED BY <2>1, <2>2
<1>4. CASE ServiceStep
  <2>1. UNCHANGED <<call, pc, signalled, queue>>
    BY <1>4 DEF ServiceStep, DestroyServiceFunction, KillObjectServices, FreeServices,
                CreateServiceFunction
  <2>2. \/ stack' = stack
        \/ \E S : stack' = [i \in DOMAIN stack |->
                              IF stack[i].phase = "found" /\ stack[i].req \in S
                              THEN [stack[i] EXCEPT !.phase = "freed"] ELSE stack[i]]
    BY <1>4 DEF ServiceStep, DestroyServiceFunction, KillObjectServices, FreeServices,
                CreateServiceFunction
  <2>3. \A i \in DOMAIN stack : stack[i] \in Running
    BY <1>1
  <2>4. DOMAIN stack' = DOMAIN stack /\ \A i \in DOMAIN stack :
          stack'[i].w = stack[i].w /\ stack'[i].n = stack[i].n /\ stack'[i].kind = stack[i].kind
    BY <2>2, <2>3 DEF Running
  <2> QED BY <2>1, <2>4, PhaseEntries
<1>5. CASE UNCHANGED vars
  BY <1>5 DEF vars, Entries
<1> QED BY <1>2, <1>3, <1>4, <1>5

(* Every step keeps WaitsForSync, and with it no step forgets a caller. *)
LEMMA NotForgottenStep ==
  ASSUME Inv, Inv', WaitsForSync, [Next]_vars
  PROVE  WaitsForSync' /\ NotForgotten
<1>1. /\ call \in [Worker -> 0..MaxCalls] /\ MaxCalls \in Nat /\ signalled \subseteq Worker
  BY MainQueueAssumption DEF Inv, TypeOK
<1>2. /\ \A e \in Entries : e[1] \in Worker /\ e[2] \in Nat /\ e[2] <= call[e[1]]
      /\ \A e \in Entries' : e[1] \in Worker
      /\ \A w \in Worker :
           InFlight(w) => /\ pc[w] = "posted"
                          /\ w \in signalled \/ \E k : <<w, call[w], k>> \in Entries
      /\ \A w \in Worker :
           /\ pc'[w] = "posted"
           /\ w \in signalled' \/ \E k : <<w, call'[w], k>> \in Entries'
           => InFlight(w)'
  <2>1. EntriesOK /\ EntriesOK'
    BY EntryFacts, PTL
  <2> QED BY <2>1 DEF EntriesOK
<1>3. ASSUME NEW w \in Worker, (\E r \in Request : CallSync(w, r)) \/ CallFunctionAsync(w)
      PROVE  WaitsForSync' /\ NotForgotten
  <2>1. PICK k : /\ Entries' \subseteq Entries \cup {<<w, call[w] + 1, k>>}
                 /\ pc'[w] = "posted" => k = "sync"
    BY <1>3, CallEntries
  <2>2. /\ pc[w] = "idle" /\ call' = [call EXCEPT ![w] = @ + 1]
        /\ \A u \in Worker \ {w} : pc'[u] = pc[u]
        /\ UNCHANGED signalled /\ Entries \subseteq Entries'
    BY <1>3, CallEntries
  <2>3. WaitsForSync'
    <3> SUFFICES ASSUME NEW e \in Entries', pc'[e[1]] = "posted", e[2] = call'[e[1]]
                 PROVE  e[3] = "sync"
      BY DEF WaitsForSync
    <3>1. CASE e = <<w, call[w] + 1, k>>
      BY <2>1, <3>1
    <3>2. CASE e \in Entries /\ e[1] = w
      BY <1>1, <1>2, <2>2, <3>2
    <3>3. CASE e \in Entries /\ e[1] # w
      <4>1. e[1] \in Worker \ {w}
        BY <1>2, <3>3
      <4>2. pc[e[1]] = "posted" /\ call'[e[1]] = call[e[1]]
        BY <1>1, <2>2, <4>1
      <4> QED BY <3>3, <4>2 DEF WaitsForSync
    <3> QED BY <2>1, <3>1, <3>2, <3>3
  <2>4. NotForgotten
    <3> SUFFICES ASSUME NEW u \in Worker, InFlight(u) PROVE InFlight(u)'
      BY DEF NotForgotten
    <3>1. pc[u] = "posted" /\ u # w
      BY <1>2, <2>2
    <3>2. pc'[u] = "posted" /\ call'[u] = call[u]
      BY <1>1, <2>2, <3>1
    <3> QED BY <1>2, <2>2, <3>2
  <2> QED BY <2>3, <2>4
<1>4. CASE MainServes
  <2>1. /\ UNCHANGED <<pc, call>> /\ Entries' \subseteq Entries /\ signalled \subseteq signalled'
    BY <1>4, MainEntries
  <2>2. WaitsForSync'
    BY <2>1 DEF WaitsForSync
  <2>3. ASSUME NEW u \in Worker, InFlight(u) PROVE InFlight(u)'
    <3>1. pc'[u] = "posted" /\ call'[u] = call[u]
      BY <1>2, <2>1, <2>3
    <3>2. CASE u \in signalled
      BY <1>2, <2>1, <3>1, <3>2
    <3>3. CASE u \notin signalled
      <4>1. PICK k : <<u, call[u], k>> \in Entries
        BY <1>2, <2>3, <3>3
      <4>2. k = "sync"
        BY <1>2, <2>3, <4>1 DEF WaitsForSync
      <4>3. <<u, call[u], k>> \in Entries' \/ u \in signalled'
        BY <1>4, <4>1, <4>2, MainEntries
      <4> QED BY <1>2, <3>1, <4>3
    <3> QED BY <3>2, <3>3
  <2> QED BY <2>2, <2>3 DEF NotForgotten
<1>5. CASE \/ \E w \in Worker : WaitReturns(w) \/ Die(w)
           \/ DeadItemFault \/ UnloadCoreModule \/ ServiceStep \/ UNCHANGED vars
  <2>1. /\ UNCHANGED call
        /\ \A w \in Worker : pc'[w] = pc[w] \/ pc'[w] # "posted"
        /\ \A w \in signalled : w \in signalled' \/ pc'[w] # "posted"
        /\ Entries' \subseteq Entries /\ (Entries' = Entries \/ ~up')
    BY <1>5, OtherEntries
  <2>2. WaitsForSync'
    BY <1>2, <2>1 DEF WaitsForSync
  <2>3. NotForgotten
    <3> SUFFICES ASSUME NEW u \in Worker, InFlight(u), pc'[u] = "posted", up'
                 PROVE  InFlight(u)'
      BY DEF NotForgotten
    <3> QED BY <1>2, <2>1
  <2> QED BY <2>2, <2>3
<1> QED BY <1>3, <1>4, <1>5 DEF Next, WorkerStep, MainStep

(* A caller whose call was accepted is never forgotten, whatever the main    *)
(* thread nests, destroys or runs meanwhile: the part of AcceptedCallReturns *)
(* that is not a matter of fairness.                                        *)
THEOREM CallersAreNotForgotten == Spec => [][NotForgotten]_vars
<1>1. Init => WaitsForSync
  BY DEF Init, WaitsForSync, Entries
<1>2. Inv /\ Inv' /\ WaitsForSync /\ [Next]_vars => WaitsForSync' /\ [NotForgotten]_vars
  BY NotForgottenStep
<1> QED BY <1>1, <1>2, MainQueueInvariant, PTL DEF Spec
=============================================================================
