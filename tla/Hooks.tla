------------------------------- MODULE Hooks -------------------------------
(***************************************************************************)
(* Hookable events of mir_core (modules.cpp): the table of events, the     *)
(* array of subscriber slots of each event, the handles given to           *)
(* subscribers, and the notification that walks the array while            *)
(* subscribers hook, unhook, create and destroy events.                    *)
(*                                                                         *)
(* The table is changed under csHooks, a notification holds the csHook of  *)
(* its event only: the two exclude each other nowhere, so every change of  *)
(* the table may come between two steps of a notification, made by the     *)
(* subscriber being called or by another thread.                           *)
(*                                                                         *)
(* A handle is (id << 16) | slot; it is kept here as the pair <<id, slot>>, *)
(* which is the same thing below 2^15 events and 2^16 slots.               *)
(***************************************************************************)
EXTENDS Integers, Sequences, FiniteSets

CONSTANTS Event,      \* names of events
          Proc,       \* threads that notify
          Object,     \* objects that subscribe (accounts, windows)
          Module,     \* modules that subscribe (plugins)
          None,       \* the null pointer
          MaxSub,     \* bound: subscriptions made
          MaxId,      \* bound: events created
          MaxDepth    \* bound: notifications nested in one thread

ASSUME HooksAssumption ==
  /\ MaxSub \in Nat /\ MaxId \in Nat /\ MaxDepth \in Nat
  /\ None \notin Object \cup Module

VARIABLES
  sttHookId,  \* the next event id
  id,         \* THook.id of each event, 0 if the event does not exist
  dflt,       \* THook.pfnHook is set
  mem,        \* the allocated subscriber slots of each event
  cnt,        \* THook.subscriberCount
  nsub,       \* subscriptions made so far: the serial number of the last one
  handle,     \* the handle a subscriber holds, NoHandle if it has none
  stray,      \* a message hook has been killed in place of another hook
  frames      \* per thread, the running notifications, innermost last

vars == <<sttHookId, id, dflt, mem, cnt, nsub, handle, stray, frames>>

Sub == 1..MaxSub

\* THookSubscriber; sub stands for the procedure and its parameter.
Slot == [type : {"free", "fn", "obj", "msg"}, sub : 0..MaxSub,
         object : Object \cup {None}, hOwner : Module \cup {None}]

\* Which slots a notification calls: all, those of an object, of a module.
Filter == {<<"all", None>>} \cup ({"object"} \X Object) \cup ({"module"} \X Module)

NoHandle == <<0, 0>>

\* The subscriptions whose subscriber has not unhooked yet.
Held == {k \in Sub : handle[k] # NoHandle}

Init ==
  /\ sttHookId = 1
  /\ id = [e \in Event |-> 0]
  /\ dflt = [e \in Event |-> FALSE]
  /\ mem = [e \in Event |-> <<>>]
  /\ cnt = [e \in Event |-> 0]
  /\ nsub = 0
  /\ handle = [k \in Sub |-> NoHandle]
  /\ stray = FALSE
  /\ frames = [p \in Proc |-> <<>>]

----------------------------------------------------------------------------
(* Creating and destroying events.                                         *)

\* Mutated: the id of a new event is not advanced.
CreateHookableEventSameId(e) ==
  /\ id[e] = 0 /\ sttHookId <= MaxId
  /\ id' = [id EXCEPT ![e] = sttHookId]
  /\ UNCHANGED <<sttHookId, dflt, mem, cnt, nsub, handle, stray, frames>>

CreateHookableEvent(e) ==
  /\ id[e] = 0 /\ sttHookId <= MaxId
  /\ id' = [id EXCEPT ![e] = sttHookId]
  /\ sttHookId' = sttHookId + 1
  /\ UNCHANGED <<dflt, mem, cnt, nsub, handle, stray, frames>>

\* The subscribers are not told: their handles stay with them.
DestroyHookableEvent(e) ==
  /\ id[e] # 0
  /\ id' = [id EXCEPT ![e] = 0]
  /\ dflt' = [dflt EXCEPT ![e] = FALSE]
  /\ mem' = [mem EXCEPT ![e] = <<>>]
  /\ cnt' = [cnt EXCEPT ![e] = 0]
  /\ UNCHANGED <<sttHookId, nsub, handle, stray, frames>>

SetHookDefaultForHookableEvent(e) ==
  /\ id[e] # 0
  /\ dflt' = [dflt EXCEPT ![e] = TRUE]
  /\ UNCHANGED <<sttHookId, id, mem, cnt, nsub, handle, stray, frames>>

----------------------------------------------------------------------------
(* Subscribing.                                                            *)

\* Mutated: a slot freed in the middle is used again.
AppendReusingFree(e, s) ==
  LET Free == {j \in 1..cnt[e] : mem[e][j].type = "free"}
      at == IF Free = {} THEN cnt[e] + 1 ELSE CHOOSE j \in Free : TRUE
  IN /\ id[e] # 0 /\ nsub < MaxSub
     /\ nsub' = nsub + 1
     /\ mem' = [mem EXCEPT ![e] =
                  IF Free = {} THEN Append(SubSeq(@, 1, cnt[e]), s) ELSE [@ EXCEPT ![at] = s]]
     /\ cnt' = [cnt EXCEPT ![e] = IF Free = {} THEN @ + 1 ELSE @]
     /\ handle' = [handle EXCEPT ![nsub + 1] = <<id[e], at>>]
     /\ UNCHANGED <<sttHookId, id, dflt, stray, frames>>

\* mir_realloc to one slot more than are in use, fill it, count it.
AppendSlot(e, s) ==
  /\ id[e] # 0 /\ nsub < MaxSub
  /\ nsub' = nsub + 1
  /\ mem' = [mem EXCEPT ![e] = Append(SubSeq(@, 1, cnt[e]), s)]
  /\ cnt' = [cnt EXCEPT ![e] = @ + 1]
  /\ handle' = [handle EXCEPT ![nsub + 1] = <<id[e], cnt[e] + 1>>]
  /\ UNCHANGED <<sttHookId, id, dflt, stray, frames>>

\* HookEvent, HookEventParam, HookTemporaryEvent (types 1 and 2) when o is
\* None; HookEventObj, HookEventObjParam (types 3 and 4) otherwise.
HookEventInt(e, o, m) ==
  AppendSlot(e, [type |-> IF o = None THEN "fn" ELSE "obj", sub |-> nsub + 1,
                 object |-> o, hOwner |-> m])

\* HookEventMessage leaves hOwner as it finds it: what the freed slot held if
\* the array still had one, or anything.  The message number overlays object,
\* which then equals no object's address.
HookEventMessage(e) ==
  \E m \in Module \cup {None} :
    /\ Len(mem[e]) > cnt[e] => m = mem[e][cnt[e] + 1].hOwner
    /\ AppendSlot(e, [type |-> "msg", sub |-> nsub + 1, object |-> None, hOwner |-> m])

----------------------------------------------------------------------------
(* Unsubscribing.                                                          *)

\* Mutated: the slot loses its module but stays in use.
FreedStaysInUse(s) == [s EXCEPT !.hOwner = None]

\* The object pointer is not cleared.
Freed(s) == [type |-> "free", sub |-> 0, object |-> s.object, hOwner |-> None]

\* The count after the free slots at the end have been dropped.
Trimmed(m, c) ==
  CHOOSE k \in 0..c : /\ k = 0 \/ m[k].type # "free"
                      /\ \A j \in (k + 1)..c : m[j].type = "free"

\* The slots in use or free in between.
Counted == {x \in Event \X (1..MaxSub) : x[2] <= cnt[x[1]]}

SlotAt(x) == mem[x[1]][x[2]]

\* Mutated: the array is compacted, the later slots move down.
FreeSlotsCompacting(doomed) ==
  LET Keep(e) == {j \in 1..cnt[e] : <<e, j>> \notin doomed}
      Rank(e, n) == CHOOSE j \in Keep(e) : Cardinality({i \in Keep(e) : i <= j}) = n
  IN /\ mem' = [e \in Event |-> [n \in 1..Cardinality(Keep(e)) |-> mem[e][Rank(e, n)]]]
     /\ cnt' = [e \in Event |-> Cardinality(Keep(e))]

\* Free the doomed slots, then drop the free ones at the end and, if none is
\* left, mir_free the array.
FreeSlots(doomed) ==
  LET freed(e) == [j \in DOMAIN mem[e] |->
                     IF <<e, j>> \in doomed THEN Freed(mem[e][j]) ELSE mem[e][j]]
      left(e) == Trimmed(freed(e), cnt[e])
  IN /\ mem' = [e \in Event |-> IF left(e) = 0 THEN <<>> ELSE freed(e)]
     /\ cnt' = [e \in Event |-> left(e)]

\* A subscriber gives its handle back, once.  The handle is looked up: there
\* may be no event with that id and no slot with that number any more.
UnhookEvent(k) ==
  /\ k \in Held
  /\ FreeSlots({x \in Counted : <<id[x[1]], x[2]>> = handle[k]})
  /\ handle' = [handle EXCEPT ![k] = NoHandle]
  /\ UNCHANGED <<sttHookId, id, dflt, nsub, stray, frames>>

\* KillModuleEventHooks and KillObjectEventHooks free every slot whose field
\* matches.  The functions and objects they belong to go away with them; a
\* window whose slot matched by accident does not know.
KillSlots(doomed) ==
  LET hit(types) == {k \in Held : \E x \in doomed :
                       SlotAt(x).sub = k /\ SlotAt(x).type \in types}
  IN /\ FreeSlots(doomed)
     /\ handle' = [k \in Sub |-> IF k \in hit({"fn", "obj"}) THEN NoHandle ELSE handle[k]]
     /\ stray' = (stray \/ hit({"msg"}) # {})
     /\ UNCHANGED <<sttHookId, id, dflt, nsub, frames>>

KillModuleEventHooks(m) == KillSlots({x \in Counted : SlotAt(x).hOwner = m})

KillObjectEventHooks(o) == KillSlots({x \in Counted : SlotAt(x).object = o})

----------------------------------------------------------------------------
(* Notifying.                                                              *)

\* The slots a notification with this filter calls.
Calls(filter, s) ==
  /\ s.type # "free"
  /\ filter[1] = "object" => s.type = "obj" /\ s.object = filter[2]
  /\ filter[1] = "module" => s.hOwner = filter[2]

Live(e) == {mem[e][j].sub : j \in {i \in 1..cnt[e] : mem[e][i].type # "free"}}

\* NotifyEventHooks (all slots; run by the main thread for a worker too),
\* NotifyFastHook (all slots, by any thread), CallObjectEventHook and
\* CallPluginEventHook: enter the event's csHook, which is reentrant.  The
\* first two pass checkHook before.
Notify(p, e, filter) ==
  /\ id[e] # 0 /\ Len(frames[p]) < MaxDepth
  /\ filter[1] = "all" => cnt[e] > 0 \/ dflt[e]
  /\ \A q \in Proc \ {p} : \A n \in DOMAIN frames[q] : frames[q][n].id # id[e]
  /\ frames' = [frames EXCEPT ![p] =
       Append(@, [e |-> e, id |-> id[e], i |-> 1, filter |-> filter, called |-> {},
                  must |-> {mem[e][j].sub : j \in {n \in 1..cnt[e] : Calls(filter, mem[e][n])}}])]
  /\ UNCHANGED <<sttHookId, id, dflt, mem, cnt, nsub, handle, stray>>

Top(p) == frames[p][Len(frames[p])]

Pop(p) == frames' = [frames EXCEPT ![p] = SubSeq(@, 1, Len(@) - 1)]

\* Mutated: the walk starts again after a call.
CallSubscriberRestart(p) ==
  LET f == Top(p)
      s == mem[f.e][f.i]
  IN /\ frames[p] # <<>>
     /\ id[f.e] = f.id /\ f.i <= cnt[f.e]
     /\ frames' = [frames EXCEPT ![p][Len(frames[p])] =
             [f EXCEPT !.i = IF Calls(f.filter, s) THEN 1 ELSE @ + 1,
                       !.called = IF Calls(f.filter, s) THEN @ \cup {s.sub} ELSE @]]
     /\ UNCHANGED <<sttHookId, id, dflt, mem, cnt, nsub, handle, stray>>

\* One turn of the loop: the slot is read now, whatever has happened to the
\* array since the last turn.  A subscriber that returns nonzero ends it.
CallSubscriber(p) ==
  LET f == Top(p)
      s == mem[f.e][f.i]
  IN /\ frames[p] # <<>>
     /\ id[f.e] = f.id /\ f.i <= cnt[f.e]
     /\ \/ /\ Calls(f.filter, s)
           /\ Pop(p)
        \/ frames' = [frames EXCEPT ![p][Len(frames[p])] =
             [f EXCEPT !.i = @ + 1,
                       !.called = IF Calls(f.filter, s) THEN @ \cup {s.sub} ELSE @]]
     /\ UNCHANGED <<sttHookId, id, dflt, mem, cnt, nsub, handle, stray>>

\* The loop is over (the default hook, if any, is called now).  If the event
\* was destroyed under the notification, the walk over freed memory is taken
\* to end here.
EndNotify(p) ==
  LET f == Top(p)
  IN /\ frames[p] # <<>>
     /\ id[f.e] = f.id => f.i > cnt[f.e]
     /\ Pop(p)
     /\ UNCHANGED <<sttHookId, id, dflt, mem, cnt, nsub, handle, stray>>

----------------------------------------------------------------------------
Table ==
  \/ \E e \in Event :
       \/ CreateHookableEvent(e) \/ DestroyHookableEvent(e)
       \/ SetHookDefaultForHookableEvent(e) \/ HookEventMessage(e)
       \/ \E o \in Object \cup {None}, m \in Module : HookEventInt(e, o, m)
  \/ \E k \in Sub : UnhookEvent(k)
  \/ \E m \in Module : KillModuleEventHooks(m)
  \/ \E o \in Object : KillObjectEventHooks(o)

Walk ==
  \E p \in Proc :
    \/ \E e \in Event, filter \in Filter : Notify(p, e, filter)
    \/ CallSubscriber(p)
    \/ EndNotify(p)

Next == Table \/ Walk

Spec == Init /\ [][Next]_vars

----------------------------------------------------------------------------
(* Properties.                                                             *)

Frame == [e : Event, id : 1..MaxId, i : Nat, filter : Filter,
          called : SUBSET Sub, must : SUBSET Sub]

\* Types; the slots in use are within the allocated array.
TypeOK ==
  /\ sttHookId \in 1..(MaxId + 1)
  /\ id \in [Event -> 0..MaxId]
  /\ dflt \in [Event -> BOOLEAN]
  /\ mem \in [Event -> Seq(Slot)]
  /\ cnt \in [Event -> Nat]
  /\ nsub \in 0..MaxSub
  /\ handle \in [Sub -> (0..MaxId) \X (0..MaxSub)]
  /\ stray \in BOOLEAN
  /\ frames \in [Proc -> Seq(Frame)]
  /\ \A e \in Event : cnt[e] <= Len(mem[e])

\* A handle names the slot of the subscription it was given for as long as
\* the event exists, whatever others hook and unhook: UnhookEvent never takes
\* away somebody else's subscription.  (A message hook that was killed through
\* its uninitialised hOwner leaves a stale handle behind.)
HandleNamesOwnSlot ==
  ~stray =>
    \A k \in Held, e \in Event :
      id[e] = handle[k][1] => handle[k][2] <= cnt[e] /\ mem[e][handle[k][2]].sub = k

\* checkHook takes a count of 0 for "no subscribers": the last counted slot is
\* always in use.
EmptyIsZero ==
  \A e \in Event : cnt[e] > 0 => mem[e][cnt[e]].type # "free"

\* Once UnhookEvent or a Kill has returned, the subscriber is in no slot of any
\* event and will not be called again.
UnhookedIsGone == \A e \in Event : Live(e) \subseteq Held

\* Subscribers stand in the array, and are called, in the order they subscribed.
CalledInOrder ==
  \A e \in Event : \A i, j \in 1..cnt[e] :
    i < j /\ mem[e][i].type # "free" /\ mem[e][j].type # "free"
      => mem[e][i].sub < mem[e][j].sub

\* A notification that runs to its end has called every subscriber that was
\* there when it began and still is, although the array changed under it.
NoneSkipped ==
  \A p \in Proc : \A n \in DOMAIN frames[p] :
    LET f == frames[p][n]
    IN id[f.e] = f.id /\ f.i > cnt[f.e] => f.must \cap Live(f.e) \subseteq f.called

\* A notification never calls a subscriber twice: none it has called is ahead.
NoneTwice ==
  \A p \in Proc : \A n \in DOMAIN frames[p] :
    LET f == frames[p][n]
    IN id[f.e] = f.id =>
         \A j \in f.i..cnt[f.e] : mem[f.e][j].sub \notin f.called
=============================================================================
