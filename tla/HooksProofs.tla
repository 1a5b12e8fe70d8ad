---------------------------- MODULE HooksProofs ----------------------------
(***************************************************************************)
(* Proofs about Hooks for any events, threads, objects and bounds.         *)
(***************************************************************************)
EXTENDS Hooks, WellFoundedInduction, TLAPS

(* How the table hangs together: ids are handed out once, and a slot in    *)
(* use and the handle of its subscription name each other.                 *)
TableShape ==
  /\ \A e \in Event :
       /\ id[e] < sttHookId
       /\ id[e] = 0 => cnt[e] = 0
       /\ cnt[e] <= nsub
       /\ \A d \in Event : id[d] = id[e] /\ id[e] # 0 => d = e
  /\ \A k \in Sub :
       /\ handle[k][1] < sttHookId
       /\ handle[k] # NoHandle => k <= nsub /\ handle[k][1] # 0 /\ handle[k][2] # 0
  /\ \A e \in Event : \A j \in 1..cnt[e] :
       IF mem[e][j].type = "free" THEN mem[e][j].sub = 0
       ELSE /\ mem[e][j].sub \in 1..nsub
            /\ handle[mem[e][j].sub] = <<id[e], j>>

(* What a running notification f has done so far. *)
FrameShape(f) ==
  /\ f.id < sttHookId /\ f.id # 0 /\ f.i >= 1
  /\ f.called \subseteq 1..nsub /\ f.must \subseteq 1..nsub
  /\ id[f.e] = f.id =>
       \A j \in 1..cnt[f.e] :
         /\ mem[f.e][j].sub \in f.must =>
              Calls(f.filter, mem[f.e][j]) /\ (j < f.i => mem[f.e][j].sub \in f.called)
         /\ j >= f.i => mem[f.e][j].sub \notin f.called

FramesShape == \A p \in Proc : \A n \in DOMAIN frames[p] : FrameShape(frames[p][n])

Inv ==
  /\ TypeOK
  /\ TableShape
  /\ HandleNamesOwnSlot
  /\ EmptyIsZero
  /\ CalledInOrder
  /\ FramesShape

(* Initially there is no event, no subscription and no notification. *)
LEMMA InvInit == Init => Inv
<1> SUFFICES ASSUME Init PROVE Inv
  OBVIOUS
<1> USE HooksAssumption DEF Init, NoHandle, Sub
<1>1. TypeOK
  <2>1. mem \in [Event -> Seq(Slot)] /\ frames \in [Proc -> Seq(Frame)]
    OBVIOUS
  <2>2. handle \in [Sub -> (0..MaxId) \X (0..MaxSub)]
    OBVIOUS
  <2>3. \A e \in Event : cnt[e] <= Len(mem[e])
    OBVIOUS
  <2>4. sttHookId \in 1..(MaxId + 1) /\ nsub \in 0..MaxSub
    OBVIOUS
  <2>5. id \in [Event -> 0..MaxId] /\ cnt \in [Event -> Nat]
    OBVIOUS
  <2>6. dflt \in [Event -> BOOLEAN] /\ stray \in BOOLEAN
    BY Zenon
  <2> HIDE DEF Init
  <2> QED BY <2>1, <2>2, <2>3, <2>4, <2>5, <2>6 DEF TypeOK
<1>2. TableShape
  BY DEF TableShape
<1>3. HandleNamesOwnSlot /\ EmptyIsZero /\ CalledInOrder
  BY DEF HandleNamesOwnSlot, EmptyIsZero, CalledInOrder, Held
<1>4. FramesShape
  BY DEF FramesShape
<1> QED BY <1>1, <1>2, <1>3, <1>4 DEF Inv

(* Trimmed is the number of the last slot in use, 0 if there is none. *)
LEMMA TrimmedSpec ==
  ASSUME NEW m, NEW c \in Nat
  PROVE  /\ Trimmed(m, c) \in 0..c
         /\ Trimmed(m, c) # 0 => m[Trimmed(m, c)].type # "free"
         /\ \A j \in (Trimmed(m, c) + 1)..c : m[j].type = "free"
<1> DEFINE S == {k \in 0..c : \A j \in (k + 1)..c : m[j].type = "free"}
<1>1. S \in SUBSET Nat /\ c \in S
  OBVIOUS
<1>2. PICK k \in S : \A i \in S : k <= i
  <2> DEFINE R == OpToRel(<, Nat)
  <2>1. IsWellFoundedOn(R, Nat)
    BY NatLessThanWellFounded
  <2>2. \A k, i \in S : <<i, k>> \notin R => k <= i
    BY DEF OpToRel
  <2> HIDE DEF S, R
  <2>3. PICK k \in S : \A i \in S : <<i, k>> \notin R
    BY <1>1, <2>1, WFMin
  <2> QED BY <2>2, <2>3
<1>3. k = 0 \/ m[k].type # "free"
  <2> SUFFICES ASSUME k # 0, m[k].type = "free" PROVE FALSE
    OBVIOUS
  <2>1. k - 1 \in S
    OBVIOUS
  <2> QED BY <2>1, <1>2
<1> QED BY <1>2, <1>3 DEF Trimmed

(* What FreeSlots does to the array of every event. *)
LEMMA FreeSlotsEffect ==
  ASSUME TypeOK, NEW doomed \in SUBSET Counted, FreeSlots(doomed)
  PROVE  /\ mem' \in [Event -> Seq(Slot)]
         /\ cnt' \in [Event -> Nat]
         /\ \A e \in Event :
              /\ cnt'[e] <= cnt[e] /\ cnt'[e] <= Len(mem'[e])
              /\ \A j \in 1..cnt'[e] :
                   mem'[e][j] = IF <<e, j>> \in doomed THEN Freed(mem[e][j]) ELSE mem[e][j]
              /\ \A j \in (cnt'[e] + 1)..cnt[e] :
                   <<e, j>> \in doomed \/ mem[e][j].type = "free"
              /\ cnt'[e] > 0 => mem'[e][cnt'[e]].type # "free"
<1> DEFINE freed(e) == [j \in DOMAIN mem[e] |->
                          IF <<e, j>> \in doomed THEN Freed(mem[e][j]) ELSE mem[e][j]]
           left(e) == Trimmed(freed(e), cnt[e])
<1>1. /\ mem' = [e \in Event |-> IF left(e) = 0 THEN <<>> ELSE freed(e)]
      /\ cnt' = [e \in Event |-> left(e)]
  BY DEF FreeSlots
<1>2. ASSUME NEW e \in Event
      PROVE  /\ freed(e) \in Seq(Slot) /\ Len(freed(e)) = Len(mem[e])
             /\ \A j \in 1..cnt[e] :
                  freed(e)[j] = IF <<e, j>> \in doomed THEN Freed(mem[e][j]) ELSE mem[e][j]
  <2>1. mem[e] \in Seq(Slot) /\ cnt[e] \in Nat /\ cnt[e] <= Len(mem[e])
    BY DEF TypeOK
  <2>2. ASSUME NEW s \in Slot PROVE Freed(s) \in Slot
    BY HooksAssumption DEF Freed, Slot
  <2>3. DOMAIN mem[e] = 1..Len(mem[e]) /\ \A j \in 1..Len(mem[e]) : mem[e][j] \in Slot
    BY <2>1
  <2>4. freed(e) \in [1..Len(mem[e]) -> Slot]
    BY <2>2, <2>3
  <2>5. freed(e) \in Seq(Slot) /\ Len(freed(e)) = Len(mem[e])
    <3> HIDE DEF freed
    <3>1. Len(mem[e]) \in Nat
      BY <2>1
    <3> QED BY <2>4, <3>1
  <2> QED BY <2>1, <2>3, <2>5
<1>3. ASSUME NEW e \in Event
      PROVE  /\ left(e) \in 0..cnt[e]
             /\ left(e) # 0 => freed(e)[left(e)].type # "free"
             /\ \A j \in (left(e) + 1)..cnt[e] : freed(e)[j].type = "free"
  <2> HIDE DEF freed
  <2>1. cnt[e] \in Nat
    BY DEF TypeOK
  <2> QED BY <2>1, TrimmedSpec
<1> HIDE DEF freed, left
<1>4. \A e \in Event : cnt'[e] = left(e) /\ mem'[e] = IF left(e) = 0 THEN <<>> ELSE freed(e)
  BY <1>1
<1>5. \A e \in Event : cnt[e] \in Nat /\ cnt[e] <= Len(mem[e])
  BY DEF TypeOK
<1>6. mem' \in [Event -> Seq(Slot)] /\ cnt' \in [Event -> Nat]
  BY <1>1, <1>2, <1>3, <1>5
<1>7. ASSUME NEW e \in Event
      PROVE  /\ cnt'[e] <= cnt[e] /\ cnt'[e] <= Len(mem'[e])
             /\ \A j \in 1..cnt'[e] :
                  mem'[e][j] = IF <<e, j>> \in doomed THEN Freed(mem[e][j]) ELSE mem[e][j]
             /\ \A j \in (cnt'[e] + 1)..cnt[e] :
                  <<e, j>> \in doomed \/ mem[e][j].type = "free"
             /\ cnt'[e] > 0 => mem'[e][cnt'[e]].type # "free"
  <2>1. /\ cnt'[e] = left(e) /\ left(e) \in 0..cnt[e] /\ cnt[e] \in Nat
        /\ cnt[e] <= Len(mem[e]) /\ Len(freed(e)) = Len(mem[e])
    BY <1>2, <1>3, <1>4, <1>5
  <2>2. cnt'[e] <= cnt[e] /\ cnt'[e] <= Len(mem'[e])
    BY <2>1, <1>4
  <2>3. \A j \in 1..cnt'[e] :
          mem'[e][j] = IF <<e, j>> \in doomed THEN Freed(mem[e][j]) ELSE mem[e][j]
    BY <2>1, <1>2, <1>4
  <2>4. \A j \in (cnt'[e] + 1)..cnt[e] : <<e, j>> \in doomed \/ mem[e][j].type = "free"
    BY <2>1, <1>2, <1>3
  <2>5. cnt'[e] > 0 => mem'[e][cnt'[e]].type # "free"
    BY <2>1, <1>3, <1>4
  <2> QED BY <2>2, <2>3, <2>4, <2>5
<1> QED BY <1>6, <1>7

(* Freeing slots, with the handles of their subscriptions, keeps Inv. *)
LEMMA FreeSlotsInv ==
  ASSUME Inv, NEW doomed \in SUBSET Counted, FreeSlots(doomed),
         UNCHANGED <<sttHookId, id, dflt, nsub, frames>>,
         handle' \in [Sub -> (0..MaxId) \X (0..MaxSub)], stray' \in BOOLEAN,
         \A k \in Sub : handle'[k] \in {handle[k], NoHandle},
         \A e \in Event : \A j \in 1..cnt[e] :
           mem[e][j].type # "free" /\ handle'[mem[e][j].sub] = NoHandle => <<e, j>> \in doomed,
         ~stray' => ~stray /\ \A e \in Event : \A j \in 1..cnt[e] :
           <<e, j>> \in doomed /\ mem[e][j].type # "free" => handle'[mem[e][j].sub] = NoHandle
  PROVE  Inv'
<1>1. /\ mem' \in [Event -> Seq(Slot)]
      /\ cnt' \in [Event -> Nat]
      /\ \A e \in Event :
           /\ cnt'[e] <= cnt[e] /\ cnt'[e] <= Len(mem'[e])
           /\ \A j \in 1..cnt'[e] :
                mem'[e][j] = IF <<e, j>> \in doomed THEN Freed(mem[e][j]) ELSE mem[e][j]
           /\ \A j \in (cnt'[e] + 1)..cnt[e] :
                <<e, j>> \in doomed \/ mem[e][j].type = "free"
           /\ cnt'[e] > 0 => mem'[e][cnt'[e]].type # "free"
  BY FreeSlotsEffect DEF Inv
<1>2. TypeOK'
  BY <1>1 DEF Inv, TypeOK
<1>3. \A s : Freed(s).type = "free" /\ Freed(s).sub = 0
  BY DEF Freed
<1>4. \A e \in Event : cnt[e] \in Nat /\ cnt[e] <= nsub /\ nsub \in 0..MaxSub /\ cnt'[e] \in Nat
  BY <1>1 DEF Inv, TypeOK, TableShape
<1>5. TableShape'
  <2>1. ASSUME NEW e \in Event
        PROVE  /\ id'[e] < sttHookId'
               /\ id'[e] = 0 => cnt'[e] = 0
               /\ cnt'[e] <= nsub'
               /\ \A d \in Event : id'[d] = id'[e] /\ id'[e] # 0 => d = e
    BY <1>1, <1>4 DEF Inv, TableShape
  <2>2. ASSUME NEW k \in Sub
        PROVE  /\ handle'[k][1] < sttHookId'
               /\ handle'[k] # NoHandle =>
                    k <= nsub' /\ handle'[k][1] # 0 /\ handle'[k][2] # 0
    BY DEF Inv, TypeOK, TableShape, NoHandle
  <2>3. ASSUME NEW e \in Event, NEW j \in 1..cnt'[e]
        PROVE  IF mem'[e][j].type = "free" THEN mem'[e][j].sub = 0
               ELSE /\ mem'[e][j].sub \in 1..nsub'
                    /\ handle'[mem'[e][j].sub] = <<id'[e], j>>
    <3>1. j \in 1..cnt[e] /\ mem'[e][j] = IF <<e, j>> \in doomed THEN Freed(mem[e][j]) ELSE mem[e][j]
      BY <1>1, <1>4
    <3>2. CASE <<e, j>> \in doomed
      BY <3>1, <3>2, <1>3
    <3>3. CASE <<e, j>> \notin doomed
      <4>1. mem'[e][j] = mem[e][j]
        BY <3>1, <3>3
      <4>2. IF mem[e][j].type = "free" THEN mem[e][j].sub = 0
            ELSE mem[e][j].sub \in 1..nsub /\ handle[mem[e][j].sub] = <<id[e], j>>
        BY <3>1 DEF Inv, TableShape
      <4>3. ASSUME mem[e][j].type # "free"
            PROVE  handle'[mem[e][j].sub] = handle[mem[e][j].sub]
        <5>1. mem[e][j].sub \in Sub
          BY <4>2, <4>3, <1>4, HooksAssumption DEF Sub
        <5>2. handle'[mem[e][j].sub] = NoHandle => <<e, j>> \in doomed
          BY <3>1, <4>3
        <5>3. handle'[mem[e][j].sub] # NoHandle
          BY <3>3, <5>2
        <5> QED BY <5>1, <5>3
      <4> QED BY <4>1, <4>2, <4>3
    <3> QED BY <3>2, <3>3
  <2> QED BY <2>1, <2>2, <2>3 DEF TableShape
<1>6. HandleNamesOwnSlot'
  <2> SUFFICES ASSUME ~stray', NEW k \in Held', NEW e \in Event, id'[e] = handle'[k][1]
               PROVE  handle'[k][2] <= cnt'[e] /\ mem'[e][handle'[k][2]].sub = k
    BY DEF HandleNamesOwnSlot
  <2> DEFINE j == handle[k][2]
  <2>1. k \in Sub /\ handle'[k] = handle[k] /\ handle[k] # NoHandle
    BY DEF Held
  <2>2. j <= cnt[e] /\ mem[e][j].sub = k
    BY <2>1 DEF Inv, HandleNamesOwnSlot, Held
  <2>3. j \in 1..cnt[e] /\ mem[e][j].type # "free"
    <3>1. j \in Nat
      BY <2>1 DEF Inv, TypeOK, Sub
    <3>2. j # 0
      BY <2>1 DEF Inv, TableShape
    <3> QED BY <2>1, <2>2, <3>1, <3>2, <1>4 DEF Inv, TableShape, Sub
  <2>4. <<e, j>> \notin doomed
    BY <2>1, <2>2, <2>3
  <2>5. j <= cnt'[e]
    BY <2>3, <2>4, <1>1, <1>4
  <2>6. mem'[e][j] = mem[e][j]
    BY <2>3, <2>4, <2>5, <1>1, <1>4
  <2> QED BY <2>1, <2>2, <2>5, <2>6
<1>7. EmptyIsZero'
  BY <1>1 DEF EmptyIsZero
<1>8. CalledInOrder'
  <2> SUFFICES ASSUME NEW e \in Event, NEW i \in 1..cnt'[e], NEW j \in 1..cnt'[e], i < j,
                      mem'[e][i].type # "free", mem'[e][j].type # "free"
               PROVE  mem'[e][i].sub < mem'[e][j].sub
    BY DEF CalledInOrder
  <2>1. ASSUME NEW n \in 1..cnt'[e], mem'[e][n].type # "free"
        PROVE  mem'[e][n] = mem[e][n]
    <3>1. mem'[e][n] = IF <<e, n>> \in doomed THEN Freed(mem[e][n]) ELSE mem[e][n]
      BY <1>1
    <3> QED BY <3>1, <2>1, <1>3
  <2>2. i \in 1..cnt[e] /\ j \in 1..cnt[e]
    BY <1>1, <1>4
  <2> QED BY <2>1, <2>2 DEF Inv, CalledInOrder
<1>9. FramesShape'
  <2> SUFFICES ASSUME NEW f \in Frame, FrameShape(f) PROVE FrameShape(f)'
    BY DEF FramesShape, Inv, TypeOK
  <2>1. f.e \in Event /\ f.called \subseteq 1..nsub /\ f.must \subseteq 1..nsub
    BY DEF Frame, FrameShape
  <2>2. ASSUME id'[f.e] = f.id, NEW j \in 1..cnt'[f.e]
        PROVE  /\ mem'[f.e][j].sub \in f.must =>
                    Calls(f.filter, mem'[f.e][j]) /\ (j < f.i => mem'[f.e][j].sub \in f.called)
               /\ j >= f.i => mem'[f.e][j].sub \notin f.called
    <3>1. j \in 1..cnt[f.e]
      BY <1>1, <1>4, <2>1
    <3>2. CASE <<f.e, j>> \in doomed
      BY <3>2, <1>1, <1>3, <2>1, 0 \notin 1..nsub
    <3>3. CASE <<f.e, j>> \notin doomed
      <4>1. mem'[f.e][j] = mem[f.e][j]
        BY <3>3, <1>1, <2>1
      <4>2. id[f.e] = f.id
        BY <2>2
      <4>3. /\ mem[f.e][j].sub \in f.must =>
                 Calls(f.filter, mem[f.e][j]) /\ (j < f.i => mem[f.e][j].sub \in f.called)
            /\ j >= f.i => mem[f.e][j].sub \notin f.called
        BY <4>2, <3>1 DEF FrameShape
      <4> QED BY <4>1, <4>3
    <3> QED BY <3>2, <3>3
  <2> QED BY <2>2 DEF FrameShape, Calls
<1> QED BY <1>2, <1>5, <1>6, <1>7, <1>8, <1>9 DEF Inv

(* Equal pairs have equal parts. *)
LEMMA PairParts ==
  ASSUME NEW a, NEW b, NEW c, NEW d, <<a, b>> = <<c, d>>
  PROVE  a = c /\ b = d
OBVIOUS

(* A slot in use belongs to a subscriber that holds a handle to it. *)
LEMMA SlotInUse ==
  ASSUME Inv, NEW e \in Event, NEW j \in 1..cnt[e], mem[e][j].type # "free"
  PROVE  /\ mem[e][j].sub \in Sub /\ mem[e][j].sub \in Held
         /\ handle[mem[e][j].sub] = <<id[e], j>> /\ handle[mem[e][j].sub] # NoHandle
         /\ id[e] # 0 /\ <<e, j>> \in Counted
         /\ mem[e][j].type \in {"fn", "obj", "msg"}
<1>1. /\ cnt[e] \in Nat /\ cnt[e] <= Len(mem[e]) /\ cnt[e] <= nsub /\ nsub \in 0..MaxSub
      /\ mem[e] \in Seq(Slot)
  BY DEF Inv, TypeOK, TableShape
<1>2. mem[e][j].sub \in 1..nsub /\ handle[mem[e][j].sub] = <<id[e], j>>
  BY DEF Inv, TableShape
<1>3. mem[e][j].sub \in Sub
  BY <1>1, <1>2, HooksAssumption DEF Sub
<1>4. id[e] # 0
  BY <1>1 DEF Inv, TableShape
<1>5. handle[mem[e][j].sub] # NoHandle
  BY <1>2, <1>4, PairParts DEF NoHandle
<1>6. <<e, j>> \in Counted
  BY <1>1, HooksAssumption DEF Counted
<1>7. mem[e][j] \in Slot
  BY <1>1
<1>8. mem[e][j].type \in {"fn", "obj", "msg"}
  BY <1>7 DEF Slot
<1> QED BY <1>2, <1>3, <1>4, <1>5, <1>6, <1>8 DEF Held

(* UnhookEvent frees at most the slot its handle names. *)
LEMMA UnhookEventInv ==
  ASSUME Inv, NEW k \in Sub, UnhookEvent(k)
  PROVE  Inv'
<1> DEFINE doomed == {x \in Counted : <<id[x[1]], x[2]>> = handle[k]}
<1>1. /\ FreeSlots(doomed) /\ handle' = [handle EXCEPT ![k] = NoHandle]
      /\ UNCHANGED <<sttHookId, id, dflt, nsub, frames>> /\ stray' = stray
      /\ k \in Held
  BY DEF UnhookEvent
<1>2. handle' \in [Sub -> (0..MaxId) \X (0..MaxSub)] /\ stray' \in BOOLEAN
  BY <1>1, HooksAssumption DEF Inv, TypeOK, NoHandle
<1>3. \A i \in Sub : handle'[i] \in {handle[i], NoHandle}
  BY <1>1 DEF Inv, TypeOK
<1>5. ASSUME NEW e \in Event, NEW j \in 1..cnt[e],
             mem[e][j].type # "free", handle'[mem[e][j].sub] = NoHandle
      PROVE  <<e, j>> \in doomed
  <2>1. /\ mem[e][j].sub \in Sub /\ handle[mem[e][j].sub] # NoHandle
        /\ handle[mem[e][j].sub] = <<id[e], j>> /\ <<e, j>> \in Counted
    BY <1>5, SlotInUse
  <2>2. mem[e][j].sub = k
    BY <1>1, <1>5, <2>1 DEF Inv, TypeOK
  <2> QED BY <2>1, <2>2
<1>6. ASSUME ~stray, NEW e \in Event, NEW j \in 1..cnt[e], <<e, j>> \in doomed
      PROVE  handle'[mem[e][j].sub] = NoHandle
  <2>1. handle[k] = <<id[e], j>>
    BY <1>6
  <2>2. mem[e][j].sub = k
    BY <1>1, <1>6, <2>1 DEF Inv, HandleNamesOwnSlot
  <2> QED BY <1>1, <2>2 DEF Inv, TypeOK
<1> HIDE DEF doomed
<1>7. doomed \in SUBSET Counted
  BY DEF doomed
<1> QED BY <1>1, <1>2, <1>3, <1>5, <1>6, <1>7, FreeSlotsInv

(* KillModuleEventHooks and KillObjectEventHooks. *)
LEMMA KillSlotsInv ==
  ASSUME Inv, NEW doomed \in SUBSET Counted, KillSlots(doomed)
  PROVE  Inv'
<1> DEFINE hit(types) == {k \in Held : \E x \in doomed :
                            SlotAt(x).sub = k /\ SlotAt(x).type \in types}
<1>1. /\ FreeSlots(doomed)
      /\ handle' = [k \in Sub |-> IF k \in hit({"fn", "obj"}) THEN NoHandle ELSE handle[k]]
      /\ stray' = (stray \/ hit({"msg"}) # {})
      /\ UNCHANGED <<sttHookId, id, dflt, nsub, frames>>
  BY DEF KillSlots
<1>2. handle' \in [Sub -> (0..MaxId) \X (0..MaxSub)]
  <2>1. NoHandle \in (0..MaxId) \X (0..MaxSub)
    BY HooksAssumption DEF NoHandle
  <2>2. \A k \in Sub : handle[k] \in (0..MaxId) \X (0..MaxSub)
    BY DEF Inv, TypeOK
  <2> HIDE DEF hit
  <2> QED BY <1>1, <2>1, <2>2
<1>3. stray' \in BOOLEAN
  BY <1>1, Zenon DEF Inv, TypeOK
<1>4. \A i \in Sub : handle'[i] \in {handle[i], NoHandle}
  BY <1>1
<1>6. ASSUME NEW e \in Event, NEW j \in 1..cnt[e],
             mem[e][j].type # "free", handle'[mem[e][j].sub] = NoHandle
      PROVE  <<e, j>> \in doomed
  <2>1. mem[e][j].sub \in hit({"fn", "obj"})
    BY <1>1, <1>6, SlotInUse
  <2>2. PICK x \in doomed : SlotAt(x).sub = mem[e][j].sub /\ SlotAt(x).type \in {"fn", "obj"}
    BY <2>1
  <2>3. x \in Event \X (1..MaxSub) /\ x[2] <= cnt[x[1]]
    BY DEF Counted
  <2>4. x[1] \in Event /\ x[2] \in 1..cnt[x[1]] /\ x = <<x[1], x[2]>>
    BY <2>3, HooksAssumption DEF Inv, TypeOK
  <2>5. handle[mem[e][j].sub] = <<id[x[1]], x[2]>>
    BY <2>2, <2>4, SlotInUse DEF SlotAt
  <2>6. id[e] # 0 /\ handle[mem[e][j].sub] = <<id[e], j>>
    BY <1>6, SlotInUse
  <2>7. id[e] = id[x[1]] /\ j = x[2]
    BY <2>5, <2>6, PairParts
  <2>8. e = x[1]
    BY <2>4, <2>6, <2>7 DEF Inv, TableShape
  <2> QED BY <2>4, <2>7, <2>8
<1>7. ASSUME ~stray'
      PROVE  ~stray /\ \A e \in Event : \A j \in 1..cnt[e] :
               <<e, j>> \in doomed /\ mem[e][j].type # "free" => handle'[mem[e][j].sub] = NoHandle
  <2>1. ~stray /\ hit({"msg"}) = {}
    BY <1>1, <1>7
  <2>2. ASSUME NEW e \in Event, NEW j \in 1..cnt[e], <<e, j>> \in doomed, mem[e][j].type # "free"
        PROVE  handle'[mem[e][j].sub] = NoHandle
    <3>1. mem[e][j].sub \in hit({mem[e][j].type})
      BY <2>2, SlotInUse DEF SlotAt
    <3>2. mem[e][j].type \in {"fn", "obj"}
      BY <3>1, <2>1, <2>2, SlotInUse
    <3>3. mem[e][j].sub \in hit({"fn", "obj"})
      BY <3>2, <2>2, SlotInUse DEF SlotAt
    <3> QED BY <3>3, <2>2, <1>1, SlotInUse
  <2> QED BY <2>1, <2>2
<1> QED BY <1>1, <1>2, <1>3, <1>4, <1>6, <1>7, FreeSlotsInv

(* A new subscription takes the slot behind the last one and the next number. *)
LEMMA AppendSlotInv ==
  ASSUME Inv, NEW e \in Event, NEW s \in Slot, s.type # "free", s.sub = nsub + 1,
         AppendSlot(e, s)
  PROVE  Inv'
<1>1. /\ cnt[e] \in Nat /\ cnt[e] <= nsub /\ nsub \in 0..MaxSub /\ nsub < MaxSub
      /\ mem[e] \in Seq(Slot) /\ cnt[e] <= Len(mem[e]) /\ id[e] \in 1..MaxId
      /\ id[e] < sttHookId /\ nsub + 1 \in Sub
  BY HooksAssumption DEF Inv, TypeOK, TableShape, AppendSlot, Sub
<1> DEFINE old == SubSeq(mem[e], 1, cnt[e])
<1>2. old \in Seq(Slot) /\ Len(old) = cnt[e] /\ \A j \in 1..cnt[e] : old[j] = mem[e][j]
  BY <1>1
<1>3. /\ Append(old, s) \in Seq(Slot) /\ Len(Append(old, s)) = cnt[e] + 1
      /\ Append(old, s)[cnt[e] + 1] = s
      /\ \A j \in 1..cnt[e] : Append(old, s)[j] = mem[e][j]
  <2> HIDE DEF old
  <2> QED BY <1>1, <1>2
<1>4. /\ mem' = [mem EXCEPT ![e] = Append(old, s)] /\ cnt' = [cnt EXCEPT ![e] = cnt[e] + 1]
      /\ handle' = [handle EXCEPT ![nsub + 1] = <<id[e], cnt[e] + 1>>]
      /\ nsub' = nsub + 1 /\ UNCHANGED <<sttHookId, id, dflt, stray, frames>>
  BY DEF AppendSlot
<1> HIDE DEF old
<1>5. /\ cnt' \in [Event -> Nat] /\ cnt'[e] = cnt[e] + 1
      /\ \A d \in Event \ {e} : cnt'[d] = cnt[d] /\ mem'[d] = mem[d]
      /\ mem'[e][cnt[e] + 1] = s /\ \A j \in 1..cnt[e] : mem'[e][j] = mem[e][j]
  BY <1>1, <1>3, <1>4 DEF Inv, TypeOK
<1>6. /\ handle' \in [Sub -> (0..MaxId) \X (0..MaxSub)]
      /\ handle'[nsub + 1] = <<id[e], cnt[e] + 1>>
      /\ \A k \in Sub \ {nsub + 1} : handle'[k] = handle[k]
  <2>1. <<id[e], cnt[e] + 1>> \in (0..MaxId) \X (0..MaxSub)
    BY <1>1, HooksAssumption
  <2> QED BY <1>1, <1>4, <2>1 DEF Inv, TypeOK
<1>7. TypeOK'
  <2>1. mem' \in [Event -> Seq(Slot)]
    BY <1>3, <1>4 DEF Inv, TypeOK
  <2>2. \A d \in Event : cnt'[d] <= Len(mem'[d])
    BY <1>3, <1>4 DEF Inv, TypeOK
  <2>3. nsub' \in 0..MaxSub
    BY <1>1, <1>4, HooksAssumption
  <2>4. /\ sttHookId' \in 1..(MaxId + 1) /\ id' \in [Event -> 0..MaxId]
        /\ dflt' \in [Event -> BOOLEAN] /\ stray' \in BOOLEAN
        /\ frames' \in [Proc -> Seq(Frame)]
    BY <1>4 DEF Inv, TypeOK
  <2> QED BY <1>5, <1>6, <2>1, <2>2, <2>3, <2>4 DEF TypeOK
<1>8. TableShape'
  <2>1. ASSUME NEW d \in Event
        PROVE  /\ id'[d] < sttHookId'
               /\ id'[d] = 0 => cnt'[d] = 0
               /\ cnt'[d] <= nsub'
               /\ \A c \in Event : id'[c] = id'[d] /\ id'[d] # 0 => c = d
    BY <1>1, <1>4, <1>5 DEF Inv, TypeOK, TableShape
  <2>2. ASSUME NEW k \in Sub
        PROVE  /\ handle'[k][1] < sttHookId'
               /\ handle'[k] # NoHandle =>
                    k <= nsub' /\ handle'[k][1] # 0 /\ handle'[k][2] # 0
    <3>1. CASE k = nsub + 1
      BY <3>1, <1>1, <1>4, <1>6
    <3>2. CASE k # nsub + 1
      BY <3>2, <1>1, <1>4, <1>6 DEF Inv, TableShape, Sub
    <3> QED BY <3>1, <3>2
  <2>3. ASSUME NEW d \in Event, NEW j \in 1..cnt'[d]
        PROVE  IF mem'[d][j].type = "free" THEN mem'[d][j].sub = 0
               ELSE /\ mem'[d][j].sub \in 1..nsub'
                    /\ handle'[mem'[d][j].sub] = <<id'[d], j>>
    <3>1. CASE d = e /\ j = cnt[e] + 1
      <4>1. mem'[d][j] = s
        BY <3>1, <1>5
      <4>2. nsub + 1 \in 1..nsub' /\ handle'[nsub + 1] = <<id'[d], j>>
        BY <3>1, <1>1, <1>4, <1>6
      <4> QED BY <4>1, <4>2
    <3>2. CASE ~(d = e /\ j = cnt[e] + 1)
      <4>1. j \in 1..cnt[d] /\ mem'[d][j] = mem[d][j]
        BY <3>2, <1>1, <1>5
      <4>2. IF mem[d][j].type = "free" THEN mem[d][j].sub = 0
            ELSE mem[d][j].sub \in 1..nsub /\ handle[mem[d][j].sub] = <<id[d], j>>
        BY <4>1 DEF Inv, TableShape
      <4>3. \A k \in 1..nsub : handle'[k] = handle[k]
        BY <1>1, <1>6, HooksAssumption DEF Sub
      <4> QED BY <4>1, <4>2, <4>3, <1>1, <1>4
    <3> QED BY <3>1, <3>2
  <2> QED BY <2>1, <2>2, <2>3 DEF TableShape
<1>9. HandleNamesOwnSlot'
  <2> SUFFICES ASSUME ~stray', NEW k \in Held', NEW d \in Event, id'[d] = handle'[k][1]
               PROVE  handle'[k][2] <= cnt'[d] /\ mem'[d][handle'[k][2]].sub = k
    BY DEF HandleNamesOwnSlot
  <2>1. CASE k = nsub + 1
    <3>1. id[d] = id[e]
      BY <2>1, <1>4, <1>6
    <3>2. d = e
      BY <3>1, <1>1 DEF Inv, TableShape
    <3> QED BY <2>1, <3>2, <1>1, <1>5, <1>6
  <2>2. CASE k # nsub + 1
    <3>1. k \in Sub /\ handle'[k] = handle[k] /\ k \in Held
      BY <2>2, <1>6 DEF Held
    <3>2. handle[k][2] <= cnt[d] /\ mem[d][handle[k][2]].sub = k
      BY <3>1, <1>4 DEF Inv, HandleNamesOwnSlot
    <3>3. handle[k][2] \in 1..cnt[d]
      BY <3>1, <3>2 DEF Inv, TypeOK, TableShape, Held
    <3>4. cnt[d] \in Nat /\ cnt'[d] \in Nat
      BY <1>5 DEF Inv, TypeOK
    <3>5. cnt[d] <= cnt'[d] /\ \A j \in 1..cnt[d] : mem'[d][j] = mem[d][j]
      <4>1. CASE d = e
        BY <4>1, <1>1, <1>5
      <4>2. CASE d # e
        BY <4>2, <3>4, <1>5
      <4> QED BY <4>1, <4>2
    <3> QED BY <3>1, <3>2, <3>3, <3>4, <3>5
  <2> QED BY <2>1, <2>2
<1>10. EmptyIsZero'
  BY <1>1, <1>5 DEF Inv, EmptyIsZero
<1>11. CalledInOrder'
  <2> SUFFICES ASSUME NEW d \in Event, NEW i \in 1..cnt'[d], NEW j \in 1..cnt'[d], i < j,
                      mem'[d][i].type # "free", mem'[d][j].type # "free"
               PROVE  mem'[d][i].sub < mem'[d][j].sub
    BY DEF CalledInOrder
  <2>1. i \in 1..cnt[d] /\ mem'[d][i] = mem[d][i]
    BY <1>1, <1>5
  <2>2. mem[d][i].sub \in 1..nsub
    BY <2>1 DEF Inv, TableShape
  <2>3. CASE d = e /\ j = cnt[e] + 1
    BY <2>1, <2>2, <2>3, <1>1, <1>5
  <2>4. CASE ~(d = e /\ j = cnt[e] + 1)
    <3>1. j \in 1..cnt[d] /\ mem'[d][j] = mem[d][j]
      BY <2>4, <1>1, <1>5
    <3> QED BY <2>1, <3>1 DEF Inv, CalledInOrder
  <2> QED BY <2>3, <2>4
<1>12. FramesShape'
  <2> SUFFICES ASSUME NEW f \in Frame, FrameShape(f) PROVE FrameShape(f)'
    BY <1>4 DEF FramesShape, Inv, TypeOK
  <2>1. /\ f.e \in Event /\ f.called \subseteq 1..nsub /\ f.must \subseteq 1..nsub
        /\ f.id < sttHookId /\ f.id # 0 /\ f.i >= 1
    BY DEF Frame, FrameShape
  <2>2. nsub + 1 \notin f.called /\ nsub + 1 \notin f.must
    BY <2>1, <1>1
  <2>3. ASSUME id'[f.e] = f.id, NEW j \in 1..cnt'[f.e]
        PROVE  /\ mem'[f.e][j].sub \in f.must =>
                    Calls(f.filter, mem'[f.e][j]) /\ (j < f.i => mem'[f.e][j].sub \in f.called)
               /\ j >= f.i => mem'[f.e][j].sub \notin f.called
    <3>1. CASE f.e = e /\ j = cnt[e] + 1
      BY <3>1, <2>2, <1>5
    <3>2. CASE ~(f.e = e /\ j = cnt[e] + 1)
      <4>1. j \in 1..cnt[f.e] /\ mem'[f.e][j] = mem[f.e][j]
        BY <3>2, <2>1, <1>1, <1>5
      <4>2. id[f.e] = f.id
        BY <2>3, <1>4
      <4>3. /\ mem[f.e][j].sub \in f.must =>
                 Calls(f.filter, mem[f.e][j]) /\ (j < f.i => mem[f.e][j].sub \in f.called)
            /\ j >= f.i => mem[f.e][j].sub \notin f.called
        BY <4>1, <4>2 DEF FrameShape
      <4> QED BY <4>1, <4>3
    <3> QED BY <3>1, <3>2
  <2>4. f.called \subseteq 1..nsub' /\ f.must \subseteq 1..nsub' /\ f.id < sttHookId'
    BY <2>1, <1>1, <1>4
  <2> QED BY <2>1, <2>3, <2>4 DEF FrameShape, Calls
<1> QED BY <1>7, <1>8, <1>9, <1>10, <1>11, <1>12 DEF Inv

(* A new event has an id nobody has seen: no handle and no notification has it. *)
LEMMA CreateHookableEventInv ==
  ASSUME Inv, NEW e \in Event, CreateHookableEvent(e)
  PROVE  Inv'
<1>1. /\ id[e] = 0 /\ sttHookId <= MaxId /\ id' = [id EXCEPT ![e] = sttHookId]
      /\ sttHookId' = sttHookId + 1
      /\ UNCHANGED <<dflt, mem, cnt, nsub, handle, stray, frames>>
  BY DEF CreateHookableEvent
<1>2. /\ sttHookId \in 1..MaxId /\ sttHookId \in Nat /\ cnt[e] = 0
      /\ \A d \in Event : id[d] \in Nat /\ id[d] < sttHookId
      /\ \A k \in Sub : handle[k][1] \in Nat /\ handle[k][1] < sttHookId
  BY <1>1, HooksAssumption DEF Inv, TypeOK, TableShape
<1>3. id' \in [Event -> 0..MaxId] /\ id'[e] = sttHookId /\ \A d \in Event \ {e} : id'[d] = id[d]
  BY <1>1, <1>2, HooksAssumption DEF Inv, TypeOK
<1>4. TypeOK'
  BY <1>1, <1>2, <1>3, HooksAssumption DEF Inv, TypeOK
<1>5. TableShape'
  <2>1. ASSUME NEW d \in Event
        PROVE  /\ id'[d] < sttHookId'
               /\ id'[d] = 0 => cnt'[d] = 0
               /\ cnt'[d] <= nsub'
               /\ \A c \in Event : id'[c] = id'[d] /\ id'[d] # 0 => c = d
    BY <1>1, <1>2, <1>3 DEF Inv, TableShape
  <2>2. ASSUME NEW k \in Sub
        PROVE  /\ handle'[k][1] < sttHookId'
               /\ handle'[k] # NoHandle =>
                    k <= nsub' /\ handle'[k][1] # 0 /\ handle'[k][2] # 0
    BY <1>1, <1>2 DEF Inv, TableShape
  <2>3. ASSUME NEW d \in Event, NEW j \in 1..cnt'[d]
        PROVE  IF mem'[d][j].type = "free" THEN mem'[d][j].sub = 0
               ELSE /\ mem'[d][j].sub \in 1..nsub'
                    /\ handle'[mem'[d][j].sub] = <<id'[d], j>>
    <3>1. d # e
      BY <1>1, <1>2
    <3> QED BY <3>1, <1>1, <1>3 DEF Inv, TableShape
  <2> QED BY <2>1, <2>2, <2>3 DEF TableShape
<1>6. HandleNamesOwnSlot'
  <2> SUFFICES ASSUME ~stray', NEW k \in Held', NEW d \in Event, id'[d] = handle'[k][1]
               PROVE  handle'[k][2] <= cnt'[d] /\ mem'[d][handle'[k][2]].sub = k
    BY DEF HandleNamesOwnSlot
  <2>1. k \in Held /\ k \in Sub
    BY <1>1 DEF Held
  <2>2. d # e
    BY <2>1, <1>1, <1>2, <1>3
  <2> QED BY <2>1, <2>2, <1>1, <1>3 DEF Inv, HandleNamesOwnSlot
<1>7. EmptyIsZero' /\ CalledInOrder'
  BY <1>1 DEF Inv, EmptyIsZero, CalledInOrder
<1>8. FramesShape'
  <2> SUFFICES ASSUME NEW f \in Frame, FrameShape(f) PROVE FrameShape(f)'
    BY <1>1 DEF FramesShape, Inv, TypeOK
  <2>1. f.e \in Event /\ f.id \in Nat /\ f.id < sttHookId
    BY HooksAssumption DEF Frame, FrameShape
  <2>2. id'[f.e] = f.id => id[f.e] = f.id
    BY <2>1, <1>2, <1>3
  <2>3. f.id < sttHookId'
    BY <2>1, <1>1, <1>2
  <2> QED BY <2>2, <2>3, <1>1 DEF FrameShape, Calls
<1> QED BY <1>4, <1>5, <1>6, <1>7, <1>8 DEF Inv

(* A destroyed event has no id and no slots; handles and notifications that   *)
(* name its id name nothing from then on.                                    *)
LEMMA DestroyHookableEventInv ==
  ASSUME Inv, NEW e \in Event, DestroyHookableEvent(e)
  PROVE  Inv'
<1>1. /\ id[e] # 0 /\ id' = [id EXCEPT ![e] = 0] /\ dflt' = [dflt EXCEPT ![e] = FALSE]
      /\ mem' = [mem EXCEPT ![e] = <<>>] /\ cnt' = [cnt EXCEPT ![e] = 0]
      /\ UNCHANGED <<sttHookId, nsub, handle, stray, frames>>
  BY DEF DestroyHookableEvent
<1>2. /\ sttHookId \in 1..(MaxId + 1) /\ nsub \in 0..MaxSub
      /\ id' \in [Event -> 0..MaxId] /\ cnt' \in [Event -> Nat]
      /\ id'[e] = 0 /\ cnt'[e] = 0
      /\ \A d \in Event \ {e} : id'[d] = id[d] /\ cnt'[d] = cnt[d] /\ mem'[d] = mem[d]
  BY <1>1, HooksAssumption DEF Inv, TypeOK
<1>3. TypeOK'
  <2>1. mem' \in [Event -> Seq(Slot)] /\ \A d \in Event : cnt'[d] <= Len(mem'[d])
    BY <1>1 DEF Inv, TypeOK
  <2>2. dflt' \in [Event -> BOOLEAN]
    BY <1>1, Zenon DEF Inv, TypeOK
  <2>3. /\ handle' \in [Sub -> (0..MaxId) \X (0..MaxSub)] /\ stray' \in BOOLEAN
        /\ frames' \in [Proc -> Seq(Frame)] /\ sttHookId' \in 1..(MaxId + 1)
        /\ nsub' \in 0..MaxSub
    BY <1>1, <1>2 DEF Inv, TypeOK
  <2> QED BY <1>2, <2>1, <2>2, <2>3 DEF TypeOK
<1>4. TableShape'
  <2>1. ASSUME NEW d \in Event
        PROVE  /\ id'[d] < sttHookId'
               /\ id'[d] = 0 => cnt'[d] = 0
               /\ cnt'[d] <= nsub'
               /\ \A c \in Event : id'[c] = id'[d] /\ id'[d] # 0 => c = d
    BY <1>1, <1>2 DEF Inv, TableShape
  <2>2. ASSUME NEW k \in Sub
        PROVE  /\ handle'[k][1] < sttHookId'
               /\ handle'[k] # NoHandle =>
                    k <= nsub' /\ handle'[k][1] # 0 /\ handle'[k][2] # 0
    BY <1>1 DEF Inv, TableShape
  <2>3. ASSUME NEW d \in Event, NEW j \in 1..cnt'[d]
        PROVE  IF mem'[d][j].type = "free" THEN mem'[d][j].sub = 0
               ELSE /\ mem'[d][j].sub \in 1..nsub'
                    /\ handle'[mem'[d][j].sub] = <<id'[d], j>>
    <3>1. d # e
      BY <1>2
    <3>2. id'[d] = id[d] /\ mem'[d] = mem[d] /\ j \in 1..cnt[d]
      BY <3>1, <1>2
    <3>3. IF mem[d][j].type = "free" THEN mem[d][j].sub = 0
          ELSE mem[d][j].sub \in 1..nsub /\ handle[mem[d][j].sub] = <<id[d], j>>
      BY <3>2 DEF Inv, TableShape
    <3> QED BY <3>2, <3>3, <1>1
  <2> QED BY <2>1, <2>2, <2>3 DEF TableShape
<1>5. HandleNamesOwnSlot'
  <2> SUFFICES ASSUME ~stray', NEW k \in Held', NEW d \in Event, id'[d] = handle'[k][1]
               PROVE  handle'[k][2] <= cnt'[d] /\ mem'[d][handle'[k][2]].sub = k
    BY DEF HandleNamesOwnSlot
  <2>1. k \in Held /\ k \in Sub
    BY <1>1 DEF Held
  <2>2. d # e
    BY <2>1, <1>1, <1>2 DEF Inv, TableShape, Held
  <2> QED BY <2>1, <2>2, <1>1, <1>2 DEF Inv, HandleNamesOwnSlot
<1>6. EmptyIsZero' /\ CalledInOrder'
  <2>1. EmptyIsZero'
    BY <1>2 DEF Inv, EmptyIsZero
  <2>2. CalledInOrder'
    BY <1>2 DEF Inv, CalledInOrder
  <2> QED BY <2>1, <2>2
<1>7. FramesShape'
  <2> SUFFICES ASSUME NEW f \in Frame, FrameShape(f) PROVE FrameShape(f)'
    BY <1>1 DEF FramesShape, Inv, TypeOK
  <2>1. f.e \in Event /\ f.id # 0
    BY DEF Frame, FrameShape
  <2>2. id'[f.e] = f.id => id[f.e] = f.id /\ mem'[f.e] = mem[f.e] /\ cnt'[f.e] = cnt[f.e]
    BY <2>1, <1>2
  <2> QED BY <2>2, <1>1 DEF FrameShape, Calls
<1> QED BY <1>3, <1>4, <1>5, <1>6, <1>7 DEF Inv

(* Steps that leave the table alone keep Inv if every notification keeps its shape. *)
LEMMA WalkInv ==
  ASSUME Inv, UNCHANGED <<sttHookId, id, mem, cnt, nsub, handle, stray>>,
         dflt' \in [Event -> BOOLEAN], frames' \in [Proc -> Seq(Frame)],
         \A p \in Proc : \A n \in DOMAIN frames'[p] : FrameShape(frames'[p][n])
  PROVE  Inv'
<1>1. TypeOK'
  BY DEF Inv, TypeOK
<1>2. TableShape' /\ EmptyIsZero' /\ CalledInOrder'
  BY DEF Inv, TableShape, EmptyIsZero, CalledInOrder
<1>3. HandleNamesOwnSlot'
  BY DEF Inv, HandleNamesOwnSlot, Held
<1>4. FramesShape'
  BY DEF FramesShape, FrameShape, Calls
<1> QED BY <1>1, <1>2, <1>3, <1>4 DEF Inv

(* SetHookDefaultForHookableEvent touches neither slots nor notifications. *)
LEMMA SetHookDefaultInv ==
  ASSUME Inv, NEW e \in Event, SetHookDefaultForHookableEvent(e)
  PROVE  Inv'
<1>1. dflt' \in [Event -> BOOLEAN]
  BY Zenon DEF Inv, TypeOK, SetHookDefaultForHookableEvent
<1>2. frames' = frames /\ UNCHANGED <<sttHookId, id, mem, cnt, nsub, handle, stray>>
  BY DEF SetHookDefaultForHookableEvent
<1>3. \A p \in Proc : \A n \in DOMAIN frames'[p] : FrameShape(frames'[p][n])
  BY <1>2 DEF Inv, FramesShape
<1>4. frames' \in [Proc -> Seq(Frame)]
  BY <1>2 DEF Inv, TypeOK
<1> QED BY <1>1, <1>2, <1>3, <1>4, WalkInv

(* Every way to subscribe appends a slot in use with the next number. *)
LEMMA HookEventInv ==
  ASSUME Inv, NEW e \in Event,
         \/ \E o \in Object \cup {None}, m \in Module : HookEventInt(e, o, m)
         \/ HookEventMessage(e)
  PROVE  Inv'
<1>1. nsub \in 0..MaxSub /\ MaxSub \in Nat
  BY HooksAssumption DEF Inv, TypeOK
<1>2. CASE \E o \in Object \cup {None}, m \in Module : HookEventInt(e, o, m)
  <2>1. PICK o \in Object \cup {None}, m \in Module : HookEventInt(e, o, m)
    BY <1>2
  <2> DEFINE s == [type |-> IF o = None THEN "fn" ELSE "obj", sub |-> nsub + 1,
                   object |-> o, hOwner |-> m]
  <2>2. AppendSlot(e, s)
    BY <2>1 DEF HookEventInt
  <2>3. nsub < MaxSub
    BY <2>2 DEF AppendSlot
  <2>4. s \in Slot /\ s.type # "free" /\ s.sub = nsub + 1
    BY <2>3, <1>1 DEF Slot
  <2> HIDE DEF s
  <2> QED BY <2>2, <2>4, AppendSlotInv
<1>3. CASE HookEventMessage(e)
  <2>1. PICK o \in Object \cup {None}, m \in Module \cup {None} :
          AppendSlot(e, [type |-> "msg", sub |-> nsub + 1, object |-> o, hOwner |-> m])
    BY <1>3 DEF HookEventMessage
  <2> DEFINE s == [type |-> "msg", sub |-> nsub + 1, object |-> o, hOwner |-> m]
  <2>2. AppendSlot(e, s)
    BY <2>1
  <2>3. nsub < MaxSub
    BY <2>2 DEF AppendSlot
  <2>4. s \in Slot /\ s.type # "free" /\ s.sub = nsub + 1
    BY <2>3, <1>1 DEF Slot
  <2> HIDE DEF s
  <2> QED BY <2>2, <2>4, AppendSlotInv
<1> QED BY <1>2, <1>3

(* A new notification owes a call to every slot its filter takes and has called none. *)
LEMMA NotifyInv ==
  ASSUME Inv, NEW p \in Proc, NEW e \in Event, NEW filter \in Filter, Notify(p, e, filter)
  PROVE  Inv'
<1> DEFINE must == {mem[e][j].sub : j \in {n \in 1..cnt[e] : Calls(filter, mem[e][n])}}
           f == [e |-> e, id |-> id[e], i |-> 1, filter |-> filter, called |-> {}, must |-> must]
<1>1. /\ id[e] # 0 /\ frames' = [frames EXCEPT ![p] = Append(@, f)]
      /\ UNCHANGED <<sttHookId, id, dflt, mem, cnt, nsub, handle, stray>>
  BY DEF Notify
<1>2. /\ id[e] \in 1..MaxId /\ id[e] < sttHookId /\ nsub \in 0..MaxSub
      /\ frames \in [Proc -> Seq(Frame)] /\ cnt[e] \in Nat /\ dflt' \in [Event -> BOOLEAN]
  BY <1>1, HooksAssumption DEF Inv, TypeOK, TableShape
<1>3. must \subseteq 1..nsub
  BY DEF Inv, TableShape, Calls
<1>4. \A j \in 1..cnt[e] : mem[e][j].sub \in must => Calls(filter, mem[e][j])
  <2> SUFFICES ASSUME NEW j \in 1..cnt[e], mem[e][j].sub \in must PROVE Calls(filter, mem[e][j])
    OBVIOUS
  <2>1. PICK n \in 1..cnt[e] : Calls(filter, mem[e][n]) /\ mem[e][j].sub = mem[e][n].sub
    OBVIOUS
  <2>2. mem[e][n].type # "free"
    BY <2>1 DEF Calls
  <2>3. mem[e][n].sub \in 1..nsub /\ handle[mem[e][n].sub] = <<id[e], n>>
    BY <2>2 DEF Inv, TableShape
  <2>4. mem[e][j].sub # 0
    BY <2>1, <2>3, <1>2
  <2>5. mem[e][j].type # "free"
    BY <2>4 DEF Inv, TableShape
  <2>6. handle[mem[e][j].sub] = <<id[e], j>>
    BY <2>5 DEF Inv, TableShape
  <2>7. j = n
    BY <2>1, <2>3, <2>6, PairParts
  <2> QED BY <2>1, <2>7
<1> HIDE DEF must
<1>5. f \in Frame
  <2>1. must \subseteq Sub
    BY <1>2, <1>3, HooksAssumption DEF Sub
  <2> QED BY <1>2, <2>1 DEF Frame
<1>6. FrameShape(f)
  <2>1. f.e = e /\ f.id = id[e] /\ f.i = 1 /\ f.filter = filter /\ f.called = {} /\ f.must = must
    OBVIOUS
  <2> HIDE DEF f
  <2> QED BY <2>1, <1>2, <1>3, <1>4 DEF FrameShape
<1> HIDE DEF f
<1>7. frames' \in [Proc -> Seq(Frame)]
  BY <1>1, <1>2, <1>5
<1>8. ASSUME NEW q \in Proc, NEW n \in DOMAIN frames'[q]
      PROVE  FrameShape(frames'[q][n])
  <2>1. CASE frames'[q][n] = f
    BY <2>1, <1>6
  <2>2. CASE frames'[q][n] # f
    <3>1. n \in DOMAIN frames[q] /\ frames'[q][n] = frames[q][n]
      <4>1. CASE q # p
        BY <4>1, <1>1, <1>2
      <4>2. CASE q = p
        <5>1. frames[p] \in Seq(Frame) /\ frames'[p] = Append(frames[p], f)
          BY <1>1, <1>2
        <5> QED BY <4>2, <5>1, <1>5, <2>2
      <4> QED BY <4>1, <4>2
    <3> QED BY <3>1 DEF Inv, FramesShape
  <2> QED BY <2>1, <2>2
<1> QED BY <1>1, <1>2, <1>7, <1>8, WalkInv

(* Leaving a notification leaves the outer ones as they are. *)
LEMMA PopInv ==
  ASSUME Inv, NEW p \in Proc, frames[p] # <<>>, Pop(p),
         UNCHANGED <<sttHookId, id, dflt, mem, cnt, nsub, handle, stray>>
  PROVE  Inv'
<1>1. frames \in [Proc -> Seq(Frame)] /\ frames[p] \in Seq(Frame) /\ dflt' \in [Event -> BOOLEAN]
  BY DEF Inv, TypeOK
<1>2. Len(frames[p]) \in Nat /\ Len(frames[p]) # 0
  BY <1>1
<1>3. frames' = [frames EXCEPT ![p] = SubSeq(frames[p], 1, Len(frames[p]) - 1)]
  BY <1>1 DEF Pop
<1> DEFINE rest == SubSeq(frames[p], 1, Len(frames[p]) - 1)
<1>4. /\ rest \in Seq(Frame) /\ Len(rest) = Len(frames[p]) - 1
      /\ \A n \in 1..Len(rest) : rest[n] = frames[p][n]
  <2>1. ASSUME NEW q \in Seq(Frame), NEW m \in Nat, m <= Len(q)
        PROVE  /\ SubSeq(q, 1, m) \in Seq(Frame) /\ Len(SubSeq(q, 1, m)) = m
               /\ \A n \in 1..m : SubSeq(q, 1, m)[n] = q[n]
    BY <2>1
  <2>2. Len(frames[p]) - 1 \in Nat /\ Len(frames[p]) - 1 <= Len(frames[p])
    BY <1>2
  <2> QED BY <2>1, <2>2, <1>1
<1> HIDE DEF rest
<1>5. frames' \in [Proc -> Seq(Frame)]
  BY <1>1, <1>3, <1>4 DEF rest
<1>6. ASSUME NEW q \in Proc, NEW n \in DOMAIN frames'[q]
      PROVE  FrameShape(frames'[q][n])
  <2>1. n \in DOMAIN frames[q] /\ frames'[q][n] = frames[q][n]
    <3>1. CASE q # p
      BY <3>1, <1>1, <1>3
    <3>2. CASE q = p
      <4>1. frames'[q] = rest
        BY <3>2, <1>1, <1>3 DEF rest
      <4>2. n \in 1..Len(rest)
        BY <4>1, <1>4
      <4> QED BY <4>1, <4>2, <3>2, <1>1, <1>2, <1>4
    <3> QED BY <3>1, <3>2
  <2> QED BY <2>1 DEF Inv, FramesShape
<1> QED BY <1>1, <1>5, <1>6, WalkInv

(* One turn of the walk. *)
LEMMA CallSubscriberInv ==
  ASSUME Inv, NEW p \in Proc, CallSubscriber(p)
  PROVE  Inv'
<1> DEFINE N == Len(frames[p])
           f == frames[p][N]
           s == mem[f.e][f.i]
           g == [f EXCEPT !.i = @ + 1,
                          !.called = IF Calls(f.filter, s) THEN @ \cup {s.sub} ELSE @]
<1>1. /\ frames[p] # <<>> /\ id[f.e] = f.id /\ f.i <= cnt[f.e]
      /\ UNCHANGED <<sttHookId, id, dflt, mem, cnt, nsub, handle, stray>>
      /\ Pop(p) \/ frames' = [frames EXCEPT ![p][N] = g]
  BY DEF CallSubscriber, Top
<1>2. CASE Pop(p)
  BY <1>1, <1>2, PopInv
<1>3. CASE frames' = [frames EXCEPT ![p][N] = g]
  <2>1. /\ frames \in [Proc -> Seq(Frame)] /\ frames[p] \in Seq(Frame)
        /\ dflt' \in [Event -> BOOLEAN] /\ nsub \in 0..MaxSub /\ N \in Nat
    BY <1>1 DEF Inv, TypeOK
  <2>2. N \in DOMAIN frames[p]
    BY <2>1, <1>1
  <2>3. f \in Frame /\ FrameShape(f)
    BY <2>1, <2>2 DEF Inv, FramesShape
  <2> HIDE DEF f, N
  <2>4. /\ f.e \in Event /\ f.i \in Nat /\ f.i >= 1 /\ f.called \subseteq 1..nsub
        /\ f.must \subseteq 1..nsub /\ f.id \in Nat /\ f.id # 0 /\ f.id < sttHookId
    BY <2>3, HooksAssumption DEF Frame, FrameShape
  <2>5. cnt[f.e] \in Nat /\ f.i \in 1..cnt[f.e]
    BY <2>4, <1>1 DEF Inv, TypeOK
  <2>6. Calls(f.filter, s) => s.sub \in 1..nsub /\ s.type # "free"
    BY <2>4, <2>5 DEF Inv, TableShape, Calls
  <2>7. /\ g.e = f.e /\ g.id = f.id /\ g.i = f.i + 1 /\ g.filter = f.filter /\ g.must = f.must
        /\ g.called = IF Calls(f.filter, s) THEN f.called \cup {s.sub} ELSE f.called
    BY <2>3 DEF Frame
  <2>8. g.called \subseteq 1..nsub
    BY <2>4, <2>6, <2>7
  <2>9. g \in Frame
    <3>1. g.called \subseteq Sub
      <4> HIDE DEF s, g
      <4> QED BY <2>8, <2>1, HooksAssumption DEF Sub
    <3>2. f.i + 1 \in Nat
      BY <2>4
    <3> QED BY <2>3, <2>7, <3>1, <3>2 DEF Frame
  <2>10. ASSUME NEW j \in 1..cnt[f.e]
         PROVE  /\ mem[f.e][j].sub \in f.must =>
                     Calls(f.filter, mem[f.e][j]) /\ (j < f.i + 1 => mem[f.e][j].sub \in g.called)
                /\ j >= f.i + 1 => mem[f.e][j].sub \notin g.called
    <3>1. /\ mem[f.e][j].sub \in f.must =>
               Calls(f.filter, mem[f.e][j]) /\ (j < f.i => mem[f.e][j].sub \in f.called)
          /\ j >= f.i => mem[f.e][j].sub \notin f.called
      BY <2>3, <1>1 DEF FrameShape
    <3>2. j < f.i + 1 <=> j < f.i \/ j = f.i
      BY <2>4, <2>5
    <3>3. mem[f.e][j].sub \in f.must =>
             Calls(f.filter, mem[f.e][j]) /\ (j < f.i + 1 => mem[f.e][j].sub \in g.called)
      <4>1. j = f.i => mem[f.e][j] = s
        OBVIOUS
      <4> HIDE DEF s, g
      <4> QED BY <3>1, <3>2, <4>1, <2>7
    <3>4. ASSUME j >= f.i + 1 PROVE mem[f.e][j].sub \notin g.called
      <4>1. mem[f.e][j].sub \notin f.called
        BY <3>1, <3>4, <2>4, <2>5
      <4>2. ASSUME Calls(f.filter, s), mem[f.e][j].sub = s.sub PROVE FALSE
        <5>1. s.type # "free" /\ s.sub \in 1..nsub /\ s.sub # 0
          BY <4>2, <2>6, <2>1
        <5>2. mem[f.e][j].type # "free"
          BY <4>2, <5>1, <2>4 DEF Inv, TableShape
        <5>3. handle[s.sub] = <<id[f.e], f.i>> /\ handle[s.sub] = <<id[f.e], j>>
          BY <4>2, <5>1, <5>2, <2>4, <2>5 DEF Inv, TableShape
        <5>4. j = f.i
          BY <5>3, PairParts
        <5> QED BY <5>4, <3>4, <2>4
      <4> HIDE DEF s, g
      <4> QED BY <4>1, <4>2, <2>7
    <3> HIDE DEF s, g
    <3> QED BY <3>3, <3>4
  <2> HIDE DEF s, g
  <2>11. FrameShape(g)
    <3>1. f.i + 1 >= 1
      BY <2>4
    <3>2. \A j \in 1..cnt[g.e] :
            /\ mem[g.e][j].sub \in g.must =>
                 Calls(g.filter, mem[g.e][j]) /\ (j < g.i => mem[g.e][j].sub \in g.called)
            /\ j >= g.i => mem[g.e][j].sub \notin g.called
      BY <2>7, <2>10
    <3> QED BY <2>4, <2>7, <2>8, <3>1, <3>2 DEF FrameShape
  <2>12. frames'[p] = [frames[p] EXCEPT ![N] = g] /\ \A q \in Proc \ {p} : frames'[q] = frames[q]
    BY <1>3, <2>1
  <2>13. frames' \in [Proc -> Seq(Frame)]
    <3>1. [frames[p] EXCEPT ![N] = g] \in Seq(Frame)
      BY <2>1, <2>2, <2>9
    <3> QED BY <1>3, <2>1, <3>1
  <2>14. ASSUME NEW q \in Proc, NEW n \in DOMAIN frames'[q]
         PROVE  FrameShape(frames'[q][n])
    <3>1. CASE q = p /\ n = N
      BY <3>1, <2>2, <2>11, <2>12
    <3>2. CASE ~(q = p /\ n = N)
      <4>1. n \in DOMAIN frames[q] /\ frames'[q][n] = frames[q][n]
        BY <3>2, <2>12
      <4> QED BY <4>1 DEF Inv, FramesShape
    <3> QED BY <3>1, <3>2
  <2> QED BY <1>1, <2>1, <2>13, <2>14, WalkInv
<1> QED BY <1>1, <1>2, <1>3

(* Every step keeps the invariant. *)
LEMMA InvNext == Inv /\ [Next]_vars => Inv'
<1> SUFFICES ASSUME Inv, [Next]_vars PROVE Inv'
  OBVIOUS
<1>1. ASSUME NEW e \in Event, CreateHookableEvent(e) PROVE Inv'
  BY <1>1, CreateHookableEventInv
<1>2. ASSUME NEW e \in Event, DestroyHookableEvent(e) PROVE Inv'
  BY <1>2, DestroyHookableEventInv
<1>3. ASSUME NEW e \in Event, SetHookDefaultForHookableEvent(e) PROVE Inv'
  BY <1>3, SetHookDefaultInv
<1>4. ASSUME NEW e \in Event,
             \/ \E o \in Object \cup {None}, m \in Module : HookEventInt(e, o, m)
             \/ HookEventMessage(e)
      PROVE  Inv'
  BY <1>4, HookEventInv
<1>5. ASSUME NEW k \in Sub, UnhookEvent(k) PROVE Inv'
  BY <1>5, UnhookEventInv
<1>6. ASSUME NEW m \in Module, KillModuleEventHooks(m) PROVE Inv'
  BY <1>6, KillSlotsInv DEF KillModuleEventHooks
<1>7. ASSUME NEW o \in Object, KillObjectEventHooks(o) PROVE Inv'
  BY <1>7, KillSlotsInv DEF KillObjectEventHooks
<1>8. ASSUME NEW p \in Proc, NEW e \in Event, NEW filter \in Filter, Notify(p, e, filter)
      PROVE  Inv'
  BY <1>8, NotifyInv
<1>9. ASSUME NEW p \in Proc, CallSubscriber(p) PROVE Inv'
  BY <1>9, CallSubscriberInv
<1>10. ASSUME NEW p \in Proc, EndNotify(p) PROVE Inv'
  BY <1>10, PopInv DEF EndNotify
<1>11. CASE UNCHANGED vars
  <2>1. UNCHANGED <<sttHookId, id, dflt, mem, cnt, nsub, handle, stray>> /\ frames' = frames
    BY <1>11 DEF vars
  <2>2. dflt' \in [Event -> BOOLEAN] /\ frames' \in [Proc -> Seq(Frame)]
    BY <2>1 DEF Inv, TypeOK
  <2>3. \A p \in Proc : \A n \in DOMAIN frames'[p] : FrameShape(frames'[p][n])
    BY <2>1 DEF Inv, FramesShape
  <2> QED BY <2>1, <2>2, <2>3, WalkInv
<1> QED BY <1>1, <1>2, <1>3, <1>4, <1>5, <1>6, <1>7, <1>8, <1>9, <1>10, <1>11
        DEF Next, Table, Walk

(* The inductive invariant of the event table and of running notifications. *)
THEOREM HooksInvariant == Spec => []Inv
BY InvInit, InvNext, PTL DEF Spec

(* Every variable keeps its type, and the count never exceeds the array. *)
THEOREM HooksTypeCorrect == Spec => []TypeOK
<1>1. Inv => TypeOK
  BY DEF Inv
<1> QED BY <1>1, HooksInvariant, PTL

(* A handle names its own subscription's slot until it is given back. *)
THEOREM HandlesAreSound == Spec => []HandleNamesOwnSlot
<1>1. Inv => HandleNamesOwnSlot
  BY DEF Inv
<1> QED BY <1>1, HooksInvariant, PTL

(* A count of 0 is the same as having no subscriber. *)
THEOREM CountIsExact == Spec => []EmptyIsZero
<1>1. Inv => EmptyIsZero
  BY DEF Inv
<1> QED BY <1>1, HooksInvariant, PTL

(* Every subscriber that can still be called holds a handle: UnhookEvent, *)
(* KillModuleEventHooks and KillObjectEventHooks are effective at once.   *)
THEOREM UnhookIsEffective == Spec => []UnhookedIsGone
<1>1. Inv => UnhookedIsGone
  BY SlotInUse DEF UnhookedIsGone, Live
<1> QED BY <1>1, HooksInvariant, PTL

(* Subscribers are called in the order in which they subscribed. *)
THEOREM OrderIsKept == Spec => []CalledInOrder
<1>1. Inv => CalledInOrder
  BY DEF Inv
<1> QED BY <1>1, HooksInvariant, PTL

(* A notification misses nobody who was subscribed all along, however the *)
(* array changes while it walks it.                                       *)
THEOREM NobodyIsSkipped == Spec => []NoneSkipped
<1>1. Inv => NoneSkipped
  <2> SUFFICES ASSUME Inv, NEW p \in Proc, NEW n \in DOMAIN frames[p],
                      NEW f, f = frames[p][n], id[f.e] = f.id, f.i > cnt[f.e],
                      NEW x \in f.must \cap Live(f.e)
               PROVE  x \in f.called
    BY DEF NoneSkipped
  <2>1. f \in Frame /\ FrameShape(f)
    BY DEF Inv, TypeOK, FramesShape
  <2>2. PICK j \in 1..cnt[f.e] : x = mem[f.e][j].sub
    BY DEF Live
  <2>3. f.i \in Nat /\ cnt[f.e] \in Nat
    BY <2>1 DEF Frame, Inv, TypeOK
  <2> QED BY <2>1, <2>2, <2>3 DEF FrameShape
<1> QED BY <1>1, HooksInvariant, PTL

(* A notification calls nobody twice. *)
THEOREM NobodyIsCalledTwice == Spec => []NoneTwice
<1>1. Inv => NoneTwice
  <2> SUFFICES ASSUME Inv, NEW p \in Proc, NEW n \in DOMAIN frames[p],
                      NEW f, f = frames[p][n], id[f.e] = f.id, NEW j \in f.i..cnt[f.e]
               PROVE  mem[f.e][j].sub \notin f.called
    BY DEF NoneTwice
  <2>1. f \in Frame /\ FrameShape(f)
    BY DEF Inv, TypeOK, FramesShape
  <2>2. f.i \in Nat /\ cnt[f.e] \in Nat /\ f.i >= 1
    BY <2>1 DEF Frame, Inv, TypeOK, FrameShape
  <2> QED BY <2>1, <2>2 DEF FrameShape
<1> QED BY <1>1, HooksInvariant, PTL
=============================================================================
