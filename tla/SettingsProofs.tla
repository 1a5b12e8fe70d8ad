--------------------------- MODULE SettingsProofs ---------------------------
(***************************************************************************)
(* Proofs about Settings for any threads, contacts and settings, those of  *)
(* contacts and global ones alike.                                         *)
(***************************************************************************)
EXTENDS Settings, TLAPS

---------------------------------------------------------------------------
(* The inductive invariant *)

\* What a thread's record may hold in each phase.
OpShape ==
  \A p \in Proc :
    /\ op[p].phase \in {"idle", "commit"} <=> op[p].key = None
    /\ op[p].phase = "commit" => p = Main
    /\ op[p].phase = "drop" => op[p].key \in Contact
    /\ op[p].phase \notin {"idle", "commit", "drop"} => op[p].key \in Key

\* A write has no entry when the contact is not there: nobody can delete the
\* contact while the write has the lock.
EntryInv ==
  \A p \in Proc : op[p].phase = "set" =>
    (op[p].entry = "null" <=> ~Known(op[p].key, contacts))

On(p, k, ph) == op[p].phase = ph /\ op[p].key = k

Erasing(k) == \E q \in Proc : On(q, k, "erase")

\* Why cache and table agree between calls: a write that lost its entry, or
\* whose value was deleted, has a deletion behind it that removes the row.
Coupled(k) ==
  /\ k \notin resident
  /\ (\A p \in Proc : ~On(p, k, "store") /\ ~On(p, k, "erase")) => cache[k] = table[k]
  /\ \A p \in Proc : (On(p, k, "set") \/ On(p, k, "store")) /\ op[p].entry = "freed" => Erasing(k)
  /\ \A p \in Proc : On(p, k, "store") => cache[k] = op[p].val \/ Erasing(k)

CacheInv ==
  \A k \in Key :
    /\ Known(k, contacts) /\ "parted" \notin mark[k] => Coupled(k)
    /\ ~Known(k, contacts) => cache[k] = None

\* What subscribers know while the only call for a setting is under way.
Heard(k) ==
  /\ (\A p \in Proc : op[p].key # k) => view[k] = cache[k]
  /\ \A p, q \in Proc : op[p].key = k /\ op[q].key = k => p = q
  /\ \A p \in Proc : op[p].key = k =>
       /\ op[p].entry = "live"
       /\ op[p].phase = "set" => view[k] = cache[k]
       /\ op[p].phase \in {"store", "notify"} => cache[k] = op[p].val
       /\ op[p].phase = "erase" => cache[k] = None /\ op[p].val = None

ViewInv == \A k \in Key : Known(k, contacts) /\ "unheard" \notin mark[k] => Heard(k)

ResidentInv ==
  \A k \in resident : "stored" \notin mark[k] =>
    table[k] = None /\ disk[k] = None /\ \A p \in Proc : ~On(p, k, "store")

IInv == TypeOK /\ OpShape /\ EntryInv /\ CacheInv /\ ViewInv /\ ResidentInv /\ ChangesScheduled

\* The steps of a thread that writes or deletes a setting.
CallStep(p) ==
  \/ \E k \in Key : DeleteCached(p, k) \/ \E v \in Value, h \in BOOLEAN : WriteFind(p, k, v, h)
  \/ WriteIdentical(p) \/ WriteSet(p) \/ WriteStore(p) \/ WriteFails(p)
  \/ DeleteRow(p) \/ Notify(p)

\* The steps of a thread that deletes a contact.
DropStep(p) == (\E c \in Contact : DropFind(p, c)) \/ DropRows(p) \/ DropFails(p)

\* The steps that leave the calls alone.
OtherStep ==
  \/ \E k \in Key, b \in BOOLEAN : SetSettingResident(k, b)
  \/ Commit \/ OnTimer \/ TimerCommit
  \/ \E b \in BOOLEAN : SetCacheSafetyMode(b)

---------------------------------------------------------------------------
\* Initially nothing is stored, cached or under way.
LEMMA InitIInv == Init => IInv
<1> SUFFICES ASSUME Init PROVE IInv
  OBVIOUS
<1>1. \A p \in Proc : op[p] = Idle /\ op[p] \in Op
  BY DEF Init, Idle, Op, Phase, Held, Entry
<1>2. TypeOK
  <2>1. [k \in Key |-> None] \in [Key -> Held] /\ op \in [Proc -> Op]
    BY <1>1 DEF Init, Held
  <2>2. \A p \in Proc : lock # p /\ op[p].phase = "idle"
    BY <1>1, SettingsAssumption DEF Init, Idle
  <2> QED
    BY <2>1, <2>2 DEF Init, TypeOK, Mark
<1>3. OpShape
  BY <1>1, SettingsAssumption DEF Init, OpShape, Idle
<1>4. CacheInv
  BY <1>1, SettingsAssumption DEF Init, CacheInv, Coupled, On, Idle, Known
<1>5. ViewInv
  BY <1>1, SettingsAssumption DEF Init, ViewInv, Heard, Idle
<1>6. ResidentInv /\ ChangesScheduled /\ EntryInv
  BY <1>1 DEF Init, ResidentInv, ChangesScheduled, EntryInv, Idle
<1> QED
  BY <1>2, <1>3, <1>4, <1>5, <1>6 DEF IInv

---------------------------------------------------------------------------
(* The steps of calls *)

\* What a step of thread p does to the threads' records.
LEMMA CallOps ==
  ASSUME IInv, NEW p \in Proc, CallStep(p)
  PROVE  /\ op' \in [Proc -> Op]
         /\ \A q \in Proc \ {p} :
              /\ op'[q].phase = op[q].phase
              /\ op'[q].key = op[q].key
              /\ op'[q].val = op[q].val
              /\ op'[q].entry = "null" <=> op[q].entry = "null"
  <1> USE DEF IInv, TypeOK, Op, Phase, Held, Idle, Entry
  <1>1. CASE \E k \in Key : DeleteCached(p, k)
    <2>1. PICK k \in Key : DeleteCached(p, k)
      BY <1>1
    <2>2. op' = [q \in Proc |-> op'[q]] /\ op'[p] \in Op
      BY <2>1 DEF DeleteCached, AfterDelete
    <2>3. ASSUME NEW q \in Proc \ {p}
          PROVE  \/ op'[q] = op[q]
                 \/ op[q].entry = "live" /\ op'[q] = [op[q] EXCEPT !.entry = "freed"]
      BY <2>1 DEF DeleteCached, Filling
    <2>4. ASSUME NEW q \in Proc \ {p}
          PROVE  /\ op'[q] \in Op /\ op'[q].phase = op[q].phase
                 /\ op'[q].key = op[q].key /\ op'[q].val = op[q].val
                 /\ op'[q].entry = "null" <=> op[q].entry = "null"
      <3>1. op[q] \in Op
        OBVIOUS
      <3>2. CASE op'[q] = op[q]
        BY <3>1, <3>2
      <3>3. CASE op[q].entry = "live" /\ op'[q] = [op[q] EXCEPT !.entry = "freed"]
        BY <3>1, <3>3
      <3> QED
        BY <2>3, <3>2, <3>3
    <2> HIDE DEF Op
    <2>5. \A q \in Proc : op'[q] \in Op
      BY <2>2, <2>4
    <2> QED
      BY <2>2, <2>4, <2>5
  <1>2. CASE \E k \in Key, v \in Value, h \in BOOLEAN : WriteFind(p, k, v, h)
    BY <1>2 DEF WriteFind
  <1>3. CASE WriteIdentical(p)
    BY <1>3 DEF WriteIdentical
  <1>4. CASE WriteSet(p)
    BY <1>4 DEF WriteSet, AfterSet
  <1>5. CASE WriteStore(p)
    BY <1>5 DEF WriteStore
  <1>6. CASE WriteFails(p)
    BY <1>6 DEF WriteFails
  <1>7. CASE DeleteRow(p)
    BY <1>7 DEF DeleteRow
  <1>8. CASE Notify(p)
    BY <1>8 DEF Notify
  <1> QED
    BY <1>1, <1>2, <1>3, <1>4, <1>5, <1>6, <1>7, <1>8 DEF CallStep

\* A call's step keeps the types and the lock in step with the phases.
LEMMA CallTypes ==
  ASSUME IInv, NEW p \in Proc, CallStep(p)
  PROVE  TypeOK' /\ OpShape'
<1>o. op' \in [Proc -> Op]
  BY CallOps
<1>q. \A q \in Proc \ {p} : op'[q].phase = op[q].phase /\ op'[q].key = op[q].key
  BY CallOps
<1>p. op[p] \in Op
  BY DEF IInv, TypeOK
<1>k. op[p].phase \notin {"idle", "commit", "drop"} => op[p].key \in Key
  BY DEF IInv, OpShape
<1>m. \A k \in Key : \A ms \in SUBSET Mark :
        mark \in [Key -> SUBSET Mark] => Marked(k, ms) \in [Key -> SUBSET Mark]
  BY DEF Marked
<1>t. TypeOK /\ OpShape /\ None \notin Proc /\ None \notin Key
  BY SettingsAssumption DEF IInv
<1> USE DEF TypeOK, OpShape
<1>1. CASE \E k \in Key : DeleteCached(p, k)
  <2>1. PICK k \in Key : DeleteCached(p, k)
    BY <1>1
  <2>2. cache' \in [Key -> Held] /\ mark' \in [Key -> SUBSET Mark]
    BY <2>1, <1>t, <1>m DEF DeleteCached, Begun, Held, Mark
  <2>3. op'[p].phase \in {"notify", "erase"} /\ op'[p].key = k
    BY <2>1, <1>t DEF DeleteCached, AfterDelete
  <2>4. OpShape'
    BY <2>3, <1>q, <1>t
  <2> QED
    BY <2>1, <2>2, <2>3, <2>4, <1>o, <1>q, <1>t DEF DeleteCached
<1>2. CASE \E k \in Key, v \in Value, h \in BOOLEAN : WriteFind(p, k, v, h)
  <2>1. PICK k \in Key, v \in Value, h \in BOOLEAN : WriteFind(p, k, v, h)
    BY <1>2
  <2>2. mark' \in [Key -> SUBSET Mark]
    BY <2>1, <1>t, <1>m DEF WriteFind, Begun, Mark
  <2>3. op'[p].phase = "set" /\ op'[p].key = k
    BY <2>1, <1>t DEF WriteFind
  <2> QED
    BY <2>1, <2>2, <2>3, <1>o, <1>q, <1>t DEF WriteFind
<1>3. CASE WriteIdentical(p)
  BY <1>3, <1>o, <1>q, <1>t, <1>p DEF WriteIdentical, Idle
<1>4. CASE WriteSet(p)
  <2>1. cache' \in [Key -> Held]
    BY <1>4, <1>t, <1>p, <1>k DEF WriteSet, Op
  <2>2. op'[p].phase \in {"notify", "store"} /\ op'[p].key = op[p].key
        /\ (lock' = IF op'[p].phase = "store" THEN lock ELSE None)
    BY <1>4, <1>t DEF WriteSet, AfterSet
  <2> QED
    BY <1>4, <2>1, <2>2, <1>o, <1>q, <1>t, <1>k DEF WriteSet
<1>5. CASE WriteStore(p)
  <2>1. table' \in [Key -> Held]
    BY <1>5, <1>t, <1>p, <1>k DEF WriteStore, Op
  <2>2. timer' \in BOOLEAN /\ unscheduled' \in BOOLEAN
    BY <1>5, <1>t DEF WriteStore, DBFlush
  <2>3. op'[p].phase = "notify" /\ op'[p].key = op[p].key
    BY <1>5, <1>t DEF WriteStore
  <2> QED
    BY <1>5, <2>1, <2>2, <2>3, <1>o, <1>q, <1>t, <1>k DEF WriteStore
<1>6. CASE WriteFails(p)
  <2>1. mark' \in [Key -> SUBSET Mark]
    BY <1>6, <1>t, <1>m, <1>k DEF WriteFails, Mark
  <2>2. op'[p].phase = "idle" /\ op'[p].key = None
    BY <1>6, <1>t DEF WriteFails, Idle
  <2> QED
    BY <1>6, <2>1, <2>2, <1>o, <1>q, <1>t DEF WriteFails
<1>7. CASE DeleteRow(p)
  <2>1. table' \in [Key -> Held] /\ mark' \in [Key -> SUBSET Mark]
    BY <1>7, <1>t, <1>m, <1>k DEF DeleteRow, Held, Mark
  <2>2. timer' \in BOOLEAN /\ unscheduled' \in BOOLEAN
    BY <1>7, <1>t DEF DeleteRow, DBFlush
  <2>3. op'[p].phase = "notify" /\ op'[p].key = op[p].key
    BY <1>7, <1>t DEF DeleteRow
  <2> QED
    BY <1>7, <2>1, <2>2, <2>3, <1>o, <1>q, <1>t, <1>k DEF DeleteRow
<1>8. CASE Notify(p)
  <2>1. view' \in [Key -> Held] /\ mark' \in [Key -> SUBSET Mark]
    BY <1>8, <1>t, <1>m, <1>k, <1>p DEF Notify, Mark, Op
  <2>2. op'[p].phase = "idle" /\ op'[p].key = None
    BY <1>8, <1>t DEF Notify, Idle
  <2> QED
    BY <1>8, <2>1, <2>2, <1>o, <1>q, <1>t DEF Notify
<1> QED
  BY <1>1, <1>2, <1>3, <1>4, <1>5, <1>6, <1>7, <1>8 DEF CallStep


\* A call's step keeps in mind whether the write has an entry.
LEMMA CallEntry ==
  ASSUME IInv, NEW p \in Proc, CallStep(p)
  PROVE  EntryInv'
<1>t. op \in [Proc -> Op] /\ EntryInv
  BY DEF IInv, TypeOK
<1>c. contacts' = contacts
  BY DEF CallStep, DeleteCached, WriteFind, WriteIdentical, WriteSet, WriteStore,
         WriteFails, DeleteRow, Notify
<1>q. \A q \in Proc \ {p} : /\ op'[q].phase = op[q].phase /\ op'[q].key = op[q].key
                            /\ op'[q].entry = "null" <=> op[q].entry = "null"
  BY CallOps
<1>1. CASE \E k \in Key, v \in Value, h \in BOOLEAN : WriteFind(p, k, v, h)
  <2>1. PICK k \in Key, v \in Value, h \in BOOLEAN : WriteFind(p, k, v, h)
    BY <1>1
  <2>2. op'[p].key = k /\ (op'[p].entry = "null" <=> ~Known(k, contacts))
    BY <2>1, <1>t DEF WriteFind
  <2> QED
    BY <2>2, <1>t, <1>c, <1>q DEF EntryInv, Known
<1>2. CASE ~\E k \in Key, v \in Value, h \in BOOLEAN : WriteFind(p, k, v, h)
  <2>1. CASE \E k \in Key : DeleteCached(p, k)
    BY <2>1, <1>t, <1>c, <1>q DEF DeleteCached, AfterDelete, EntryInv, Known
  <2>2. CASE WriteIdentical(p) \/ WriteFails(p) \/ Notify(p)
    <3>1. op'[p].phase = "idle"
      BY <2>2, <1>t DEF WriteIdentical, WriteFails, Notify, Idle
    <3> QED
      BY <3>1, <1>t, <1>c, <1>q DEF EntryInv, Known
  <2>3. CASE WriteSet(p) \/ WriteStore(p) \/ DeleteRow(p)
    <3>1. op'[p].phase \in {"notify", "store"}
      <4>1. CASE WriteSet(p)
        BY <4>1, <1>t DEF WriteSet, AfterSet
      <4>2. CASE WriteStore(p) \/ DeleteRow(p)
        <5>1. op' = [op EXCEPT ![p].phase = "notify"]
          BY <4>2 DEF WriteStore, DeleteRow
        <5> QED
          BY <5>1, <1>t
      <4> QED
        BY <2>3, <4>1, <4>2
    <3> QED
      BY <3>1, <1>t, <1>c, <1>q DEF EntryInv, Known
  <2> QED
    BY <1>2, <2>1, <2>2, <2>3 DEF CallStep
<1> QED
  BY <1>1, <1>2

\* A call's step keeps cache and table coupled.
LEMMA CallCache ==
  ASSUME IInv, NEW p \in Proc, CallStep(p)
  PROVE  CacheInv'
<1>c. contacts' = contacts
  BY DEF CallStep, DeleteCached, WriteFind, WriteIdentical, WriteSet, WriteStore,
         WriteFails, DeleteRow, Notify
<1>u. ASSUME NEW k \in Key, ~Known(k, contacts) PROVE cache'[k] = None
  <2>1. cache[k] = None /\ TypeOK /\ EntryInv /\ OpShape
    BY <1>u DEF IInv, CacheInv
  <2>2. CASE \E j \in Key : DeleteCached(p, j)
    BY <2>1, <2>2 DEF DeleteCached, TypeOK
  <2>3. CASE WriteSet(p)
    BY <2>1, <2>3, <1>u DEF WriteSet, TypeOK, EntryInv, OpShape
  <2> QED
    BY <2>1, <2>2, <2>3 DEF CallStep, WriteFind, WriteIdentical, WriteStore,
       WriteFails, DeleteRow, Notify
<1> SUFFICES ASSUME NEW k \in Key, Known(k, contacts), "parted" \notin mark'[k]
             PROVE  Coupled(k)'
  BY <1>c, <1>u DEF CacheInv, Known
<1>t. TypeOK /\ OpShape /\ EntryInv /\ None \notin Proc /\ None \notin Key
  BY SettingsAssumption DEF IInv
<1>o. op' \in [Proc -> Op] /\ op \in [Proc -> Op]
  BY CallOps, <1>t DEF TypeOK
<1>q. \A q \in Proc \ {p} : op'[q].phase = op[q].phase /\ op'[q].key = op[q].key
                            /\ op'[q].val = op[q].val
  BY CallOps
<1>l. \A q \in Proc : op[q].phase \in {"set", "store"} => lock = q
  BY <1>t DEF TypeOK
<1>k. \A q \in Proc : op[q].phase \notin {"idle", "commit", "drop"} => op[q].key \in Key
  BY <1>t DEF OpShape
<1>m. \A j \in Key : \A ms \in SUBSET Mark : "parted" \notin Marked(j, ms)[k] => "parted" \notin mark[k]
  BY <1>t DEF TypeOK, Marked
<1>1. CASE \E j \in Key : DeleteCached(p, j)
  <2>1. PICK j \in Key : DeleteCached(p, j)
    BY <1>1
  <2>2. "parted" \notin mark[k]
    BY <2>1, <1>m DEF DeleteCached, Begun, Mark
  <2>3. Coupled(k) /\ k \notin resident
    BY <2>2 DEF IInv, CacheInv, Coupled
  <2>4. CASE j = k
    <3>1. On(p, k, "erase")'
      BY <2>1, <2>3, <2>4, <1>t DEF DeleteCached, AfterDelete, On, TypeOK
    <3> QED
      BY <3>1, <2>1, <2>3 DEF Coupled, Erasing, DeleteCached
  <2>5. CASE j # k
    <3>1. \A q \in Proc : op'[q].key = k => op'[q] = op[q]
      BY <2>1, <2>5, <1>t DEF DeleteCached, Filling, TypeOK
    <3>2. \A q \in Proc : op[q].key = k => op'[q] = op[q]
      BY <2>1, <2>5, <1>t, <1>o, <3>1, SettingsAssumption DEF DeleteCached, Filling, TypeOK, OpShape
    <3>3. cache'[k] = cache[k] /\ table' = table /\ resident' = resident
      BY <2>1, <2>5, <1>t DEF DeleteCached, TypeOK
    <3> QED
      BY <3>1, <3>2, <3>3, <2>3 DEF Coupled, Erasing, On
  <2> QED
    BY <2>4, <2>5
<1>2. CASE \E j \in Key, v \in Value, h \in BOOLEAN : WriteFind(p, j, v, h)
  <2>1. PICK j \in Key, v \in Value, h \in BOOLEAN : WriteFind(p, j, v, h)
    BY <1>2
  <2>2. "parted" \notin mark[k]
    BY <2>1, <1>m DEF WriteFind, Begun, Mark
  <2>3. Coupled(k)
    BY <2>2 DEF IInv, CacheInv
  <2>4. op'[p].phase = "set" /\ op'[p].entry # "freed" /\ op[p].phase = "idle"
        /\ \A q \in Proc \ {p} : op'[q] = op[q]
    BY <2>1, <1>t DEF WriteFind, TypeOK
  <2> QED
    BY <2>1, <2>3, <2>4 DEF Coupled, Erasing, On, WriteFind
<1>3. CASE WriteIdentical(p)
  <2>1. Coupled(k)
    BY <1>3 DEF IInv, CacheInv, WriteIdentical
  <2>2. op'[p].phase = "idle" /\ op[p].phase = "set" /\ \A q \in Proc \ {p} : op'[q] = op[q]
    BY <1>3, <1>t DEF WriteIdentical, TypeOK, Idle
  <2> QED
    BY <1>3, <2>1, <2>2 DEF Coupled, Erasing, On, WriteIdentical
<1>4. CASE WriteSet(p)
  <2>1. Coupled(k)
    BY <1>4 DEF IInv, CacheInv, WriteSet
  <2>2. /\ op[p].phase = "set"
        /\ op'[p].key = op[p].key /\ op'[p].val = op[p].val /\ op'[p].entry = op[p].entry
        /\ \A q \in Proc \ {p} : op'[q] = op[q]
        /\ op'[p].phase = IF op[p].key \in resident THEN "notify" ELSE "store"
    BY <1>4, <1>t DEF WriteSet, AfterSet, TypeOK
  <2>3. \A q \in Proc \ {p} : op[q].phase \notin {"set", "store"}
    BY <2>2, <1>l
  <2>4. CASE op[p].key = k
    <3>1. op[p].entry = "freed" => Erasing(k)
      BY <2>1, <2>2, <2>4 DEF Coupled, On
    <3>2. Erasing(k) => Erasing(k)'
      BY <2>2 DEF Erasing, On
    <3>3. op[p].entry # "freed" => cache'[k] = op[p].val
      <4>1. op[p].entry \in {"live", "freed"}
        BY <2>2, <2>4, <1>t, <1>o DEF EntryInv, Op, Entry
      <4> QED
        BY <4>1, <1>4, <1>t, <2>4 DEF WriteSet, TypeOK
    <3>4. On(p, k, "store")'
      BY <2>1, <2>2, <2>4 DEF Coupled, On
    <3>5. resident' = resident
      BY <1>4 DEF WriteSet
    <3> QED
      BY <3>1, <3>2, <3>3, <3>4, <3>5, <2>1, <2>2, <2>3 DEF Coupled, On
  <2>5. CASE op[p].key # k
    <3>1. cache'[k] = cache[k] /\ table' = table /\ resident' = resident
      BY <1>4, <1>t, <2>5, <2>2, <1>k DEF WriteSet, TypeOK
    <3> QED
      BY <3>1, <2>1, <2>2, <2>5 DEF Coupled, Erasing, On
  <2> QED
    BY <2>4, <2>5
<1>5. CASE WriteStore(p)
  <2>1. Coupled(k)
    BY <1>5 DEF IInv, CacheInv, WriteStore
  <2>2. /\ op[p].phase = "store"
        /\ op'[p].key = op[p].key /\ op'[p].phase = "notify"
        /\ \A q \in Proc \ {p} : op'[q] = op[q]
    BY <1>5, <1>t DEF WriteStore, TypeOK
  <2>3. \A q \in Proc \ {p} : op[q].phase \notin {"set", "store"}
    BY <2>2, <1>l
  <2>4. Erasing(k) => Erasing(k)'
    BY <2>2 DEF Erasing, On
  <2>5. cache' = cache /\ resident' = resident
    BY <1>5 DEF WriteStore
  <2>6. op[p].key = k => table'[k] = op[p].val
    BY <1>5, <1>t DEF WriteStore, TypeOK
  <2>7. op[p].key # k => table'[k] = table[k]
    BY <1>5, <1>t, <1>k, <2>2 DEF WriteStore, TypeOK
  <2> QED
    BY <2>1, <2>2, <2>3, <2>4, <2>5, <2>6, <2>7 DEF Coupled, On, Erasing
<1>6. CASE WriteFails(p)
  <2>1. op[p].key # k /\ op[p].key \in Key
    BY <1>6, <1>t, <1>k DEF WriteFails, Marked, TypeOK
  <2>2. Coupled(k)
    BY <1>6, <1>m, <2>1 DEF IInv, CacheInv, WriteFails, Mark
  <2>3. op'[p].phase = "idle" /\ \A q \in Proc \ {p} : op'[q] = op[q]
    BY <1>6, <1>t DEF WriteFails, TypeOK, Idle
  <2> QED
    BY <1>6, <2>1, <2>2, <2>3 DEF Coupled, Erasing, On, WriteFails
<1>7. CASE DeleteRow(p)
  <2>1. Coupled(k)
    BY <1>7, <1>m, <1>k DEF IInv, CacheInv, DeleteRow, Mark
  <2>2. /\ op[p].phase = "erase"
        /\ op'[p].key = op[p].key /\ op'[p].phase = "notify"
        /\ \A q \in Proc \ {p} : op'[q] = op[q]
    BY <1>7, <1>t DEF DeleteRow, TypeOK
  <2>3. \A q \in Proc : op[q].phase \notin {"set", "store"}
    BY <1>7, <1>t, <1>l DEF DeleteRow
  <2>4. cache' = cache /\ resident' = resident
    BY <1>7 DEF DeleteRow
  <2>5. CASE op[p].key = k
    <3>1. cache[k] = None /\ table'[k] = None
      BY <1>7, <1>t, <2>5 DEF DeleteRow, Marked, TypeOK
    <3> QED
      BY <3>1, <2>1, <2>2, <2>3, <2>4 DEF Coupled, On
  <2>6. CASE op[p].key # k
    <3>1. table'[k] = table[k]
      BY <1>7, <1>t, <1>k, <2>2, <2>6 DEF DeleteRow, TypeOK
    <3> QED
      BY <3>1, <2>1, <2>2, <2>3, <2>4, <2>6 DEF Coupled, On
  <2> QED
    BY <2>5, <2>6
<1>8. CASE Notify(p)
  <2>1. Coupled(k)
    BY <1>8, <1>m, <1>k DEF IInv, CacheInv, Notify, Mark
  <2>2. op[p].phase = "notify" /\ op'[p].phase = "idle" /\ \A q \in Proc \ {p} : op'[q] = op[q]
    BY <1>8, <1>t DEF Notify, TypeOK, Idle
  <2> QED
    BY <1>8, <2>1, <2>2 DEF Coupled, Erasing, On, Notify
<1> QED
  BY <1>1, <1>2, <1>3, <1>4, <1>5, <1>6, <1>7, <1>8 DEF CallStep


\* A call's step keeps subscribers informed.
LEMMA CallView ==
  ASSUME IInv, NEW p \in Proc, CallStep(p)
  PROVE  ViewInv'
<1>c. contacts' = contacts
  BY DEF CallStep, DeleteCached, WriteFind, WriteIdentical, WriteSet, WriteStore,
         WriteFails, DeleteRow, Notify
<1> SUFFICES ASSUME NEW k \in Key, Known(k, contacts), "unheard" \notin mark'[k]
             PROVE  Heard(k)'
  BY <1>c DEF ViewInv, Known
<1>t. TypeOK /\ OpShape /\ None \notin Proc /\ None \notin Key
  BY SettingsAssumption DEF IInv
<1>o. op' \in [Proc -> Op] /\ op \in [Proc -> Op]
  BY CallOps, <1>t DEF TypeOK
<1>k. \A q \in Proc : op[q].phase \notin {"idle", "commit", "drop"} => op[q].key \in Key
  BY <1>t DEF OpShape
<1>b. Busy(k) <=> \E q \in Proc : op[q].key = k
  BY <1>t DEF Busy, OpShape
<1>m. \A j \in Key : \A ms \in SUBSET Mark :
        "unheard" \notin Marked(j, ms)[k] => "unheard" \notin mark[k]
  BY <1>t DEF TypeOK, Marked
<1>n. \A j \in Key : "unheard" \notin Begun(j)[k] => Heard(k) /\ (j = k => ~Busy(k))
  BY <1>t, <1>m DEF TypeOK, Marked, Begun, Mark, IInv, ViewInv
<1>1. CASE \E j \in Key : DeleteCached(p, j)
  <2>1. PICK j \in Key : DeleteCached(p, j)
    BY <1>1
  <2>2. Heard(k) /\ (j = k => ~Busy(k))
    BY <2>1, <1>n DEF DeleteCached
  <2>3. view' = view /\ op[p].key = None
    BY <2>1, <1>t DEF DeleteCached, OpShape
  <2>4. CASE j = k
    <3>1. \A q \in Proc : op[q].key # k
      BY <2>2, <2>4, <1>b
    <3>2. \A q \in Proc \ {p} : op'[q].key # k
      BY <3>1, CallOps
    <3>3. /\ op'[p].phase \in {"notify", "erase"} /\ op'[p].val = None /\ op'[p].entry = "live"
          /\ cache'[k] = None
      BY <2>1, <2>4, <1>t DEF DeleteCached, AfterDelete, TypeOK
    <3>4. op'[p].key = k
      BY <2>1, <2>4, <1>t DEF DeleteCached, TypeOK
    <3> QED
      BY <3>2, <3>3, <3>4 DEF Heard
  <2>5. CASE j # k
    <3>1. \A q \in Proc : op[q].key = k \/ op'[q].key = k => op'[q] = op[q]
      BY <2>1, <2>3, <2>5, <1>t, <1>o DEF DeleteCached, Filling
    <3>2. cache'[k] = cache[k]
      BY <2>1, <2>5, <1>t DEF DeleteCached, TypeOK
    <3> QED
      BY <3>1, <3>2, <2>2, <2>3 DEF Heard
  <2> QED
    BY <2>4, <2>5
<1>2. CASE \E j \in Key, v \in Value, h \in BOOLEAN : WriteFind(p, j, v, h)
  <2>1. PICK j \in Key, v \in Value, h \in BOOLEAN : WriteFind(p, j, v, h)
    BY <1>2
  <2>2. Heard(k) /\ (j = k => ~Busy(k))
    BY <2>1, <1>n DEF WriteFind
  <2>3. /\ op'[p].phase = "set" /\ op'[p].key = j /\ op[p].key = None
        /\ (j = k => op'[p].entry = "live")
        /\ \A q \in Proc \ {p} : op'[q] = op[q]
    BY <2>1, <1>t DEF WriteFind, TypeOK, OpShape
  <2>4. view' = view /\ cache' = cache
    BY <2>1 DEF WriteFind
  <2> QED
    BY <2>2, <2>3, <2>4, <1>b, <1>t DEF Heard
<1>3. CASE WriteIdentical(p)
  <2>1. Heard(k)
    BY <1>3 DEF WriteIdentical, IInv, ViewInv
  <2>2. /\ op[p].phase = "set" /\ op'[p].key = None
        /\ \A q \in Proc \ {p} : op'[q] = op[q]
    BY <1>3, <1>t DEF WriteIdentical, TypeOK, Idle
  <2>3. view' = view /\ cache' = cache
    BY <1>3 DEF WriteIdentical
  <2> QED
    BY <2>1, <2>2, <2>3, <1>t DEF Heard
<1>4. CASE WriteSet(p)
  <2>1. Heard(k)
    BY <1>4 DEF WriteSet, IInv, ViewInv
  <2>2. /\ op[p].phase = "set" /\ op'[p].phase \in {"store", "notify"}
        /\ op'[p].key = op[p].key /\ op'[p].val = op[p].val /\ op'[p].entry = op[p].entry
        /\ \A q \in Proc \ {p} : op'[q] = op[q]
    BY <1>4, <1>t DEF WriteSet, AfterSet, TypeOK
  <2>3. view' = view /\ op[p].key \in Key
    BY <1>4, <2>2, <1>k DEF WriteSet
  <2>4. op[p].key = k => op[p].entry = "live"
    BY <2>1 DEF Heard
  <2>5. cache'[k] = IF op[p].key = k THEN op[p].val ELSE cache[k]
    BY <1>4, <2>3, <2>4, <1>t DEF WriteSet, TypeOK
  <2> QED
    BY <2>1, <2>2, <2>3, <2>4, <2>5 DEF Heard
<1>5. CASE WriteStore(p)
  <2>1. Heard(k)
    BY <1>5 DEF WriteStore, IInv, ViewInv
  <2>2. /\ op[p].phase = "store" /\ op'[p].phase = "notify"
        /\ op'[p].key = op[p].key /\ op'[p].val = op[p].val /\ op'[p].entry = op[p].entry
        /\ \A q \in Proc \ {p} : op'[q] = op[q]
    BY <1>5, <1>t DEF WriteStore, TypeOK
  <2>3. view' = view /\ cache' = cache
    BY <1>5 DEF WriteStore
  <2> QED
    BY <2>1, <2>2, <2>3 DEF Heard
<1>6. CASE WriteFails(p)
  <2>1. op[p].key # k /\ op[p].key \in Key
    BY <1>6, <1>t, <1>k DEF WriteFails, Marked, TypeOK
  <2>2. Heard(k)
    BY <1>6, <1>m, <2>1 DEF WriteFails, Mark, IInv, ViewInv
  <2>3. op'[p].key = None /\ \A q \in Proc \ {p} : op'[q] = op[q]
    BY <1>6, <1>t DEF WriteFails, TypeOK, Idle
  <2>4. view' = view /\ cache' = cache
    BY <1>6 DEF WriteFails
  <2> QED
    BY <2>1, <2>2, <2>3, <2>4, <1>t DEF Heard
<1>7. CASE DeleteRow(p)
  <2>1. Heard(k)
    BY <1>7, <1>m, <1>k DEF DeleteRow, Mark, IInv, ViewInv
  <2>2. /\ op[p].phase = "erase" /\ op'[p].phase = "notify"
        /\ op'[p].key = op[p].key /\ op'[p].val = op[p].val /\ op'[p].entry = op[p].entry
        /\ \A q \in Proc \ {p} : op'[q] = op[q]
    BY <1>7, <1>t DEF DeleteRow, TypeOK
  <2>3. view' = view /\ cache' = cache
    BY <1>7 DEF DeleteRow
  <2> QED
    BY <2>1, <2>2, <2>3 DEF Heard
<1>8. CASE Notify(p)
  <2>1. Heard(k)
    BY <1>8, <1>m, <1>k DEF Notify, Mark, IInv, ViewInv
  <2>2. /\ op[p].phase = "notify" /\ op'[p].key = None
        /\ \A q \in Proc \ {p} : op'[q] = op[q]
    BY <1>8, <1>t DEF Notify, TypeOK, Idle
  <2>3. cache' = cache /\ op[p].key \in Key
    BY <1>8, <1>k DEF Notify
  <2>4. CASE op[p].key = k
    <3>1. ~op[p].hidden
      BY <1>8, <2>4, <1>t DEF Notify, Marked, TypeOK
    <3>2. view'[k] = op[p].val
      BY <1>8, <3>1, <2>4, <1>t DEF Notify, TypeOK
    <3> QED
      BY <3>2, <2>1, <2>2, <2>3, <2>4, <1>t DEF Heard
  <2>5. CASE op[p].key # k
    <3>1. view'[k] = view[k]
      BY <1>8, <2>3, <2>5, <1>t DEF Notify, TypeOK
    <3> QED
      BY <3>1, <2>1, <2>2, <2>3, <2>5, <1>t DEF Heard
  <2> QED
    BY <2>4, <2>5
<1> QED
  BY <1>1, <1>2, <1>3, <1>4, <1>5, <1>6, <1>7, <1>8 DEF CallStep

\* A call's step gives no row to a resident setting, and a step that changes
\* the table has started the timer or is recorded as unscheduled.
LEMMA CallStored ==
  ASSUME IInv, NEW p \in Proc, CallStep(p)
  PROVE  ResidentInv' /\ ChangesScheduled'
<1>t. TypeOK /\ OpShape /\ None \notin Proc /\ None \notin Key
  BY SettingsAssumption DEF IInv
<1>o. op \in [Proc -> Op] /\ Main \in Proc
  BY <1>t, SettingsAssumption DEF TypeOK
<1>k. op[p].phase \notin {"idle", "commit", "drop"} => op[p].key \in Key
  BY <1>t DEF OpShape
<1>q. \A q \in Proc \ {p} : op'[q].phase = op[q].phase /\ op'[q].key = op[q].key
  BY CallOps
<1>m. \A j, k \in Key : \A ms \in SUBSET Mark :
        "stored" \notin Marked(j, ms)[k] => "stored" \notin mark[k]
  BY <1>t DEF TypeOK, Marked
<1>i. ResidentInv /\ ChangesScheduled
  BY DEF IInv
<1>c. /\ op[p].phase # "commit" /\ disk' = disk /\ resident' = resident
      /\ contacts' = contacts /\ kept' = kept
  BY DEF CallStep, DeleteCached, WriteFind, WriteIdentical, WriteSet, WriteStore,
         WriteFails, DeleteRow, Notify
<1>s. \A k \in Key : "stored" \notin mark'[k] => "stored" \notin mark[k]
  BY <1>m, <1>k DEF CallStep, DeleteCached, WriteFind, WriteIdentical, WriteSet, WriteStore,
         WriteFails, DeleteRow, Notify, Begun, Mark
<1>1. CASE table' = table /\ timer' = timer /\ unscheduled' = unscheduled
           /\ (op'[p].phase # "store" \/ WriteSet(p))
  <2>1. ChangesScheduled'
    BY <1>1, <1>c, <1>q, <1>i, <1>o DEF ChangesScheduled
  <2>2. ASSUME op'[p].phase = "store" PROVE op'[p].key \notin resident
    <3>1. WriteSet(p)
      BY <2>2, <1>1
    <3>2. op'[p].phase = AfterSet(op[p].key) /\ op'[p].key = op[p].key
      BY <3>1, <1>o DEF WriteSet
    <3> QED
      BY <2>2, <3>2 DEF AfterSet
  <2>3. resident \subseteq Key
    BY <1>t DEF TypeOK
  <2> QED
    BY <2>1, <2>2, <2>3, <1>1, <1>c, <1>q, <1>i, <1>s DEF ResidentInv, On
<1>2. CASE WriteStore(p) \/ DeleteRow(p)
  <2>1. timer' = TRUE \/ unscheduled' = TRUE
    BY <1>2 DEF WriteStore, DeleteRow, DBFlush
  <2>2. ASSUME NEW k \in resident, "stored" \notin mark[k]
        PROVE  table'[k] = None
    <3>1. table[k] = None /\ ~On(p, k, "store") /\ k \in Key
      BY <2>2, <1>i, <1>t DEF ResidentInv, TypeOK
    <3> QED
      BY <1>2, <3>1, <1>t DEF WriteStore, DeleteRow, On, TypeOK
  <2>3. op'[p].phase = "notify"
    <3>1. op' = [op EXCEPT ![p].phase = "notify"]
      BY <1>2 DEF WriteStore, DeleteRow
    <3> QED
      BY <3>1, <1>o
  <2>4. resident \subseteq Key
    BY <1>t DEF TypeOK
  <2> QED
    BY <2>1, <2>2, <2>3, <2>4, <1>c, <1>q, <1>i, <1>s DEF ResidentInv, ChangesScheduled, On
<1> QED
  <2>1. CASE \E k \in Key : DeleteCached(p, k)
    BY <1>1, <2>1, <1>t DEF DeleteCached, AfterDelete, TypeOK
  <2>2. CASE \E k \in Key, v \in Value, h \in BOOLEAN : WriteFind(p, k, v, h)
    BY <1>1, <2>2, <1>t DEF WriteFind, TypeOK
  <2>3. CASE WriteIdentical(p) \/ WriteFails(p) \/ Notify(p)
    BY <1>1, <2>3, <1>t DEF WriteIdentical, WriteFails, Notify, TypeOK, Idle
  <2>4. CASE WriteSet(p)
    BY <1>1, <2>4 DEF WriteSet
  <2> QED
    BY <1>2, <2>1, <2>2, <2>3, <2>4 DEF CallStep


---------------------------------------------------------------------------
(* The deletion of a contact *)

\* It takes the settings of the contact out of cache and table together, or
\* leaves them marked.
LEMMA DropIInv ==
  ASSUME IInv, NEW p \in Proc, DropStep(p)
  PROVE  IInv'
<1>t. TypeOK /\ OpShape /\ EntryInv /\ CacheInv /\ ViewInv /\ ResidentInv /\ ChangesScheduled
  BY DEF IInv
<1>a. /\ op \in [Proc -> Op] /\ Main \in Proc /\ Contact \cap Key = {}
      /\ None \notin Key \cup Proc \cup Contact /\ Owner \in [Key -> Contact \cup {None}]
  BY <1>t, SettingsAssumption DEF TypeOK
<1>o. /\ op' \in [Proc -> Op]
      /\ op[p].phase \in {"idle", "drop"} /\ op'[p].phase \in {"idle", "drop"}
      /\ op'[p].phase = "idle" <=> op'[p].key = None
      /\ op'[p].phase = "drop" => op'[p].key \in Contact
      /\ \A q \in Proc \ {p} : op'[q] = op[q]
  <2>1. CASE \E c \in Contact : DropFind(p, c)
    <3>1. PICK c \in Contact : DropFind(p, c)
      BY <2>1
    <3>2. [Idle EXCEPT !.phase = "drop", !.key = c] \in Op
      BY DEF Idle, Op, Phase, Held, Entry
    <3>3. op' = [op EXCEPT ![p] = [Idle EXCEPT !.phase = "drop", !.key = c]]
          /\ op[p].phase = "idle"
      BY <3>1 DEF DropFind
    <3>4. op'[p].phase = "drop" /\ op'[p].key = c
      BY <3>3, <1>a DEF Idle
    <3> QED
      BY <3>2, <3>3, <3>4, <1>a
  <2>2. CASE DropRows(p) \/ DropFails(p)
    <3>1. op' = [op EXCEPT ![p] = Idle] /\ op[p].phase = "drop"
      BY <2>2 DEF DropRows, DropFails
    <3>2. Idle \in Op /\ Idle.phase = "idle" /\ Idle.key = None
      BY DEF Idle, Op, Phase, Held, Entry
    <3> QED
      BY <3>1, <3>2, <1>a
  <2> QED
    BY <2>1, <2>2 DEF DropStep
<1>k. op[p].key \notin Key /\ op'[p].key \notin Key
  BY <1>o, <1>a, <1>t DEF OpShape
<1>s. /\ UNCHANGED <<disk, kept, resident, lock, safe, view>>
      /\ timer' \in BOOLEAN /\ unscheduled' \in BOOLEAN
      /\ UNCHANGED <<table, contacts, timer, unscheduled>> \/ timer' = TRUE \/ unscheduled' = TRUE
      /\ contacts' \subseteq contacts
      /\ contacts' = contacts \/ lock = None
  BY <1>t DEF DropStep, DropFind, DropRows, DropFails, DBFlush, TypeOK
<1>u. /\ cache' \in [Key -> Held] /\ table' \in [Key -> Held] /\ mark' \in [Key -> SUBSET Mark]
      /\ \A k \in Key :
           /\ Known(k, contacts') => Known(k, contacts) /\ cache'[k] = cache[k]
           /\ ~Known(k, contacts') => cache'[k] = None
           /\ Known(k, contacts') /\ "parted" \notin mark'[k]
              => "parted" \notin mark[k] /\ table'[k] = table[k]
           /\ "unheard" \notin mark'[k] => "unheard" \notin mark[k]
           /\ "stored" \notin mark'[k] => "stored" \notin mark[k]
           /\ table'[k] \in {table[k], None}
  <2>1. \A k \in Key : ~Known(k, contacts) => cache[k] = None
    BY <1>t DEF CacheInv
  <2>2. CASE UNCHANGED <<cache, table, contacts, mark>>
    BY <2>1, <2>2, <1>t DEF TypeOK
  <2>3. CASE DropRows(p)
    <3>1. PICK c : c = op[p].key
      OBVIOUS
    <3>2. c \in Contact /\ cache' = Without(cache, c) /\ table' = Without(table, c)
          /\ contacts' = contacts \ {c} /\ mark' = mark
      BY <2>3, <3>1, <1>t DEF DropRows, OpShape
    <3>3. cache' \in [Key -> Held] /\ table' \in [Key -> Held]
      BY <3>2, <1>t DEF Without, TypeOK, Held
    <3> QED
      BY <2>1, <3>2, <3>3, <1>t, <1>a DEF Without, Known, TypeOK
  <2>4. CASE DropFails(p) /\ ~UNCHANGED <<cache, table, contacts, mark>>
    <3>1. PICK c : c = op[p].key
      OBVIOUS
    <3>2. /\ cache' = cache /\ table' = Without(table, c) /\ contacts' = contacts
          /\ mark' = [k \in Key |-> IF Owner[k] = c THEN mark[k] \cup {"parted"} ELSE mark[k]]
      BY <2>4, <3>1 DEF DropFails
    <3>3. table' \in [Key -> Held] /\ mark' \in [Key -> SUBSET Mark]
      BY <3>2, <1>t DEF Without, TypeOK, Held, Mark
    <3> QED
      BY <2>1, <3>2, <3>3, <1>t DEF Without, TypeOK
  <2> QED
    BY <2>2, <2>3, <2>4 DEF DropStep, DropFind
<1>1. TypeOK'
  BY <1>o, <1>s, <1>u, <1>t DEF TypeOK
<1>2. OpShape'
  BY <1>o, <1>t, <1>a DEF OpShape
<1>3. EntryInv'
  <2>1. \A q \in Proc : op'[q].phase = "set" => op'[q] = op[q] /\ lock = q
    BY <1>o, <1>t DEF TypeOK
  <2> QED
    BY <2>1, <1>s, <1>t, <1>a DEF EntryInv, Known
<1>4. \A q \in Proc, k \in Key : op[q].key = k \/ op'[q].key = k => op'[q] = op[q]
  BY <1>o, <1>k
<1>5. CacheInv'
  <2> SUFFICES ASSUME NEW k \in Key, Known(k, contacts'), "parted" \notin mark'[k]
               PROVE  Coupled(k)'
    BY <1>u DEF CacheInv, Known
  <2>1. Coupled(k) /\ cache'[k] = cache[k] /\ table'[k] = table[k]
    BY <1>u, <1>t DEF CacheInv
  <2> QED
    BY <2>1, <1>4, <1>s DEF Coupled, Erasing, On
<1>6. ViewInv'
  <2> SUFFICES ASSUME NEW k \in Key, Known(k, contacts'), "unheard" \notin mark'[k]
               PROVE  Heard(k)'
    BY DEF ViewInv, Known
  <2>1. Heard(k) /\ cache'[k] = cache[k] /\ view' = view
    BY <1>u, <1>s, <1>t DEF ViewInv
  <2> QED
    BY <2>1, <1>4 DEF Heard
<1>7. ResidentInv'
  BY <1>u, <1>s, <1>4, <1>t DEF ResidentInv, On, TypeOK
<1>8. ChangesScheduled'
  BY <1>s, <1>o, <1>t, <1>a DEF ChangesScheduled
<1> QED
  BY <1>1, <1>2, <1>3, <1>5, <1>6, <1>7, <1>8 DEF IInv

---------------------------------------------------------------------------
(* The other steps *)

\* Marking settings, committing and the safety mode keep the invariant.
LEMMA OtherIInv ==
  ASSUME IInv, OtherStep
  PROVE  IInv'
<1>t. TypeOK /\ OpShape /\ EntryInv /\ CacheInv /\ ViewInv /\ ResidentInv /\ ChangesScheduled
  BY DEF IInv
<1>o. op \in [Proc -> Op] /\ Main \in Proc /\ None \notin Key /\ None \notin Proc
  BY <1>t, SettingsAssumption DEF TypeOK
<1>1. CASE \E k \in Key, b \in BOOLEAN : SetSettingResident(k, b)
  <2>1. PICK k \in Key, b \in BOOLEAN : SetSettingResident(k, b)
    BY <1>1
  <2>2. UNCHANGED <<cache, table, disk, contacts, kept, lock, op, timer, safe, view, unscheduled>>
    BY <2>1 DEF SetSettingResident
  <2>3. PICK ms \in SUBSET Mark : mark' = Marked(k, ms) /\ "parted" \in ms
               /\ (b /\ "stored" \notin ms => /\ table[k] = None /\ disk[k] = None
                                              /\ \A p \in Proc : ~On(p, k, "store"))
    <3>1. CASE table[k] # None \/ disk[k] # None \/ \E p \in Proc : On(p, k, "store")
      BY <3>1, <2>1 DEF SetSettingResident, Mark, On
    <3>2. CASE ~(table[k] # None \/ disk[k] # None \/ \E p \in Proc : On(p, k, "store"))
      BY <3>2, <2>1 DEF SetSettingResident, Mark, On
    <3> QED
      BY <3>1, <3>2
  <2>4. mark' = [mark EXCEPT ![k] = @ \cup ms] /\ mark \in [Key -> SUBSET Mark]
    BY <2>3, <1>t DEF Marked, TypeOK
  <2>5. mark' \in [Key -> SUBSET Mark] /\ \A j \in Key : mark[j] \subseteq mark'[j]
    BY <2>4
  <2>6. mark'[k] = mark[k] \cup ms
    BY <2>4
  <2>7. resident' \subseteq Key /\ \A j \in Key \ {k} : j \in resident' <=> j \in resident
    BY <2>1, <1>t DEF SetSettingResident, TypeOK
  <2>8. TypeOK' /\ OpShape' /\ EntryInv' /\ ChangesScheduled'
    BY <2>2, <2>5, <2>7, <1>t DEF TypeOK, OpShape, EntryInv, Known, ChangesScheduled
  <2>9. CacheInv'
    BY <2>2, <2>3, <2>5, <2>6, <2>7, <1>t DEF CacheInv, Known, Coupled, Erasing, On
  <2>10. ViewInv'
    BY <2>2, <2>5, <1>t DEF ViewInv, Known, Heard
  <2>11. k \in resident' => b
    BY <2>1 DEF SetSettingResident
  <2>12. ResidentInv'
    BY <2>2, <2>3, <2>5, <2>6, <2>7, <2>11, <1>t DEF ResidentInv, On
  <2> QED
    BY <2>8, <2>9, <2>10, <2>12 DEF IInv
<1>2. CASE Commit
  <2>1. UNCHANGED <<cache, table, contacts, lock, op, timer, safe, view, mark, resident>>
        /\ disk' = table /\ kept' = contacts /\ unscheduled' = FALSE
    BY <1>2 DEF Commit
  <2>2. TypeOK' /\ OpShape' /\ EntryInv' /\ ChangesScheduled'
    BY <2>1, <1>t DEF TypeOK, OpShape, EntryInv, Known, ChangesScheduled
  <2>3. CacheInv' /\ ViewInv'
    BY <2>1, <1>t DEF CacheInv, Known, Coupled, Erasing, On, ViewInv, Heard
  <2>4. ResidentInv'
    BY <2>1, <1>t DEF ResidentInv, On
  <2> QED
    BY <2>2, <2>3, <2>4 DEF IInv
<1>3. CASE OnTimer \/ TimerCommit
  <2>1. UNCHANGED <<cache, table, contacts, lock, safe, view, mark, resident>>
        /\ disk' \in {disk, table} /\ kept' \in {kept, contacts} /\ timer' \in BOOLEAN /\ unscheduled' \in BOOLEAN
    BY <1>3, <1>t DEF OnTimer, TimerCommit, TypeOK
  <2>2. /\ op'[Main].phase \in {"idle", "commit"} /\ op[Main].phase \in {"idle", "commit"}
        /\ op'[Main].key = None /\ op[Main].key = None
        /\ \A q \in Proc \ {Main} : op'[q] = op[q]
        /\ op' \in [Proc -> Op]
        /\ ChangesScheduled'
    <3>1. CASE OnTimer
      <4>1. op[Main].phase = "idle" /\ op[Main].key = None
        BY <3>1, <1>t, <1>o DEF OnTimer, OpShape
      <4>2. op'[Main].phase = "commit" /\ op'[Main].key = None
            /\ \A q \in Proc \ {Main} : op'[q] = op[q]
        BY <3>1, <4>1, <1>o DEF OnTimer
      <4>3. op' \in [Proc -> Op]
        BY <3>1, <1>o DEF OnTimer, Op, Phase
      <4> QED
        BY <4>1, <4>2, <4>3 DEF ChangesScheduled
    <3>2. CASE TimerCommit
      <4>1. op[Main].phase = "commit" /\ op[Main].key = None
        BY <3>2, <1>t, <1>o DEF TimerCommit, OpShape
      <4>2. op'[Main] = Idle /\ \A q \in Proc \ {Main} : op'[q] = op[q]
        BY <3>2, <1>o DEF TimerCommit
      <4>3. op' \in [Proc -> Op]
        BY <3>2, <1>o DEF TimerCommit, Op, Phase, Held, Idle, Entry
      <4>4. disk' = table /\ table' = table /\ kept' = contacts /\ contacts' = contacts
        BY <3>2 DEF TimerCommit
      <4> QED
        BY <4>1, <4>2, <4>3, <4>4 DEF ChangesScheduled, Idle
    <3> QED
      BY <1>3, <3>1, <3>2
  <2>5. lock # Main
    BY <2>2, <1>t, <1>o DEF TypeOK
  <2>6. TypeOK'
    BY <2>1, <2>2, <2>5, <1>t DEF TypeOK
  <2>7. OpShape' /\ EntryInv' /\ ViewInv'
    BY <2>1, <2>2, <1>t, <1>o DEF OpShape, EntryInv, Known, ViewInv, Heard
  <2>8. \A p \in Proc, k \in Key : \A ph \in {"set", "store", "erase"} :
          On(p, k, ph)' <=> On(p, k, ph)
    BY <2>2, <1>o DEF On
  <2>9. \A p \in Proc, k \in Key : On(p, k, "set") \/ On(p, k, "store") => op'[p] = op[p]
    BY <2>2, <1>o DEF On
  <2>10. CacheInv'
    BY <2>1, <2>8, <2>9, <1>t DEF CacheInv, Known, Coupled, Erasing
  <2>11. ResidentInv'
    BY <2>1, <2>8, <1>t DEF ResidentInv, TypeOK
  <2> QED
    BY <2>2, <2>6, <2>7, <2>10, <2>11 DEF IInv
<1>4. CASE \E b \in BOOLEAN : SetCacheSafetyMode(b)
  <2>1. UNCHANGED <<cache, table, disk, contacts, kept, lock, op, timer, view, mark, resident,
                    unscheduled>>
        /\ safe' \in BOOLEAN
    BY <1>4 DEF SetCacheSafetyMode
  <2> QED
    BY <2>1, <1>t DEF IInv, TypeOK, OpShape, EntryInv, CacheInv, Known, Coupled, Erasing, On, ViewInv, Heard,
       ResidentInv, ChangesScheduled
<1> QED
  BY <1>1, <1>2, <1>3, <1>4 DEF OtherStep

\* A restart, after a crash or not, begins with the contents of the disk.
LEMMA RestartIInv ==
  ASSUME IInv, NEW d \in [Key -> Held], NEW cs \in SUBSET Contact, Restart(d, cs)
  PROVE  IInv'
<1>1. \A p \in Proc : op'[p] = Idle /\ op'[p] \in Op
  BY DEF Restart, Idle, Op, Phase, Held, Entry
<1>d. InitSettings(d, cs) \in [Key -> Held]
  BY DEF InitSettings, Held
<1>2. TypeOK'
  BY <1>1, <1>d, SettingsAssumption DEF Restart, TypeOK, Idle, Mark
<1>3. OpShape'
  BY <1>1, <1>2, SettingsAssumption DEF OpShape, Idle, TypeOK
<1>4. CacheInv'
  BY <1>1 DEF Restart, InitSettings, CacheInv, Known, Coupled, On, Idle
<1>5. ViewInv'
  BY <1>1, SettingsAssumption DEF Restart, ViewInv, Heard, Idle
<1>6. ResidentInv' /\ ChangesScheduled' /\ EntryInv'
  BY <1>1 DEF Restart, ResidentInv, ChangesScheduled, EntryInv, Idle
<1> QED
  BY <1>2, <1>3, <1>4, <1>5, <1>6 DEF IInv

\* Every step keeps the invariant.
LEMMA NextIInv == IInv /\ [Next]_vars => IInv'
<1> SUFFICES ASSUME IInv, [Next]_vars PROVE IInv'
  OBVIOUS
<1>1. ASSUME NEW p \in Proc, CallStep(p) PROVE IInv'
  BY <1>1, CallTypes, CallEntry, CallCache, CallView, CallStored DEF IInv
<1>5. ASSUME NEW p \in Proc, DropStep(p) PROVE IInv'
  BY <1>5, DropIInv
<1>2. CASE OtherStep
  BY <1>2, OtherIInv
<1>3. CASE Crash \/ Exit
  <2>1. /\ disk \in [Key -> Held] /\ table \in [Key -> Held]
        /\ contacts \in SUBSET Contact /\ kept \in SUBSET Contact
    BY DEF IInv, TypeOK
  <2> QED
    BY <1>3, <2>1, RestartIInv DEF Crash, Exit
<1>4. CASE UNCHANGED vars
  BY <1>4 DEF vars, IInv, TypeOK, OpShape, EntryInv, CacheInv, Known, Coupled, Erasing, On, ViewInv, Heard,
     ResidentInv, ChangesScheduled
<1> QED
  BY <1>1, <1>2, <1>3, <1>4, <1>5 DEF Next, CallStep, DropStep, OtherStep

\* The invariant holds in every reachable state.
THEOREM Invariance == Spec => []IInv
  BY InitIInv, NextIInv, PTL DEF Spec

---------------------------------------------------------------------------
\* Every variable keeps its type, and m_csDbAccess is held inside writes only.
THEOREM SettingsTypes == Spec => []TypeOK
  BY Invariance, PTL DEF IInv

\* Between calls for it, what reads get from the cache is what a restart would
\* load from the table, however writes and deletions of all threads and the
\* deletion of the contact interleave, late writes for it included.
THEOREM CacheCoherent == Spec => []CacheMatchesTable
<1>1. IInv => CacheMatchesTable
  <2> SUFFICES ASSUME IInv, NEW k \in Key, ~Busy(k), "parted" \notin mark[k]
               PROVE  cache[k] = InitSettings(table, contacts)[k]
    BY DEF CacheMatchesTable
  <2>1. CASE Known(k, contacts)
    <3>1. Coupled(k)
      BY <2>1 DEF IInv, CacheInv
    <3> QED
      BY <2>1, <3>1 DEF Coupled, Busy, On, InitSettings
  <2>2. CASE ~Known(k, contacts)
    BY <2>2 DEF IInv, CacheInv, InitSettings
  <2> QED
    BY <2>1, <2>2
<1> QED
  BY <1>1, Invariance, PTL

\* Subscribers that follow the notifications know the cached value of the
\* settings of contacts that exist, and of global ones.
THEOREM ListenersInformed == Spec => []ListenersAgree
<1>1. IInv => ListenersAgree
  <2> SUFFICES ASSUME IInv, NEW k \in Key, ~Busy(k), "unheard" \notin mark[k],
                      Known(k, contacts)
               PROVE  view[k] = cache[k]
    BY DEF ListenersAgree
  <2>1. Heard(k) /\ OpShape /\ None \notin Key
    BY SettingsAssumption DEF IInv, ViewInv
  <2> QED
    BY <2>1 DEF Heard, Busy, OpShape
<1> QED
  BY <1>1, Invariance, PTL

\* A resident setting without a row never gets one.
THEOREM ResidentKeptOut == Spec => []ResidentNotStored
<1>1. IInv => ResidentNotStored
  BY DEF IInv, ResidentInv, ResidentNotStored
<1> QED
  BY <1>1, Invariance, PTL

\* A change that started the timer has it running until it is committed.
THEOREM TimerCoversChanges == Spec => []ChangesScheduled
  BY Invariance, PTL DEF IInv
=============================================================================
