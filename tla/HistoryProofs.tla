--------------------------- MODULE HistoryProofs ---------------------------
(***************************************************************************)
(* Proofs about History for any contacts, metacontacts, threads and        *)
(* bounds: no event is lost from its contact's chain, ordinary chains hold *)
(* their own events only, and saved links name contacts that exist.        *)
(***************************************************************************)
EXTENDS History, FiniteSetTheorems, TLAPS

(* Ids grow, so a new event has no rows yet. *)
IdsOK ==
  /\ IsFiniteSet(srt)
  /\ \A r \in srt : r.id <= lastId
  /\ \A e \in Id : owner[e] # None => e <= lastId /\ life[owner[e]] # "new"

(* A call in progress carries a link that was possible. *)
PendOK ==
  \A p \in Proc : pend[p].op = "add" =>
    /\ life[pend[p].c] # "new"
    /\ pend[p].m # None => pend[p].m \in Meta /\ pend[p].c \notin Meta

(* Only ordinary contacts have parents, and parents are metacontacts. *)
ParentOK == \A c \in Contact : parent[c] # None => c \notin Meta /\ parent[c] \in Meta

(* A saved link joins two contacts that exist and is the one in the cache. *)
LinkOK ==
  \A c \in Contact : saved[c] # None =>
    c \in Live /\ saved[c] \in Live /\ parent[c] = saved[c]

(* A contact about to be deleted is nobody's saved parent. *)
JobOK ==
  /\ job.op \in {"merge", "unlink"} => job.s \notin Meta /\ job.m \in Meta
  /\ job.op = "unlink" => saved[job.s] = None
  /\ job.op = "dissolve" => job.m \in Meta
  /\ job.op = "delete" => \A c \in Contact : saved[c] # None => saved[c] \notin {job.c, job.then}

(* An event of an existing metacontact stands in that one's chain only. *)
MetaRowsOK ==
  \A r \in srt : owner[r.id] \in Meta /\ owner[r.id] \in Live => r.c = owner[r.id]

Inv ==
  /\ TypeOK /\ IdsOK /\ PendOK /\ ParentOK /\ LinkOK /\ JobOK /\ MetaRowsOK
  /\ NothingLost /\ OwnEventsOnly

(* Nothing is stored at first. *)
LEMMA InitInv == Init => Inv
<1> SUFFICES ASSUME Init PROVE Inv
  OBVIOUS
<1> USE HistoryAssumption DEF Init
<1>1. TypeOK
  <2>1. Idle \in Pending /\ Idle \in Job
    BY DEF Pending, Job
  <2>2. freed \in BOOLEAN /\ raced \in BOOLEAN
    OBVIOUS
  <2>3. lastId \in 0..MaxEvents
    OBVIOUS
  <2> QED
    BY <2>1, <2>2, <2>3 DEF TypeOK
<1>2. IdsOK
  BY FS_EmptySet DEF IdsOK, Id
<1>3. PendOK /\ JobOK
  BY DEF PendOK, JobOK, Idle
<1>4. ParentOK /\ LinkOK
  BY DEF ParentOK, LinkOK
<1>5. MetaRowsOK /\ OwnEventsOnly
  BY DEF MetaRowsOK, OwnEventsOnly
<1>6. NothingLost
  BY DEF NothingLost, Live
<1> QED
  BY <1>1, <1>2, <1>3, <1>4, <1>5, <1>6 DEF Inv

(* Steps that leave the tables alone and only move a thread's call. *)
LEMMA BeginInv ==
  ASSUME Inv, NEW p \in Proc,
         \/ \E c \in Contact, ts \in Stamp : AddEventBegin(p, c, ts)
         \/ \E e \in Id : DeleteEventBegin(p, e)
         \/ AddEventFiltered(p)
  PROVE  Inv'
<1> USE HistoryAssumption
<1>1. UNCHANGED <<life, owner, lastId, srt, count, parent, saved, job, freed, raced>>
  BY DEF AddEventBegin, DeleteEventBegin, AddEventFiltered
<1>2. pend' \in [Proc -> Pending] /\ PendOK'
  <2>1. CASE \E c \in Contact, ts \in Stamp : AddEventBegin(p, c, ts)
    <3>1. PICK c \in Contact, ts \in Stamp : AddEventBegin(p, c, ts)
      BY <2>1
    <3> DEFINE a == [op |-> "add", c |-> c, m |-> parent[c], ts |-> ts]
    <3>2. pend' = [pend EXCEPT ![p] = a]
      BY <3>1 DEF AddEventBegin
    <3>3. a \in Pending
      BY DEF Pending, Inv, TypeOK
    <3>4. life[c] # "new" /\ (parent[c] # None => parent[c] \in Meta /\ c \notin Meta)
      BY <3>1 DEF AddEventBegin, Live, Inv, ParentOK
    <3>5. pend' \in [Proc -> Pending]
      BY <3>2, <3>3 DEF Inv, TypeOK
    <3>6. a.c = c /\ a.m = parent[c]
      OBVIOUS
    <3> HIDE DEF a
    <3> QED
      BY <3>2, <3>4, <3>5, <3>6, <1>1 DEF PendOK, Inv, TypeOK
  <2>2. CASE \E e \in Id : DeleteEventBegin(p, e)
    <3>1. PICK e \in Id : DeleteEventBegin(p, e)
      BY <2>2
    <3> DEFINE a == [op |-> "delete", c |-> owner[e], e |-> e]
    <3>2. pend' = [pend EXCEPT ![p] = a]
      BY <3>1 DEF DeleteEventBegin
    <3>3. a \in Pending /\ a.op # "add"
      BY <3>1 DEF Pending, DeleteEventBegin, Live
    <3> HIDE DEF a
    <3> QED
      BY <3>2, <3>3, <1>1 DEF PendOK, Inv, TypeOK
  <2>3. CASE AddEventFiltered(p)
    <3>1. pend' = [pend EXCEPT ![p] = Idle] /\ Idle \in Pending /\ Idle.op # "add"
      BY <2>3 DEF AddEventFiltered, Pending, Idle
    <3> QED
      BY <3>1, <1>1 DEF PendOK, Inv, TypeOK
  <2> QED
    BY <2>1, <2>2, <2>3
<1>3. TypeOK'
  BY <1>1, <1>2 DEF Inv, TypeOK
<1>4. IdsOK' /\ ParentOK' /\ LinkOK' /\ JobOK' /\ MetaRowsOK' /\ NothingLost' /\ OwnEventsOnly'
  BY <1>1 DEF Inv, IdsOK, ParentOK, LinkOK, JobOK, MetaRowsOK, NothingLost, OwnEventsOnly, Live
<1> QED
  BY <1>2, <1>3, <1>4 DEF Inv

(* A new event: its id is fresh, so its rows disturb nobody else's. *)
LEMMA AddEventEndInv ==
  ASSUME Inv, NEW p \in Proc, AddEventEnd(p)
  PROVE  Inv'
<1> DEFINE a == pend[p]
           e == lastId + 1
           used == {a.c} \cup ({a.m} \ {None})
<1> USE HistoryAssumption
<1>1. /\ a.op = "add" /\ lastId < MaxEvents
      /\ lastId' = e
      /\ owner' = [owner EXCEPT ![e] = a.c]
      /\ freed' = (freed \/ ~(used \subseteq Live))
      /\ pend' = [pend EXCEPT ![p] = Idle]
      /\ UNCHANGED <<life, parent, saved, job, raced>>
  BY DEF AddEventEnd
<1>2. e \in Id /\ e \in 0..MaxEvents
  BY <1>1 DEF Inv, TypeOK, Id
<1>3. a.c \in Contact /\ a.m \in Contact \cup {None}
  <2>1. a \in Pending
    BY DEF Inv, TypeOK
  <2> QED
    BY <2>1, <1>1 DEF Pending, Idle
<1>4. /\ life[a.c] # "new"
      /\ a.m # None => a.m \in Meta /\ a.c \notin Meta
  BY <1>1 DEF Inv, PendOK
<1>5. PICK N \in SUBSET Row :
        /\ srt' = srt \cup N /\ IsFiniteSet(N)
        /\ \A r \in N : r.id = e
        /\ a.c \in Live => \E r \in N : r.c = a.c
        /\ a.c \in Live /\ a.m = None => \A r \in N : r.c = a.c
        /\ used \subseteq Live => \A r \in N : r.c \in used
        /\ used \subseteq Live => \A r, q \in N : r.c = q.c /\ r.c \notin Meta => r = q
        /\ count' \in [Contact -> Int]
  <2>0. srt \in SUBSET Row /\ count \in [Contact -> Int]
    BY DEF Inv, TypeOK
  <2>1. CASE a.m = None
    <3>1. PICK x \in Cached(a.c) :
            srt' \in AddEventSrt(srt, e, x, a.ts) /\ count' = [count EXCEPT ![x] = @ + 1]
      BY <2>1, <1>1 DEF AddEventEnd
    <3>2. x \in Contact /\ (a.c \in Live => x = a.c)
      BY <1>3 DEF Cached, Live
    <3>3. PICK t \in Stamp : [id |-> e, c |-> x, ts |-> t] \in Row
                             /\ srt' = srt \cup {[id |-> e, c |-> x, ts |-> t]}
      <4>1. srt' \in AddEventSrt(srt, e, x, a.ts) /\ x \in Contact /\ e \in Id /\ srt \in SUBSET Row
        BY <3>1, <3>2, <1>2, <2>0
      <4> HIDE DEF a, e
      <4> QED
        BY <4>1 DEF AddEventSrt, Row
    <3>4. IsFiniteSet({[id |-> e, c |-> x, ts |-> t]})
      BY FS_Singleton
    <3>5. count' \in [Contact -> Int]
      BY <3>1, <3>2, <2>0
    <3>6. {[id |-> e, c |-> x, ts |-> t]} \in SUBSET Row
      BY <3>3
    <3>7. [id |-> e, c |-> x, ts |-> t].id = e /\ [id |-> e, c |-> x, ts |-> t].c = x
      OBVIOUS
    <3> QED
      BY <3>2, <3>3, <3>4, <3>5, <3>6, <3>7, <2>1
  <2>2. CASE a.m # None
    <3>1. PICK x \in Cached(a.c), y \in Cached(a.m) :
            /\ \E S \in AddEventSrt(srt, e, y, a.ts) : srt' \in AddEventSrt(S, e, x, a.ts)
            /\ count' = [[count EXCEPT ![y] = @ + 1] EXCEPT ![x] = @ + 1]
      BY <2>2, <1>1 DEF AddEventEnd
    <3>2. x \in Contact /\ (a.c \in Live => x = a.c) /\ y \in Contact /\ (a.m \in Live => y = a.m)
      BY <1>3, <2>2 DEF Cached, Live
    <3>3. PICK S \in AddEventSrt(srt, e, y, a.ts) : srt' \in AddEventSrt(S, e, x, a.ts)
      BY <3>1
    <3>4. PICK u \in Stamp : [id |-> e, c |-> y, ts |-> u] \in Row
                             /\ S = srt \cup {[id |-> e, c |-> y, ts |-> u]}
      <4>1. S \in AddEventSrt(srt, e, y, a.ts) /\ y \in Contact /\ e \in Id /\ srt \in SUBSET Row
        BY <3>2, <3>3, <1>2, <2>0
      <4> HIDE DEF a, e
      <4> QED
        BY <4>1 DEF AddEventSrt, Row
    <3>5. S \in SUBSET Row
      BY <3>4, <2>0
    <3>6. PICK t \in Stamp : [id |-> e, c |-> x, ts |-> t] \in Row
                             /\ srt' = S \cup {[id |-> e, c |-> x, ts |-> t]}
      <4>1. srt' \in AddEventSrt(S, e, x, a.ts) /\ x \in Contact /\ e \in Id
        BY <3>2, <3>3, <1>2
      <4> HIDE DEF a, e
      <4> QED
        BY <4>1, <3>5 DEF AddEventSrt, Row
    <3> DEFINE ry == [id |-> e, c |-> y, ts |-> u]
               rx == [id |-> e, c |-> x, ts |-> t]
    <3>7. ry.id = e /\ ry.c = y /\ rx.id = e /\ rx.c = x /\ ry \in Row /\ rx \in Row
      BY <3>4, <3>6
    <3>8. srt' = srt \cup {ry, rx}
      BY <3>4, <3>6
    <3>9. IsFiniteSet({ry, rx})
      <4>1. IsFiniteSet({ry})
        BY FS_Singleton
      <4>2. IsFiniteSet({ry} \cup {rx})
        BY <4>1, FS_AddElement
      <4>3. {ry, rx} = {ry} \cup {rx}
        OBVIOUS
      <4> QED
        BY <4>2, <4>3
    <3>10. count' \in [Contact -> Int]
      <4>1. [count EXCEPT ![y] = @ + 1] \in [Contact -> Int]
        BY <3>2, <2>0
      <4> QED
        BY <4>1, <3>1, <3>2
    <3> HIDE DEF rx, ry
    <3> QED
      BY <3>2, <3>7, <3>8, <3>9, <3>10, <2>2, <1>4
  <2> QED
    BY <2>1, <2>2
<1> HIDE DEF a, e
<1>6. TypeOK'
  <2>1. srt' \subseteq Row
    BY <1>5 DEF Inv, TypeOK
  <2>2. pend' \in [Proc -> Pending]
    BY <1>1 DEF Inv, TypeOK, Pending
  <2>3. owner' \in [Id -> Contact \cup {None}]
    BY <1>1, <1>2, <1>3 DEF Inv, TypeOK
  <2>4. freed' \in BOOLEAN
    BY <1>1
  <2> QED
    BY <1>1, <1>2, <1>5, <2>1, <2>2, <2>3, <2>4 DEF Inv, TypeOK
<1>7. IdsOK'
  <2>1. IsFiniteSet(srt')
    BY <1>5, FS_Union DEF Inv, IdsOK
  <2>2. lastId \in Int /\ \A r \in srt : r.id \in Int
    BY DEF Inv, TypeOK, Row, Id
  <2>3. \A r \in srt' : r.id <= lastId'
    BY <1>1, <1>5, <2>2 DEF Inv, IdsOK, e
  <2>4. \A d \in Id : owner'[d] # None => d <= lastId' /\ life'[owner'[d]] # "new"
    BY <1>1, <1>4, <2>2 DEF Inv, TypeOK, IdsOK, e, Id
  <2> QED
    BY <2>1, <2>3, <2>4 DEF IdsOK
<1>8. PendOK' /\ ParentOK' /\ LinkOK' /\ JobOK'
  <2>1. Idle.op # "add"
    BY DEF Idle
  <2> QED
    BY <1>1, <2>1 DEF Inv, TypeOK, PendOK, ParentOK, LinkOK, JobOK, Live
<1>9. \A r \in srt : r.id \in Id /\ r.id # e /\ owner'[r.id] = owner[r.id]
  <2>1. lastId \in Int /\ \A r \in srt : r.id \in Int /\ r.id \in Id
    BY DEF Inv, TypeOK, Row, Id
  <2> QED
    BY <1>1, <2>1 DEF Inv, IdsOK, TypeOK, e
<1>10. owner'[e] = a.c /\ \A d \in Id : d # e => owner'[d] = owner[d]
  BY <1>1, <1>2 DEF Inv, TypeOK
<1>11. Live' = Live
  BY <1>1 DEF Live
<1>12. MetaRowsOK'
  BY <1>4, <1>5, <1>9, <1>10, <1>11 DEF Inv, MetaRowsOK
<1>13. NothingLost'
  BY <1>5, <1>10, <1>11 DEF Inv, NothingLost
<1>14. OwnEventsOnly'
  <2> SUFFICES ASSUME ~freed', NEW r \in srt', r.c \notin Meta
               PROVE  owner'[r.id] = r.c /\ \A q \in srt' : q.c = r.c /\ q.id = r.id => q = r
    BY DEF OwnEventsOnly
  <2>1. ~freed /\ used \subseteq Live
    BY <1>1
  <2>2. CASE r \in srt
    BY <2>1, <2>2, <1>5, <1>9 DEF Inv, OwnEventsOnly
  <2>3. CASE r \in N
    <3>1. r.c = a.c
      BY <2>1, <2>3, <1>4, <1>5
    <3> QED
      BY <3>1, <2>1, <2>3, <1>5, <1>9, <1>10
  <2> QED
    BY <2>2, <2>3, <1>5
<1> QED
  BY <1>6, <1>7, <1>8, <1>12, <1>13, <1>14 DEF Inv

(* A deleted event takes all its rows with it. *)
LEMMA DeleteEventEndInv ==
  ASSUME Inv, NEW p \in Proc, DeleteEventEnd(p)
  PROVE  Inv'
<1> DEFINE a == pend[p]
<1> USE HistoryAssumption
<1>1. /\ a.op = "delete"
      /\ owner' = [owner EXCEPT ![a.e] = None]
      /\ srt' = {r \in srt : r.id # a.e}
      /\ freed' = (freed \/ a.c \notin Live)
      /\ raced' = (raced \/ owner[a.e] = None)
      /\ pend' = [pend EXCEPT ![p] = Idle]
      /\ UNCHANGED <<life, lastId, parent, saved, job>>
  BY DEF DeleteEventEnd
<1>2. PICK x \in Cached(a.c) :
        count' = [c \in Contact |->
                    count[c] - (IF c = x THEN 1 ELSE 0)
                             - (IF c = parent[x] /\ c \in Live THEN 1 ELSE 0)]
  BY DEF DeleteEventEnd
<1>3. count' \in [Contact -> Int]
  BY <1>2 DEF Inv, TypeOK
<1> HIDE DEF a
<1>4. TypeOK'
  <2>1. Idle \in Pending /\ freed' \in BOOLEAN /\ raced' \in BOOLEAN
    BY <1>1 DEF Pending
  <2>2. srt' \subseteq Row /\ owner' \in [Id -> Contact \cup {None}] /\ pend' \in [Proc -> Pending]
    BY <1>1, <2>1 DEF Inv, TypeOK
  <2> QED
    BY <1>1, <1>3, <2>1, <2>2 DEF Inv, TypeOK
<1>5. \A d \in Id : owner'[d] = IF d = a.e THEN None ELSE owner[d]
  BY <1>1 DEF Inv, TypeOK
<1>6. IdsOK'
  <2>1. IsFiniteSet(srt')
    BY <1>1, FS_Subset DEF Inv, IdsOK
  <2> QED
    BY <1>1, <1>5, <2>1 DEF Inv, IdsOK
<1>7. PendOK' /\ ParentOK' /\ LinkOK' /\ JobOK'
  <2>1. Idle.op # "add"
    BY DEF Idle
  <2> QED
    BY <1>1, <2>1 DEF Inv, TypeOK, PendOK, ParentOK, LinkOK, JobOK, Live
<1>8. \A r \in srt' : r \in srt /\ r.id \in Id /\ owner'[r.id] = owner[r.id]
  <2>1. \A r \in srt : r.id \in Id
    BY DEF Inv, TypeOK, Row
  <2> QED
    BY <1>1, <1>5, <2>1
<1>9. Live' = Live
  BY <1>1 DEF Live
<1>10. MetaRowsOK'
  BY <1>8, <1>9 DEF Inv, MetaRowsOK
<1>12. OwnEventsOnly'
  <2>1. ~freed' => ~freed
    BY <1>1
  <2> QED
    BY <1>8, <2>1 DEF Inv, OwnEventsOnly
<1>11. NothingLost'
  <2>1. None \notin Live
    BY DEF Live
  <2> QED
    BY <1>1, <1>5, <1>9, <2>1 DEF Inv, NothingLost
<1> QED
  BY <1>4, <1>6, <1>7, <1>10, <1>11, <1>12 DEF Inv

(* A contact that was new has no events and no links. *)
LEMMA AddContactInv ==
  ASSUME Inv, NEW c \in Contact, AddContact(c)
  PROVE  Inv'
<1> USE HistoryAssumption
<1>1. /\ life[c] = "new" /\ life' = [life EXCEPT ![c] = "live"]
      /\ UNCHANGED <<owner, lastId, srt, count, parent, saved, pend, job, freed, raced>>
  BY DEF AddContact
<1>2. Live' = Live \cup {c} /\ \A d \in Contact : life'[d] = "new" => life[d] = "new"
  BY <1>1 DEF Inv, TypeOK, Live
<1>3. TypeOK'
  BY <1>1 DEF Inv, TypeOK
<1>4. \A e \in Id : owner[e] # c
  BY <1>1 DEF Inv, IdsOK
<1>5. IdsOK' /\ PendOK' /\ ParentOK' /\ LinkOK' /\ JobOK'
  <2>1. \A p \in Proc : pend[p].op = "add" => pend[p].c \in Contact
    BY DEF Inv, TypeOK, Pending, Idle
  <2>2. \A e \in Id : owner[e] # None => owner[e] \in Contact
    BY DEF Inv, TypeOK
  <2>3. IdsOK'
    BY <1>1, <1>2, <2>2 DEF Inv, IdsOK
  <2>4. PendOK'
    BY <1>1, <1>2, <2>1 DEF Inv, PendOK
  <2> QED
    BY <1>1, <1>2, <2>3, <2>4 DEF Inv, ParentOK, LinkOK, JobOK
<1>6. NothingLost' /\ MetaRowsOK' /\ OwnEventsOnly'
  <2>1. \A r \in srt : r.id \in Id
    BY DEF Inv, TypeOK, Row
  <2> QED
    BY <1>1, <1>2, <1>4, <2>1 DEF Inv, NothingLost, MetaRowsOK, OwnEventsOnly
<1> QED
  BY <1>3, <1>5, <1>6 DEF Inv

(* Linking touches no table. *)
LEMMA AssignInv ==
  ASSUME Inv, NEW s \in Contact, NEW m \in Meta, Meta_Assign(s, m)
  PROVE  Inv'
<1> USE HistoryAssumption
<1>1. /\ s \in Live /\ s \notin Meta /\ m \in Live /\ m \in Contact
      /\ parent' = [parent EXCEPT ![s] = m] /\ saved' = [saved EXCEPT ![s] = m]
      /\ job' = [op |-> "merge", s |-> s, m |-> m]
      /\ UNCHANGED <<life, owner, lastId, srt, count, pend, freed, raced>>
  BY DEF Meta_Assign
<1>2. job' \in Job /\ job'.op = "merge" /\ job'.s = s /\ job'.m = m
  BY <1>1 DEF Job
<1>3. TypeOK'
  BY <1>1, <1>2 DEF Inv, TypeOK
<1>4. Live' = Live
  BY <1>1 DEF Live
<1>5. ParentOK' /\ LinkOK' /\ JobOK'
  BY <1>1, <1>2, <1>4 DEF Inv, TypeOK, ParentOK, LinkOK, JobOK
<1>6. IdsOK' /\ PendOK' /\ MetaRowsOK' /\ NothingLost' /\ OwnEventsOnly'
  BY <1>1, <1>4 DEF Inv, IdsOK, PendOK, MetaRowsOK, NothingLost, OwnEventsOnly
<1> QED
  BY <1>3, <1>5, <1>6 DEF Inv

(* Merging adds rows to the chain of a metacontact only. *)
LEMMA MergeInv ==
  ASSUME Inv, MetaMergeHistory
  PROVE  Inv'
<1> DEFINE s == job.s
           m == job.m
           copy == {[r EXCEPT !.c = m] : r \in Chain(s)}
<1> USE HistoryAssumption
<1>1. /\ job.op = "merge" /\ job' = Idle
      /\ UNCHANGED <<life, owner, lastId, parent, saved, pend, freed, raced>>
  BY DEF MetaMergeHistory
<1>2. s \in Contact /\ m \in Contact /\ s \notin Meta /\ m \in Meta
  <2>1. job \in Job
    BY DEF Inv, TypeOK
  <2>2. s \in Contact /\ m \in Contact
    BY <1>1, <2>1 DEF Job, Idle
  <2> QED
    BY <1>1, <2>2 DEF Inv, JobOK
<1>3. \A q \in copy : q \in Row /\ q.c = m /\ \E r \in srt : r.c = s /\ r.id = q.id
  BY <1>2 DEF Chain, Inv, TypeOK, Row
<1>4. IsFiniteSet(copy) /\ IsFiniteSet(Chain(m))
  <2>1. IsFiniteSet(Chain(s)) /\ IsFiniteSet(Chain(m))
    BY FS_Subset DEF Chain, Inv, IdsOK
  <2> DEFINE f == [r \in Chain(s) |-> [r EXCEPT !.c = m]]
  <2>2. f \in Surjection(Chain(s), copy)
    BY DEF Surjection
  <2> QED
    BY <2>1, <2>2, FS_Surjection
<1>5. PICK N \in SUBSET copy : srt' = srt \cup N
  <2> DEFINE taken == {r.ts : r \in Chain(job.m)}
             before == {r \in copy : \A t \in taken : t \in {q.ts : q \in copy} => r.ts < t}
  <2>1. srt' \in {srt \cup copy, srt, srt \cup before}
    BY DEF MetaMergeHistory
  <2>2. before \subseteq copy
    OBVIOUS
  <2> HIDE DEF before, copy
  <2>3. srt = srt \cup {} /\ {} \in SUBSET copy /\ copy \in SUBSET copy /\ before \in SUBSET copy
    BY <2>2
  <2>4. \/ srt' = srt \cup copy
        \/ srt' = srt \cup {}
        \/ srt' = srt \cup before
    BY <2>1, <2>3, Zenon
  <2> QED
    BY <2>3, <2>4, Zenon
<1>6. count' \in [Contact -> Int]
  <2>1. Cardinality(Chain(m) \cup copy) \in Nat
    BY <1>4, FS_Union, FS_CardinalityType
  <2> HIDE DEF copy
  <2>2. \/ count' = [count EXCEPT ![m] = Cardinality(Chain(m) \cup copy)]
        \/ count' = count
    BY DEF MetaMergeHistory, copy
  <2>3. Cardinality(Chain(m) \cup copy) \in Int
    BY <2>1
  <2> QED
    BY <2>2, <2>3, <1>2 DEF Inv, TypeOK
<1> HIDE DEF copy, s, m
<1>7. \A q \in N : q \in Row /\ q.c = m /\ \E r \in srt : r.c = s /\ r.id = q.id
  BY <1>3
<1>8. TypeOK'
  <2>1. Idle \in Job
    BY DEF Job
  <2>2. srt' \subseteq Row
    BY <1>5, <1>7 DEF Inv, TypeOK
  <2> QED
    BY <1>1, <1>6, <2>1, <2>2 DEF Inv, TypeOK
<1>9. IdsOK'
  <2>1. IsFiniteSet(N)
    BY <1>4, FS_Subset
  <2>2. IsFiniteSet(srt')
    BY <2>1, <1>5, FS_Union DEF Inv, IdsOK
  <2> QED
    BY <2>2, <1>1, <1>5, <1>7 DEF Inv, IdsOK
<1>10. PendOK' /\ ParentOK' /\ LinkOK' /\ JobOK'
  <2>1. Idle.op = "none"
    BY DEF Idle
  <2> QED
    BY <1>1, <2>1 DEF Inv, PendOK, ParentOK, LinkOK, JobOK, Live
<1>11. Live' = Live
  BY <1>1 DEF Live
<1>12. MetaRowsOK'
  BY <1>1, <1>2, <1>5, <1>7, <1>11 DEF Inv, MetaRowsOK
<1>13. NothingLost' /\ OwnEventsOnly'
  BY <1>1, <1>2, <1>5, <1>7, <1>11 DEF Inv, NothingLost, OwnEventsOnly
<1> QED
  BY <1>8, <1>9, <1>10, <1>12, <1>13 DEF Inv

(* Splitting takes rows out of the metacontact's chain only; none of them is *)
(* the metacontact's own event.                                              *)
LEMMA SplitInv ==
  ASSUME Inv, NEW s \in Contact, NEW m \in Contact, s \notin Meta, m \in Meta,
         NEW all \in BOOLEAN, MetaSplitHistory(s, m, all)
  PROVE  Inv'
<1> DEFINE ids == {r.id : r \in Chain(s)}
<1> USE HistoryAssumption
<1>1. /\ saved' = [saved EXCEPT ![s] = None]
      /\ srt' = {r \in srt : ~(r.c = m /\ r.id \in ids)}
      /\ job' = [op |-> "unlink", s |-> s, m |-> m, all |-> all]
      /\ UNCHANGED <<life, owner, lastId, count, parent, pend, freed, raced>>
  BY DEF MetaSplitHistory
<1>2. job' \in Job /\ job'.op = "unlink" /\ job'.s = s /\ job'.m = m
  BY <1>1 DEF Job
<1>3. \A r \in srt : r.id \in ids => \E q \in srt : q.c = s /\ q.id = r.id
  BY DEF Chain
<1> HIDE DEF ids
<1>4. TypeOK'
  BY <1>1, <1>2 DEF Inv, TypeOK
<1>5. Live' = Live
  BY <1>1 DEF Live
<1>6. IdsOK'
  <2>1. IsFiniteSet(srt')
    BY <1>1, FS_Subset DEF Inv, IdsOK
  <2> QED
    BY <1>1, <2>1 DEF Inv, IdsOK
<1>7. PendOK' /\ ParentOK' /\ LinkOK' /\ JobOK'
  BY <1>1, <1>2, <1>5 DEF Inv, TypeOK, PendOK, ParentOK, LinkOK, JobOK
<1>8. MetaRowsOK' /\ OwnEventsOnly'
  BY <1>1, <1>5 DEF Inv, MetaRowsOK, OwnEventsOnly
<1>9. NothingLost'
  <2> SUFFICES ASSUME NEW e \in Id, owner[e] \in Live
               PROVE  \E r \in srt' : r.id = e /\ r.c = owner[e]
    BY <1>1, <1>5 DEF NothingLost
  <2>1. PICK r \in srt : r.id = e /\ r.c = owner[e]
    BY DEF Inv, NothingLost
  <2>2. ~(r.c = m /\ r.id \in ids)
    BY <2>1, <1>3 DEF Inv, MetaRowsOK
  <2> QED
    BY <1>1, <2>1, <2>2
<1> QED
  BY <1>4, <1>6, <1>7, <1>8, <1>9 DEF Inv

(* The steps of Meta_Delete. *)
LEMMA MetaDeleteInv ==
  ASSUME Inv, (\E c \in Contact : Meta_Delete(c)) \/ Unlink \/ Dissolve
  PROVE  Inv'
<1> USE HistoryAssumption
<1>0. \A m \in Contact : m \in Meta => \A s \in Subs(m) : s \in Contact /\ s \notin Meta
  BY DEF Subs, Live, Inv, ParentOK
<1>00. TRUE \in BOOLEAN /\ FALSE \in BOOLEAN
  OBVIOUS
<1>1. CASE \E c \in Contact : Meta_Delete(c)
  <2>1. PICK c \in Contact : Meta_Delete(c)
    BY <1>1
  <2>2. CASE c \in Meta /\ \E s \in Subs(c) : MetaSplitHistory(s, c, TRUE)
    BY <2>2, <1>0, <1>00, SplitInv
  <2>3. CASE parent[c] \in Live /\ MetaSplitHistory(c, parent[c], Subs(parent[c]) = {c})
    <3>1. parent[c] \in Contact /\ parent[c] \in Meta /\ c \notin Meta
      BY <2>3 DEF Live, Inv, ParentOK
    <3>2. (Subs(parent[c]) = {c}) \in BOOLEAN
      OBVIOUS
    <3> QED
      BY <2>3, <3>1, <3>2, SplitInv
  <2> QED
    BY <2>1, <2>2, <2>3 DEF Meta_Delete
<1>2. CASE Unlink
  <2>1. /\ job.op = "unlink" /\ parent' = [parent EXCEPT ![job.s] = None]
        /\ UNCHANGED <<life, owner, lastId, srt, count, saved, pend, freed, raced>>
    BY <1>2 DEF Unlink
  <2>2. job.s \in Contact /\ job.m \in Contact /\ job.m \in Meta /\ saved[job.s] = None
    <3>1. job \in Job
      BY DEF Inv, TypeOK
    <3>2. job.s \in Contact /\ job.m \in Contact
      BY <2>1, <3>1 DEF Job, Idle
    <3> QED
      BY <2>1, <3>2 DEF Inv, JobOK
  <2>3. job' \in Job /\ (job'.op = "none" \/ (job'.op = "dissolve" /\ job'.m \in Meta))
    BY <1>2, <2>2 DEF Unlink, Job, Idle
  <2>4. TypeOK'
    BY <2>1, <2>3 DEF Inv, TypeOK
  <2>5. Live' = Live
    BY <2>1 DEF Live
  <2>6. ParentOK' /\ LinkOK'
    BY <2>1, <2>2, <2>5 DEF Inv, TypeOK, ParentOK, LinkOK
  <2>7. JobOK'
    BY <2>3 DEF JobOK
  <2>8. IdsOK' /\ PendOK' /\ MetaRowsOK' /\ NothingLost' /\ OwnEventsOnly'
    BY <2>1, <2>5 DEF Inv, IdsOK, PendOK, MetaRowsOK, NothingLost, OwnEventsOnly
  <2> QED
    BY <2>4, <2>6, <2>7, <2>8 DEF Inv
<1>3. CASE Dissolve
  <2>1. job.op = "dissolve" /\ job.m \in Contact /\ job.m \in Meta
    <3>1. job \in Job /\ job.op = "dissolve"
      BY <1>3 DEF Inv, TypeOK, Dissolve
    <3> QED
      BY <3>1 DEF Job, Idle, Inv, JobOK
  <2>2. CASE Subs(job.m) # {}
    BY <1>3, <2>1, <2>2, <1>0, <1>00, SplitInv DEF Dissolve
  <2>3. CASE Subs(job.m) = {}
    <3>1. /\ job' = [op |-> "delete", c |-> job.m, then |-> None]
          /\ UNCHANGED <<life, owner, lastId, srt, count, parent, saved, pend, freed, raced>>
      BY <1>3, <2>3 DEF Dissolve
    <3>2. job' \in Job /\ job'.op = "delete" /\ job'.c = job.m /\ job'.then = None
      BY <3>1, <2>1 DEF Job
    <3>3. \A c \in Contact : saved[c] # job.m
      BY <2>1, <2>3 DEF Inv, LinkOK, Subs
    <3>4. TypeOK' /\ JobOK'
      BY <3>1, <3>2, <3>3 DEF Inv, TypeOK, JobOK
    <3>5. IdsOK' /\ PendOK' /\ ParentOK' /\ LinkOK' /\ MetaRowsOK' /\ NothingLost' /\ OwnEventsOnly'
      BY <3>1 DEF Inv, IdsOK, PendOK, ParentOK, LinkOK, MetaRowsOK, NothingLost, OwnEventsOnly, Live
    <3> QED
      BY <3>4, <3>5 DEF Inv
  <2> QED
    BY <2>2, <2>3
<1> QED
  BY <1>1, <1>2, <1>3

(* Deleting contacts, and loading the profile again. *)
LEMMA DeleteContactInv ==
  ASSUME Inv, (\E c \in Contact : db_delete_contact(c)) \/ DeleteContact \/ Load
  PROVE  Inv'
<1> USE HistoryAssumption
<1>1. CASE \E c \in Contact : db_delete_contact(c)
  <2>1. PICK c \in Contact : db_delete_contact(c)
    BY <1>1
  <2>2. /\ saved' = [s \in Contact |-> IF s \in Subs(c) \cup {c} THEN None ELSE saved[s]]
        /\ job' = IF parent[c] \in Live /\ Subs(parent[c]) = {c}
                  THEN [op |-> "delete", c |-> parent[c], then |-> c]
                  ELSE [op |-> "delete", c |-> c, then |-> None]
        /\ UNCHANGED <<life, owner, lastId, srt, count, parent, pend, freed, raced>>
    BY <2>1 DEF db_delete_contact, Meta_ContactDeleted
  <2>3. Live' = Live
    BY <2>2 DEF Live
  <2>4. \A s \in Contact : saved'[s] # None => saved'[s] = saved[s] /\ saved'[s] # c /\ s # c
    BY <2>2 DEF Inv, LinkOK, Subs
  <2>5. job' \in Job /\ job'.op = "delete"
        /\ \A s \in Contact : saved'[s] # None => saved'[s] \notin {job'.c, job'.then}
    <3>1. CASE parent[c] \in Live /\ Subs(parent[c]) = {c}
      <4>1. job' = [op |-> "delete", c |-> parent[c], then |-> c]
        BY <2>2, <3>1
      <4>2. job' \in Job /\ job'.op = "delete" /\ job'.c = parent[c] /\ job'.then = c
        BY <4>1, <3>1 DEF Job, Live
      <4>3. \A s \in Contact : saved[s] = parent[c] => s = c
        BY <3>1 DEF Inv, LinkOK, Subs, Live
      <4> QED
        BY <2>4, <4>2, <4>3
    <3>2. CASE ~(parent[c] \in Live /\ Subs(parent[c]) = {c})
      <4>1. job' = [op |-> "delete", c |-> c, then |-> None]
        BY <2>2, <3>2
      <4>2. job' \in Job /\ job'.op = "delete" /\ job'.c = c /\ job'.then = None
        BY <4>1 DEF Job
      <4> QED
        BY <2>4, <4>2
    <3> QED
      BY <3>1, <3>2
  <2>6. TypeOK' /\ JobOK'
    BY <2>2, <2>5 DEF Inv, TypeOK, JobOK
  <2>7. LinkOK'
    BY <2>2, <2>3, <2>4 DEF Inv, LinkOK
  <2>8. IdsOK' /\ PendOK' /\ ParentOK' /\ MetaRowsOK' /\ NothingLost' /\ OwnEventsOnly'
    BY <2>2, <2>3 DEF Inv, IdsOK, PendOK, ParentOK, MetaRowsOK, NothingLost, OwnEventsOnly
  <2> QED
    BY <2>6, <2>7, <2>8 DEF Inv
<1>2. CASE DeleteContact
  <2> DEFINE c == job.c
  <2>1. /\ job.op = "delete"
        /\ owner' = [e \in Id |-> IF owner[e] = c THEN None ELSE owner[e]]
        /\ srt' = srt \ Chain(c)
        /\ saved' = [saved EXCEPT ![c] = None]
        /\ life' = [life EXCEPT ![c] = "gone"]
        /\ job' = IF job.then = None THEN Idle ELSE [op |-> "delete", c |-> job.then, then |-> None]
        /\ UNCHANGED <<lastId, count, parent, pend, freed, raced>>
    BY <1>2 DEF DeleteContact
  <2>2. c \in Contact /\ job.then \in Contact \cup {None}
    <3>1. job \in Job
      BY DEF Inv, TypeOK
    <3> QED
      BY <2>1, <3>1 DEF Job, Idle
  <2>3. \A s \in Contact : saved[s] # None => saved[s] \notin {c, job.then}
    BY <2>1 DEF Inv, JobOK
  <2> HIDE DEF c
  <2>4. \/ job' = Idle
        \/ job' = [op |-> "delete", c |-> job.then, then |-> None] /\ job.then \in Contact
    BY <2>1, <2>2
  <2>5. job' \in Job
        /\ (job'.op = "none" \/ (job'.op = "delete" /\ job'.c = job.then /\ job'.then = None))
    BY <2>4 DEF Job, Idle
  <2>6. \A s \in Contact : saved'[s] # None => saved'[s] = saved[s] /\ s # c
    BY <2>1, <2>2 DEF Inv, TypeOK
  <2>7. TypeOK'
    BY <2>1, <2>2, <2>5 DEF Inv, TypeOK
  <2>8. JobOK'
    BY <2>3, <2>5, <2>6 DEF JobOK
  <2>9. Live' = Live \ {c} /\ \A d \in Contact : life'[d] = "new" => life[d] = "new"
    BY <2>1, <2>2 DEF Inv, TypeOK, Live
  <2>10. LinkOK'
    BY <2>1, <2>3, <2>6, <2>9 DEF Inv, LinkOK
  <2>11. \A e \in Id : owner'[e] # None => owner'[e] = owner[e] /\ owner'[e] # c /\ owner[e] \in Contact
    BY <2>1, <2>2 DEF Inv, TypeOK
  <2>12. IdsOK'
    <3>1. IsFiniteSet(srt')
      BY <2>1, FS_Subset DEF Inv, IdsOK
    <3>2. \A r \in srt' : r.id <= lastId'
      BY <2>1 DEF Inv, IdsOK
    <3>3. \A e \in Id : owner'[e] # None => e <= lastId' /\ life'[owner'[e]] # "new"
      BY <2>1, <2>9, <2>11 DEF Inv, IdsOK
    <3> QED
      BY <3>1, <3>2, <3>3 DEF IdsOK
  <2>13. PendOK' /\ ParentOK'
    <3>1. \A p \in Proc : pend[p].op = "add" => pend[p].c \in Contact
      BY DEF Inv, TypeOK, Pending, Idle
    <3> QED
      BY <2>1, <2>9, <3>1 DEF Inv, PendOK, ParentOK
  <2>14. \A r \in srt' : r \in srt /\ r.c # c /\ r.id \in Id
    BY <2>1 DEF Chain, Inv, TypeOK, Row
  <2>15. MetaRowsOK'
    BY <2>9, <2>11, <2>14 DEF Inv, MetaRowsOK, Live
  <2>16. OwnEventsOnly'
    BY <2>1, <2>14 DEF Inv, OwnEventsOnly
  <2>17. NothingLost'
    BY <2>1, <2>9, <2>11 DEF Inv, NothingLost, Chain, Live
  <2> QED
    BY <2>7, <2>8, <2>10, <2>12, <2>13, <2>15, <2>16, <2>17 DEF Inv
<1>3. CASE Load
  <2>1. /\ count' = [c \in Contact |-> Cardinality(Chain(c))]
        /\ parent' = saved
        /\ UNCHANGED <<life, owner, lastId, srt, saved, pend, job, freed, raced>>
    BY <1>3 DEF Load
  <2>2. \A c \in Contact : Cardinality(Chain(c)) \in Int
    <3> SUFFICES ASSUME NEW c \in Contact PROVE Cardinality(Chain(c)) \in Int
      OBVIOUS
    <3>1. IsFiniteSet(Chain(c))
      BY FS_Subset DEF Chain, Inv, IdsOK
    <3>2. Cardinality(Chain(c)) \in Nat
      BY <3>1, FS_CardinalityType
    <3> QED
      BY <3>2
  <2>3. TypeOK'
    BY <2>1, <2>2 DEF Inv, TypeOK
  <2>4. ParentOK' /\ LinkOK'
    BY <2>1 DEF Inv, ParentOK, LinkOK, Live
  <2>5. IdsOK' /\ PendOK' /\ JobOK' /\ MetaRowsOK' /\ NothingLost' /\ OwnEventsOnly'
    BY <2>1 DEF Inv, IdsOK, PendOK, JobOK, MetaRowsOK, NothingLost, OwnEventsOnly, Live
  <2> QED
    BY <2>3, <2>4, <2>5 DEF Inv
<1> QED
  BY <1>1, <1>2, <1>3

(* Nothing happens.                                                        *)
LEMMA StutterInv ==
  ASSUME Inv, UNCHANGED vars
  PROVE  Inv'
BY DEF Inv, vars, TypeOK, IdsOK, PendOK, ParentOK, LinkOK, JobOK, MetaRowsOK,
       NothingLost, OwnEventsOnly, Live

(* The inductive invariant: the tables, the links in the cache and in the   *)
(* settings, the calls and the main thread's job stay consistent.           *)
THEOREM HistoryInvariant == Spec => []Inv
<1>1. Inv /\ [Next]_vars => Inv'
  <2> SUFFICES ASSUME Inv, [Next]_vars PROVE Inv'
    OBVIOUS
  <2>1. CASE UNCHANGED vars
    BY <2>1, StutterInv
  <2>2. CASE \E p \in Proc : EventStep(p)
    BY <2>2, BeginInv, AddEventEndInv, DeleteEventEndInv DEF EventStep
  <2>3. CASE MainStep
    <3>1. CASE \E c \in Contact : AddContact(c)
      BY <3>1, AddContactInv
    <3>2. CASE \E s \in Contact, m \in Meta : Meta_Assign(s, m)
      BY <3>2, AssignInv
    <3> QED
      BY <2>3, <3>1, <3>2, MergeInv, MetaDeleteInv, DeleteContactInv DEF MainStep
  <2> QED
    BY <2>1, <2>2, <2>3 DEF Next
<1> QED
  BY <1>1, InitInv, PTL DEF Spec

(* The variables of the driver and of the metacontacts keep their types. *)
THEOREM HistoryTypeCorrect == Spec => []TypeOK
<1>1. Inv => TypeOK
  BY DEF Inv
<1> QED
  BY <1>1, HistoryInvariant, PTL

(* AddEvent, DeleteEvent, merges, splits and deletions, in any order: an     *)
(* event that is stored is in the chain of its contact.                      *)
THEOREM NoEventIsLost == Spec => []NothingLost
<1>1. Inv => NothingLost
  BY DEF Inv
<1> QED
  BY <1>1, HistoryInvariant, PTL

(* As long as no call outlives its contact, the chain of an ordinary contact *)
(* is exactly made of its own events, each once.                             *)
THEOREM ChainsAreSeparate == Spec => []OwnEventsOnly
<1>1. Inv => OwnEventsOnly
  BY DEF Inv
<1> QED
  BY <1>1, HistoryInvariant, PTL

(* Meta_ContactDeleted and Meta_Delete leave no saved link to a contact that *)
(* is gone.                                                                  *)
THEOREM LinksAreLive == Spec => []SavedLinksAreLive
<1>1. Inv => SavedLinksAreLive
  BY DEF Inv, LinkOK, SavedLinksAreLive, Live
<1> QED
  BY <1>1, HistoryInvariant, PTL

----------------------------------------------------------------------------
(* The counter, and the log of an ordinary contact.                        *)

(* A pending DeleteEvent is about an event that was given out, of the      *)
(* contact it has looked up, or one that is gone.                          *)
CallsOK ==
  \A p \in Proc : pend[p].op = "delete" =>
    /\ pend[p].c \in Contact /\ pend[p].e \in Id /\ pend[p].e <= lastId
    /\ owner[pend[p].e] \in {pend[p].c, None}

(* The counter of a contact that is not gone; a new one has no rows yet.   *)
CountOK ==
  ~freed /\ ~raced =>
    \A c \in Contact \ Meta : life[c] # "gone" => count[c] = Cardinality(Chain(c))

(* Chains are finite. *)
LEMMA ChainFinite ==
  ASSUME Inv, NEW c
  PROVE  IsFiniteSet(Chain(c)) /\ Cardinality(Chain(c)) \in Nat
<1>1. IsFiniteSet(Chain(c))
  BY FS_Subset DEF Chain, Inv, IdsOK
<1> QED
  BY <1>1, FS_CardinalityType

(* What AddEventSrt may leave. *)
LEMMA SrtRow ==
  ASSUME NEW S, S \subseteq Row, NEW e, NEW c, NEW ts, NEW T \in AddEventSrt(S, e, c, ts)
  PROVE  \E t \in Stamp :
           /\ T = S \cup {[id |-> e, c |-> c, ts |-> t]}
           /\ \A r \in S : r.c = c => r.ts # t
BY DEF AddEventSrt

(* While no call has outlived its contact, AddEvent gives the chain of its *)
(* contact one row, at a free timestamp, and its counter one more.         *)
LEMMA AddedRow ==
  ASSUME Inv, NEW p \in Proc, AddEventEnd(p), ~freed'
  PROVE  /\ pend[p].op = "add" /\ pend[p].c \in Live /\ lastId' = lastId + 1
         /\ \E t \in Stamp :
              /\ \A r \in Chain(pend[p].c) : r.ts # t
              /\ \A c \in Contact \ Meta :
                   /\ Chain(c)' = IF c = pend[p].c
                        THEN Chain(c) \cup {[id |-> lastId + 1, c |-> c, ts |-> t]}
                        ELSE Chain(c)
                   /\ count'[c] = IF c = pend[p].c THEN count[c] + 1 ELSE count[c]
<1> DEFINE a == pend[p]
           e == lastId + 1
           used == {a.c} \cup ({a.m} \ {None})
<1> USE HistoryAssumption
<1>1. a.op = "add" /\ lastId' = e /\ freed' = (freed \/ ~(used \subseteq Live))
  BY DEF AddEventEnd
<1>2. used \subseteq Live /\ a.c \in Live
  BY <1>1
<1>3. a.c \in Contact /\ a.m \in Contact \cup {None}
  <2>1. a \in Pending
    BY DEF Inv, TypeOK
  <2> QED
    BY <2>1, <1>1 DEF Pending, Idle
<1>4. a.m # None => a.m \in Meta /\ a.c \notin Meta /\ a.m \in Live
  BY <1>1, <1>2, <1>3 DEF Inv, PendOK
<1>5. srt \subseteq Row /\ count \in [Contact -> Int]
  BY DEF Inv, TypeOK
<1>6. CASE a.m = None
  <2>1. srt' \in AddEventSrt(srt, e, a.c, a.ts) /\ count' = [count EXCEPT ![a.c] = @ + 1]
    BY <1>1, <1>2, <1>6 DEF AddEventEnd, Cached
  <2> HIDE DEF a, e
  <2>2. PICK t \in Stamp : /\ srt' = srt \cup {[id |-> e, c |-> a.c, ts |-> t]}
                           /\ \A r \in srt : r.c = a.c => r.ts # t
    BY <2>1, <1>5, SrtRow
  <2>3. \A r \in Chain(a.c) : r.ts # t
    BY <2>2 DEF Chain
  <2>4. \A c \in Contact \ Meta :
          Chain(c)' = IF c = a.c THEN Chain(c) \cup {[id |-> e, c |-> c, ts |-> t]} ELSE Chain(c)
    BY <2>2 DEF Chain
  <2>5. \A c \in Contact \ Meta : count'[c] = IF c = a.c THEN count[c] + 1 ELSE count[c]
    BY <2>1, <1>3, <1>5
  <2> QED
    BY <1>1, <1>2, <2>3, <2>4, <2>5 DEF a, e
<1>7. CASE a.m # None
  <2>1. /\ \E S \in AddEventSrt(srt, e, a.m, a.ts) : srt' \in AddEventSrt(S, e, a.c, a.ts)
        /\ count' = [[count EXCEPT ![a.m] = @ + 1] EXCEPT ![a.c] = @ + 1]
    BY <1>1, <1>2, <1>4, <1>7 DEF AddEventEnd, Cached
  <2>0. e \in Id
    BY DEF AddEventEnd, Inv, TypeOK, Id
  <2> HIDE DEF a, e
  <2>2. PICK S \in AddEventSrt(srt, e, a.m, a.ts) : srt' \in AddEventSrt(S, e, a.c, a.ts)
    BY <2>1
  <2>3. PICK u \in Stamp : S = srt \cup {[id |-> e, c |-> a.m, ts |-> u]}
    BY <1>5, <2>2, SrtRow
  <2>4. S \subseteq Row
    BY <1>3, <1>5, <1>7, <2>0, <2>3 DEF Row
  <2>5. PICK t \in Stamp : /\ srt' = S \cup {[id |-> e, c |-> a.c, ts |-> t]}
                           /\ \A r \in S : r.c = a.c => r.ts # t
    BY <2>2, <2>4, SrtRow
  <2>6. \A r \in Chain(a.c) : r.ts # t
    BY <2>3, <2>5 DEF Chain
  <2>7. \A c \in Contact \ Meta :
          Chain(c)' = IF c = a.c THEN Chain(c) \cup {[id |-> e, c |-> c, ts |-> t]} ELSE Chain(c)
    BY <1>4, <1>7, <2>3, <2>5 DEF Chain
  <2>8. \A c \in Contact \ Meta : count'[c] = IF c = a.c THEN count[c] + 1 ELSE count[c]
    BY <2>1, <1>3, <1>4, <1>5, <1>7
  <2> QED
    BY <1>1, <1>2, <2>6, <2>7, <2>8 DEF a, e
<1> QED
  BY <1>6, <1>7

(* While no call has outlived its contact, DeleteEvent takes one row, and  *)
(* only from the chain of the event's contact, unless the event is gone.   *)
LEMMA DeletedRow ==
  ASSUME Inv, CallsOK, NEW p \in Proc, DeleteEventEnd(p), ~freed'
  PROVE  /\ pend[p].op = "delete" /\ pend[p].e \in Id
         /\ \A c \in Contact \ Meta :
              /\ Chain(c)' = {r \in Chain(c) : r.id # pend[p].e}
              /\ count'[c] = IF c = pend[p].c THEN count[c] - 1 ELSE count[c]
              /\ c # pend[p].c \/ owner[pend[p].e] = None => Chain(c)' = Chain(c)
              /\ c = pend[p].c /\ owner[pend[p].e] # None =>
                   \E r \in Chain(c) : Chain(c)' = Chain(c) \ {r}
<1> DEFINE a == pend[p]
<1> USE HistoryAssumption
<1>1. /\ a.op = "delete"
      /\ srt' = {r \in srt : r.id # a.e}
      /\ freed' = (freed \/ a.c \notin Live)
  BY DEF DeleteEventEnd
<1>2. ~freed /\ a.c \in Live
  BY <1>1
<1>3. a.c \in Contact /\ a.e \in Id /\ owner[a.e] \in {a.c, None}
  BY <1>1 DEF CallsOK
<1>4. count' = [c \in Contact |->
                  count[c] - (IF c = a.c THEN 1 ELSE 0)
                           - (IF c = parent[a.c] /\ c \in Live THEN 1 ELSE 0)]
  BY <1>2 DEF DeleteEventEnd, Cached
<1>5. count \in [Contact -> Int] /\ srt \subseteq Row
  BY DEF Inv, TypeOK
<1>6. \A c \in Contact \ Meta : c # parent[a.c]
  BY <1>3 DEF Inv, ParentOK
<1> HIDE DEF a
<1> SUFFICES ASSUME NEW c \in Contact \ Meta
             PROVE  /\ Chain(c)' = {r \in Chain(c) : r.id # a.e}
                    /\ count'[c] = IF c = a.c THEN count[c] - 1 ELSE count[c]
                    /\ c # a.c \/ owner[a.e] = None => Chain(c)' = Chain(c)
                    /\ c = a.c /\ owner[a.e] # None =>
                         \E r \in Chain(c) : Chain(c)' = Chain(c) \ {r}
  BY <1>1, <1>3 DEF a
<1>7. Chain(c)' = {r \in Chain(c) : r.id # a.e}
  BY <1>1 DEF Chain
<1>8. count'[c] = IF c = a.c THEN count[c] - 1 ELSE count[c]
  BY <1>4, <1>5, <1>6
<1>9. \A r \in Chain(c) : owner[r.id] = c
                          /\ \A q \in Chain(c) : q.id = r.id => q = r
  BY <1>2 DEF Inv, OwnEventsOnly, Chain
<1>10. c # a.c \/ owner[a.e] = None => Chain(c)' = Chain(c)
  BY <1>3, <1>7, <1>9
<1>11. ASSUME c = a.c, owner[a.e] # None
       PROVE  \E r \in Chain(c) : Chain(c)' = Chain(c) \ {r}
  <2>1. owner[a.e] = c /\ c \in Live
    BY <1>2, <1>3, <1>11
  <2>2. PICK r \in Chain(c) : r.id = a.e
    BY <1>3, <2>1 DEF Inv, NothingLost, Chain
  <2> QED
    BY <1>7, <1>9, <2>2
<1> QED
  BY <1>7, <1>8, <1>10, <1>11

(* Steps of the main thread keep the rows of ordinary contacts, but for    *)
(* those of a contact that is deleted.                                     *)
LEMMA MainKeepsChains ==
  ASSUME Inv, MainStep
  PROVE  /\ UNCHANGED <<lastId, pend, freed, raced>>
         /\ \A c \in Contact \ Meta :
              life'[c] # "gone" \/ ~DeleteContact => Chain(c)' = Chain(c)
         /\ \A c \in Contact : life'[c] = life[c] \/ life'[c] = "gone"
                               \/ (life[c] = "new" /\ life'[c] = "live")
         /\ \A e \in Id : owner'[e] \in {owner[e], None}
<1> USE HistoryAssumption
<1>1. life \in [Contact -> {"new", "live", "gone"}] /\ owner \in [Id -> Contact \cup {None}]
  BY DEF Inv, TypeOK
<1>2. CASE \E c \in Contact : AddContact(c)
  BY <1>1, <1>2 DEF AddContact, Chain
<1>3. CASE (\E s \in Contact, m \in Meta : Meta_Assign(s, m)) \/ Unlink \/ Load
           \/ \E c \in Contact : db_delete_contact(c)
  BY <1>3 DEF Meta_Assign, Unlink, Load, db_delete_contact, Chain
<1>4. CASE MetaMergeHistory
  <2>1. job.m \in Meta /\ UNCHANGED <<lastId, pend, freed, raced, life, owner>>
    BY <1>4 DEF Inv, JobOK, MetaMergeHistory
  <2>2. \A r \in srt : r \in srt'
    BY <1>4 DEF MetaMergeHistory
  <2>3. \A r \in srt' : r \in srt \/ r.c = job.m
    BY <1>4 DEF MetaMergeHistory, Chain, Inv, TypeOK, Row
  <2>4. \A c \in Contact \ Meta : Chain(c)' = Chain(c)
    BY <2>1, <2>2, <2>3 DEF Chain
  <2> QED
    BY <2>1, <2>4
<1>5. ASSUME NEW s, NEW m \in Meta, NEW all, MetaSplitHistory(s, m, all)
      PROVE  /\ UNCHANGED <<lastId, pend, freed, raced, life, owner>>
             /\ \A c \in Contact \ Meta : Chain(c)' = Chain(c)
  BY <1>5 DEF MetaSplitHistory, Chain
<1>6. CASE (\E c \in Contact : Meta_Delete(c)) \/ Dissolve
  <2>1. job.op = "dissolve" => job.m \in Meta
    BY DEF Inv, JobOK
  <2>2. \A c \in Contact : parent[c] \in Live => parent[c] \in Meta
    BY DEF Inv, ParentOK, Live
  <2>3. \/ \E s, m, all : m \in Meta /\ MetaSplitHistory(s, m, all)
        \/ UNCHANGED <<life, owner, lastId, srt, pend, freed, raced>>
    BY <1>6, <2>1, <2>2 DEF Meta_Delete, Dissolve
  <2> QED
    BY <1>5, <2>3 DEF Chain
<1>7. CASE DeleteContact
  <2>1. /\ srt' = srt \ Chain(job.c) /\ life' = [life EXCEPT ![job.c] = "gone"]
        /\ owner' = [e \in Id |-> IF owner[e] = job.c THEN None ELSE owner[e]]
        /\ UNCHANGED <<lastId, pend, freed, raced>>
    BY <1>7 DEF DeleteContact
  <2> QED
    BY <1>1, <1>7, <2>1 DEF Chain
<1> QED
  BY <1>2, <1>3, <1>4, <1>6, <1>7 DEF MainStep

(* A deletion that was asked for keeps its meaning. *)
LEMMA CallsStep ==
  ASSUME Inv, CallsOK, [Next]_vars
  PROVE  CallsOK'
<1> USE HistoryAssumption
<1>1. /\ owner \in [Id -> Contact \cup {None}] /\ lastId \in Int
      /\ pend \in [Proc -> Pending]
  BY DEF Inv, TypeOK
<1>2. CASE UNCHANGED vars
  BY <1>2 DEF vars, CallsOK
<1>3. CASE MainStep
  BY <1>3, MainKeepsChains DEF CallsOK
<1>4. ASSUME NEW p \in Proc, NEW e \in Id, DeleteEventBegin(p, e)
      PROVE  CallsOK'
  <2> DEFINE a == [op |-> "delete", c |-> owner[e], e |-> e]
  <2>1. /\ owner[e] \in Live /\ pend' = [pend EXCEPT ![p] = a]
        /\ UNCHANGED <<owner, lastId>>
    BY <1>4 DEF DeleteEventBegin
  <2>2. a.c = owner[e] /\ a.e = e /\ owner[e] \in Contact /\ e <= lastId
    BY <2>1 DEF Live, Inv, IdsOK
  <2> HIDE DEF a
  <2> QED
    BY <1>1, <2>1, <2>2 DEF CallsOK
<1>5. ASSUME NEW p \in Proc, NEW c \in Contact, NEW ts \in Stamp, AddEventBegin(p, c, ts)
      PROVE  CallsOK'
  <2> DEFINE a == [op |-> "add", c |-> c, m |-> parent[c], ts |-> ts]
  <2>1. pend' = [pend EXCEPT ![p] = a] /\ a.op # "delete" /\ UNCHANGED <<owner, lastId>>
    BY <1>5 DEF AddEventBegin
  <2> HIDE DEF a
  <2> QED
    BY <1>1, <2>1 DEF CallsOK
<1>6. ASSUME NEW p \in Proc, AddEventFiltered(p) \/ AddEventEnd(p) \/ DeleteEventEnd(p)
      PROVE  CallsOK'
  <2>1. Idle.op # "delete" /\ pend' = [pend EXCEPT ![p] = Idle]
    BY <1>6 DEF Idle, AddEventFiltered, AddEventEnd, DeleteEventEnd
  <2>2. CASE AddEventFiltered(p)
    BY <1>1, <2>1, <2>2 DEF AddEventFiltered, CallsOK
  <2>3. CASE AddEventEnd(p)
    <3>1. lastId' = lastId + 1 /\ \A e \in Id : e <= lastId => owner'[e] = owner[e]
      BY <1>1, <2>3 DEF AddEventEnd, Id
    <3>2. \A q \in Proc : pend'[q].op = "delete" => pend'[q] = pend[q]
      BY <1>1, <2>1
    <3>3. \A e \in Id : e \in Int
      BY DEF Id
    <3> QED
      BY <1>1, <3>1, <3>2, <3>3 DEF CallsOK
  <2>4. CASE DeleteEventEnd(p)
    <3>1. lastId' = lastId /\ \A e \in Id : owner'[e] \in {owner[e], None}
      BY <1>1, <2>4 DEF DeleteEventEnd
    <3> QED
      BY <1>1, <2>1, <3>1 DEF CallsOK
  <2> QED
    BY <1>6, <2>2, <2>3, <2>4
<1> QED
  BY <1>2, <1>3, <1>4, <1>5, <1>6 DEF Next, EventStep

(* The counter follows the chain in every step. *)
LEMMA CountStep ==
  ASSUME Inv, Inv', CallsOK, CountOK, [Next]_vars
  PROVE  CountOK'
<1> SUFFICES ASSUME ~freed', ~raced', NEW c \in Contact \ Meta, life'[c] # "gone"
             PROVE  count'[c] = Cardinality(Chain(c)')
  BY DEF CountOK, Chain
<1> USE HistoryAssumption
<1>1. /\ life \in [Contact -> {"new", "live", "gone"}] /\ count \in [Contact -> Int]
      /\ IsFiniteSet(Chain(c)) /\ Cardinality(Chain(c)) \in Nat
  BY ChainFinite DEF Inv, TypeOK
<1>2. CASE UNCHANGED vars
  BY <1>2 DEF vars, Chain, CountOK
<1>3. ASSUME NEW p \in Proc,
             \/ \E d \in Contact, ts \in Stamp : AddEventBegin(p, d, ts)
             \/ \E e \in Id : DeleteEventBegin(p, e)
             \/ AddEventFiltered(p)
      PROVE  count'[c] = Cardinality(Chain(c)')
  BY <1>3 DEF AddEventBegin, DeleteEventBegin, AddEventFiltered, CountOK, Chain
<1>4. ASSUME NEW p \in Proc, AddEventEnd(p)
      PROVE  count'[c] = Cardinality(Chain(c)')
  <2>1. UNCHANGED <<life, raced>> /\ (freed => freed')
    BY <1>4 DEF AddEventEnd
  <2>2. count[c] = Cardinality(Chain(c))
    BY <2>1 DEF CountOK
  <2>3. PICK t \in Stamp :
          /\ Chain(c)' = IF c = pend[p].c
               THEN Chain(c) \cup {[id |-> lastId + 1, c |-> c, ts |-> t]} ELSE Chain(c)
          /\ count'[c] = IF c = pend[p].c THEN count[c] + 1 ELSE count[c]
    BY <1>4, AddedRow
  <2> DEFINE row == [id |-> lastId + 1, c |-> c, ts |-> t]
  <2>4. row \notin Chain(c)
    <3>1. lastId \in Int /\ \A r \in Chain(c) : r.id \in Int /\ r.id <= lastId
      BY DEF Inv, TypeOK, IdsOK, Chain, Row, Id
    <3>2. row.id = lastId + 1
      OBVIOUS
    <3> QED
      BY <3>1, <3>2
  <2> HIDE DEF row
  <2>5. Cardinality(Chain(c) \cup {row}) = Cardinality(Chain(c)) + 1
    BY <1>1, <2>4, FS_AddElement
  <2> QED
    BY <2>2, <2>3, <2>5 DEF row
<1>5. ASSUME NEW p \in Proc, DeleteEventEnd(p)
      PROVE  count'[c] = Cardinality(Chain(c)')
  <2>1. /\ UNCHANGED life /\ (freed => freed') /\ (raced => raced')
        /\ owner[pend[p].e] # None
    BY <1>5 DEF DeleteEventEnd
  <2>2. count[c] = Cardinality(Chain(c))
    BY <2>1 DEF CountOK
  <2>3. CASE c # pend[p].c
    BY <1>5, <2>2, <2>3, DeletedRow
  <2>4. CASE c = pend[p].c
    <3>1. PICK r \in Chain(c) : Chain(c)' = Chain(c) \ {r}
      BY <1>5, <2>1, <2>4, DeletedRow
    <3>2. Cardinality(Chain(c) \ {r}) = Cardinality(Chain(c)) - 1
      BY <1>1, <3>1, FS_RemoveElement
    <3>3. count'[c] = count[c] - 1
      BY <1>5, <2>4, DeletedRow
    <3> QED
      BY <2>2, <3>1, <3>2, <3>3
  <2> QED
    BY <2>3, <2>4
<1>6. CASE MainStep
  <2>1. Chain(c)' = Chain(c) /\ UNCHANGED <<freed, raced>>
        /\ life[c] # "gone"
    BY <1>1, <1>6, MainKeepsChains
  <2>2. CASE Load
    BY <2>1, <2>2 DEF Load
  <2>3. CASE ~Load
    <3>1. count'[c] = count[c]
      <4>1. CASE MetaMergeHistory
        <5>1. job.m \in Meta
          BY <4>1 DEF Inv, JobOK, MetaMergeHistory
        <5>2. \/ count' = count
              \/ \E k : count' = [count EXCEPT ![job.m] = k]
          BY <4>1 DEF MetaMergeHistory
        <5> QED
          BY <1>1, <5>1, <5>2
      <4>2. CASE ~MetaMergeHistory
        BY <1>6, <2>3, <4>2 DEF MainStep, AddContact, Meta_Delete, db_delete_contact,
          Meta_Assign, Unlink, Dissolve, DeleteContact, MetaSplitHistory
      <4> QED
        BY <4>1, <4>2
    <3> QED
      BY <2>1, <3>1 DEF CountOK
  <2> QED
    BY <2>2, <2>3
<1> QED
  BY <1>2, <1>3, <1>4, <1>5, <1>6 DEF Next, EventStep

(* Pending deletions keep their meaning whatever else happens. *)
LEMMA CallsInvariant == Spec => []CallsOK
<1>1. Init => CallsOK
  BY DEF Init, CallsOK, Idle
<1>2. Inv /\ CallsOK /\ [Next]_vars => CallsOK'
  BY CallsStep
<1> QED
  BY <1>1, <1>2, HistoryInvariant, PTL DEF Spec

(* m_count is exact as long as no call outlives its contact and no event is *)
(* deleted twice: every step that changes a chain of an ordinary contact     *)
(* changes the counter with it, by one.                                     *)
THEOREM CountersAreExact == Spec => []CountExact
<1>1. Init => CountOK
  <2> SUFFICES ASSUME Init PROVE \A c \in Contact \ Meta : count[c] = Cardinality(Chain(c))
    BY DEF CountOK
  <2>1. \A c : Chain(c) = {}
    BY DEF Init, Chain
  <2> QED
    BY <2>1, FS_EmptySet DEF Init
<1>2. Inv /\ Inv' /\ CallsOK /\ CountOK /\ [Next]_vars => CountOK'
  BY CountStep
<1>3. CountOK => CountExact
  BY DEF CountOK, CountExact, Live
<1> QED
  BY <1>1, <1>2, <1>3, HistoryInvariant, CallsInvariant, PTL DEF Spec

(* The main thread deletes and dissolves contacts that still exist.        *)
JobLive ==
  /\ job.op \in {"unlink", "dissolve"} => job.m \in Live
  /\ job.op = "delete" =>
       job.c \in Live /\ job.then \in Live \cup {None} /\ job.then # job.c

(* Nobody else deletes a contact, so what its job names stays there.        *)
LEMMA JobLiveStep ==
  ASSUME Inv, JobLive, [Next]_vars
  PROVE  JobLive'
<1> USE HistoryAssumption
<1>0. life \in [Contact -> {"new", "live", "gone"}] /\ Idle.op = "none"
  BY DEF Inv, TypeOK, Idle
<1>1. ASSUME UNCHANGED job, Live \subseteq Live' PROVE JobLive'
  BY <1>1 DEF JobLive
<1>2. CASE UNCHANGED vars
  BY <1>1, <1>2 DEF vars, Live
<1>3. CASE \E p \in Proc : EventStep(p)
  <2>1. UNCHANGED <<job, life>>
    BY <1>3 DEF EventStep, AddEventBegin, AddEventFiltered, AddEventEnd, DeleteEventBegin,
      DeleteEventEnd
  <2> QED
    BY <1>1, <2>1 DEF Live
<1>4. CASE \E c \in Contact : AddContact(c)
  <2>1. UNCHANGED job /\ Live \subseteq Live'
    BY <1>0, <1>4 DEF AddContact, Live
  <2> QED
    BY <1>1, <2>1
<1>5. CASE (\E s \in Contact, m \in Meta : Meta_Assign(s, m)) \/ MetaMergeHistory \/ Load
  <2>1. job'.op \in {"merge", "none"}
    BY <1>0, <1>5 DEF Meta_Assign, MetaMergeHistory, Load
  <2> QED
    BY <2>1 DEF JobLive
<1>6. CASE Unlink
  <2>1. UNCHANGED life /\ job.m \in Live
        /\ (job'.op = "none" \/ (job'.op = "dissolve" /\ job'.m = job.m))
    BY <1>0, <1>6 DEF Unlink, JobLive
  <2> QED
    BY <2>1 DEF JobLive, Live
<1>7. ASSUME NEW s, NEW m \in Live, NEW all, MetaSplitHistory(s, m, all)
      PROVE  JobLive'
  <2>1. UNCHANGED life /\ job'.op = "unlink" /\ job'.m = m
    BY <1>7 DEF MetaSplitHistory
  <2> QED
    BY <2>1 DEF JobLive, Live
<1>8. CASE \E c \in Contact : Meta_Delete(c)
  BY <1>7, <1>8 DEF Meta_Delete
<1>9. CASE Dissolve
  <2>1. job.m \in Live
    BY <1>9 DEF Dissolve, JobLive
  <2>2. CASE Subs(job.m) # {}
    BY <1>7, <1>9, <2>1, <2>2 DEF Dissolve
  <2>3. CASE Subs(job.m) = {}
    <3>1. UNCHANGED life /\ job'.op = "delete" /\ job'.c = job.m /\ job'.then = None
      BY <1>9, <2>3 DEF Dissolve
    <3> QED
      BY <2>1, <3>1 DEF JobLive, Live
  <2> QED
    BY <2>2, <2>3
<1>10. CASE \E c \in Contact : db_delete_contact(c)
  <2>1. PICK c \in Contact : db_delete_contact(c)
    BY <1>10
  <2>2. c \in Live /\ UNCHANGED life
        /\ job' = IF parent[c] \in Live /\ Subs(parent[c]) = {c}
                  THEN [op |-> "delete", c |-> parent[c], then |-> c]
                  ELSE [op |-> "delete", c |-> c, then |-> None]
    BY <2>1 DEF db_delete_contact
  <2>3. parent[c] \in Live => parent[c] # c
    BY DEF Inv, ParentOK, Live
  <2>4. job'.c \in Live /\ job'.then \in Live \cup {None} /\ job'.then # job'.c
        /\ job'.op = "delete"
    BY <2>2, <2>3 DEF Live
  <2> QED
    BY <2>2, <2>4 DEF JobLive, Live
<1>11. CASE DeleteContact
  <2>1. /\ job.op = "delete" /\ life' = [life EXCEPT ![job.c] = "gone"]
        /\ job' = IF job.then = None THEN Idle ELSE [op |-> "delete", c |-> job.then, then |-> None]
    BY <1>11 DEF DeleteContact
  <2>2. job.then \in Live \cup {None} /\ job.then # job.c
    BY <2>1 DEF JobLive
  <2>3. CASE job.then = None
    BY <1>0, <2>1, <2>3 DEF JobLive
  <2>4. CASE job.then # None
    <3>1. job'.op = "delete" /\ job'.c = job.then /\ job'.then = None
      BY <2>1, <2>4
    <3>2. job.then \in Live' /\ job.then # None
      BY <1>0, <2>1, <2>2, <2>4 DEF Live
    <3> QED
      BY <3>1, <3>2 DEF JobLive
  <2> QED
    BY <2>3, <2>4
<1> QED
  BY <1>2, <1>3, <1>4, <1>5, <1>6, <1>8, <1>9, <1>10, <1>11 DEF Next, MainStep

(* JobLive holds always.                                                   *)
LEMMA JobLiveInvariant == Spec => []JobLive
<1>1. Init => JobLive
  BY DEF Init, JobLive, Idle
<1>2. Inv /\ JobLive /\ [Next]_vars => JobLive'
  BY JobLiveStep
<1> QED
  BY <1>1, <1>2, HistoryInvariant, PTL DEF Spec

(* A thread's request is seen to change when its call does. *)
LEMMA SeenCall ==
  ASSUME Inv, NEW p \in Proc, NEW a, pend' = [pend EXCEPT ![p] = a]
  PROVE  CallSeen' = [CallSeen EXCEPT ![p] = Asked(a)]
BY DEF CallSeen, Inv, TypeOK

(* What the log shows of a request. *)
LEMMA AskedFacts ==
  /\ Asked(Idle) = Log!Idle
  /\ \A p \in Proc : CallSeen[p] = Asked(pend[p])
  /\ \A p \in Proc : pend[p].op = "add" =>
       CallSeen[p].op = "add" /\ CallSeen[p].c = pend[p].c
  /\ \A p \in Proc : pend[p].op = "delete" =>
       CallSeen[p].op = "delete" /\ CallSeen[p].e = pend[p].e
BY DEF Asked, Idle, Log!Idle, CallSeen

(* Equal chains look the same. *)
LEMMA SeenLog ==
  ASSUME UNCHANGED freed, freed \/ \A c \in Contact \ Meta : Chain(c)' = Chain(c)
  PROVE  UNCHANGED LogSeen
BY DEF LogSeen

(* Threads ask as the log lets them ask. *)
LEMMA BeginRefines ==
  ASSUME Inv, NEW p \in Proc,
         \/ \E c \in Contact, ts \in Stamp : AddEventBegin(p, c, ts)
         \/ \E e \in Id : DeleteEventBegin(p, e)
         \/ AddEventFiltered(p)
  PROVE  Log!Ask(p) \/ Log!Refuse(p)
<1>1. UNCHANGED <<Live, LogSeen, lastId, freed>>
  <2>1. UNCHANGED <<life, srt, lastId, freed>>
    BY DEF AddEventBegin, DeleteEventBegin, AddEventFiltered
  <2>2. UNCHANGED Live /\ \A c \in Contact \ Meta : Chain(c)' = Chain(c)
    BY <2>1 DEF Live, Chain
  <2> QED
    BY <2>1, <2>2, SeenLog
<1>2. ASSUME NEW c \in Contact, NEW ts \in Stamp, AddEventBegin(p, c, ts)
      PROVE  Log!Ask(p)
  <2>1. pend[p] = Idle /\ c \in Live
        /\ pend' = [pend EXCEPT ![p] = [op |-> "add", c |-> c, m |-> parent[c], ts |-> ts]]
    BY <1>2 DEF AddEventBegin
  <2>2. Asked([op |-> "add", c |-> c, m |-> parent[c], ts |-> ts]) = [op |-> "add", c |-> c]
    BY DEF Asked
  <2>3. CallSeen' = [CallSeen EXCEPT ![p] = [op |-> "add", c |-> c]]
    BY <2>1, <2>2, SeenCall
  <2>4. CallSeen[p] = Log!Idle
    BY <2>1, AskedFacts
  <2> QED
    BY <1>1, <2>1, <2>3, <2>4 DEF Log!Ask
<1>3. ASSUME NEW e \in Id, DeleteEventBegin(p, e)
      PROVE  Log!Ask(p)
  <2>1. pend[p] = Idle
        /\ pend' = [pend EXCEPT ![p] = [op |-> "delete", c |-> owner[e], e |-> e]]
    BY <1>3 DEF DeleteEventBegin
  <2>2. Asked([op |-> "delete", c |-> owner[e], e |-> e]) = [op |-> "delete", e |-> e]
    BY DEF Asked
  <2>3. CallSeen' = [CallSeen EXCEPT ![p] = [op |-> "delete", e |-> e]]
    BY <2>1, <2>2, SeenCall
  <2>4. CallSeen[p] = Log!Idle
    BY <2>1, AskedFacts
  <2> QED
    BY <1>1, <2>1, <2>3, <2>4 DEF Log!Ask, Id
<1>4. CASE AddEventFiltered(p)
  <2>1. pend[p].op = "add" /\ pend' = [pend EXCEPT ![p] = Idle]
    BY <1>4 DEF AddEventFiltered
  <2>2. CallSeen' = [CallSeen EXCEPT ![p] = Log!Idle] /\ CallSeen[p].op = "add"
    BY <2>1, SeenCall, AskedFacts
  <2> QED
    BY <1>1, <2>2 DEF Log!Refuse
<1> QED
  BY <1>2, <1>3, <1>4

(* AddEvent adds what was asked for to the log it was asked for. *)
LEMMA AddRefines ==
  ASSUME Inv, NEW p \in Proc, AddEventEnd(p)
  PROVE  Log!Add(p) \/ Log!Break(p)
<1> USE HistoryAssumption
<1>1. /\ pend[p].op = "add" /\ lastId' = lastId + 1 /\ UNCHANGED Live
      /\ pend' = [pend EXCEPT ![p] = Idle] /\ (freed => freed')
  BY DEF AddEventEnd, Live
<1>2. /\ CallSeen' = [CallSeen EXCEPT ![p] = Log!Idle]
      /\ CallSeen[p].op = "add" /\ CallSeen[p].c = pend[p].c
  BY <1>1, SeenCall, AskedFacts
<1>3. freed \in BOOLEAN /\ freed' \in BOOLEAN
  BY DEF Inv, TypeOK, AddEventEnd
<1>4. CASE freed
  <2>1. UNCHANGED LogSeen /\ freed'
    BY <1>1, <1>4 DEF LogSeen
  <2>2. freed' = freed
    BY <1>3, <1>4, <2>1
  <2> QED
    BY <1>1, <1>2, <1>4, <2>1, <2>2 DEF Log!Add
<1>5. CASE ~freed /\ freed'
  <2>1. LogSeen' = Log!NoLog /\ freed' = TRUE
    BY <1>3, <1>5 DEF LogSeen, Log!NoLog
  <2> QED
    BY <1>1, <1>2, <2>1 DEF Log!Break
<1>6. CASE ~freed /\ ~freed'
  <2>0. UNCHANGED freed
    BY <1>3, <1>6
  <2>1. pend[p].c \in Live /\ pend[p].c \in Contact
    BY <1>6, AddedRow DEF Live
  <2>2. PICK t \in Stamp :
          /\ \A r \in Chain(pend[p].c) : r.ts # t
          /\ \A c \in Contact \ Meta :
               Chain(c)' = IF c = pend[p].c
                 THEN Chain(c) \cup {[id |-> lastId + 1, c |-> c, ts |-> t]}
                 ELSE Chain(c)
    BY <1>6, AddedRow
  <2>3. CASE pend[p].c \in Meta
    <3>1. UNCHANGED LogSeen
      BY <2>0, <2>2, <2>3, SeenLog
    <3> QED
      BY <1>1, <1>2, <2>0, <2>3, <3>1 DEF Log!Add
  <2>4. CASE pend[p].c \notin Meta
    <3>0. PICK d \in Contact : d = pend[p].c
      BY <2>1
    <3> DEFINE ev == [id |-> lastId + 1, ts |-> t]
               row == [id |-> lastId + 1, c |-> d, ts |-> t]
    <3>1. \A r \in LogSeen[d] : r.ts # t
      BY <1>6, <2>1, <2>2, <2>4, <3>0 DEF LogSeen
    <3>2. Chain(d)' = Chain(d) \cup {row} /\ row.id = ev.id /\ row.ts = ev.ts
      BY <2>1, <2>2, <2>4, <3>0
    <3>3. LogSeen' = [LogSeen EXCEPT ![d] = @ \cup {ev}]
      <4>1. LogSeen'[d] = LogSeen[d] \cup {ev}
        <5>1. LogSeen[d] = {[id |-> r.id, ts |-> r.ts] : r \in Chain(d)}
          BY <1>6, <2>1, <2>4, <3>0 DEF LogSeen
        <5>2. LogSeen'[d] = {[id |-> r.id, ts |-> r.ts] : r \in Chain(d) \cup {row}}
          BY <1>6, <2>1, <2>4, <3>0, <3>2 DEF LogSeen
        <5>3. [id |-> row.id, ts |-> row.ts] = ev
          OBVIOUS
        <5> HIDE DEF row, ev
        <5> QED
          BY <5>1, <5>2, <5>3
      <4>2. \A c \in Contact \ Meta : c # d => LogSeen'[c] = LogSeen[c]
        BY <2>0, <2>2, <3>0 DEF LogSeen
      <4>3. LogSeen = [c \in Contact \ Meta |-> LogSeen[c]]
            /\ LogSeen' = [c \in Contact \ Meta |-> LogSeen'[c]]
        BY DEF LogSeen
      <4> HIDE DEF ev
      <4> QED
        BY <2>4, <3>0, <4>1, <4>2, <4>3
    <3> QED
      BY <1>1, <1>2, <1>6, <2>0, <2>1, <2>4, <3>0, <3>1, <3>3 DEF Log!Add, Stamp
  <2> QED
    BY <2>3, <2>4
<1> QED
  BY <1>4, <1>5, <1>6

(* DeleteEvent removes what was asked for and nothing else. *)
LEMMA DeleteRefines ==
  ASSUME Inv, CallsOK, NEW p \in Proc, DeleteEventEnd(p)
  PROVE  Log!Delete(p) \/ Log!Break(p)
<1> USE HistoryAssumption
<1>1. /\ pend[p].op = "delete" /\ UNCHANGED <<lastId, Live>>
      /\ pend' = [pend EXCEPT ![p] = Idle] /\ (freed => freed')
  BY DEF DeleteEventEnd, Live
<1>2. /\ CallSeen' = [CallSeen EXCEPT ![p] = Log!Idle]
      /\ CallSeen[p].op = "delete" /\ CallSeen[p].e = pend[p].e
  BY <1>1, SeenCall, AskedFacts
<1>3. freed \in BOOLEAN /\ freed' \in BOOLEAN
  BY DEF Inv, TypeOK, DeleteEventEnd
<1>4. CASE freed
  <2>1. freed' = freed
    BY <1>1, <1>3, <1>4
  <2>2. LogSeen' = [c \in Contact \ Meta |-> {r \in LogSeen[c] : r.id # pend[p].e}]
    BY <1>4, <2>1 DEF LogSeen
  <2> QED
    BY <1>1, <1>2, <2>1, <2>2 DEF Log!Delete
<1>5. CASE ~freed /\ freed'
  <2>1. LogSeen' = Log!NoLog /\ freed' = TRUE
    BY <1>3, <1>5 DEF LogSeen, Log!NoLog
  <2> QED
    BY <1>1, <1>2, <2>1 DEF Log!Break
<1>6. CASE ~freed /\ ~freed'
  <2>0. UNCHANGED freed
    BY <1>3, <1>6
  <2>1. \A c \in Contact \ Meta : Chain(c)' = {r \in Chain(c) : r.id # pend[p].e}
    BY <1>6, DeletedRow
  <2>2. \A c \in Contact \ Meta : LogSeen'[c] = {r \in LogSeen[c] : r.id # pend[p].e}
    <3> SUFFICES ASSUME NEW c \in Contact \ Meta
                 PROVE  LogSeen'[c] = {r \in LogSeen[c] : r.id # pend[p].e}
      OBVIOUS
    <3>1. LogSeen[c] = {[id |-> r.id, ts |-> r.ts] : r \in Chain(c)}
      BY <1>6 DEF LogSeen
    <3>2. LogSeen'[c] = {[id |-> r.id, ts |-> r.ts] : r \in Chain(c)'}
      BY <1>6 DEF LogSeen
    <3> QED
      BY <2>1, <3>1, <3>2
  <2>3. LogSeen' = [c \in Contact \ Meta |-> {r \in LogSeen[c] : r.id # pend[p].e}]
    <3>1. LogSeen' = [c \in Contact \ Meta |-> LogSeen'[c]]
      BY DEF LogSeen
    <3> QED
      BY <2>2, <3>1
  <2> QED
    BY <1>1, <1>2, <2>0, <2>3 DEF Log!Delete
<1> QED
  BY <1>4, <1>5, <1>6

(* Of the main thread's steps the log sees contacts come and go. *)
LEMMA MainRefines ==
  ASSUME Inv, JobLive, MainStep
  PROVE  Log!Next \/ UNCHANGED Log!vars
<1> USE HistoryAssumption
<1>0. life \in [Contact -> {"new", "live", "gone"}]
  BY DEF Inv, TypeOK
<1>1. UNCHANGED <<lastId, CallSeen, freed>>
  BY MainKeepsChains DEF CallSeen
<1>2. CASE DeleteContact
  <2>1. /\ job.op = "delete" /\ srt' = srt \ Chain(job.c)
        /\ life' = [life EXCEPT ![job.c] = "gone"]
    BY <1>2 DEF DeleteContact
  <2>2. job.c \in Live /\ job.c \in Contact
    BY <2>1 DEF JobLive, Live
  <2>3. Live' = Live \ {job.c}
    BY <1>0, <2>1, <2>2 DEF Live
  <2>4. \A c \in Contact \ Meta : Chain(c)' = IF c = job.c THEN {} ELSE Chain(c)
    BY <2>1 DEF Chain
  <2>5. LogSeen' = [c \in Contact \ Meta |-> IF c = job.c THEN {} ELSE LogSeen[c]]
    BY <1>1, <2>4 DEF LogSeen
  <2>6. Log!Remove(job.c)
    BY <1>1, <2>2, <2>3, <2>5 DEF Log!Remove
  <2> QED
    BY <2>2, <2>6 DEF Log!Next
<1>3. CASE ~DeleteContact
  <2>1. UNCHANGED LogSeen
    BY <1>1, <1>3, MainKeepsChains, SeenLog
  <2>2. CASE \E c \in Contact : AddContact(c)
    <3>1. PICK c \in Contact : AddContact(c)
      BY <2>2
    <3>2. c \notin Live /\ Live' = Live \cup {c}
      BY <1>0, <3>1 DEF AddContact, Live
    <3>3. Log!Create(c)
      BY <1>1, <2>1, <3>2 DEF Log!Create
    <3> QED
      BY <3>3 DEF Log!Next
  <2>3. CASE ~\E c \in Contact : AddContact(c)
    <3>1. UNCHANGED life
      BY <1>3, <2>3 DEF MainStep, Meta_Delete, db_delete_contact, Meta_Assign, Unlink,
        Dissolve, MetaSplitHistory, MetaMergeHistory, Load
    <3>2. UNCHANGED Live
      BY <3>1 DEF Live
    <3> QED
      BY <1>1, <2>1, <3>2 DEF Log!vars
  <2> QED
    BY <2>2, <2>3
<1> QED
  BY <1>2, <1>3

(* The driver and its metacontacts implement the abstract log: for an      *)
(* ordinary contact AddEvent and DeleteEvent are atomic, an event that was *)
(* deleted does not come back, and no merge, split, link or restart is     *)
(* ever seen in its history.                                               *)
THEOREM HistoryImplementsEventLog == Spec => ImplementsEventLog
<1>1. Init => Log!Init
  <2> SUFFICES ASSUME Init PROVE Log!Init
    OBVIOUS
  <2>1. Live = {} /\ lastId = 0 /\ freed = FALSE
    BY DEF Init, Live
  <2>2. LogSeen = Log!NoLog
    BY DEF Init, LogSeen, Log!NoLog, Chain
  <2>3. CallSeen = [p \in Proc |-> Log!Idle]
    BY AskedFacts DEF Init, CallSeen
  <2> QED
    BY <2>1, <2>2, <2>3 DEF Log!Init
<1>2. Inv /\ CallsOK /\ JobLive /\ [Next]_vars => [Log!Next]_(Log!vars)
  <2> SUFFICES ASSUME Inv, CallsOK, JobLive, [Next]_vars PROVE Log!Next \/ UNCHANGED Log!vars
    OBVIOUS
  <2>1. CASE UNCHANGED vars
    BY <2>1 DEF vars, Log!vars, Live, LogSeen, CallSeen, Chain
  <2>2. CASE \E p \in Proc : EventStep(p)
    BY <2>2, BeginRefines, AddRefines, DeleteRefines DEF EventStep, Log!Next
  <2>3. CASE MainStep
    BY <2>3, MainRefines
  <2> QED
    BY <2>1, <2>2, <2>3 DEF Next
<1> QED
  BY <1>1, <1>2, HistoryInvariant, CallsInvariant, JobLiveInvariant, PTL
  DEF Spec, ImplementsEventLog, Log!Spec
=============================================================================
