------------------------------ MODULE History ------------------------------
(***************************************************************************)
(* The message history of the SQLite profile driver (Dbx_sqlite) and the   *)
(* metacontacts that share it (mir_app, meta_*.cpp).                       *)
(*                                                                         *)
(* An event is a row of `events'.  The chain of a contact is its rows of   *)
(* `events_srt', whose primary key is (contact_id, timestamp).  An event   *)
(* of a subcontact stands in two chains, its own and its metacontact's.    *)
(* DBCachedContact keeps the number of events and the parent of a contact  *)
(* in memory.                                                              *)
(*                                                                         *)
(* AddEvent and DeleteEvent look up the contact, notify subscribers and    *)
(* only then take m_csDbAccess: each is two steps, by any thread.  Linking *)
(* and splitting metacontacts and deleting contacts are jobs of the main   *)
(* thread, whose sections under the lock are one step each.                *)
(***************************************************************************)
EXTENDS Integers, FiniteSets

CONSTANTS Contact,     \* contacts, each created once (AUTOINCREMENT)
          Meta,        \* those created as metacontacts
          Proc,        \* threads that add and delete events
          None,        \* no contact
          MaxEvents,   \* bound: events added
          MaxStamp     \* bound: timestamps

ASSUME HistoryAssumption ==
  /\ Meta \subseteq Contact /\ None \notin Contact
  /\ MaxEvents \in Nat /\ MaxStamp \in Nat

VARIABLES
  life,     \* each contact: new, live (in the cache), gone
  owner,    \* events.contact_id of each event, None if there is no such row
  lastId,   \* the last id given to an event
  srt,      \* the rows of events_srt
  count,    \* DBCachedContact.m_count
  parent,   \* DBCachedContact.parentID
  saved,    \* the ParentMeta setting of each contact
  pend,     \* per thread, the call between its lookup and its lock
  job,      \* what the main thread is in the middle of
  freed,    \* a call has used a DBCachedContact that was freed under it
  raced     \* two calls have deleted the same event

vars == <<life, owner, lastId, srt, count, parent, saved, pend, job, freed, raced>>

Id == 1..MaxEvents
Stamp == 1..MaxStamp
Row == [id : Id, c : Contact, ts : Stamp]

Idle == [op |-> "none"]

Live == {c \in Contact : life[c] = "live"}

Chain(c) == {r \in srt : r.c = c}

\* pSubs of a metacontact.
Subs(m) == {s \in Live : parent[s] = m}

Init ==
  /\ life = [c \in Contact |-> "new"]
  /\ owner = [e \in Id |-> None]
  /\ lastId = 0
  /\ srt = {}
  /\ count = [c \in Contact |-> 0]
  /\ parent = [c \in Contact |-> None]
  /\ saved = [c \in Contact |-> None]
  /\ pend = [p \in Proc |-> Idle]
  /\ job = Idle
  /\ freed = FALSE
  /\ raced = FALSE

----------------------------------------------------------------------------
(* Events.                                                                 *)

\* The contact a DBCachedContact obtained for c holds now: c, or if it has
\* been freed, its old contents or those of whoever got the memory.
Cached(c) == IF c \in Live THEN {c} ELSE {c} \cup Live

\* Mutated: a taken timestamp is not moved on, the row is not inserted.
AddEventSrtOnce(S, e, c, ts) ==
  {IF \E r \in S : r.c = c /\ r.ts = ts THEN S ELSE S \cup {[id |-> e, c |-> c, ts |-> ts]}}

\* The tables that AddEventSrt may leave: the row takes the first free
\* timestamp from ts on.
AddEventSrt(S, e, c, ts) ==
  LET taken == {r.ts : r \in {q \in S : q.c = c}}
  IN {S \cup {[id |-> e, c |-> c, ts |-> t]} :
        t \in {u \in Stamp \ taken : u >= ts /\ \A v \in ts..(u - 1) : v \in taken}}

\* AddEvent up to the event filters; with a parent that is not in the cache
\* it returns 0 instead.
AddEventBegin(p, c, ts) ==
  /\ pend[p] = Idle /\ c \in Live
  /\ parent[c] # None => parent[c] \in Live
  /\ pend' = [pend EXCEPT ![p] = [op |-> "add", c |-> c, m |-> parent[c], ts |-> ts]]
  /\ UNCHANGED <<life, owner, lastId, srt, count, parent, saved, job, freed, raced>>

\* A filter has refused the event.
AddEventFiltered(p) ==
  /\ pend[p].op = "add"
  /\ pend' = [pend EXCEPT ![p] = Idle]
  /\ UNCHANGED <<life, owner, lastId, srt, count, parent, saved, job, freed, raced>>

\* Under the lock: the event, its row in the chain of the contact or of the
\* parent looked up before, and for a subcontact its own row.
AddEventEnd(p) ==
  LET a == pend[p]
      e == lastId + 1
      used == {a.c} \cup ({a.m} \ {None})
  IN /\ a.op = "add" /\ lastId < MaxEvents
     /\ lastId' = e
     /\ owner' = [owner EXCEPT ![e] = a.c]
     /\ IF a.m = None
        THEN \E x \in Cached(a.c) :
               /\ srt' \in AddEventSrt(srt, e, x, a.ts)
               /\ count' = [count EXCEPT ![x] = @ + 1]
        ELSE \E x \in Cached(a.c), y \in Cached(a.m) :
               /\ \E S \in AddEventSrt(srt, e, y, a.ts) : srt' \in AddEventSrt(S, e, x, a.ts)
               /\ count' = [[count EXCEPT ![y] = @ + 1] EXCEPT ![x] = @ + 1]
     /\ freed' = (freed \/ ~(used \subseteq Live))
     /\ pend' = [pend EXCEPT ![p] = Idle]
     /\ UNCHANGED <<life, parent, saved, job, raced>>

\* DeleteEvent finds the event and its contact, without the lock, and tells
\* the subscribers.
DeleteEventBegin(p, e) ==
  /\ pend[p] = Idle /\ owner[e] \in Live
  /\ pend' = [pend EXCEPT ![p] = [op |-> "delete", c |-> owner[e], e |-> e]]
  /\ UNCHANGED <<life, owner, lastId, srt, count, parent, saved, job, freed, raced>>

\* Mutated: the rows of the event are left behind.
DeleteEventEndKeepsRows(p) ==
  LET a == pend[p]
  IN /\ a.op = "delete"
     /\ owner' = [owner EXCEPT ![a.e] = None]
     /\ count' = [count EXCEPT ![a.c] = @ - 1]
     /\ freed' = (freed \/ a.c \notin Live)
     /\ raced' = (raced \/ owner[a.e] = None)
     /\ pend' = [pend EXCEPT ![p] = Idle]
     /\ UNCHANGED <<life, lastId, srt, parent, saved, job>>

\* Under the lock: the event and all its rows; the counters go down whether or
\* not they were still there.
DeleteEventEnd(p) ==
  LET a == pend[p]
  IN /\ a.op = "delete"
     /\ owner' = [owner EXCEPT ![a.e] = None]
     /\ srt' = {r \in srt : r.id # a.e}
     /\ \E x \in Cached(a.c) :
          count' = [c \in Contact |->
                      count[c] - (IF c = x THEN 1 ELSE 0)
                               - (IF c = parent[x] /\ c \in Live THEN 1 ELSE 0)]
     /\ freed' = (freed \/ a.c \notin Live)
     /\ raced' = (raced \/ owner[a.e] = None)
     /\ pend' = [pend EXCEPT ![p] = Idle]
     /\ UNCHANGED <<life, lastId, parent, saved, job>>

----------------------------------------------------------------------------
(* Contacts and metacontacts: the main thread.                             *)

AddContact(c) ==
  /\ job = Idle /\ life[c] = "new"
  /\ life' = [life EXCEPT ![c] = "live"]
  /\ UNCHANGED <<owner, lastId, srt, count, parent, saved, pend, job, freed, raced>>

\* Meta_Assign links the subcontact; its callers offer contacts that are
\* neither metacontacts nor subcontacts ...
Meta_Assign(s, m) ==
  /\ job = Idle /\ s \in Live \ Meta /\ m \in Live \cap Meta /\ parent[s] = None
  /\ parent' = [parent EXCEPT ![s] = m]
  /\ saved' = [saved EXCEPT ![s] = m]
  /\ job' = [op |-> "merge", s |-> s, m |-> m]
  /\ UNCHANGED <<life, owner, lastId, srt, count, pend, freed, raced>>

\* ... and some time later copies its chain into the metacontact's, in the
\* order of timestamps.  A row whose timestamp is taken there fails the
\* statement; without a journal the rows before it may stay or not.  Nobody
\* looks at the result.
MetaMergeHistory ==
  LET copy == {[r EXCEPT !.c = job.m] : r \in Chain(job.s)}
      taken == {r.ts : r \in Chain(job.m)}
      before == {r \in copy : \A t \in taken : t \in {q.ts : q \in copy} => r.ts < t}
  IN /\ job.op = "merge"
     /\ IF \A r \in copy : r.ts \notin taken
        THEN /\ srt' = srt \cup copy
             /\ count' = [count EXCEPT ![job.m] = Cardinality(Chain(job.m) \cup copy)]
        ELSE srt' \in {srt, srt \cup before} /\ UNCHANGED count
     /\ job' = Idle
     /\ UNCHANGED <<life, owner, lastId, parent, saved, pend, freed, raced>>

\* Mutated: the subcontact's own rows go too.
MetaSplitHistoryBoth(s, m, all) ==
  LET ids == {r.id : r \in Chain(s)}
  IN /\ saved' = [saved EXCEPT ![s] = None]
     /\ srt' = {r \in srt : ~(r.c \in {m, s} /\ r.id \in ids)}
     /\ job' = [op |-> "unlink", s |-> s, m |-> m, all |-> all]
     /\ UNCHANGED <<life, owner, lastId, count, parent, pend, freed, raced>>

\* Meta_RemoveContactNumber: MetaDetouchSub removes the settings of the sub,
\* MetaSplitHistory takes its events out of the metacontact's chain; the
\* counter is left alone ...
MetaSplitHistory(s, m, all) ==
  LET ids == {r.id : r \in Chain(s)}
  IN /\ saved' = [saved EXCEPT ![s] = None]
     /\ srt' = {r \in srt : ~(r.c = m /\ r.id \in ids)}
     /\ job' = [op |-> "unlink", s |-> s, m |-> m, all |-> all]
     /\ UNCHANGED <<life, owner, lastId, count, parent, pend, freed, raced>>

\* ... and the subcontact is unlinked.
Unlink ==
  /\ job.op = "unlink"
  /\ parent' = [parent EXCEPT ![job.s] = None]
  /\ job' = IF job.all THEN [op |-> "dissolve", m |-> job.m] ELSE Idle
  /\ UNCHANGED <<life, owner, lastId, srt, count, saved, pend, freed, raced>>

\* Meta_Delete of a metacontact, or of a subcontact; with the last subcontact
\* the metacontact goes as well.
Meta_Delete(c) ==
  /\ job = Idle /\ c \in Live
  /\ \/ c \in Meta /\ \E s \in Subs(c) : MetaSplitHistory(s, c, TRUE)
     \/ /\ parent[c] \in Live
        /\ MetaSplitHistory(c, parent[c], Subs(parent[c]) = {c})

\* The loop of Meta_Delete over the subcontacts, and its end.
Dissolve ==
  /\ job.op = "dissolve"
  /\ IF Subs(job.m) # {}
     THEN \E s \in Subs(job.m) : MetaSplitHistory(s, job.m, TRUE)
     ELSE /\ job' = [op |-> "delete", c |-> job.m, then |-> None]
          /\ UNCHANGED <<life, owner, lastId, srt, count, parent, saved, pend, freed, raced>>

\* Mutated: the settings of the subcontacts of a deleted metacontact stay.
Meta_ContactDeletedKeepsSettings(c) == saved' = [saved EXCEPT ![c] = None]

\* Meta_ContactDeleted: MetaDetouchSub for a subcontact that goes, or for all
\* subcontacts of a metacontact that goes.  Neither parentID nor the
\* metacontact's chain is touched (MetaRemoveSubHistory is empty).
Meta_ContactDeleted(c) ==
  saved' = [s \in Contact |-> IF s \in Subs(c) \cup {c} THEN None ELSE saved[s]]

\* db_delete_contact calls the hook before it deletes; the hook deletes the
\* metacontact of its last subcontact first.
db_delete_contact(c) ==
  /\ job = Idle /\ c \in Live
  /\ Meta_ContactDeleted(c)
  /\ job' = IF parent[c] \in Live /\ Subs(parent[c]) = {c}
            THEN [op |-> "delete", c |-> parent[c], then |-> c]
            ELSE [op |-> "delete", c |-> c, then |-> None]
  /\ UNCHANGED <<life, owner, lastId, srt, count, parent, pend, freed, raced>>

\* Events, chain, settings and cache entry of the contact, under the lock.
DeleteContact ==
  /\ job.op = "delete"
  /\ owner' = [e \in Id |-> IF owner[e] = job.c THEN None ELSE owner[e]]
  /\ srt' = srt \ Chain(job.c)
  /\ saved' = [saved EXCEPT ![job.c] = None]
  /\ life' = [life EXCEPT ![job.c] = "gone"]
  /\ job' = IF job.then = None THEN Idle ELSE [op |-> "delete", c |-> job.then, then |-> None]
  /\ UNCHANGED <<lastId, count, parent, pend, freed, raced>>

\* The profile is closed and loaded again: InitContacts counts the chains,
\* FillContactSettings reads the links.
Load ==
  /\ job = Idle /\ \A p \in Proc : pend[p] = Idle
  /\ count' = [c \in Contact |-> Cardinality(Chain(c))]
  /\ parent' = saved
  /\ UNCHANGED <<life, owner, lastId, srt, saved, pend, job, freed, raced>>

----------------------------------------------------------------------------
EventStep(p) ==
  \/ \E c \in Contact, ts \in Stamp : AddEventBegin(p, c, ts)
  \/ \E e \in Id : DeleteEventBegin(p, e)
  \/ AddEventFiltered(p) \/ AddEventEnd(p) \/ DeleteEventEnd(p)

MainStep ==
  \/ \E c \in Contact : AddContact(c) \/ Meta_Delete(c) \/ db_delete_contact(c)
  \/ \E s \in Contact, m \in Meta : Meta_Assign(s, m)
  \/ MetaMergeHistory \/ Unlink \/ Dissolve \/ DeleteContact \/ Load

Next == (\E p \in Proc : EventStep(p)) \/ MainStep

Spec == Init /\ [][Next]_vars

----------------------------------------------------------------------------
(* Properties.                                                             *)

Pending == {Idle} \cup [op : {"add"}, c : Contact, m : Contact \cup {None}, ts : Stamp]
                  \cup [op : {"delete"}, c : Contact, e : Id]

Job == {Idle} \cup [op : {"merge"}, s : Contact, m : Contact]
              \cup [op : {"unlink"}, s : Contact, m : Contact, all : BOOLEAN]
              \cup [op : {"dissolve"}, m : Contact]
              \cup [op : {"delete"}, c : Contact, then : Contact \cup {None}]

\* The tables, the cache, the pending calls and the main thread's job are well
\* formed; AddEventSrt gives no row a timestamp outside its range.
TypeOK ==
  /\ life \in [Contact -> {"new", "live", "gone"}]
  /\ owner \in [Id -> Contact \cup {None}]
  /\ lastId \in 0..MaxEvents
  /\ srt \subseteq Row
  /\ count \in [Contact -> Int]
  /\ parent \in [Contact -> Contact \cup {None}]
  /\ saved \in [Contact -> Contact \cup {None}]
  /\ pend \in [Proc -> Pending]
  /\ job \in Job
  /\ freed \in BOOLEAN /\ raced \in BOOLEAN

\* No event is lost from the history of its contact, whatever merges, splits,
\* deletions and additions interleave.
NothingLost ==
  \A e \in Id : owner[e] \in Live => \E r \in srt : r.id = e /\ r.c = owner[e]

\* The chain of an ordinary contact holds its own stored events and nothing
\* else, each once: splitting a metacontact restores what was merged.
OwnEventsOnly ==
  ~freed =>
    \A r \in srt : r.c \notin Meta =>
      /\ owner[r.id] = r.c
      /\ \A q \in srt : q.c = r.c /\ q.id = r.id => q = r

\* m_count of an ordinary contact is the length of its chain.
CountExact ==
  ~freed /\ ~raced => \A c \in Live \ Meta : count[c] = Cardinality(Chain(c))

\* The ParentMeta setting that the next start will read names a contact that
\* exists, so that no subcontact is left with a parent that is gone.
SavedLinksAreLive == \A c \in Live : saved[c] # None => saved[c] \in Live

\* What an ordinary contact sees of the tables, and what its callers asked for.
LogSeen ==
  [c \in Contact \ Meta |->
     IF freed THEN {} ELSE {[id |-> r.id, ts |-> r.ts] : r \in Chain(c)}]

Asked(a) ==
  CASE a.op = "add" -> [op |-> "add", c |-> a.c]
    [] a.op = "delete" -> [op |-> "delete", e |-> a.e]
    [] OTHER -> Idle

CallSeen == [p \in Proc |-> Asked(pend[p])]

Log == INSTANCE EventLog WITH Ordinary <- Contact \ Meta, live <- Live,
         log <- LogSeen, last <- lastId, call <- CallSeen, broken <- freed

\* Events appear in and disappear from the log of an ordinary contact only as
\* AddEvent, DeleteEvent and the deletion of the contact ask for; metacontacts
\* are invisible there: the driver implements EventLog.
ImplementsEventLog == Log!Spec

Quiet == job = Idle /\ \A p \in Proc : pend[p] = Idle

\* meta_utils.cpp:180 "merge sub's events to the meta-history", dbevents.cpp:107
\* "add an event to a metahistory": the events of a subcontact are in the chain
\* of its metacontact.
MetaHistoryComplete ==
  Quiet => \A e \in Id : owner[e] \in Live /\ parent[owner[e]] \in Live =>
             \E r \in srt : r.id = e /\ r.c = parent[owner[e]]

\* meta_services.cpp:432 "remove & restore all subcontacts": when a metacontact
\* has been deleted, its subcontacts are ordinary contacts again.
SubsAreRestored == Quiet => \A c \in Live : parent[c] # None => parent[c] \in Live
=============================================================================
