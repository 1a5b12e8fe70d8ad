------------------------------ MODULE Settings ------------------------------
(***************************************************************************)
(* Settings of the profile: the cache in memory (mdatabasecache.cpp) that  *)
(* answers every read, the writes and deletions that keep it in step with  *)
(* the table (MDatabaseCommon.cpp, Dbx_sqlite dbsettings.cpp), the         *)
(* transaction that is committed by a timer of the main thread             *)
(* (dbintf.cpp, dbintf.h), resident settings, which never leave the cache, *)
(* notifications, and crashes.                                             *)
(*                                                                         *)
(* Writes hold m_csDbAccess from the lookup to the table; deletions take   *)
(* the value out of the cache without it.  A write has four steps (lookup, *)
(* cache, table, notification), a deletion three.                          *)
(*                                                                         *)
(* A setting belongs to a contact, or to none.  Contacts are deleted under *)
(* the lock, with their rows and cached values; a thread that still knows  *)
(* the id may go on writing: without a cache entry, but with a row and a   *)
(* notification.  Ids are never given twice (AUTOINCREMENT), so that a     *)
(* contact still to be created is one that no call has named yet.          *)
(***************************************************************************)
EXTENDS Integers

CONSTANTS Proc,     \* threads
          Main,     \* the main thread
          Key,      \* contact, module and name of a setting
          Contact,  \* contacts
          Owner,    \* the contact of a setting, None for a global one
          Scalar,   \* values of type BYTE, WORD, DWORD, ASCIIZ or UTF8
          Blob,     \* values of type BLOB or ENCRYPTED
          Length,   \* cpbVal of a blob
          None      \* no value, no thread

ASSUME SettingsAssumption ==
  /\ Main \in Proc
  /\ Scalar \cap Blob = {}
  /\ Length \in [Blob -> Nat]
  /\ Owner \in [Key -> Contact \cup {None}]
  /\ Contact \cap Key = {}
  /\ None \notin Scalar \cup Blob \cup Proc \cup Key \cup Contact

Value == Scalar \cup Blob
Held  == Value \cup {None}

VARIABLES
  cache,        \* the cached value of every setting
  table,        \* the settings table as the open transaction sees it
  disk,         \* the table as of the last commit
  contacts,     \* the contacts in the cache and in the open transaction
  kept,         \* the contacts as of the last commit
  resident,     \* settings whose cached name is marked resident
  lock,         \* owner of m_csDbAccess
  op,           \* what every thread is doing
  timer,        \* m_impl.m_timer runs
  safe,         \* m_safetyMode
  view,         \* what the subscribers of SettingChanged were told last
  mark,         \* what has happened to a setting since the start
  unscheduled   \* a change since the last commit has not started the timer

vars == <<cache, table, disk, contacts, kept, resident, lock, op, timer, safe,
          view, mark, unscheduled>>

Phase == {"idle", "set", "store", "erase", "drop", "notify", "commit"}

\* The cached value a write points at: it may have been deleted since, and
\* there is none for a contact that is not in the cache.
Entry == {"live", "freed", "null"}

Op == [phase : Phase, key : Key \cup Contact \cup {None}, val : Held,
       hidden : BOOLEAN, entry : Entry]

Idle == [phase |-> "idle", key |-> None, val |-> None, hidden |-> FALSE,
         entry |-> "live"]

\* parted: cache and table may differ; unheard: subscribers may have missed a
\* change; stored: there was a row when the setting was made resident.
Mark == {"parted", "unheard", "stored"}

Init ==
  /\ disk = [k \in Key |-> None]
  /\ cache = disk
  /\ table = disk
  /\ contacts = Contact
  /\ kept = Contact
  /\ resident = {}
  /\ lock = None
  /\ op = [p \in Proc |-> Idle]
  /\ timer = FALSE
  /\ safe = TRUE
  /\ view = disk
  /\ mark = [k \in Key |-> {}]
  /\ unscheduled = FALSE

---------------------------------------------------------------------------
Busy(k) == \E p \in Proc : op[p].phase # "idle" /\ op[p].key = k

Marked(k, ms) == [mark EXCEPT ![k] = @ \cup ms]

\* GetCachedValuePtr finds global settings and those of the contacts cs.
Known(k, cs) == Owner[k] \in cs \cup {None}

\* Marks of a call that begins while another one for the setting is under way.
Begun(k) == IF Busy(k) THEN Marked(k, {"unheard"}) ELSE mark

\* The settings whose GetCachedValuePtr a write has obtained and not yet filled.
Filling(k) == {p \in Proc : op[p].phase = "set" /\ op[p].key = k /\ op[p].entry = "live"}

\* The code's test for an unchanged value.  For blobs of the same length it is
\* the wrong way round: memcmp is not compared with 0.
Identical(a, b) ==
  \/ a = b /\ b \in Scalar
  \/ a \in Blob /\ b \in Blob /\ Length[a] = Length[b] /\ a # b

\* DBFlush(false): CTimer::Start calls SetTimer for a window of the main
\* thread, which Windows need not allow to another thread.
DBFlush(p) ==
  \/ /\ safe
     /\ timer' = TRUE
     /\ UNCHANGED unscheduled
  \/ /\ ~safe \/ p # Main
     /\ unscheduled' = TRUE
     /\ UNCHANGED timer

---------------------------------------------------------------------------
(* WriteContactSetting *)

\* DBVT_BYTE_HIDDEN asks for no notification.  The lookup takes the lock and
\* makes an empty entry where there is none, except for an unknown contact.
WriteFind(p, k, v, h) ==
  /\ op[p].phase = "idle"
  /\ lock = None
  /\ h => v \in Scalar
  /\ lock' = p
  /\ op' = [op EXCEPT ![p] = [phase |-> "set", key |-> k, val |-> v, hidden |-> h,
                              entry |-> IF Known(k, contacts) THEN "live" ELSE "null"]]
  /\ mark' = Begun(k)
  /\ UNCHANGED <<cache, table, disk, contacts, kept, resident, timer, safe, view, unscheduled>>

\* Nothing to do: the lock is released, the call succeeds.
WriteIdentical(p) ==
  LET k == op[p].key IN
  /\ op[p].phase = "set"
  /\ op[p].entry = "live"
  /\ Identical(cache[k], op[p].val)
  /\ lock' = None
  /\ op' = [op EXCEPT ![p] = Idle]
  /\ UNCHANGED <<cache, table, disk, contacts, kept, resident, timer, safe, view, mark, unscheduled>>

\* Mutated: what comes after the cache is only about settings with a row.
AfterSetSilent(k) == IF k \in resident THEN "idle" ELSE "store"

\* Mutated: the mark of a resident setting is not looked at.
AfterSetStore(k) == "store"

\* A resident setting is finished with the cache.
AfterSet(k) == IF k \in resident THEN "notify" ELSE "store"

\* SetCachedVariant; into freed memory if a deletion came in between, and not
\* at all if there is no entry.
WriteSet(p) ==
  LET k == op[p].key IN
  /\ op[p].phase = "set"
  /\ op[p].entry = "live" => ~Identical(cache[k], op[p].val)
  /\ cache' = IF op[p].entry = "live" THEN [cache EXCEPT ![k] = op[p].val] ELSE cache
  /\ op' = [op EXCEPT ![p].phase = AfterSet(k)]
  /\ lock' = IF AfterSet(k) = "store" THEN lock ELSE None
  /\ UNCHANGED <<table, disk, contacts, kept, resident, timer, safe, view, mark, unscheduled>>

\* WriteContactSettingWorker: REPLACE INTO settings, then DBFlush.
WriteStore(p) ==
  /\ op[p].phase = "store"
  /\ table' = [table EXCEPT ![op[p].key] = op[p].val]
  /\ lock' = None
  /\ op' = [op EXCEPT ![p].phase = "notify"]
  /\ DBFlush(p)
  /\ UNCHANGED <<cache, disk, contacts, kept, resident, safe, view, mark>>

\* SQLite refuses: the call fails, and the cache keeps the value.
WriteFails(p) ==
  /\ op[p].phase = "store"
  /\ lock' = None
  /\ op' = [op EXCEPT ![p] = Idle]
  /\ mark' = Marked(op[p].key, {"parted", "unheard"})
  /\ UNCHANGED <<cache, table, disk, contacts, kept, resident, timer, safe, view, unscheduled>>

Notify(p) ==
  /\ op[p].phase = "notify"
  /\ op' = [op EXCEPT ![p] = Idle]
  /\ view' = IF op[p].hidden THEN view ELSE [view EXCEPT ![op[p].key] = op[p].val]
  /\ mark' = IF op[p].hidden THEN Marked(op[p].key, {"unheard"}) ELSE mark
  /\ UNCHANGED <<cache, table, disk, contacts, kept, resident, lock, timer, safe, unscheduled>>

---------------------------------------------------------------------------
(* DeleteContactSetting *)

\* Mutated: the row of a setting is left to a later clean-up.
AfterDeleteKeepsRow(k) == "notify"

AfterDelete(k) == IF k \in resident THEN "notify" ELSE "erase"

\* The value leaves the cache, without the lock; without a value, or without
\* the contact, the call fails.
DeleteCached(p, k) ==
  /\ op[p].phase = "idle"
  /\ cache[k] # None \/ Filling(k) # {}
  /\ cache' = [cache EXCEPT ![k] = None]
  /\ op' = [q \in Proc |->
       IF q = p THEN [phase |-> AfterDelete(k), key |-> k,
                      val |-> None, hidden |-> FALSE, entry |-> "live"]
       ELSE IF q \in Filling(k) THEN [op[q] EXCEPT !.entry = "freed"] ELSE op[q]]
  /\ mark' = Begun(k)
  /\ UNCHANGED <<table, disk, contacts, kept, resident, lock, timer, safe, view, unscheduled>>

\* Mutated: DBFlush is not called.
DeleteRowNoFlush(p) ==
  LET k == op[p].key IN
  /\ op[p].phase = "erase"
  /\ lock = None
  /\ table' = [table EXCEPT ![k] = None]
  /\ op' = [op EXCEPT ![p].phase = "notify"]
  /\ mark' = IF cache[k] # None THEN Marked(k, {"parted"}) ELSE mark
  /\ UNCHANGED <<cache, disk, contacts, kept, resident, lock, timer, safe, view, unscheduled>>

\* DeleteContactSettingWorker waits for the lock and deletes the row, also the
\* one that a write has stored since.  DBFlush follows outside the lock; all it
\* does is to start the timer, so it is part of the step.
DeleteRow(p) ==
  LET k == op[p].key IN
  /\ op[p].phase = "erase"
  /\ lock = None
  /\ table' = [table EXCEPT ![k] = None]
  /\ op' = [op EXCEPT ![p].phase = "notify"]
  /\ mark' = IF cache[k] # None THEN Marked(k, {"parted"}) ELSE mark
  /\ DBFlush(p)
  /\ UNCHANGED <<cache, disk, contacts, kept, resident, lock, safe, view>>

---------------------------------------------------------------------------
(* DeleteContact *)

\* The contact is looked up before the lock is taken.
DropFind(p, c) ==
  /\ op[p].phase = "idle"
  /\ c \in contacts
  /\ op' = [op EXCEPT ![p] = [Idle EXCEPT !.phase = "drop", !.key = c]]
  /\ UNCHANGED <<cache, table, disk, contacts, kept, resident, lock, timer, safe,
                 view, mark, unscheduled>>

\* What is left of the settings f without those of contact c.
Without(f, c) == [k \in Key |-> IF Owner[k] = c THEN None ELSE f[k]]

\* The rows and the contact go, then FreeCachedContact.  Subscribers get no
\* SettingChanged.  DBFlush follows outside the lock, as in DeleteRow.
DropRows(p) ==
  LET c == op[p].key IN
  /\ op[p].phase = "drop"
  /\ lock = None
  /\ table' = Without(table, c)
  /\ cache' = Without(cache, c)
  /\ contacts' = contacts \ {c}
  /\ op' = [op EXCEPT ![p] = Idle]
  /\ DBFlush(p)
  /\ UNCHANGED <<disk, kept, resident, lock, safe, view, mark>>

\* SQLite refuses one of the four statements, before or after the one for the
\* settings; the cache keeps the contact and nothing starts the timer.
DropFails(p) ==
  LET c == op[p].key IN
  /\ op[p].phase = "drop"
  /\ lock = None
  /\ \/ UNCHANGED <<table, mark, unscheduled>>
     \/ /\ table' = Without(table, c)
        /\ mark' = [k \in Key |-> IF Owner[k] = c THEN mark[k] \cup {"parted"} ELSE mark[k]]
        /\ unscheduled' = TRUE
  /\ op' = [op EXCEPT ![p] = Idle]
  /\ UNCHANGED <<cache, disk, contacts, kept, resident, lock, timer, safe, view>>

---------------------------------------------------------------------------
(* Resident settings, the transaction, restarts *)

\* SetSettingResident changes the mark without the lock and leaves a row that
\* exists, or is being written, where it is.
SetSettingResident(k, b) ==
  /\ (k \in resident) # b
  /\ resident' = IF b THEN resident \cup {k} ELSE resident \ {k}
  /\ mark' = Marked(k, {"parted"} \cup
       IF table[k] # None \/ disk[k] # None
          \/ \E p \in Proc : op[p].phase = "store" /\ op[p].key = k
       THEN {"stored"} ELSE {})
  /\ UNCHANGED <<cache, table, disk, contacts, kept, lock, op, timer, safe, view, unscheduled>>

\* DBFlush(true), by Flush or Compact.
Commit ==
  /\ lock = None
  /\ disk' = table
  /\ kept' = contacts
  /\ unscheduled' = FALSE
  /\ UNCHANGED <<cache, table, contacts, resident, lock, op, timer, safe, view, mark>>

\* OnTimer stops the timer before it commits.
OnTimer ==
  /\ timer
  /\ op[Main].phase = "idle"
  /\ timer' = FALSE
  /\ op' = [op EXCEPT ![Main].phase = "commit"]
  /\ UNCHANGED <<cache, table, disk, contacts, kept, resident, lock, safe, view, mark, unscheduled>>

\* Mutated: DBFlush(false) instead of DBFlush(true).
TimerCommitUnforced ==
  /\ op[Main].phase = "commit"
  /\ op' = [op EXCEPT ![Main] = Idle]
  /\ DBFlush(Main)
  /\ UNCHANGED <<cache, table, disk, contacts, kept, resident, lock, safe, view, mark>>

TimerCommit ==
  /\ op[Main].phase = "commit"
  /\ lock = None
  /\ disk' = table
  /\ kept' = contacts
  /\ unscheduled' = FALSE
  /\ op' = [op EXCEPT ![Main] = Idle]
  /\ UNCHANGED <<cache, table, contacts, resident, lock, timer, safe, view, mark>>

\* A change made while the mode was off is not flushed when it is switched on.
SetCacheSafetyMode(b) ==
  /\ safe' = b
  /\ UNCHANGED <<cache, table, disk, contacts, kept, resident, lock, op, timer, view, mark,
                 unscheduled>>

\* InitSettings fills the cache from the rows d; those of contacts that are not
\* in cs are garbage and stay in the table.
InitSettings(d, cs) == [k \in Key |-> IF Known(k, cs) THEN d[k] ELSE None]

Restart(d, cs) ==
  /\ disk' = d
  /\ cache' = InitSettings(d, cs)
  /\ table' = d
  /\ contacts' = cs
  /\ kept' = cs
  /\ resident' = {}
  /\ lock' = None
  /\ op' = [p \in Proc |-> Idle]
  /\ timer' = FALSE
  /\ safe' = TRUE
  /\ view' = InitSettings(d, cs)
  /\ mark' = [k \in Key |-> {}]
  /\ unscheduled' = FALSE

\* The open transaction is lost.
Crash == Restart(disk, kept)

\* The destructor commits; the threads have ended by then.
Exit ==
  /\ \A p \in Proc : op[p].phase = "idle"
  /\ Restart(table, contacts)

Next ==
  \/ \E p \in Proc :
       \/ \E k \in Key : DeleteCached(p, k) \/ \E v \in Value, h \in BOOLEAN : WriteFind(p, k, v, h)
       \/ WriteIdentical(p)
       \/ WriteSet(p)
       \/ WriteStore(p)
       \/ WriteFails(p)
       \/ DeleteRow(p)
       \/ Notify(p)
       \/ \E c \in Contact : DropFind(p, c)
       \/ DropRows(p)
       \/ DropFails(p)
  \/ \E k \in Key, b \in BOOLEAN : SetSettingResident(k, b)
  \/ Commit
  \/ OnTimer
  \/ TimerCommit
  \/ \E b \in BOOLEAN : SetCacheSafetyMode(b)
  \/ Crash
  \/ Exit

Spec == Init /\ [][Next]_vars

\* Windows delivers a timer that runs to a main thread that waits for messages.
FairSpec == Spec /\ WF_vars(OnTimer) /\ WF_vars(TimerCommit)

---------------------------------------------------------------------------
\* Types; and m_csDbAccess is held by the thread that is inside a write.
TypeOK ==
  /\ cache \in [Key -> Held]
  /\ table \in [Key -> Held]
  /\ disk \in [Key -> Held]
  /\ contacts \subseteq Contact
  /\ kept \subseteq Contact
  /\ resident \subseteq Key
  /\ lock \in Proc \cup {None}
  /\ op \in [Proc -> Op]
  /\ timer \in BOOLEAN
  /\ safe \in BOOLEAN
  /\ view \in [Key -> Held]
  /\ mark \in [Key -> SUBSET Mark]
  /\ unscheduled \in BOOLEAN
  /\ \A p \in Proc : lock = p <=> op[p].phase \in {"set", "store"}

\* Between calls for it, a setting that was never resident, whose writes and
\* whose contact's deletion did not fail and which no deletion undercut, reads
\* from the cache as a restart would load it from the table: late writes for a
\* contact that has been deleted are never read, now or after a restart.
CacheMatchesTable ==
  \A k \in Key :
    ~Busy(k) /\ "parted" \notin mark[k]
    => cache[k] = InitSettings(table, contacts)[k]

\* A subscriber that keeps a copy of a setting from the notifications has the
\* cached value as long as the setting's contact exists, unless calls for it
\* overlapped, failed or were hidden.
ListenersAgree ==
  \A k \in Key :
    ~Busy(k) /\ "unheard" \notin mark[k] /\ Known(k, contacts)
    => view[k] = cache[k]

\* A resident setting that had no row when it was made resident gets none.
ResidentNotStored ==
  \A k \in resident : "stored" \notin mark[k] => table[k] = None /\ disk[k] = None

\* While every change since the last commit started the timer, a change that
\* is not on the disk has the timer running or the main thread in OnTimer.
ChangesScheduled ==
  <<table, contacts>> # <<disk, kept>> /\ ~unscheduled => timer \/ op[Main].phase = "commit"

\* Once calls for settings pause, everything that started the timer reaches
\* the disk.  Without a pause it need not: every write starts the 50 ms again.
Quiet == \A p \in Proc : op[p].phase \in {"idle", "commit"}

FlushedWhenQuiet == <>[]Quiet => <>[](<<table, contacts>> = <<disk, kept>> \/ unscheduled)
=============================================================================
