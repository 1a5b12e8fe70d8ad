# Verification of Miranda NG

TLA+ models of the core of Miranda NG, a multi-protocol instant messenger: the
run-time that every plugin stands on (threads, events, services, calls into the
main thread), the profile (settings, message history, metacontacts), the life cycle
of accounts, and the send queue of the message window. TLC checks the models on
small instances, TLAPS proves the safety properties for all values of the constants.

Paths below are relative to the repository; line numbers are in `PROJECT.json`
(`map`), one entry per definition.

## 1. The system

Miranda NG is a small executable, two libraries and some 160 plugins. The
libraries hold the program's own logic:

| component | state it keeps | operations | interacts with |
|---|---|---|---|
| **Thread registry** `src/mir_core/src/Windows/threads.cpp` | list `threads`, event `hThreadQueueEmpty`, one `FORK_ARG` per fork | `mir_forkthread`, `mir_forkthreadex`, `mir_forkthreadowner`, `Thread_Push`, `Thread_Pop`, `KillObjectThreads`, `Thread_Wait`, `KillAllThreads` | message loop (`EnterMessageLoop`), accounts that end |
| **Hookable events** `src/mir_core/src/modules.cpp` | table of events, array of subscribers per event, event ids | `CreateHookableEvent`, `DestroyHookableEvent`, `HookEvent*`, `UnhookEvent`, `Kill*EventHooks`, `NotifyEventHooks`, `NotifyFastHook`, `CallObjectEventHook`, `CallPluginEventHook` | everything: subscribers run inside a notification and call back |
| **Services and main-thread calls** `modules.cpp`, `Windows/miranda.cpp` | table of services, queue of the APC window, one auto-reset event per thread | `CreateServiceFunction*`, `DestroyServiceFunction`, `CallService`, `CallServiceSync`, `CallFunctionSync`, `CallFunctionAsync` | workers of all protocols, the message loop |
| **Event history** `plugins/Dbx_sqlite/src/dbevents.cpp`, `dbcontacts.cpp` | tables `contacts`, `events`, `events_srt`; `DBCachedContact` in memory | `AddEvent`, `DeleteEvent`, `EditEvent`, `MarkEventRead`, cursors, `AddContact`, `DeleteContact`, merge and split | protocol threads, main thread, metacontacts |
| **Metacontacts** `src/mir_app/src/meta_*.cpp` | settings `ParentMeta`, `NumContacts`, `Handle<n>`; `parentID`, `pSubs`, `nSubs` | `Meta_Assign`, `Meta_RemoveContactNumber`, `Meta_Delete`, the contact deletion hook | history, settings |
| **Settings** `mdatabasecache.cpp`, `MDatabaseCommon.cpp`, `Dbx_sqlite/src/dbsettings.cpp`, `dbintf.cpp` | cached and resident settings, table, open transaction, flush timer | get, write, delete, enumerate, make resident, flush | all plugins; subscribers of `SettingChanged` |
| **Accounts** `proto_accs.cpp`, `proto_opts.cpp` | list of accounts, their protocol objects, the list in the profile | create, enable, disable, delete, load | threads, hooks, services of the object |
| **Send queue** `plugins/TabSRMM/src/sendqueue.cpp` | fixed array of jobs, counters, timers, shown error of each window | add, acknowledge, time out, retry, give up, split | protocol acks, message window, history |
| Chat rooms `chat_manager.cpp`, `chat_svc.cpp` | sessions, users, statuses | GC events | message window, contact list |
| Contact list events, file transfers, Netlib, other drivers, protocols, UI | see `PROJECT.json` | | |

How they interact. Protocol threads are forked through the registry and reach the
rest of the program in three ways: directly (the database, under its lock), by
`CallFunctionSync`/`CallServiceSync`/`NotifyEventHooks`, which queue an item for
the main thread and wait, and by asynchronous calls. A notification runs
subscribers of any plugin, which may change the tables of events and services
under the notification. An account's object owns threads, hooks and services and
loses them one kind after the other in a thread that takes it apart. The message
window hands texts to a protocol and gets acknowledgements as notifications, much
later or never. At the end the main thread waits for the thread list to become empty
while it keeps pumping messages.

What is hard here: locks that are taken too late (`ResetEvent` before
`csThreads`, `AddEvent`'s lookup before `m_csDbAccess`, `DeleteContactSetting`'s
change of the cache before it), pointers used after an unlock (`CallService`, cached
contacts, handles of ended threads, the slot `DoSplitSendA` keeps), items on the
stack of another thread, arrays changed while they are walked, addresses and names
used again, forced termination in the middle of anything, and state kept in two
places (settings and cache, transaction and disk, events and chains, accounts in
memory and in the profile). The list with lines is `hazards` in `PROJECT.json`.

What makes each part correct:

- registry: an entry exists exactly while its thread may run the body; the event is
  not left reset over an empty list; `FORK_ARG` is alive when it is read; forks and
  the shutdown come to an end;
- events: handles keep naming their own subscription; a notification calls everyone
  who was there throughout, once, in order; after unhooking nothing leads back;
- main-thread calls: a call is executed once while its caller waits, and its answer
  reaches that very call;
- history: no event leaves the chain of its contact, no chain gets a stranger's
  event, counters agree with chains, links name contacts that exist;
- settings: what reads get is what a restart brings back, subscribers are told what
  reads get, resident settings stay out of the profile, changes reach the disk;
- accounts: an enabled account has one live object that its hooks and services reach;
  taking an object apart never touches another one; what the next start finds is what
  the user sees, and what was deleted is erased;
- send queue: a late answer, a timeout or the user's click acts on the message it is
  about; a message is stored once if it was sent; nothing waits for ever.

## 2. Modules

| module | models | checked by | proved in |
|---|---|---|---|
| `Threads` | registry, fork protocol, shutdown | `MCThreads` + 3 cfgs | `ThreadsProofs` |
| `Hooks` | hookable events | `MCHooks` | `HooksProofs` |
| `SyncCall` | what a synchronous call promises (abstract) | through `MainQueue` | |
| `MainQueue` | services, APC queue, nested loops | `MCMainQueue` | `MainQueueProofs` |
| `EventLog` | what the history promises an ordinary contact (abstract) | through `History` | |
| `History` | events, chains, metacontacts | `MCHistory` + 3 cfgs | `HistoryProofs` |
| `Settings` | cache, table, transaction, notifications | `MCSettings` | `SettingsProofs` |
| `Accounts` | accounts and the life of their objects | `MCAccounts` | `AccountsProofs` |
| `Outbox` | what the send queue promises about a message (abstract) | through `SendQueue` | |
| `SendQueue` | jobs, acknowledgements, timeouts, retries | `MCSendQueue` + 2 cfgs | `SendQueueProofs` |

Definitions whose comment starts with "Mutated" are not part of the models. Each is
a plausible mistake in the definition after it, and shows that the property named
in `PROJECT.json` notices that mistake.

Several modules carry variables the program does not have. They record that something
happened after which the code promises less (`stray`, `freed`, `raced`, `mark`,
`unscheduled`, `impaired`, `clashed`, `strayed`, `mixed`), or what became of a message
(`fate`, `stored`). No action reads them in a guard.

### Threads

A thread is `unborn` until somebody forks it. `mir_forkthread`,
`mir_forkthreadowner` and `KillObjectThreads` start with `CreateThread`; the forker
goes through `creating` (the handle is not yet in `FORK_ARG`) and `forking` (it
waits for `fa.hEvent`). The child takes `PushReset` (reads `FORK_ARG`, resets
`hThreadQueueEmpty`, without the lock), `PushInsert` (under the lock), `PushSignal`,
runs, and leaves by `CloseForkHandle`, `Thread_Pop`, `ThreadExit`. A child that reads
`FORK_ARG.hThread` before it was stored (`hValid`) later closes garbage: nothing or
any open handle. A worker of `KillObjectThreads` collects, waits and kills in
separate steps. Shutdown is `Thread_Wait`, `Thread_WaitReturn`, `LeaveMessageLoop`
with the timer `KillAllThreads` firing at any time; nobody kills that timer, so it may
fire again. Time is not modelled, every timeout may expire while its wait is
pending. Each thread identity is used once.

### Hooks

`mem[e]` is the allocated array, `cnt[e]` the part in use, `frames[p]` the
notifications running in thread `p`. The table changes under `csHooks`, a walk holds
only the event's `csHook`, so all interleavings of table steps and walk steps are
allowed, except that two threads cannot walk the same event. A handle is the pair of
id and slot number that the code packs into one integer; below 2^15 ids and 2^16
slots the packing loses nothing. `CallSubscriber` reads a slot and calls what it finds in
one step, whereas `CallHookSubscribers` does it without `csHooks`: a call that is already under way
in another thread when `UnhookEvent` returns is not represented. `HookEventMessage` leaves `hOwner` uninitialised,
which is a choice over all owners unless the freed slot is still there; `stray`
records that a window's hook was killed because of it. Not represented: torn reads
while `mir_realloc` moves the array, and walks over the array of an event that was
destroyed meanwhile (such a walk ends).

### MainQueue and SyncCall

A worker's item is identified by worker and call number; `result[w]` is the field in
the item on `w`'s stack, `signalled` the workers whose event is set. `Post` drops a
message when the queue is full or the window is gone, as `PostMessage` does with its
result ignored. `stack` holds what the main thread is running: a function in phase
`run` may pump messages and dispatch further items on top. `CallService` is two steps,
because it reads the service after the lock is released: a service destroyed between
them is used with its old contents, or faults. A worker may be terminated at any time;
its item stays in the queue. `SyncCall` is the promise: called, executed once, returned
with that answer. `ImplementsSyncCall` maps a posted worker without a result to
`called`, with one to `done`.

### History and EventLog

`owner[e]` is the row of `events`, `srt` the table `events_srt` with its unique key of
contact and timestamp, `count`, `parent` the cached `m_count`, `parentID`, `saved` the
setting `ParentMeta` that survives a restart. `AddEvent` and `DeleteEvent` are two
steps each (lookup and notification without the lock; the work under it), by any
thread. The main thread's operations are cut where they leave the lock: `Meta_Assign`
then `MetaMergeHistory`; `MetaSplitHistory` then `Unlink`, repeated by `Dissolve`;
`db_delete_contact` with its hook, then `DeleteContact`. `AddEventSrt` takes the first
free timestamp. A merge that meets a taken timestamp fails; because of
`journal_mode = OFF` the rows before it stay or not. `Load` is the next start: it
recounts and rereads the links. Contacts are deleted by the main thread only, as the
contact list does it; `db_delete_contact` may be called by workers too, which the model
leaves out. A contact freed under a call (`freed`) is used with
its old contents or those of the contact that got the memory. Not represented: the
system contact 0, errors of SQLite other than the constraint, event contents.

`EventLog` is what an ordinary contact may rely on: a log of its own, which one `Add`
extends by a fresh id at a free timestamp, one `Delete` shortens by that id, and
nothing else changes until the contact goes. It knows no metacontacts, no links and no
restarts. `ImplementsEventLog` maps `log[c]` to the rows of `c` in `events_srt`
(`LogSeen`) and a pending call to what was asked (`CallSeen`), leaving out the parent
that was looked up; linking, merging, splitting and loading become stuttering steps.
Once a contact was freed under a call the log is `broken` and promises nothing.

### Settings

`cache`, `table` and `disk` are the three places of a value: `MDatabaseCache`, the
`settings` table as the open transaction sees it, and the table as of the last
commit; `contacts` and `kept` are the contacts now and as of the last commit. A setting
belongs to a contact or is global (`Owner`). A write (`WriteFind`, `WriteSet` or
`WriteIdentical`, `WriteStore` or `WriteFails`, `Notify`) holds `m_csDbAccess` from the
lookup to the table; a deletion (`DeleteCached`, `DeleteRow`, `Notify`) changes the cache
without it, so a deletion in the middle of a write frees the value the write points at.
The `entry` of a write says what `GetCachedValuePtr` gave it: a `live` value, one `freed`
since, or `null`, because the contact is not in the cache. With `null` the cache is left
alone, but the row is stored and announced all the same.

`DropFind`, `DropRows` and `DropFails` are `DeleteContact`: rows, contact and cached values go
under the lock, after a lookup without it, and a statement that fails leaves the cached
contact with its settings deleted or not. A thread that still knows the id can write rows
for a contact that is gone. `InitSettings`, the load at a start, skips such rows (it
calls them garbage) and they stay in the table; `Known` is that test. Ids of contacts are
`AUTOINCREMENT` (`dbintf.cpp:44`) and never come back, so a contact created later is one
that no call has named before: it needs no action, being there from the start makes
no difference to its settings.

`Identical` is the code's test for an unchanged value with the inverted `memcmp` for
blobs. `DBFlush` starts `m_timer`, unless the safety mode is off or Windows refuses a
worker thread's `SetTimer`; in `DeleteContactSetting` and `DeleteContact` it follows after
the unlock and is part of the step before, since all it does is to start the timer.
`OnTimer` and `TimerCommit` are the main thread's flush, `Commit` a forced one. `Crash` loses
the open transaction as a whole, `Exit` commits it; with `journal_mode = OFF` a crash
inside SQLite's commit can leave part of it, or a damaged file, which no code here
handles. `mark` records per setting that a write or the deletion of its contact failed,
a deletion undercut a write or residence changed (`parted`), that calls overlapped or were
hidden (`unheard`) and that there was a row when it became resident (`stored`). Left out:
reads (one look at the cache), enumeration, encryption.

### Accounts

Accounts are numbered `1..MaxAccounts`. `listed` is `g_arAccounts`, `name` and `proto` are
`szModuleName` and `szProtoName`, `enabled` and `dyn` the flags `bIsEnabled` and
`bDynDisabled`; `saved` is the list of names and flags that `WriteDbAccounts` left in the
profile, `base` the setting `AM_BaseProto` of a module. Objects are addresses: `heap` says
whose object lives there, `hooked` and `service` what leads to it. Addresses and names are
used again, which is the point of the module.

The main thread's handlers (`Proto_CreateAccount`, `EnableAccount`, `DisableAccount`,
`DisableImpaired`, `DeleteActive`, `DeleteInactive`) are single steps; each
`DeactivationThread` is a job with the steps `Quit`, `KillObjectEventHooks`, `Uninit`,
`KillObjectServices` and `JobErase` between which anything may happen. A name that the user
types in must not be in the list, a generated one only must have no `AM_BaseProto`: a
listed account whose settings were erased by the thread of an older one can get a
namesake. Of two namesakes `g_arAccounts.remove` may take the wrong one out of the list
(`Removed`); the other one stays without a protocol and the removed one keeps an object
that no list knows. `ActivateFails` is any of the failure returns of `ActivateAccount`: no
protocol, no `fnInit`, no object.

`Restart` may come at any time and is `LoadDbAccounts` followed by `LoadAccountsModule`. A
saved account without `AM_BaseProto` gets its own module name for it (protocol
`"module"`); if there is no protocol of that name (`Protocols`), or the protocol is not
loaded, the account is dynamically disabled and has no object. A module with
`AM_BaseProto` that is not in the saved list comes back disabled.

`impaired` names accounts whose last activation failed, or found an older object of the
same name or address (its services may be refused, or removed with the older ones), or
which lost their place to a namesake; `clashed` names that were given to an account while
another of that name was in the list or being erased. Left out: loading and unloading of
protocol plugins (`KillModuleAccounts`, a null `fnUninit`), upgrades of old or dynamically
disabled accounts, the metacontact protocol's own account, a crash inside a handler of the
main thread, order and visibility (`CheckProtocolOrder` only in that `LoadDbAccounts` may or
may not write the list again), statuses, the end of the program (`UnloadAccountsModule`).

### SendQueue and Outbox

`jobs` is `m_jobs` slot by slot, `currentIndex` and `openJobs` are the two counters that
are kept separately, `curError` the error a window shows, `timers` its running send
timers, `wire` the sends that a protocol has not answered. All handlers run in the main
thread and are one step each; `DoSplitSendA` is a thread per long message that keeps a
pointer to its slot (`SplitChunk`, `SplitStore`) and posts `DM_SPLITSENDACK`. A window
that is closed leaves its jobs in progress behind; after 120 seconds (`JobAges`) such a
slot is taken again. Protocols answer at any later time, with success or failure, or
never; ids are not reused. `strayed` records that a splitter met a slot that no longer
holds its message.

The window of a metacontact sends to its active subcontact, and its jobs carry that
contact; the subcontact may have a window of its own. The queue finds the jobs of a window
by contact (`findNextFailed`, `OnDestroy`), so that two such windows get at each other's
jobs: one shows the other's failure, cancels it or throws it away when it closes. `mixed`
records that such a window was opened beside the other, or upon a failed job that the
other left (`Meets`); everything about windows is stated until then, everything about
messages throughout. `Matches` leaves out the test in `ProtoAck` whether the window's
contact is the job's or its metacontact: it is true while the links stand still, and an
answer ignored because the link was removed is to the queue an answer that never comes.
Left out: the jobs of `sendlater.cpp`, the warning before pending jobs are lost, a change of
the active subcontact while its window is open.

`Outbox` is the promise about a message, without slots, ids of slots, timers, retries or
windows: it is written once; it is sent, delayed or given up once; what has become of it
never changes again. A message in one piece is sent by an answer to one of its own sends
and enters the history in that step. `ImplementsOutbox` keeps `fate`, `stored` and `wire`
and maps `loose`, the messages of which less is promised, to those sent in pieces, and
to all of them once a splitter strayed (`LooseSeen`).

## 3. Runs

| run | question | instance | distinct states |
|---|---|---|---|
| `threads` | are list, event, handles and fork arguments consistent, do forks return, does the shutdown end? | 2 threads and the main thread, 1 owner | 52,549 |
| `threads_wait_empty` | *violation*: does `Thread_Wait` wait "til the thread list is empty"? | 3 threads | stops at the trace |
| `threads_wait_all` | *violation*: does the worker "wait'em all"? | 3 threads | stops at the trace |
| `hooks` | are handles, order and the walk sound under every change, with nested notifications and two threads? | 1 event made twice, 3 subscriptions, depth 2 | 594,210 |
| `main_queue` | are items alive, signals fresh, async calls in order, is every call executed once and answered, does an accepted call return? | 2 workers, 3 calls, queue 2, depth 2 | 574,084 |
| `history` | are chains, counters and links right, and does a contact see a plain log of its events? | 2 contacts, 1 metacontact, 2 threads, 2 events, 2 timestamps | 2,402,449 |
| `history_merge` | *violation*: are all events of a subcontact in the meta-history? | as `history` | stops at the trace |
| `history_restore` | *violation*: are subcontacts restored when the metacontact is deleted? | as `history` | stops at the trace |
| `settings` | do cache, table, disk and subscribers agree, and are changes flushed? | 2 threads, 1 contact with 1 setting, 1 scalar, 2 blobs of equal length | 2,113,266 |
| `send_queue` | do answers, timeouts and clicks act on their own message, is the fate of a message final, and does every wait end? | 2 slots, the windows of a metacontact and of its subcontact, 2 messages, 3 ids, 2 chunks | 1,184,815 |
| `send_queue_split` | *violation*: is "everything sent" when the job of a long message is removed? | as `send_queue` | stops at the trace |
| `accounts` | are objects, hooks, services and settings kept apart while old objects are taken apart, and does a start find the accounts? | 2 names (one also a protocol's), 2 accounts, 2 addresses, 2 deactivations between starts | 478,117 |

Why the bounds are enough. Threads: a race needs a forker, a child and one third
party that pops or kills; with the main thread, which also forks, two threads give
three actors. Hooks: a skipped or repeated call needs a subscriber before, at and after
the position of the walk, and a second incarnation of the event; nesting needs depth
two. `NestedBound` explores nested notifications with two subscriptions only, which
saves time. MainQueue: two workers with a queue of two reach a full queue, and three
calls make an asynchronous, a synchronous and a following synchronous call of one
worker; depth two is the shortest nested loop. History: two subcontacts collide on a
timestamp in one metacontact, two threads race on one event. Settings: settings do not
interact but through the lock and the transaction; the setting is a contact's, which a
global one is like as long as the contact stays; two threads suffice for every
overlap of a write and a deletion, and two blobs of one length for the inverted
comparison. SendQueue: two slots let one be cleared and reused while the other is in use
and make the queue full, three ids allow a retry besides two sends; the two windows are
apart, side by side, or one comes after the other. Accounts: an address or a name can be
reused while a deactivation is at any of its steps, both accounts can get the same name,
and one of the names still has a protocol when its settings are lost.
The safety properties are proved without these bounds (section 5).

`CHECK_DEADLOCK FALSE` is set throughout: the program may stop (everything has ended,
nobody calls), and bounded counters run out. That nobody is stuck where the code waits
is stated by the liveness properties instead.

What the violations show. Each quotes a line of the repository (`findings`). They are
races or omissions with limited effect: a shutdown that does not wait for a thread
just being forked; a wait for an account's threads that is skipped; an event that is
not shown in the metacontact's history; subcontacts that store no events until the next
start; a long message whose job ends, and which is reported as sent, before its last
chunk has left.

Conditional properties. `RegisteredWhileRunning`, `NoLostWakeup` and the two waits are
stated for executions in which no child lost the race for `FORK_ARG.hThread`, since
afterwards any handle may be closed; `HandleNamesOwnSlot` for executions in which no
window's hook was killed by accident; `OwnEventsOnly` and `CountExact` for executions
without use of a freed contact, `CountExact` also without two threads deleting the same
event: both find it, and the second counts it down again although it deletes nothing.
`CacheMatchesTable`, `ListenersAgree` and `ResidentNotStored` look at settings without the
mark that excuses them, `ChangesScheduled` at changes that could start the timer;
`CacheMatchesTable` covers settings of deleted contacts too (nobody reads them, now or after
a restart), `ListenersAgree` only those of contacts that exist: a late write is announced
although no read returns it. `EnabledIsReachable` leaves out `impaired` accounts,
`RestartKeepsAccounts` those whose name has `clashed`; `ImplementsEventLog` promises nothing
after the use of a freed contact, and `ImplementsOutbox` less for messages in pieces;
`LateAckFindsOwnJob` and `StoredWhenSent` hold until a splitter strayed; `TimerOnOwnJob`,
`ErrorNamesOwnFailure`, `FailureShown`, `CounterCoversJobs` and `NoEndlessWait` until the
windows of a metacontact and its subcontact have met (`mixed`), and `FailureShown` is about
windows whose contact is the active one. In each case the code
really does not keep the property beyond the condition. TLC reaches states on both
sides of each one.

## 4. Fairness

- `Threads`: every thread that can take a step of the registry's own code is
  eventually scheduled (`Resume`, `Push`, `Leave`, `Worker`), waits that are satisfied
  return, and the timer fires: guarantees of the operating system. Thread bodies
  (`BodyReturn`, `Code`) are not fair, a body may run for ever; that is what the timer
  is for.
- `MainQueue`: the main thread serves its queue and the functions it runs return
  (`WF(MainServes)`), and a worker whose event is set is scheduled. The first is what
  the program relies on everywhere: its message loop runs until the window is destroyed.
  New calls, deaths and changes of services are not fair.
- `Settings`: a running timer is delivered to a main thread that is not inside a call
  (`WF(OnTimer)`), and the flush it started goes on (`WF(TimerCommit)`). `FlushedWhenQuiet` has
  the pause it needs as its premise: every write starts the 50 ms again.
- `SendQueue`: only the timers of the window (`WF(SendTimeout)`). Protocols owe nothing.
- `Accounts`: a deactivation goes on (`WF(JobStep)`). This includes the loop that waits for
  `IsReadyToExit`, so it assumes that every protocol becomes ready once it is offline.
- `History` has safety properties only.

## 5. Proofs

All theorems hold for arbitrary constants that satisfy the module's `ASSUME`. These say
that null values are not among the real ones, that bounds are natural numbers, and of
which sort the functions and subsets among the constants are: the owner of a setting is a
contact or nobody, windows are those of contacts and send to a contact, the main thread is
a thread. None of them restricts which windows are open or how metacontacts are linked.

- `ThreadsProofs`: `TypeOK`, `NoStaleEntry`, `RegisteredWhileRunning`, `NoLostWakeup`,
  `ForkArgAlive`. Together with `Bookkeeping` they are inductive. `Bookkeeping` says
  that a worker of `KillObjectThreads` belongs to no object, so it never kills itself,
  that a fresh thread has not raced yet and that `hEvent` is set after the insertion.
  `ForkersAreAwaited`: a forker that waits for `fa.hEvent` has a child that has set it,
  is on its way there, or was terminated. The proof reduces every step to what it may do to
  a child that has not set the event (`ForkStep`).
- `HooksProofs`: all properties of the run, `TypeOK`, and `EmptyIsZero` (the last counted
  slot is in use, which `checkHook` relies on). `TableShape` says that ids are
  handed out once and that a slot in use and the handle of its subscription name each
  other; this makes `UnhookEvent` safe. `FrameShape` says what a walk at position `i` has
  done: the subscribers before `i` that it owes a call have been called, none from `i`
  on has.
- `MainQueueProofs`: `TypeOK`, `ItemAlive`, `SignalIsFresh`, `AsyncNotOvertaken`, and
  `ImplementsSyncCall` (a safety refinement). The invariant says that the calls of a
  worker stand in the order queue, stack with decreasing numbers (`QueueOK`, `StackOK`,
  `BetweenOK`), so the one it waits for is unique, and that the result is unset exactly
  until the frame is `stored` (`ReplyOK`). `CallersAreNotForgotten` is an action property: no
  step loses an accepted call. It sees queue and stack as one set of `Entries` and needs
  that the call a worker waits in is a synchronous one (`WaitsForSync`), because an
  asynchronous frame ends without a signal.
- `HistoryProofs`: `TypeOK`, `NothingLost`, `OwnEventsOnly`, `SavedLinksAreLive`,
  `CountExact`, and `ImplementsEventLog`. `IdsOK`
  (a new event has no rows), `PendOK`, `ParentOK` (only ordinary contacts have parents,
  parents are metacontacts) and `MetaRowsOK` make splits harmless to ordinary chains;
  `LinkOK` and `JobOK` keep saved links away from contacts about to be deleted. For the
  counters, `CallsOK` says that the event of a pending deletion still belongs to the contact
  that was looked up, or is gone; the lemmas `AddedRow` and `DeletedRow` say that an addition
  gives the chain of its contact one row and a deletion takes one, so the finite
  cardinality moves with `m_count`. The refinement uses the same two lemmas,
  `MainKeepsChains` (no step of the main thread touches an ordinary chain, except the
  deletion of its contact) and `JobLive` (a contact about to be deleted is still there).
- `SettingsProofs`: `TypeOK` (with: the lock is held exactly by the thread inside a write),
  `CacheMatchesTable`, `ListenersAgree`, `ResidentNotStored`, `ChangesScheduled`. The first
  two are about settings no call is working on; `CacheInv` and `ViewInv` say what holds
  during a call: which thread is going to bring the table, or the subscribers, to the
  value of the cache. Both distinguish whether the setting's contact is there (`Known`):
  if not, the cache is empty whatever rows are written. `EntryInv` says that a write has a
  `null` entry exactly if the contact is missing, and keeps it so because a contact is
  deleted under the lock the write holds. `OpShape` ties a thread's phase to its key,
  `ResidentInv` adds the write that is about to store.
- `AccountsProofs`: `TypeOK`, `EnabledIsReachable`, `ObjectsNotShared`, `HookedIsAlive`,
  `ServiceIsAccountedFor`, and the action property `RestartKeepsAccounts`. `AccInv`,
  `ObjectInv`, `HeapInv` and `JobInv` say that every live object belongs to one account or one
  job that has not freed it yet, and that accounts with objects are enabled; `HookInv` and
  `ServiceInv` say the same of hooks and services. `ReachInv` is what makes
  `EnabledIsReachable` inductive (no job is about to remove the services at the address of
  an object whose account is not impaired). `EraseInv` keeps an erasure under way apart from
  listed accounts, and `ListInv` says of a name that did not clash that one account has it
  and that the profile agrees with that account: so the start finds it, whenever it comes.
  `LeftoversHaveAnErasure`: settings without a listed account have a running thread that is
  to erase them (`ErasureUnderWay`).
- `SendQueueProofs`: `TypeOK`, `TimerOnOwnJob`, `ErrorNamesOwnFailure`, `FailureShown`,
  `LateAckFindsOwnJob`, `StoredWhenSent`, `CounterCoversJobs`, `ImplementsOutbox`. `JobInv` says that a slot has
  neither contact, owner nor message or holds a message that is still queued, and that
  the owner of a job is an open window sending to its contact; `JobsDiffer` that no message
  is in two slots. `WinInv` is what holds until a metacontact's window meets its
  subcontact's (`mixed`): no open window sends to the contact of another, and a failed job in
  the name of an open window is that window's. The statements about timers, error bars and
  the counter rest on it, those about answers, the history and `Outbox` do not. `IdInv`
  (ids come from the counter, and the id a splitting thread has yet to write belongs to
  its own message) and `UnstrayedInv` (a free slot has no id, a message in one piece
  needs one acknowledgement) make late answers harmless. `CounterCoversJobs` is
  proved apart from these, from what each step does to the set of slots in use, and so is
  `EveryWaitIsTimed`: a message in one piece that a window waits for has that window's
  timer running. The refinement of `Outbox` adds only that messages up to the last one have
  been written (`WrittenInv`): jobs hold queued messages (`JobInv`), so a job thrown away
  gives a queued message its fate (`DropFacts`); `LateAckFindsOwnJob` makes an answer that
  finds a job an answer about its message, and `UnstrayedInv` makes it the last one needed.

Only model-checked: the liveness properties (`ForkReturns`, `ShutdownCompletes`,
`AcceptedCallReturns`, `FlushedWhenQuiet`, `DeletedIsErased`, `NoEndlessWait`), because
fairness and `ENABLED` are outside the prover. The safety on which each of them rests is
proved: `ForkersAreAwaited`, `NoWakeupIsLost`, `CallersAreNotForgotten`,
`TimerCoversChanges`, `LeftoversHaveAnErasure` and `EveryWaitIsTimed` say that what the
wait is for has not been lost, and fairness has to bring it about. The proofs avoid
recursion over data; nothing in these models needs it. `TypeOK` is proved for every
module, and no run repeats it.

## 6. Hazards without a property

`PROJECT.json` lists the hazards some property is about. The others that were met:

- `threads.cpp:213`: The array for the handles is sized by threads.getCount() before the
  lock is taken; a thread inserted before the loop overflows it. *The size of the array
  is not modelled: the overflow is memory corruption with no outcome to state a property
  about.*
- `threads.cpp:228`: WaitForMultipleObjects fails for more than MAXIMUM_WAIT_OBJECTS
  (64) handles, which counts as success: an account with 65 threads is not waited for.
  *Needs 65 threads; the failed wait itself is what WorkerWait models for a closed
  handle, with the same consequence as in WaitEmAll.*
- `modules.cpp:403`: HookEventMessage leaves hOwner of the new slot uninitialised, so
  KillModuleEventHooks of an unrelated plugin may free it. *Modelled as a
  nondeterministic hOwner and recorded in `stray'; the handle properties are conditional
  on it, because the outcome depends on heap contents.*
- `modules.cpp:300`: An event passes checkHook in a worker and is destroyed before the
  main thread runs the queued notification with the same THook pointer. *Hooks and
  MainQueue are separate modules; a walk that finds its event destroyed ends in Hooks,
  but the freed THook itself is not represented.*
- `modules.cpp:337`: mir_realloc of the array under csHooks moves it under a
  notification that holds only csHook and has taken a pointer into it (line 237). *A
  slot is read in one step of the model, so a torn read of freed memory is not
  represented.*
- `modules.cpp:233`: csHook is held while subscribers run: two threads in NotifyFastHook
  of two events whose subscribers notify the other one wait for each other. *Depends on
  what subscribers do; the model's guard on another thread's frame represents the wait,
  and no property is stated because the code promises none.*
- `modules.cpp:95`: PostMessage fails when the queue is full (10000 messages) or the
  window is gone; the result is not looked at before the infinite wait, so the worker
  never returns. *The failure is modelled; AcceptedCallReturns is stated for accepted
  calls only because a refused one does wait for ever.*
- `dbevents.cpp:779`: m_count of the metacontact is adjusted by adds, deletes and merges
  but not by splits. *The counter of a metacontact does stay too high after a split,
  until the next start; CountExact is therefore about ordinary contacts.*
- `dbevents.cpp:79`: AddEventSrt repeats for every result but SQLITE_DONE, holding
  m_csDbAccess: a persistent error (disk full, corrupt file) makes it loop for ever.
  *Errors of SQLite other than the constraint are not modelled; with one that persists
  the loop plainly does not end.*
- `dbevents.cpp:679`: FindNextEvent and FindPrevEvent step a cursor shared by all
  threads without m_csDbAccess, and look the timestamp of an event up without naming its
  chain. *The cursors are not modelled: which row a shared statement returns after
  another thread moved it is up to SQLite.*
- `MDatabaseCommon.cpp:206`: MetaRemoveSubHistory does nothing: when a subcontact is
  deleted its rows stay in the metacontact's chain and name events that are gone.
  *Represented in the model (OwnEventsOnly is about ordinary contacts for this reason);
  no doc or comment promises the opposite.*
- `dbintf.cpp:287`: journal_mode OFF: a crash between the inserts into events and
  events_srt leaves an event in no chain, or a torn page. *No recovery code handles it,
  and what the file holds after a crash is up to SQLite and the disk.*
- `MDatabaseCommon.cpp:361`: GetContactSettingWorker uses the pointer into the cache
  after GetCachedValuePtr; another thread may free or change the value meanwhile. *Reads
  are not modelled: the outcome is a torn or freed string.*
- `mdatabasecache.cpp:143`: m_lastSetting is read without m_csVal by all threads. *Names
  are never freed while the profile is open, so any value it can have is a valid name;
  the comparison decides.*
- `sendqueue.cpp:42`: findNextFailed compares with the contact of the window, jobs carry
  the active subcontact: further failures of a metacontact window are never shown.
  *FailureShown is stated for windows whose contact is the active one; for metacontacts
  a second failed message waits until the window is closed.*
- `sendqueue.cpp:256`: A split message has no timer; if the protocol stays silent its
  job stays in progress as long as the window is open. *NoEndlessWait is about messages
  sent in one piece for this reason.*
- `sendqueue.cpp:288`: With SMODE_NOACK and bAutoClose the faked acknowledgement closes
  the window inside sendQueued, which then uses dat. *The use of freed memory has no
  outcome to state a property about.*
- `sendqueue.cpp:420`: iFound > _countof(m_jobs) lets the index one past the end
  through. *No caller passes that index: all take it from a search of the array.*
- `proto_accs.cpp:355`: fnUninit is read before the thread is forked; the plugin may be
  unloaded before the thread calls it. *Loading and unloading of plugins is not
  modelled.*

## 7. Not modelled

See `components` in `PROJECT.json`. User interface, network I/O, protocols (their peers
are outside the repository), encryption, and vendored libraries are left out for good.
SQLite and the Windows primitives (events, critical sections, timers, message queues,
`TerminateThread`) are represented by what the code relies on. Chat rooms and contact list
events are bookkeeping of the main thread alone and come after everything that races.

## 8. Plan

Done: thread registry, events, main-thread calls, history with metacontacts, settings,
accounts, send queue; abstract promises of the main-thread calls, the history and the
send queue. Every safety property of the runs is proved. Left, in this order:

1. Abstract promises, with their refinements, of the settings (a register that survives a
   restart) and of a notification.
2. `History`: `EditEvent`, `MarkEventRead`.
3. Composition of `Hooks` and `MainQueue`: an event destroyed between `checkHook` in a
   worker and the walk in the main thread; of `Accounts` with the loading and unloading
   of protocol plugins.
4. Chat sessions and contact list events; comparison with `Dbx_mdbx`.
