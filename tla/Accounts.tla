------------------------------ MODULE Accounts ------------------------------
(***************************************************************************)
(* Accounts and the life cycle of their protocol objects (proto_accs.cpp   *)
(* and the account manager in proto_opts.cpp).                             *)
(*                                                                         *)
(* The main thread creates, enables, disables and deletes accounts.  An    *)
(* object that is no longer wanted is taken apart by a DeactivationThread  *)
(* of its own, step by step, while the main thread goes on.  Objects are   *)
(* known by their address, which the heap gives out again once it is free; *)
(* services and settings are known by the account's module name, and two   *)
(* accounts of the list may come to have the same one.                     *)
(***************************************************************************)
EXTENDS Integers

CONSTANTS Name,        \* module names
          Protocols,   \* those that are also the name of a protocol
          Addr,        \* addresses of protocol objects
          None,        \* a null pointer or string
          MaxAccounts, \* bound: accounts at a time
          MaxJobs      \* bound: deactivations between two starts

ASSUME AccountsAssumption ==
  /\ None \notin Addr
  /\ None \notin Name
  /\ None \notin {"own", "module"}
  /\ MaxAccounts \in Nat
  /\ MaxJobs \in Nat

Acc == 1..MaxAccounts

\* A protocol that the account was made for, or the module's own name.
Proto == {"own", "module"}

VARIABLES
  listed,    \* accounts in g_arAccounts
  name,      \* szModuleName of an account, None for one that does not exist
  proto,     \* its szProtoName
  enabled,   \* accounts with bIsEnabled
  dyn,       \* accounts with bDynDisabled
  ppro,      \* the object of an account
  saved,     \* the profile's list: module names and whether they are enabled
  base,      \* the setting AM_BaseProto of a module
  heap,      \* the module name of the object at an address
  hooked,    \* objects with event hooks
  service,   \* the object behind the services of a module name
  jobs,      \* the deactivations since the start
  impaired,  \* accounts whose last activation failed, or found an older object
             \* of the same name or address, or which went with a namesake
  clashed    \* names given to an account while another of that name was in the
             \* list or being erased

vars == <<listed, name, proto, enabled, dyn, ppro, saved, base, heap, hooked, service,
          jobs, impaired, clashed>>

JobId == 1..MaxJobs

Phase == {"unused", "quit", "unhook", "free", "services", "erase", "done"}

Job == [phase : Phase, obj : Addr \cup {None}, name : Name \cup {None}, erase : BOOLEAN]

NoJob == [phase |-> "unused", obj |-> None, name |-> None, erase |-> FALSE]

Ended == {"unused", "done"}

Running(j) == jobs[j].phase \notin Ended

Free(a) == heap[a] = None

\* The accounts of a name.
Named(n) == {c \in Acc : name[c] = n}

Listed(n) == Named(n) \cap listed # {}

---------------------------------------------------------------------------
(* Building blocks of the main thread's handlers *)

\* CreateServiceFunction is refused while the name is taken.
Served(n, a) == IF service[n] = None THEN [service EXCEPT ![n] = a] ELSE service

\* There is an older object that the new one can be confused with.
Hurried(n, a) ==
  \/ \E j \in JobId : Running(j) /\ (jobs[j].name = n \/ jobs[j].obj = a)
  \/ \E d \in Named(n) : ppro[d] # None

\* Proto_GetProto finds a protocol of the name p for the module n.
Proto_GetProto(n, p) == p = "own" \/ (p = "module" /\ n \in Protocols)

\* ActivateAccount returns false: no such protocol, no fnInit or no object.
ActivateFails(c) ==
  /\ impaired' = impaired \cup {c}
  /\ UNCHANGED <<ppro, heap, service, hooked>>

\* ActivateAccount: fnInit makes an object, whose constructor creates services
\* and hooks events.
ActivateAccount(c, n, p, a) ==
  /\ Proto_GetProto(n, p)
  /\ Free(a)
  /\ heap' = [heap EXCEPT ![a] = n]
  /\ ppro' = [ppro EXCEPT ![c] = a]
  /\ service' = Served(n, a)
  /\ hooked' = hooked \cup {a}
  /\ impaired' = IF Hurried(n, a) THEN impaired \cup {c} ELSE impaired \ {c}

\* Mutated: the account keeps the pointer.
LetGoNot(c) == ppro

LetGo(c) == [ppro EXCEPT ![c] = None]

\* DeactivateAccount for an account with an object: the account lets go of it
\* and a thread takes it apart.
DeactivateAccount(c, j, erase) ==
  /\ ppro[c] # None
  /\ jobs[j].phase = "unused"
  /\ \A k \in 1..(j - 1) : jobs[k].phase # "unused"
  /\ jobs' = [jobs EXCEPT ![j] =
       [phase |-> "quit", obj |-> ppro[c], name |-> name[c], erase |-> erase]]
  /\ ppro' = LetGo(c)

Flag(on) == IF on THEN "on" ELSE "off"

\* Mutated: the flags are not written; they are read as if they were set.
WriteDbAccountsNoFlags == saved' = {<<name'[c], "on">> : c \in listed'}

\* WriteDbAccounts rewrites the list of accounts.
WriteDbAccounts == saved' = {<<name'[c], Flag(c \in enabled')>> : c \in listed'}

\* EraseAccount removes the contacts and the settings of a module.
EraseAccount(n) == base' = [base EXCEPT ![n] = None]

---------------------------------------------------------------------------
(* The main thread *)

\* Proto_CreateAccount for a module name that the user typed in, which no
\* account of the list may have, or a generated one, which must not have
\* AM_BaseProto.
Proto_CreateAccount(c, n) ==
  /\ name[c] = None
  /\ \A d \in 1..(c - 1) : name[d] # None
  /\ ~Listed(n) \/ base[n] = None
  /\ listed' = listed \cup {c}
  /\ name' = [name EXCEPT ![c] = n]
  /\ proto' = [proto EXCEPT ![c] = "own"]
  /\ enabled' = enabled \cup {c}
  /\ base' = [base EXCEPT ![n] = "own"]
  /\ ActivateFails(c) \/ \E a \in Addr : ActivateAccount(c, n, "own", a)
  /\ clashed' = IF Listed(n) \/ \E j \in JobId : Running(j) /\ jobs[j].name = n /\ jobs[j].erase
                THEN clashed \cup {n} ELSE clashed \ {n}
  /\ WriteDbAccounts
  /\ UNCHANGED <<dyn, jobs>>

\* OnAccountCheck: the check box of a disabled account.
EnableAccount(c) ==
  /\ c \in listed \ (enabled \cup dyn)
  /\ enabled' = enabled \cup {c}
  /\ ActivateFails(c) \/ \E a \in Addr : ActivateAccount(c, name[c], proto[c], a)
  /\ UNCHANGED <<listed, name, proto, dyn, base, jobs, clashed>>
  /\ WriteDbAccounts

\* OnAccountCheck: the check box of an enabled account.
DisableAccount(c, j) ==
  /\ c \in (listed \cap enabled) \ dyn
  /\ enabled' = enabled \ {c}
  /\ DeactivateAccount(c, j, FALSE)
  /\ UNCHANGED <<listed, name, proto, dyn, base, heap, hooked, service, impaired, clashed>>
  /\ WriteDbAccounts

\* The same without an object: there is nothing to deactivate.
DisableImpaired(c) ==
  /\ c \in (listed \cap enabled) \ dyn
  /\ ppro[c] = None
  /\ enabled' = enabled \ {c}
  /\ UNCHANGED <<listed, name, proto, dyn, ppro, base, heap, hooked, service, jobs,
                 impaired, clashed>>
  /\ WriteDbAccounts

\* OnRemove: g_arAccounts.remove looks for an account with the module name of
\* c, and may take a namesake v out of the list instead of c.  UnloadAccount
\* leaves c without a protocol, and without an account manager to see it if it
\* is no longer in the list; v keeps its object then, and nobody knows it.
Removed(c, v) ==
  /\ c \in listed
  /\ v \in Named(name[c]) \cap listed
  /\ listed' = listed \ {v}
  /\ proto' = [proto EXCEPT ![c] = None]
  /\ IF v = c THEN /\ name' = [name EXCEPT ![c] = None]
                   /\ enabled' = enabled \ {c}
                   /\ dyn' = dyn \ {c}
                   /\ impaired' = impaired \ {c}
     ELSE impaired' = impaired \cup {c} /\ UNCHANGED <<name, enabled, dyn>>
  /\ WriteDbAccounts
  /\ UNCHANGED <<heap, hooked, service, clashed>>

\* Deletes an account with an object: a thread erases it when it is done.
DeleteActive(c, v, j) ==
  /\ Removed(c, v)
  /\ DeactivateAccount(c, j, TRUE)
  /\ UNCHANGED base

\* Mutated: an account without an object has nothing to deactivate.
DeleteInactiveReturns(c, v) ==
  /\ Removed(c, v)
  /\ ppro[c] = None
  /\ UNCHANGED <<base, ppro, jobs>>

\* Deletes an account without an object: it is erased at once.
DeleteInactive(c, v) ==
  /\ Removed(c, v)
  /\ ppro[c] = None
  /\ EraseAccount(name[c])
  /\ UNCHANGED <<ppro, jobs>>

---------------------------------------------------------------------------
(* DeactivationThread *)

Advance(j, ph) == jobs' = [jobs EXCEPT ![j].phase = ph]

\* What the accounts and the profile know of it.
accounts == <<listed, name, proto, enabled, dyn, ppro, saved, impaired, clashed>>

\* SetStatus, IsReadyToExit until it is true, OnShutdown, KillObjectOptions and
\* KillObjectThreads.
Quit(j) ==
  /\ jobs[j].phase = "quit"
  /\ Advance(j, "unhook")
  /\ UNCHANGED <<accounts, base, heap, hooked, service>>

\* Mutated: the hooks are left to the destructor.
UnhookedNone(j) == hooked

Unhooked(j) == hooked \ {jobs[j].obj}

KillObjectEventHooks(j) ==
  /\ jobs[j].phase = "unhook"
  /\ hooked' = Unhooked(j)
  /\ Advance(j, "free")
  /\ UNCHANGED <<accounts, base, heap, service>>

\* OnErase and fnUninit, which deletes the object.
Uninit(j) ==
  /\ jobs[j].phase = "free"
  /\ heap' = [heap EXCEPT ![jobs[j].obj] = None]
  /\ Advance(j, "services")
  /\ UNCHANGED <<accounts, base, hooked, service>>

\* Mutated: the first service that is found ends the search.
KilledOne(a) ==
  LET mine == {n \in Name : service[n] = a} IN
  IF mine = {} THEN service ELSE [service EXCEPT ![CHOOSE n \in mine : TRUE] = None]

\* Mutated: the services of all objects of the protocol go.
KilledAll(a) == [n \in Name |-> None]

\* Every service whose object has the address goes, whoever made it.
Killed(a) == [n \in Name |-> IF service[n] = a THEN None ELSE service[n]]

KillObjectServices(j) ==
  /\ jobs[j].phase = "services"
  /\ service' = Killed(jobs[j].obj)
  /\ Advance(j, IF jobs[j].erase THEN "erase" ELSE "done")
  /\ UNCHANGED <<accounts, base, heap, hooked>>

JobErase(j) ==
  /\ jobs[j].phase = "erase"
  /\ EraseAccount(jobs[j].name)
  /\ Advance(j, "done")
  /\ UNCHANGED <<accounts, heap, hooked, service>>

JobStep(j) ==
  Quit(j) \/ KillObjectEventHooks(j) \/ Uninit(j) \/ KillObjectServices(j) \/ JobErase(j)

---------------------------------------------------------------------------
(* Starting *)

SavedName(n) == <<n, "on">> \in saved \/ <<n, "off">> \in saved

\* LoadDbAccounts makes one account for every name of the saved list, whose
\* last flag counts, and, disabled, for every other module with AM_BaseProto.
\* A saved name without AM_BaseProto gets its own name for it.  The list is
\* written again if its order was not in order or there was such a module.
LoadDbAccounts ==
  /\ name' \in [Acc -> Name \cup {None}]
  /\ \A c, d \in Acc : name'[c] = name'[d] /\ name'[c] # None => c = d
  /\ \A n \in Name : (SavedName(n) \/ base[n] # None) <=> \E c \in Acc : name'[c] = n
  /\ listed' = {c \in Acc : name'[c] # None}
  /\ \A c \in listed' : \A d \in 1..(c - 1) : d \in listed'
  /\ enabled' \in SUBSET listed'
  /\ \A c \in listed' :
       IF SavedName(name'[c]) THEN <<name'[c], Flag(c \in enabled')>> \in saved
                            ELSE c \notin enabled'
  /\ base' = [n \in Name |-> IF SavedName(n) /\ base[n] = None THEN "module" ELSE base[n]]
  /\ proto' = [c \in Acc |-> IF c \in listed' THEN base'[name'[c]] ELSE None]
  /\ \/ WriteDbAccounts
     \/ UNCHANGED saved /\ \A n \in Name : base[n] # None => SavedName(n)

\* LoadAccountsModule: accounts whose protocol is not there, or does not make
\* an object, are disabled; the other enabled ones get their object.
LoadAccountsModule ==
  /\ dyn' \in SUBSET listed'
  /\ \A c \in listed' : ~Proto_GetProto(name'[c], proto'[c]) => c \in dyn'
  /\ ppro' \in [Acc -> Addr \cup {None}]
  /\ \A c \in Acc : ppro'[c] # None <=> c \in enabled' \ dyn'
  /\ \A c, d \in Acc : ppro'[c] = ppro'[d] /\ ppro'[c] # None => c = d
  /\ heap' = [a \in Addr |-> IF \E c \in Acc : ppro'[c] = a
                             THEN name'[CHOOSE c \in Acc : ppro'[c] = a] ELSE None]
  /\ hooked' = {a \in Addr : heap'[a] # None}
  /\ service' = [n \in Name |-> IF \E a \in Addr : heap'[a] = n
                                THEN CHOOSE a \in Addr : heap'[a] = n ELSE None]
  /\ impaired' = enabled' \cap dyn'

\* The process ends, by a crash or at the user's wish, and starts again.
Restart ==
  /\ LoadDbAccounts
  /\ LoadAccountsModule
  /\ jobs' = [j \in JobId |-> NoJob]
  /\ clashed' = {n \in Name : <<n, "on">> \in saved' /\ <<n, "off">> \in saved'}

Init ==
  /\ listed = {}
  /\ name = [c \in Acc |-> None]
  /\ proto = [c \in Acc |-> None]
  /\ enabled = {}
  /\ dyn = {}
  /\ ppro = [c \in Acc |-> None]
  /\ saved = {}
  /\ base = [n \in Name |-> None]
  /\ heap = [a \in Addr |-> None]
  /\ hooked = {}
  /\ service = [n \in Name |-> None]
  /\ jobs = [j \in JobId |-> NoJob]
  /\ impaired = {}
  /\ clashed = {}

Next ==
  \/ \E c \in Acc, n \in Name : Proto_CreateAccount(c, n)
  \/ \E c \in Acc : EnableAccount(c) \/ DisableImpaired(c)
  \/ \E c \in Acc, j \in JobId : DisableAccount(c, j)
  \/ \E c, v \in Acc : DeleteInactive(c, v) \/ \E j \in JobId : DeleteActive(c, v, j)
  \/ \E j \in JobId : JobStep(j)
  \/ Restart

Spec == Init /\ [][Next]_vars

\* A deactivation goes on by itself; this assumes that every protocol becomes
\* ready to exit once it is offline.
FairSpec == Spec /\ \A j \in JobId : WF_vars(JobStep(j))

---------------------------------------------------------------------------
TypeOK ==
  /\ listed \subseteq Acc
  /\ name \in [Acc -> Name \cup {None}]
  /\ proto \in [Acc -> Proto \cup {None}]
  /\ enabled \subseteq Acc
  /\ dyn \subseteq Acc
  /\ ppro \in [Acc -> Addr \cup {None}]
  /\ saved \subseteq Name \X {"on", "off"}
  /\ base \in [Name -> Proto \cup {None}]
  /\ heap \in [Addr -> Name \cup {None}]
  /\ hooked \subseteq Addr
  /\ service \in [Name -> Addr \cup {None}]
  /\ jobs \in [JobId -> Job]
  /\ impaired \subseteq Acc
  /\ clashed \subseteq Name

\* An enabled account that was not impaired when it was activated has a live
\* object of its own that hears events and is reached through the account's
\* services, whatever is being taken apart for other accounts, or was for this
\* one, and whatever namesakes come and go.
EnabledIsReachable ==
  \A c \in listed \cap enabled : c \notin impaired =>
    /\ ppro[c] # None
    /\ heap[ppro[c]] = name[c]
    /\ ppro[c] \in hooked
    /\ service[name[c]] = ppro[c]

\* No two accounts share an object and none has one that is being taken apart.
ObjectsNotShared ==
  \A c \in Acc : ppro[c] # None =>
    /\ heap[ppro[c]] = name[c]
    /\ \A d \in Acc : ppro[d] = ppro[c] => d = c
    /\ \A j \in JobId : jobs[j].phase \in {"quit", "unhook", "free"} => jobs[j].obj # ppro[c]

\* An event never reaches an object that has been deleted.
HookedIsAlive == \A a \in hooked : heap[a] # None

\* Services lead to a live object of that name, or to one whose deactivation
\* has still to remove them.
ServiceIsAccountedFor ==
  \A n \in Name : service[n] # None =>
    \/ heap[service[n]] = n
    \/ \E j \in JobId : Running(j) /\ jobs[j].obj = service[n]

\* A start, at any moment, brings every account back under its name, enabled or
\* not as it was and with its protocol, unless its name clashed with another
\* account's.
Kept(c) ==
  \E d \in listed' : /\ name'[d] = name[c]
                     /\ d \in enabled' <=> c \in enabled
                     /\ proto'[d] = proto[c]

RestartKeepsAccounts ==
  [][(\A c \in listed : name[c] \notin clashed => Kept(c)) \/ ~Restart]_vars

\* A deleted account's settings go, or the account is in the list again, after
\* a crash or because the user created it anew.
DeletedIsErased ==
  \A n \in Name : (base[n] # None /\ ~Listed(n)) ~> (base[n] = None \/ Listed(n))
=============================================================================
