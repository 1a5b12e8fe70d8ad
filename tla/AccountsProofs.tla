--------------------------- MODULE AccountsProofs ---------------------------
(***************************************************************************)
(* Proofs about Accounts, for any names, protocols, addresses, and number  *)
(* of accounts and of deactivations.                                       *)
(***************************************************************************)
EXTENDS Accounts, TLAPS

Taking == {"quit", "unhook", "free"}

\* An account in the list has a name, and only an enabled one has an object.
AccInv ==
  \A c \in Acc :
    /\ c \in listed => name[c] # None
    /\ c \in enabled => name[c] # None
    /\ ppro[c] # None => c \in enabled

\* The object of an account is the only account's, is of its name and hears
\* events.
ObjectInv ==
  \A c \in Acc : ppro[c] # None =>
    /\ heap[ppro[c]] = name[c]
    /\ ppro[c] \in hooked
    /\ \A d \in Acc : ppro[d] = ppro[c] => d = c

\* A running deactivation knows its object and name; until fnUninit the object
\* is there, and neither an account nor another thread has it.
JobInv ==
  \A j \in JobId :
    /\ Running(j) => jobs[j].obj \in Addr /\ jobs[j].name \in Name
    /\ jobs[j].phase \in Taking =>
         /\ heap[jobs[j].obj] = jobs[j].name
         /\ \A c \in Acc : ppro[c] # jobs[j].obj
         /\ \A k \in JobId : k # j /\ jobs[k].phase \in Taking => jobs[k].obj # jobs[j].obj

\* Every object is somebody's.
HeapInv ==
  \A a \in Addr : heap[a] # None =>
    \/ \E c \in Acc : ppro[c] = a
    \/ \E j \in JobId : jobs[j].phase \in Taking /\ jobs[j].obj = a

\* Hooks belong to an account's object or to one that is about to lose them.
HookInv ==
  \A a \in hooked :
    \/ \E c \in Acc : ppro[c] = a
    \/ \E j \in JobId : jobs[j].phase \in {"quit", "unhook"} /\ jobs[j].obj = a

\* Services lead to an object of their name, or a deactivation of an object of
\* their name has still to remove them.
ServiceInv ==
  \A n \in Name : service[n] # None =>
    \/ heap[service[n]] = n
    \/ \E j \in JobId : /\ jobs[j].phase \in Taking \cup {"services"}
                        /\ jobs[j].obj = service[n]
                        /\ jobs[j].name = n

\* An account that is not impaired has its object when it should, and the
\* object its services, which no thread is about to remove.
ReachInv ==
  \A c \in Acc \ impaired :
    /\ c \in listed \cap enabled => ppro[c] # None
    /\ ppro[c] # None =>
         /\ service[name[c]] = ppro[c]
         /\ \A j \in JobId : jobs[j].phase = "services" => jobs[j].obj # ppro[c]

\* What is about to be erased is not in the list, unless its name clashed.
EraseInv ==
  \A j \in JobId :
    /\ jobs[j].phase = "erase" => jobs[j].erase
    /\ Running(j) /\ jobs[j].erase /\ Listed(jobs[j].name) => jobs[j].name \in clashed

\* An account whose name did not clash is the only one of its name, and the
\* profile has its protocol and its flag.
ListInv ==
  \A c \in listed : name[c] \notin clashed =>
    /\ \A d \in listed : name[d] = name[c] => d = c
    /\ base[name[c]] = proto[c]
    /\ proto[c] # None
    /\ <<name[c], "on">> \in saved <=> c \in enabled
    /\ <<name[c], "off">> \in saved <=> c \notin enabled

IInv ==
  /\ TypeOK
  /\ AccInv
  /\ ObjectInv
  /\ JobInv
  /\ HeapInv
  /\ HookInv
  /\ ServiceInv
  /\ ReachInv
  /\ EraseInv
  /\ ListInv

\* The parts that the accounts, their objects and the threads have in common.
BodyInv ==
  AccInv /\ ObjectInv /\ JobInv /\ HeapInv /\ HookInv /\ ServiceInv /\ ReachInv

---------------------------------------------------------------------------
(* Steps of the records *)

\* A DeactivationThread that goes on changes its own phase and nothing else.
LEMMA AdvanceFacts ==
  ASSUME TypeOK, NEW j \in JobId, NEW ph \in Phase, Advance(j, ph)
  PROVE  /\ jobs' \in [JobId -> Job]
         /\ jobs'[j].phase = ph
         /\ jobs'[j].obj = jobs[j].obj
         /\ jobs'[j].name = jobs[j].name
         /\ jobs'[j].erase = jobs[j].erase
         /\ \A k \in JobId : k # j => jobs'[k] = jobs[k]
  BY DEF TypeOK, Advance, Job

\* DeactivateAccount fills a fresh entry and takes the pointer away.
LEMMA DeactivateFacts ==
  ASSUME TypeOK, AccInv, NEW c \in Acc, NEW j \in JobId, NEW e \in BOOLEAN,
         DeactivateAccount(c, j, e)
  PROVE  /\ ppro[c] \in Addr
         /\ name[c] \in Name
         /\ jobs' \in [JobId -> Job]
         /\ jobs[j].phase = "unused"
         /\ jobs'[j].phase = "quit"
         /\ jobs'[j].obj = ppro[c]
         /\ jobs'[j].name = name[c]
         /\ jobs'[j].erase = e
         /\ \A k \in JobId : k # j => jobs'[k] = jobs[k]
         /\ ppro' \in [Acc -> Addr \cup {None}]
         /\ ppro'[c] = None
         /\ \A d \in Acc : d # c => ppro'[d] = ppro[d]
  <1> DEFINE rec == [phase |-> "quit", obj |-> ppro[c], name |-> name[c], erase |-> e]
  <1>1. ppro[c] \in Addr /\ name[c] \in Name
    BY DEF TypeOK, AccInv, DeactivateAccount
  <1>2. rec \in Job
    BY <1>1 DEF Job, Phase
  <1>3. jobs' = [jobs EXCEPT ![j] = rec] /\ jobs[j].phase = "unused"
    BY DEF DeactivateAccount
  <1>4. /\ jobs' \in [JobId -> Job]
        /\ jobs'[j] = rec
        /\ \A k \in JobId : k # j => jobs'[k] = jobs[k]
    <2> HIDE DEF rec
    <2> QED BY <1>2, <1>3 DEF TypeOK
  <1>5. /\ ppro' \in [Acc -> Addr \cup {None}]
        /\ ppro'[c] = None
        /\ \A d \in Acc : d # c => ppro'[d] = ppro[d]
    BY DEF DeactivateAccount, LetGo, TypeOK
  <1> QED BY <1>1, <1>3, <1>4, <1>5

\* A name is listed when an account of the list has it.
LEMMA ListedIs == TypeOK => \A n : Listed(n) <=> \E c \in listed : name[c] = n
  BY DEF TypeOK, Listed, Named

\* What WriteDbAccounts leaves in the profile.
LEMMA WriteFacts ==
  ASSUME WriteDbAccounts
  PROVE  \A n : /\ <<n, "on">> \in saved' <=> \E c \in listed' : c \in enabled' /\ name'[c] = n
                /\ <<n, "off">> \in saved' <=> \E c \in listed' : c \notin enabled' /\ name'[c] = n
  <1>1. ASSUME NEW n, <<n, "on">> \in saved'
        PROVE  \E c \in listed' : c \in enabled' /\ name'[c] = n
    BY <1>1 DEF WriteDbAccounts, Flag
  <1>2. ASSUME NEW n, <<n, "off">> \in saved'
        PROVE  \E c \in listed' : c \notin enabled' /\ name'[c] = n
    BY <1>2 DEF WriteDbAccounts, Flag
  <1>3. ASSUME NEW c \in listed', c \in enabled' PROVE <<name'[c], "on">> \in saved'
    BY <1>3 DEF WriteDbAccounts, Flag
  <1>4. ASSUME NEW c \in listed', c \notin enabled' PROVE <<name'[c], "off">> \in saved'
    BY <1>4 DEF WriteDbAccounts, Flag
  <1> QED BY <1>1, <1>2, <1>3, <1>4

\* The profile's list keeps its type, and its flags follow from the list.
LEMMA WriteStep ==
  ASSUME WriteDbAccounts, listed' \subseteq Acc, AccInv',
         name' \in [Acc -> Name \cup {None}],
         \A c \in listed' : name'[c] \notin clashed' =>
           /\ \A d \in listed' : name'[d] = name'[c] => d = c
           /\ base'[name'[c]] = proto'[c]
           /\ proto'[c] # None
  PROVE  saved' \subseteq Name \X {"on", "off"} /\ ListInv'
  <1>1. \A c \in listed' : name'[c] \in Name
    BY DEF AccInv
  <1>2. saved' \subseteq Name \X {"on", "off"}
    BY <1>1 DEF WriteDbAccounts, Flag
  <1>3. ASSUME NEW c \in listed', name'[c] \notin clashed'
        PROVE  /\ <<name'[c], "on">> \in saved' <=> c \in enabled'
               /\ <<name'[c], "off">> \in saved' <=> c \notin enabled'
    BY <1>3, WriteFacts
  <1> QED BY <1>2, <1>3 DEF ListInv

---------------------------------------------------------------------------
(* Initial states *)

\* Nothing is there at first.
LEMMA InitIInv == Init => IInv
  <1> SUFFICES ASSUME Init PROVE IInv
    OBVIOUS
  <1> USE AccountsAssumption DEF Init
  <1>1. NoJob \in Job
    BY DEF NoJob, Job, Phase
  <1>2. TypeOK
    BY <1>1 DEF TypeOK
  <1>3. \A j \in JobId : jobs[j].phase = "unused"
    BY DEF NoJob
  <1>4. AccInv /\ ObjectInv
    BY DEF AccInv, ObjectInv
  <1>5. JobInv
    BY <1>3 DEF JobInv, Running, Ended, Taking
  <1>6. HeapInv /\ HookInv /\ ServiceInv /\ ReachInv /\ ListInv
    BY DEF HeapInv, HookInv, ServiceInv, ReachInv, ListInv
  <1>7. EraseInv
    BY <1>3 DEF EraseInv, Running, Ended
  <1> QED BY <1>2, <1>4, <1>5, <1>6, <1>7 DEF IInv

---------------------------------------------------------------------------
(* The main thread *)

\* A handler is about the account c alone; its namesake may leave the list.
About(c) ==
  /\ \A d \in Acc \ {c} :
       /\ name'[d] = name[d]
       /\ d \in enabled' <=> d \in enabled
       /\ d \in impaired' <=> d \in impaired
       /\ d \in listed' => d \in listed
  /\ c \in listed' \/ c \in enabled' => name'[c] # None

\* A handler that makes no object and takes none apart.
LEMMA IdleFacts ==
  ASSUME IInv, NEW c \in Acc, About(c), ppro[c] = None,
         c \in impaired' \/ c \notin listed' \cap enabled',
         UNCHANGED <<ppro, heap, hooked, service, jobs>>
  PROVE  BodyInv'
  <1>1. AccInv'
    BY DEF IInv, AccInv, About
  <1>2. ObjectInv'
    BY DEF IInv, ObjectInv, About
  <1>3. JobInv' /\ HeapInv' /\ HookInv' /\ ServiceInv'
    BY DEF IInv, JobInv, HeapInv, HookInv, ServiceInv, Running
  <1>4. ReachInv'
    <2> SUFFICES ASSUME NEW d \in Acc, d \notin impaired'
                 PROVE  /\ d \in listed' \cap enabled' => ppro[d] # None
                        /\ ppro[d] # None =>
                             /\ service[name'[d]] = ppro[d]
                             /\ \A j \in JobId : jobs[j].phase = "services" => jobs[j].obj # ppro[d]
      BY DEF ReachInv
    <2>1. CASE d = c
      BY <2>1
    <2>2. CASE d # c
      BY <2>2 DEF About, IInv, ReachInv
    <2> QED BY <2>1, <2>2
  <1> QED BY <1>1, <1>2, <1>3, <1>4 DEF BodyInv

\* A new object for an account that has none.
LEMMA ActivateFacts ==
  ASSUME IInv, NEW c \in Acc, NEW n \in Name, NEW p, NEW a \in Addr, About(c),
         ppro[c] = None, ActivateAccount(c, n, p, a), name'[c] = n, c \in enabled',
         UNCHANGED jobs
  PROVE  /\ BodyInv'
         /\ heap' \in [Addr -> Name \cup {None}]
         /\ ppro' \in [Acc -> Addr \cup {None}]
         /\ service' \in [Name -> Addr \cup {None}]
         /\ hooked' \subseteq Addr
  <1> USE AccountsAssumption
  <1>1. /\ heap[a] = None
        /\ heap' \in [Addr -> Name \cup {None}]
        /\ heap'[a] = n
        /\ \A b \in Addr : b # a => heap'[b] = heap[b]
    BY DEF IInv, TypeOK, ActivateAccount, Free
  <1>2. /\ ppro' \in [Acc -> Addr \cup {None}]
        /\ ppro'[c] = a
        /\ \A d \in Acc : d # c => ppro'[d] = ppro[d]
    BY DEF IInv, TypeOK, ActivateAccount
  <1>3. /\ service' \in [Name -> Addr \cup {None}]
        /\ \A m \in Name : m # n => service'[m] = service[m]
        /\ service[n] = None => service'[n] = a
        /\ service[n] # None => service'[n] = service[n]
    BY DEF IInv, TypeOK, ActivateAccount, Served
  <1>4. hooked' = hooked \cup {a} /\ hooked' \subseteq Addr
    BY DEF IInv, TypeOK, ActivateAccount
  <1>5. c \notin impaired' => ~Hurried(n, a)
    BY DEF ActivateAccount
  <1>6. jobs' = jobs /\ jobs \in [JobId -> Job]
    BY DEF IInv, TypeOK
  <1>61. \A d \in Acc : ppro[d] # None => ppro[d] \in Addr /\ ppro[d] # a /\ d # c /\ name[d] # None
    BY <1>1 DEF IInv, TypeOK, ObjectInv, AccInv
  <1>62. AccInv'
    BY <1>2 DEF IInv, AccInv, About
  <1>7. ObjectInv'
    <2> SUFFICES ASSUME NEW d \in Acc, ppro'[d] # None
                 PROVE  /\ heap'[ppro'[d]] = name'[d]
                        /\ ppro'[d] \in hooked'
                        /\ \A e \in Acc : ppro'[e] = ppro'[d] => e = d
      BY DEF ObjectInv
    <2>1. CASE d = c
      BY <2>1, <1>1, <1>2, <1>4, <1>61
    <2>2. CASE d # c
      <3>1. ppro'[d] = ppro[d] /\ name'[d] = name[d] /\ ppro[d] \in Addr /\ ppro[d] # a
        BY <2>2, <1>2, <1>61 DEF About
      <3>2. /\ heap[ppro[d]] = name[d]
            /\ ppro[d] \in hooked
            /\ \A e \in Acc : ppro[e] = ppro[d] => e = d
        BY <3>1 DEF IInv, ObjectInv
      <3> QED BY <3>1, <3>2, <1>1, <1>2, <1>4
    <2> QED BY <2>1, <2>2
  <1>8. JobInv'
    <2> SUFFICES ASSUME NEW j \in JobId
                 PROVE  /\ Running(j)' => jobs[j].obj \in Addr /\ jobs[j].name \in Name
                        /\ jobs[j].phase \in Taking =>
                             /\ heap'[jobs[j].obj] = jobs[j].name
                             /\ \A d \in Acc : ppro'[d] # jobs[j].obj
                             /\ \A k \in JobId : k # j /\ jobs[k].phase \in Taking
                                                 => jobs[k].obj # jobs[j].obj
      BY <1>6 DEF JobInv
    <2>1. Running(j)' => jobs[j].obj \in Addr /\ jobs[j].name \in Name
      BY <1>6 DEF IInv, JobInv, Running
    <2>2. ASSUME jobs[j].phase \in Taking
          PROVE  jobs[j].obj # a /\ jobs[j].obj \in Addr
      BY <2>2, <1>1 DEF IInv, JobInv, Running, Ended, Taking
    <2> QED BY <1>1, <1>2, <2>1, <2>2 DEF IInv, JobInv
  <1>9. HeapInv'
    <2> SUFFICES ASSUME NEW b \in Addr, heap'[b] # None
                 PROVE  \/ \E d \in Acc : ppro'[d] = b
                        \/ \E j \in JobId : jobs[j].phase \in Taking /\ jobs[j].obj = b
      BY <1>6 DEF HeapInv
    <2>1. CASE b = a
      BY <2>1, <1>2
    <2>2. CASE b # a
      <3>1. \/ \E d \in Acc : ppro[d] = b
            \/ \E j \in JobId : jobs[j].phase \in Taking /\ jobs[j].obj = b
        BY <2>2, <1>1 DEF IInv, HeapInv
      <3>2. \A d \in Acc : ppro[d] = b => ppro'[d] = b
        BY <1>2
      <3> QED BY <3>1, <3>2
    <2> QED BY <2>1, <2>2
  <1>10. HookInv'
    <2> SUFFICES ASSUME NEW b \in hooked'
                 PROVE  \/ \E d \in Acc : ppro'[d] = b
                        \/ \E j \in JobId : jobs[j].phase \in {"quit", "unhook"} /\ jobs[j].obj = b
      BY <1>6 DEF HookInv
    <2>1. CASE b = a
      BY <2>1, <1>2
    <2>2. CASE b # a
      <3>1. b \in hooked /\ b \in Addr
        BY <2>2, <1>4
      <3>2. \/ \E d \in Acc : ppro[d] = b
            \/ \E j \in JobId : jobs[j].phase \in {"quit", "unhook"} /\ jobs[j].obj = b
        BY <3>1 DEF IInv, HookInv
      <3>3. \A d \in Acc : ppro[d] = b => ppro'[d] = b
        BY <3>1, <1>2
      <3> QED BY <3>2, <3>3
    <2> QED BY <2>1, <2>2
  <1>11. ServiceInv'
    <2> SUFFICES ASSUME NEW m \in Name, service'[m] # None
                 PROVE  \/ heap'[service'[m]] = m
                        \/ \E j \in JobId : /\ jobs[j].phase \in Taking \cup {"services"}
                                            /\ jobs[j].obj = service'[m]
                                            /\ jobs[j].name = m
      BY <1>6 DEF ServiceInv
    <2>1. CASE service[m] = None
      <3>1. m = n /\ service'[m] = a
        BY <2>1, <1>3
      <3> QED BY <3>1, <1>1
    <2>2. CASE service[m] # None
      <3>1. service'[m] = service[m] /\ service[m] \in Addr
        BY <2>2, <1>3 DEF IInv, TypeOK
      <3>2. heap[service[m]] = m => service[m] # a
        BY <1>1
      <3>3. \/ heap[service[m]] = m
            \/ \E j \in JobId : /\ jobs[j].phase \in Taking \cup {"services"}
                                /\ jobs[j].obj = service[m]
                                /\ jobs[j].name = m
        BY <2>2 DEF IInv, ServiceInv
      <3> QED BY <3>1, <3>2, <3>3, <1>1
    <2> QED BY <2>1, <2>2
  <1>12. ReachInv'
    <2> SUFFICES ASSUME NEW d \in Acc, d \notin impaired'
                 PROVE  /\ d \in listed' \cap enabled' => ppro'[d] # None
                        /\ ppro'[d] # None =>
                             /\ service'[name'[d]] = ppro'[d]
                             /\ \A j \in JobId : jobs[j].phase = "services" => jobs[j].obj # ppro'[d]
      BY <1>6 DEF ReachInv
    <2>1. CASE d # c
      <3>1. /\ d \notin impaired /\ name'[d] = name[d] /\ ppro'[d] = ppro[d]
            /\ d \in listed' \cap enabled' => d \in listed \cap enabled
        BY <2>1, <1>2 DEF About
      <3>2. /\ d \in listed \cap enabled => ppro[d] # None
            /\ ppro[d] # None =>
                 /\ service[name[d]] = ppro[d]
                 /\ \A j \in JobId : jobs[j].phase = "services" => jobs[j].obj # ppro[d]
        BY <3>1 DEF IInv, ReachInv
      <3>3. ppro[d] # None => name[d] \in Name
        BY <1>61 DEF IInv, TypeOK
      <3>4. ppro[d] # None => service'[name[d]] = service[name[d]]
        BY <3>2, <3>3, <1>3
      <3> QED BY <3>1, <3>2, <3>4
    <2>2. CASE d = c
      <3>1. \A j \in JobId : Running(j) => jobs[j].name # n /\ jobs[j].obj # a
        BY <2>2, <1>5 DEF Hurried
      <3>2. \A j \in JobId : jobs[j].phase \in Taking \cup {"services"} => Running(j)
        BY DEF Running, Ended, Taking
      <3>3. service[n] = None
        <4> SUFFICES ASSUME service[n] # None PROVE FALSE
          OBVIOUS
        <4>1. heap[service[n]] = n /\ service[n] \in Addr
          BY <3>1, <3>2 DEF IInv, ServiceInv, TypeOK
        <4>2. \/ \E e \in Acc : ppro[e] = service[n]
              \/ \E j \in JobId : jobs[j].phase \in Taking /\ jobs[j].obj = service[n]
          BY <4>1 DEF IInv, HeapInv
        <4>3. \A e \in Acc : ppro[e] # service[n]
          <5> SUFFICES ASSUME NEW e \in Acc, ppro[e] = service[n] PROVE FALSE
            OBVIOUS
          <5>1. name[e] = n
            BY <4>1 DEF IInv, ObjectInv
          <5> QED BY <5>1, <2>2, <1>5 DEF Hurried, Named
        <4>4. PICK j \in JobId : jobs[j].phase \in Taking /\ jobs[j].obj = service[n]
          BY <4>2, <4>3
        <4>5. jobs[j].name = n
          BY <4>1, <4>4 DEF IInv, JobInv
        <4> QED BY <4>4, <4>5, <3>1, <3>2
      <3> QED BY <2>2, <3>1, <3>2, <3>3, <1>2, <1>3
    <2> QED BY <2>1, <2>2
  <1> QED BY <1>1, <1>2, <1>3, <1>4, <1>62, <1>7, <1>8, <1>9, <1>10, <1>11, <1>12 DEF BodyInv

\* Either outcome of ActivateAccount.
LEMMA NewObject ==
  ASSUME IInv, NEW c \in Acc, NEW n \in Name, NEW p, name'[c] = n, c \in enabled',
         \A d \in Acc \ {c} : /\ name'[d] = name[d]
                              /\ d \in enabled' <=> d \in enabled
                              /\ d \in listed' => d \in listed,
         ppro[c] = None, UNCHANGED jobs,
         ActivateFails(c) \/ \E a \in Addr : ActivateAccount(c, n, p, a)
  PROVE  /\ BodyInv'
         /\ heap' \in [Addr -> Name \cup {None}]
         /\ ppro' \in [Acc -> Addr \cup {None}]
         /\ service' \in [Name -> Addr \cup {None}]
         /\ hooked' \subseteq Addr
         /\ impaired' \subseteq Acc
  <1> USE AccountsAssumption
  <1>1. CASE ActivateFails(c)
    <2>1. impaired' = impaired \cup {c} /\ UNCHANGED <<ppro, heap, service, hooked>>
      BY <1>1 DEF ActivateFails
    <2>2. About(c)
      BY <2>1 DEF About
    <2>3. BodyInv'
      BY <2>1, <2>2, IdleFacts
    <2> QED BY <2>1, <2>3 DEF IInv, TypeOK
  <1>2. CASE \E a \in Addr : ActivateAccount(c, n, p, a)
    <2>1. PICK a \in Addr : ActivateAccount(c, n, p, a)
      BY <1>2
    <2>2. impaired' \subseteq Acc /\ \A d \in Acc \ {c} : d \in impaired' <=> d \in impaired
      BY <2>1 DEF ActivateAccount, IInv, TypeOK
    <2>3. About(c)
      BY <2>2 DEF About
    <2> QED BY <2>1, <2>2, <2>3, ActivateFacts
  <1> QED BY <1>1, <1>2

\* A new account, with or without its object.
LEMMA Proto_CreateAccountStep ==
  ASSUME IInv, NEW c \in Acc, NEW n \in Name, Proto_CreateAccount(c, n)
  PROVE  IInv'
  <1> USE AccountsAssumption
  <1>1. /\ name[c] = None
        /\ listed' = listed \cup {c}
        /\ name' = [name EXCEPT ![c] = n]
        /\ proto' = [proto EXCEPT ![c] = "own"]
        /\ enabled' = enabled \cup {c}
        /\ base' = [base EXCEPT ![n] = "own"]
        /\ ActivateFails(c) \/ \E a \in Addr : ActivateAccount(c, n, "own", a)
        /\ WriteDbAccounts
        /\ UNCHANGED <<dyn, jobs>>
    BY DEF Proto_CreateAccount
  <1>2. ppro[c] = None /\ c \notin listed
    BY <1>1 DEF IInv, AccInv
  <1>3. /\ name' \in [Acc -> Name \cup {None}] /\ name'[c] = n
        /\ \A d \in Acc \ {c} : name'[d] = name[d]
        /\ proto' \in [Acc -> Proto \cup {None}] /\ proto'[c] = "own"
        /\ \A d \in Acc \ {c} : proto'[d] = proto[d]
        /\ base' \in [Name -> Proto \cup {None}] /\ base'[n] = "own"
        /\ \A m \in Name \ {n} : base'[m] = base[m]
    BY <1>1 DEF IInv, TypeOK, Proto
  <1>4. /\ BodyInv'
        /\ heap' \in [Addr -> Name \cup {None}]
        /\ ppro' \in [Acc -> Addr \cup {None}]
        /\ service' \in [Name -> Addr \cup {None}]
        /\ hooked' \subseteq Addr
        /\ impaired' \subseteq Acc
    <2>1. \A d \in Acc \ {c} : /\ d \in enabled' <=> d \in enabled
                               /\ d \in listed' => d \in listed
      BY <1>1
    <2>2. c \in enabled'
      BY <1>1
    <2> QED BY <1>1, <1>2, <1>3, <2>1, <2>2, NewObject
  <1>5. /\ clashed' \subseteq Name
        /\ \A m \in Name : m # n => (m \in clashed' <=> m \in clashed)
        /\ n \notin clashed' =>
             /\ ~Listed(n)
             /\ ~\E j \in JobId : Running(j) /\ jobs[j].name = n /\ jobs[j].erase
    BY DEF Proto_CreateAccount, IInv, TypeOK
  <1>6. listed' \subseteq Acc /\ \A d \in listed : d # c /\ name'[d] = name[d] /\ name[d] \in Name
    BY <1>1, <1>2, <1>3 DEF IInv, TypeOK, AccInv
  <1>7. saved' \subseteq Name \X {"on", "off"} /\ ListInv'
    <2>1. ASSUME NEW d \in listed', name'[d] \notin clashed'
          PROVE  /\ \A e \in listed' : name'[e] = name'[d] => e = d
                 /\ base'[name'[d]] = proto'[d]
                 /\ proto'[d] # None
      <3>1. n \notin clashed' => \A e \in listed : name[e] # n
        BY <1>5, ListedIs DEF IInv
      <3>2. CASE d = c
        BY <2>1, <3>1, <3>2, <1>1, <1>3, <1>6
      <3>3. CASE d # c
        <4>1. d \in listed /\ name'[d] = name[d] /\ name[d] \in Name
          BY <3>3, <1>1, <1>6
        <4>2. name[d] # n /\ name[d] \notin clashed
          BY <2>1, <3>1, <4>1, <1>5
        <4>3. /\ \A e \in listed : name[e] = name[d] => e = d
              /\ base[name[d]] = proto[d]
              /\ proto[d] # None
          BY <4>1, <4>2 DEF IInv, ListInv
        <4> QED BY <3>3, <4>1, <4>2, <4>3, <1>1, <1>3, <1>6
      <3> QED BY <3>2, <3>3
    <2>2. AccInv'
      BY <1>4 DEF BodyInv
    <2> HIDE DEF Acc
    <2> QED BY <1>1, <1>3, <1>6, <2>1, <2>2, WriteStep
  <1>8. TypeOK'
    BY <1>1, <1>3, <1>4, <1>5, <1>6, <1>7 DEF IInv, TypeOK
  <1>9. EraseInv'
    <2> SUFFICES ASSUME NEW j \in JobId
                 PROVE  /\ jobs[j].phase = "erase" => jobs[j].erase
                        /\ Running(j) /\ jobs[j].erase /\ Listed(jobs[j].name)' => jobs[j].name \in clashed'
      BY <1>1 DEF EraseInv, Running, Listed, Named
    <2>1. ASSUME Running(j), jobs[j].erase, Listed(jobs[j].name)'
          PROVE  jobs[j].name \in clashed'
      <3>0. jobs[j].name \in Name
        BY <2>1 DEF IInv, JobInv
      <3>1. CASE jobs[j].name = n
        BY <2>1, <3>1, <1>5
      <3>2. CASE jobs[j].name # n
        <4>1. Listed(jobs[j].name)
          BY <2>1, <3>2, <1>1, <1>3, <1>6 DEF Listed, Named
        <4> QED BY <2>1, <4>1, <3>0, <3>2, <1>5 DEF IInv, EraseInv
      <3> QED BY <3>1, <3>2
    <2> QED BY <2>1 DEF IInv, EraseInv
  <1> QED BY <1>4, <1>7, <1>8, <1>9 DEF IInv, BodyInv

\* A disabled account gets a new object, or not.
LEMMA EnableAccountStep ==
  ASSUME IInv, NEW c \in Acc, EnableAccount(c)
  PROVE  IInv'
  <1> USE AccountsAssumption
  <1>1. /\ c \in listed
        /\ c \notin enabled
        /\ enabled' = enabled \cup {c}
        /\ UNCHANGED <<listed, name, proto, dyn, base, jobs, clashed>>
        /\ WriteDbAccounts
        /\ ActivateFails(c) \/ \E a \in Addr : ActivateAccount(c, name[c], proto[c], a)
    BY DEF EnableAccount
  <1>2. ppro[c] = None /\ name[c] \in Name
    BY <1>1 DEF IInv, AccInv, TypeOK
  <1>3. /\ BodyInv'
        /\ heap' \in [Addr -> Name \cup {None}]
        /\ ppro' \in [Acc -> Addr \cup {None}]
        /\ service' \in [Name -> Addr \cup {None}]
        /\ hooked' \subseteq Addr
        /\ impaired' \subseteq Acc
    <2>1. \A d \in Acc \ {c} : /\ name'[d] = name[d]
                               /\ d \in enabled' <=> d \in enabled
                               /\ d \in listed' => d \in listed
      BY <1>1
    <2>2. c \in enabled' /\ name'[c] = name[c]
      BY <1>1
    <2> QED BY <1>1, <1>2, <2>1, <2>2, NewObject
  <1>4. saved' \subseteq Name \X {"on", "off"} /\ ListInv'
    <2>1. /\ listed' \subseteq Acc /\ AccInv' /\ name' \in [Acc -> Name \cup {None}]
          /\ \A d \in listed' : name'[d] \notin clashed' =>
               /\ \A e \in listed' : name'[e] = name'[d] => e = d
               /\ base'[name'[d]] = proto'[d]
               /\ proto'[d] # None
      BY <1>1, <1>3 DEF BodyInv, IInv, TypeOK, ListInv
    <2> QED BY <1>1, <2>1, WriteStep
  <1>5. TypeOK'
    BY <1>1, <1>3, <1>4 DEF IInv, TypeOK
  <1>6. EraseInv'
    BY <1>1 DEF IInv, EraseInv, Running, Listed, Named
  <1> QED BY <1>3, <1>4, <1>5, <1>6 DEF IInv, BodyInv

\* What disabling and deleting an account with an object have in common.
LEMMA LeaveFacts ==
  ASSUME IInv, NEW c \in Acc, NEW j \in JobId, NEW e \in BOOLEAN,
         DeactivateAccount(c, j, e), About(c),
         c \in impaired' \/ c \notin listed' \cap enabled',
         UNCHANGED <<heap, hooked, service>>
  PROVE  BodyInv'
  <1> USE AccountsAssumption
  <1>1. /\ ppro[c] \in Addr
        /\ name[c] \in Name
        /\ jobs' \in [JobId -> Job]
        /\ jobs[j].phase = "unused"
        /\ jobs'[j].phase = "quit"
        /\ jobs'[j].obj = ppro[c]
        /\ jobs'[j].name = name[c]
        /\ \A k \in JobId : k # j => jobs'[k] = jobs[k]
        /\ ppro' \in [Acc -> Addr \cup {None}]
        /\ ppro'[c] = None
        /\ \A d \in Acc : d # c => ppro'[d] = ppro[d]
    BY DeactivateFacts DEF IInv
  <1>2. heap[ppro[c]] = name[c] /\ \A d \in Acc : d # c => ppro[d] # ppro[c]
    BY <1>1 DEF IInv, ObjectInv
  <1>21. AccInv'
    BY <1>1 DEF IInv, AccInv, About
  <1>3. ObjectInv'
    <2> SUFFICES ASSUME NEW d \in Acc, ppro'[d] # None
                 PROVE  /\ heap[ppro'[d]] = name'[d]
                        /\ ppro'[d] \in hooked
                        /\ \A f \in Acc : ppro'[f] = ppro'[d] => f = d
      BY DEF ObjectInv
    <2>1. d # c /\ ppro'[d] = ppro[d] /\ name'[d] = name[d]
      BY <1>1 DEF About
    <2> QED BY <2>1, <1>1 DEF IInv, ObjectInv
  <1>4. \A k \in JobId : jobs[k].phase \in Taking =>
          k # j /\ jobs[k].obj # ppro[c] /\ jobs'[k] = jobs[k]
    BY <1>1 DEF IInv, JobInv, Taking
  <1>5. JobInv'
    <2> SUFFICES ASSUME NEW k \in JobId
                 PROVE  /\ Running(k)' => jobs'[k].obj \in Addr /\ jobs'[k].name \in Name
                        /\ jobs'[k].phase \in Taking =>
                             /\ heap[jobs'[k].obj] = jobs'[k].name
                             /\ \A d \in Acc : ppro'[d] # jobs'[k].obj
                             /\ \A l \in JobId : l # k /\ jobs'[l].phase \in Taking
                                                 => jobs'[l].obj # jobs'[k].obj
      BY DEF JobInv
    <2>2. CASE k = j
      <3>1. \A d \in Acc : ppro'[d] # jobs'[k].obj
        BY <2>2, <1>1, <1>2
      <3>2. \A l \in JobId : l # k /\ jobs'[l].phase \in Taking => jobs'[l].obj # jobs'[k].obj
        BY <2>2, <1>1, <1>4
      <3> QED BY <3>1, <3>2, <2>2, <1>1, <1>2
    <2>3. CASE k # j
      <3>1. jobs'[k] = jobs[k]
        BY <2>3, <1>1
      <3>2. Running(k)' => Running(k)
        BY <3>1 DEF Running
      <3>3. ASSUME jobs[k].phase \in Taking
            PROVE  /\ heap[jobs[k].obj] = jobs[k].name
                   /\ \A d \in Acc : ppro'[d] # jobs[k].obj
                   /\ \A l \in JobId : l # k /\ jobs'[l].phase \in Taking
                                       => jobs'[l].obj # jobs[k].obj
        <4>1. jobs[k].obj \in Addr
          BY <3>3 DEF IInv, JobInv, Running, Ended, Taking
        <4>2. \A d \in Acc : ppro'[d] # jobs[k].obj
          BY <3>3, <4>1, <1>1 DEF IInv, JobInv
        <4>3. \A l \in JobId : l # k /\ jobs'[l].phase \in Taking => jobs'[l].obj # jobs[k].obj
          BY <3>3, <1>1, <1>4 DEF IInv, JobInv
        <4> QED BY <3>3, <4>2, <4>3 DEF IInv, JobInv
      <3> QED BY <3>1, <3>2, <3>3 DEF IInv, JobInv
    <2> QED BY <2>2, <2>3
  <1>6. HeapInv'
    <2> SUFFICES ASSUME NEW b \in Addr, heap[b] # None
                 PROVE  \/ \E d \in Acc : ppro'[d] = b
                        \/ \E k \in JobId : jobs'[k].phase \in Taking /\ jobs'[k].obj = b
      BY DEF HeapInv
    <2>2. \/ \E d \in Acc : ppro[d] = b
          \/ \E k \in JobId : jobs[k].phase \in Taking /\ jobs[k].obj = b
      BY DEF IInv, HeapInv
    <2>3. CASE ppro[c] = b
      BY <2>3, <1>1 DEF Taking
    <2>4. CASE \E d \in Acc : d # c /\ ppro[d] = b
      BY <2>4, <1>1
    <2>5. CASE \E k \in JobId : jobs[k].phase \in Taking /\ jobs[k].obj = b
      BY <2>5, <1>4
    <2> QED BY <2>2, <2>3, <2>4, <2>5
  <1>7. HookInv'
    <2> SUFFICES ASSUME NEW b \in hooked
                 PROVE  \/ \E d \in Acc : ppro'[d] = b
                        \/ \E k \in JobId : jobs'[k].phase \in {"quit", "unhook"} /\ jobs'[k].obj = b
      BY DEF HookInv
    <2>1. \/ \E d \in Acc : ppro[d] = b
          \/ \E k \in JobId : jobs[k].phase \in {"quit", "unhook"} /\ jobs[k].obj = b
      BY DEF IInv, HookInv
    <2>2. CASE ppro[c] = b
      BY <2>2, <1>1
    <2>3. CASE \E d \in Acc : d # c /\ ppro[d] = b
      BY <2>3, <1>1
    <2>4. CASE \E k \in JobId : jobs[k].phase \in {"quit", "unhook"} /\ jobs[k].obj = b
      BY <2>4, <1>4 DEF Taking
    <2> QED BY <2>1, <2>2, <2>3, <2>4
  <1>8. ServiceInv'
    <2>1. \A k \in JobId : jobs[k].phase \in Taking \cup {"services"} => jobs'[k] = jobs[k]
      BY <1>1 DEF Taking
    <2> QED BY <2>1 DEF IInv, ServiceInv
  <1>9. ReachInv'
    <2> SUFFICES ASSUME NEW d \in Acc, d \notin impaired'
                 PROVE  /\ d \in listed' \cap enabled' => ppro'[d] # None
                        /\ ppro'[d] # None =>
                             /\ service[name'[d]] = ppro'[d]
                             /\ \A k \in JobId : jobs'[k].phase = "services" => jobs'[k].obj # ppro'[d]
      BY DEF ReachInv
    <2>1. \A k \in JobId : jobs'[k].phase = "services" => jobs[k].phase = "services" /\ jobs'[k] = jobs[k]
      BY <1>1
    <2>2. CASE d = c
      BY <2>2, <1>1
    <2>3. CASE d # c
      BY <2>1, <2>3, <1>1 DEF About, IInv, ReachInv
    <2> QED BY <2>2, <2>3
  <1> QED BY <1>21, <1>3, <1>5, <1>6, <1>7, <1>8, <1>9 DEF BodyInv

\* The object of a disabled account goes to a thread; its settings stay.
LEMMA DisableAccountStep ==
  ASSUME IInv, NEW c \in Acc, NEW j \in JobId, DisableAccount(c, j)
  PROVE  IInv'
  <1>1. /\ c \in listed
        /\ enabled' = enabled \ {c}
        /\ UNCHANGED <<listed, name, proto, dyn, base, heap, hooked, service, impaired, clashed>>
        /\ WriteDbAccounts
        /\ DeactivateAccount(c, j, FALSE)
    BY DEF DisableAccount
  <1>2. BodyInv'
    <2>1. About(c)
      BY <1>1 DEF About, IInv, AccInv
    <2> QED BY <1>1, <2>1, LeaveFacts
  <1>3. saved' \subseteq Name \X {"on", "off"} /\ ListInv'
    <2>1. /\ listed' \subseteq Acc /\ AccInv' /\ name' \in [Acc -> Name \cup {None}]
          /\ \A d \in listed' : name'[d] \notin clashed' =>
               /\ \A e \in listed' : name'[e] = name'[d] => e = d
               /\ base'[name'[d]] = proto'[d]
               /\ proto'[d] # None
      BY <1>1, <1>2 DEF BodyInv, IInv, TypeOK, ListInv
    <2> QED BY <1>1, <2>1, WriteStep
  <1>4. /\ jobs' \in [JobId -> Job] /\ ppro' \in [Acc -> Addr \cup {None}]
        /\ jobs'[j].phase = "quit" /\ jobs'[j].erase = FALSE
        /\ \A k \in JobId : k # j => jobs'[k] = jobs[k]
    BY <1>1, DeactivateFacts DEF IInv
  <1>5. TypeOK'
    BY <1>1, <1>3, <1>4 DEF IInv, TypeOK
  <1>6. EraseInv'
    BY <1>1, <1>4 DEF IInv, EraseInv, Running, Listed, Named
  <1> QED BY <1>2, <1>3, <1>5, <1>6 DEF IInv, BodyInv

\* An enabled account that never got its object.
LEMMA DisableImpairedStep ==
  ASSUME IInv, NEW c \in Acc, DisableImpaired(c)
  PROVE  IInv'
  <1>1. /\ c \in listed
        /\ ppro[c] = None
        /\ enabled' = enabled \ {c}
        /\ UNCHANGED <<listed, name, proto, dyn, ppro, base, heap, hooked, service, jobs,
                       impaired, clashed>>
        /\ WriteDbAccounts
    BY DEF DisableImpaired
  <1>2. BodyInv'
    <2>1. About(c)
      BY <1>1 DEF About, IInv, AccInv
    <2> QED BY <1>1, <2>1, IdleFacts
  <1>3. saved' \subseteq Name \X {"on", "off"} /\ ListInv'
    <2>1. /\ listed' \subseteq Acc /\ AccInv' /\ name' \in [Acc -> Name \cup {None}]
          /\ \A d \in listed' : name'[d] \notin clashed' =>
               /\ \A e \in listed' : name'[e] = name'[d] => e = d
               /\ base'[name'[d]] = proto'[d]
               /\ proto'[d] # None
      BY <1>1, <1>2 DEF BodyInv, IInv, TypeOK, ListInv
    <2> QED BY <1>1, <2>1, WriteStep
  <1>4. TypeOK'
    BY <1>1, <1>3 DEF IInv, TypeOK
  <1>5. EraseInv'
    BY <1>1 DEF IInv, EraseInv, Running, Listed, Named
  <1> QED BY <1>2, <1>3, <1>4, <1>5 DEF IInv, BodyInv

\* What OnRemove does to the list, and what its victim's name has left there.
LEMMA RemovedFacts ==
  ASSUME IInv, NEW c \in Acc, NEW v \in Acc, Removed(c, v)
  PROVE  /\ About(c)
         /\ c \in impaired' \/ c \notin listed' \cap enabled'
         /\ name[c] \in Name
         /\ listed' \subseteq listed /\ clashed' = clashed
         /\ \A d \in listed' : name'[d] = name[d]
         /\ \A n : Listed(n)' => Listed(n)
         /\ \A n : n = name[c] /\ Listed(n)' => n \in clashed
         /\ \A d \in listed' : name[d] \notin clashed => name[d] # name[c] /\ proto'[d] = proto[d]
         /\ \A n \in Name \ {name[c]} : Listed(n) => Listed(n)'
         /\ name' \in [Acc -> Name \cup {None}]
         /\ proto' \in [Acc -> Proto \cup {None}]
         /\ enabled' \subseteq Acc /\ dyn' \subseteq Acc /\ impaired' \subseteq Acc
  <1> USE AccountsAssumption
  <1>1. /\ c \in listed /\ v \in listed /\ name[v] = name[c]
        /\ listed' = listed \ {v}
        /\ proto' = [proto EXCEPT ![c] = None]
        /\ clashed' = clashed
    BY DEF Removed, Named
  <1>2. \/ /\ v = c
           /\ name' = [name EXCEPT ![c] = None]
           /\ enabled' = enabled \ {c} /\ dyn' = dyn \ {c} /\ impaired' = impaired \ {c}
        \/ /\ v # c
           /\ impaired' = impaired \cup {c} /\ name' = name /\ enabled' = enabled /\ dyn' = dyn
    BY DEF Removed
  <1>3. listed \subseteq Acc /\ name[c] \in Name
    BY <1>1 DEF IInv, TypeOK, AccInv
  <1>4. /\ name' \in [Acc -> Name \cup {None}]
        /\ \A d \in Acc : d # c => name'[d] = name[d]
        /\ v # c => name'[c] = name[c]
        /\ proto' \in [Acc -> Proto \cup {None}]
        /\ \A d \in Acc : d # c => proto'[d] = proto[d]
    BY <1>1, <1>2 DEF IInv, TypeOK
  <1>5. enabled' \subseteq Acc /\ dyn' \subseteq Acc /\ impaired' \subseteq Acc
    BY <1>2 DEF IInv, TypeOK
  <1>6. \A d \in listed' : name'[d] = name[d]
    BY <1>1, <1>3, <1>4
  <1>7. About(c)
    <2>1. CASE v = c
      BY <2>1, <1>1, <1>2, <1>4 DEF About
    <2>2. CASE v # c
      BY <2>2, <1>1, <1>2, <1>3, <1>4 DEF About
    <2> QED BY <2>1, <2>2
  <1>8. c \in impaired' \/ c \notin listed' \cap enabled'
    BY <1>1, <1>2
  <1>9. /\ \A n : Listed(n)' <=> \E d \in listed' : name[d] = n
        /\ \A n : Listed(n) <=> \E d \in listed : name[d] = n
    BY <1>1, <1>3, <1>6 DEF Listed, Named
  <1>10. ASSUME NEW d \in listed', name[d] \notin clashed
         PROVE  name[d] # name[c] /\ proto'[d] = proto[d]
    <2>1. name[d] # name[c]
      <3> SUFFICES ASSUME name[d] = name[c] PROVE FALSE
        OBVIOUS
      <3>1. \A e \in listed : name[e] = name[c] => e = d
        BY <1>1, <1>10 DEF IInv, ListInv
      <3> QED BY <3>1, <1>1
    <2> QED BY <2>1, <1>1, <1>3, <1>4
  <1>11. /\ \A n : Listed(n)' => Listed(n)
         /\ \A n \in Name \ {name[c]} : Listed(n) => Listed(n)'
    BY <1>1, <1>9
  <1>12. \A n : n = name[c] /\ Listed(n)' => n \in clashed
    BY <1>9, <1>10
  <1> QED BY <1>1, <1>3, <1>4, <1>5, <1>6, <1>7, <1>8, <1>10, <1>11, <1>12

\* The list and the profile after an account was removed.
LEMMA RemovedList ==
  ASSUME IInv, NEW c \in Acc, NEW v \in Acc, Removed(c, v), AccInv',
         base' = base \/ base' = [base EXCEPT ![name[c]] = None]
  PROVE  /\ saved' \subseteq Name \X {"on", "off"} /\ ListInv'
         /\ base' \in [Name -> Proto \cup {None}]
         /\ listed' \subseteq Acc
  <1>1. /\ listed' \subseteq listed /\ clashed' = clashed
        /\ name[c] \in Name
        /\ \A d \in listed' : name'[d] = name[d]
        /\ \A d \in listed' : name[d] \notin clashed => name[d] # name[c] /\ proto'[d] = proto[d]
        /\ name' \in [Acc -> Name \cup {None}]
    BY RemovedFacts
  <1>2. /\ base' \in [Name -> Proto \cup {None}]
        /\ \A n \in Name : n # name[c] => base'[n] = base[n]
    BY DEF IInv, TypeOK
  <1>3. listed \subseteq Acc /\ \A d \in listed : name[d] \in Name
    BY DEF IInv, TypeOK, AccInv
  <1>4. ASSUME NEW d \in listed', name'[d] \notin clashed'
        PROVE  /\ \A e \in listed' : name'[e] = name'[d] => e = d
               /\ base'[name'[d]] = proto'[d]
               /\ proto'[d] # None
    <2>1. d \in listed /\ name'[d] = name[d] /\ name[d] \in Name /\ name[d] # name[c]
          /\ proto'[d] = proto[d] /\ name[d] \notin clashed
      BY <1>1, <1>3, <1>4
    <2>2. /\ \A e \in listed : name[e] = name[d] => e = d
          /\ base[name[d]] = proto[d]
          /\ proto[d] # None
      BY <2>1 DEF IInv, ListInv
    <2> QED BY <2>1, <2>2, <1>1, <1>2
  <1>5. WriteDbAccounts
    BY DEF Removed
  <1>6. listed' \subseteq Acc
    BY <1>1, <1>3
  <1>7. saved' \subseteq Name \X {"on", "off"} /\ ListInv'
    BY <1>1, <1>4, <1>5, <1>6, WriteStep
  <1> QED BY <1>2, <1>6, <1>7

\* The object of a deleted account goes to a thread that will erase the account.
LEMMA DeleteActiveStep ==
  ASSUME IInv, NEW c \in Acc, NEW v \in Acc, NEW j \in JobId, DeleteActive(c, v, j)
  PROVE  IInv'
  <1>1. /\ Removed(c, v)
        /\ DeactivateAccount(c, j, TRUE)
        /\ base' = base
        /\ UNCHANGED <<heap, hooked, service, clashed>>
    BY DEF DeleteActive, Removed
  <1>2. BodyInv'
    BY <1>1, RemovedFacts, LeaveFacts
  <1>3. /\ jobs' \in [JobId -> Job] /\ ppro' \in [Acc -> Addr \cup {None}]
        /\ jobs'[j].phase = "quit" /\ jobs'[j].erase = TRUE /\ jobs'[j].name = name[c]
        /\ \A k \in JobId : k # j => jobs'[k] = jobs[k]
    BY <1>1, DeactivateFacts DEF IInv
  <1>4. /\ saved' \subseteq Name \X {"on", "off"} /\ ListInv'
        /\ base' \in [Name -> Proto \cup {None}]
        /\ listed' \subseteq Acc
    BY <1>1, <1>2, RemovedList DEF BodyInv
  <1>5. TypeOK'
    <2>1. /\ name' \in [Acc -> Name \cup {None}]
          /\ proto' \in [Acc -> Proto \cup {None}]
          /\ enabled' \subseteq Acc /\ dyn' \subseteq Acc /\ impaired' \subseteq Acc
      BY <1>1, RemovedFacts
    <2> QED BY <1>1, <1>3, <1>4, <2>1 DEF IInv, TypeOK
  <1>6. EraseInv'
    <2>1. /\ \A n : Listed(n)' => Listed(n)
          /\ \A n : n = name[c] /\ Listed(n)' => n \in clashed
      BY <1>1, RemovedFacts
    <2>2. ASSUME NEW k \in JobId, NEW n, n = jobs'[k].name, Running(k)', jobs'[k].erase, Listed(n)'
          PROVE  n \in clashed
      <3>1. CASE k = j
        BY <2>1, <2>2, <3>1, <1>3
      <3>2. CASE k # j
        <4>1. Running(k) /\ jobs[k].erase /\ n = jobs[k].name
          BY <2>2, <3>2, <1>3 DEF Running
        <4> QED BY <2>1, <2>2, <4>1 DEF IInv, EraseInv
      <3> QED BY <3>1, <3>2
    <2>3. \A k \in JobId : jobs'[k].phase = "erase" => jobs'[k].erase
      BY <1>3 DEF IInv, EraseInv
    <2> QED BY <2>2, <2>3, <1>1 DEF EraseInv, Listed, Named
  <1> QED BY <1>2, <1>4, <1>5, <1>6 DEF IInv, BodyInv

\* An account without an object is erased at once.
LEMMA DeleteInactiveStep ==
  ASSUME IInv, NEW c \in Acc, NEW v \in Acc, DeleteInactive(c, v)
  PROVE  IInv'
  <1>1. /\ Removed(c, v)
        /\ ppro[c] = None
        /\ base' = [base EXCEPT ![name[c]] = None]
        /\ UNCHANGED <<ppro, heap, hooked, service, jobs, clashed>>
    BY DEF DeleteInactive, Removed, EraseAccount
  <1>2. BodyInv'
    BY <1>1, RemovedFacts, IdleFacts
  <1>3. /\ saved' \subseteq Name \X {"on", "off"} /\ ListInv'
        /\ base' \in [Name -> Proto \cup {None}]
        /\ listed' \subseteq Acc
    BY <1>1, <1>2, RemovedList DEF BodyInv
  <1>4. TypeOK'
    <2>1. /\ name' \in [Acc -> Name \cup {None}]
          /\ proto' \in [Acc -> Proto \cup {None}]
          /\ enabled' \subseteq Acc /\ dyn' \subseteq Acc /\ impaired' \subseteq Acc
      BY <1>1, RemovedFacts
    <2> QED BY <1>1, <1>3, <2>1 DEF IInv, TypeOK
  <1>5. EraseInv'
    <2>1. \A k \in JobId : Listed(jobs[k].name)' => Listed(jobs[k].name)
      <3>1. \A n : Listed(n)' => Listed(n)
        BY <1>1, RemovedFacts
      <3> QED BY <3>1, <1>1 DEF Listed, Named
    <2> QED BY <1>1, <2>1 DEF IInv, EraseInv, Running
  <1> QED BY <1>2, <1>3, <1>4, <1>5 DEF IInv, BodyInv

---------------------------------------------------------------------------
(* DeactivationThread *)

\* A step of a thread that is not its last leaves EraseInv and the list alone.
LEMMA ListUntouched ==
  ASSUME IInv, NEW j \in JobId, NEW ph \in Phase, Advance(j, ph), Running(j),
         ph = "erase" => jobs[j].erase,
         UNCHANGED <<accounts, base>>
  PROVE  EraseInv' /\ ListInv'
  <1>1. /\ jobs'[j].phase = ph
        /\ jobs'[j].name = jobs[j].name
        /\ jobs'[j].erase = jobs[j].erase
        /\ \A k \in JobId : k # j => jobs'[k] = jobs[k]
    BY AdvanceFacts DEF IInv
  <1>2. EraseInv'
    <2>1. \A k \in JobId : Running(k)' => Running(k)
      BY <1>1 DEF Running
    <2> QED BY <1>1, <2>1 DEF IInv, EraseInv, Listed, Named, accounts
  <1>3. ListInv'
    BY DEF IInv, ListInv, accounts
  <1> QED BY <1>2, <1>3

\* The object is offline.
LEMMA QuitStep ==
  ASSUME IInv, NEW j \in JobId, Quit(j)
  PROVE  IInv'
  <1>1. /\ jobs[j].phase = "quit"
        /\ Advance(j, "unhook")
        /\ UNCHANGED <<listed, name, proto, enabled, dyn, ppro, saved, impaired, clashed,
                       base, heap, hooked, service>>
    BY DEF Quit, accounts
  <1>2. /\ jobs' \in [JobId -> Job]
        /\ jobs'[j].phase = "unhook"
        /\ jobs'[j].obj = jobs[j].obj
        /\ jobs'[j].name = jobs[j].name
        /\ \A k \in JobId : k # j => jobs'[k] = jobs[k]
    BY <1>1, AdvanceFacts DEF IInv, Phase
  <1>3. TypeOK'
    BY <1>1, <1>2 DEF IInv, TypeOK
  <1>4. /\ \A k \in JobId : jobs'[k].obj = jobs[k].obj /\ jobs'[k].name = jobs[k].name
        /\ \A k \in JobId : jobs'[k].phase \in Taking <=> jobs[k].phase \in Taking
        /\ \A k \in JobId : jobs'[k].phase \in {"quit", "unhook"} <=> jobs[k].phase \in {"quit", "unhook"}
        /\ \A k \in JobId : jobs'[k].phase = "services" <=> jobs[k].phase = "services"
        /\ \A k \in JobId : Running(k)' => Running(k)
    BY <1>1, <1>2 DEF Taking, Running, Ended
  <1>5. AccInv' /\ ObjectInv' /\ HeapInv' /\ HookInv' /\ ServiceInv' /\ ReachInv'
    BY <1>1, <1>4 DEF IInv, AccInv, ObjectInv, HeapInv, HookInv, ServiceInv, ReachInv
  <1>6. JobInv'
    BY <1>1, <1>4 DEF IInv, JobInv
  <1>7. EraseInv' /\ ListInv'
    BY <1>1, ListUntouched DEF accounts, Phase, Running, Ended
  <1> QED BY <1>3, <1>5, <1>6, <1>7 DEF IInv

\* The object loses its hooks while it is still there.
LEMMA KillObjectEventHooksStep ==
  ASSUME IInv, NEW j \in JobId, KillObjectEventHooks(j)
  PROVE  IInv'
  <1>1. /\ jobs[j].phase = "unhook"
        /\ Advance(j, "free")
        /\ hooked' = hooked \ {jobs[j].obj}
        /\ UNCHANGED <<listed, name, proto, enabled, dyn, ppro, saved, impaired, clashed,
                       base, heap, service>>
    BY DEF KillObjectEventHooks, Unhooked, accounts
  <1>2. /\ jobs' \in [JobId -> Job]
        /\ jobs'[j].phase = "free"
        /\ jobs'[j].obj = jobs[j].obj
        /\ jobs'[j].name = jobs[j].name
        /\ \A k \in JobId : k # j => jobs'[k] = jobs[k]
    BY <1>1, AdvanceFacts DEF IInv, Phase
  <1>3. TypeOK'
    BY <1>1, <1>2 DEF IInv, TypeOK
  <1>4. /\ \A k \in JobId : jobs'[k].obj = jobs[k].obj /\ jobs'[k].name = jobs[k].name
        /\ \A k \in JobId : jobs'[k].phase \in Taking <=> jobs[k].phase \in Taking
        /\ \A k \in JobId : jobs'[k].phase = "services" <=> jobs[k].phase = "services"
        /\ \A k \in JobId : Running(k)' => Running(k)
    BY <1>1, <1>2 DEF Taking, Running, Ended
  <1>5. \A c \in Acc : ppro[c] # jobs[j].obj
    BY <1>1 DEF IInv, JobInv, Taking
  <1>6. AccInv' /\ ObjectInv'
    BY <1>1, <1>5 DEF IInv, AccInv, ObjectInv
  <1>7. HeapInv' /\ ServiceInv' /\ ReachInv'
    BY <1>1, <1>4 DEF IInv, HeapInv, ServiceInv, ReachInv
  <1>8. HookInv'
    <2>1. \A k \in JobId : jobs[k].phase \in {"quit", "unhook"} /\ jobs[k].obj # jobs[j].obj
                           => jobs'[k].phase \in {"quit", "unhook"}
      BY <1>2
    <2> QED BY <1>1, <1>4, <2>1 DEF IInv, HookInv
  <1>9. JobInv'
    BY <1>1, <1>4 DEF IInv, JobInv
  <1>10. EraseInv' /\ ListInv'
    BY <1>1, ListUntouched DEF accounts, Phase, Running, Ended
  <1> QED BY <1>3, <1>6, <1>7, <1>8, <1>9, <1>10 DEF IInv

\* The object is deleted, its address free; its services are still there.
LEMMA UninitStep ==
  ASSUME IInv, NEW j \in JobId, Uninit(j)
  PROVE  IInv'
  <1> USE AccountsAssumption
  <1>1. /\ jobs[j].phase = "free"
        /\ Advance(j, "services")
        /\ heap' = [heap EXCEPT ![jobs[j].obj] = None]
        /\ UNCHANGED <<listed, name, proto, enabled, dyn, ppro, saved, impaired, clashed,
                       base, hooked, service>>
    BY DEF Uninit, accounts
  <1>2. /\ jobs' \in [JobId -> Job]
        /\ jobs'[j].phase = "services"
        /\ jobs'[j].obj = jobs[j].obj
        /\ jobs'[j].name = jobs[j].name
        /\ \A k \in JobId : k # j => jobs'[k] = jobs[k]
    BY <1>1, AdvanceFacts DEF IInv, Phase
  <1>3. /\ jobs[j].obj \in Addr
        /\ jobs[j].name \in Name
        /\ heap[jobs[j].obj] = jobs[j].name
        /\ \A c \in Acc : ppro[c] # jobs[j].obj
        /\ \A k \in JobId : k # j /\ jobs[k].phase \in Taking => jobs[k].obj # jobs[j].obj
    BY <1>1 DEF IInv, JobInv, Taking, Running, Ended
  <1>4. /\ heap' \in [Addr -> Name \cup {None}]
        /\ heap'[jobs[j].obj] = None
        /\ \A b \in Addr : b # jobs[j].obj => heap'[b] = heap[b]
    BY <1>1, <1>3 DEF IInv, TypeOK
  <1>5. TypeOK'
    BY <1>1, <1>2, <1>4 DEF IInv, TypeOK
  <1>6. AccInv' /\ ObjectInv'
    BY <1>1, <1>3, <1>4 DEF IInv, AccInv, ObjectInv, TypeOK
  <1>7. \A k \in JobId : jobs'[k].phase \in Taking => k # j /\ jobs[k].phase \in Taking /\ jobs'[k] = jobs[k]
    BY <1>2 DEF Taking
  <1>8. JobInv'
    <2>1. \A k \in JobId : Running(k)' => jobs'[k].obj \in Addr /\ jobs'[k].name \in Name
      BY <1>2, <1>3 DEF IInv, JobInv, Running
    <2>2. ASSUME NEW k \in JobId, jobs'[k].phase \in Taking
          PROVE  /\ heap'[jobs'[k].obj] = jobs'[k].name
                 /\ \A c \in Acc : ppro'[c] # jobs'[k].obj
                 /\ \A l \in JobId : l # k /\ jobs'[l].phase \in Taking
                                     => jobs'[l].obj # jobs'[k].obj
      <3>1. /\ jobs[k].phase \in Taking /\ jobs'[k] = jobs[k]
            /\ jobs[k].obj # jobs[j].obj
            /\ jobs[k].obj \in Addr
        BY <2>2, <1>3, <1>7 DEF IInv, JobInv, Running, Ended, Taking
      <3>2. heap'[jobs[k].obj] = jobs[k].name
        BY <3>1, <1>4 DEF IInv, JobInv
      <3>3. \A c \in Acc : ppro'[c] # jobs[k].obj
        BY <3>1, <1>1 DEF IInv, JobInv
      <3>4. \A l \in JobId : l # k /\ jobs'[l].phase \in Taking => jobs'[l].obj # jobs[k].obj
        BY <3>1, <1>7 DEF IInv, JobInv
      <3> QED BY <3>1, <3>2, <3>3, <3>4
    <2> QED BY <2>1, <2>2 DEF JobInv
  <1>9. HeapInv'
    <2> SUFFICES ASSUME NEW b \in Addr, heap'[b] # None
                 PROVE  \/ \E c \in Acc : ppro[c] = b
                        \/ \E k \in JobId : jobs'[k].phase \in Taking /\ jobs'[k].obj = b
      BY <1>1 DEF HeapInv
    <2>1. b # jobs[j].obj /\ heap'[b] = heap[b]
      BY <1>4
    <2>2. \A k \in JobId : jobs[k].obj = b => jobs'[k] = jobs[k]
      BY <2>1, <1>2
    <2> QED BY <2>1, <2>2 DEF IInv, HeapInv
  <1>10. HookInv'
    <2>1. \A k \in JobId : jobs[k].phase \in {"quit", "unhook"} => jobs'[k] = jobs[k]
      BY <1>1, <1>2
    <2> QED BY <1>1, <2>1 DEF IInv, HookInv
  <1>11. ServiceInv'
    <2> SUFFICES ASSUME NEW n \in Name, service[n] # None
                 PROVE  \/ heap'[service[n]] = n
                        \/ \E k \in JobId : /\ jobs'[k].phase \in Taking \cup {"services"}
                                            /\ jobs'[k].obj = service[n]
                                            /\ jobs'[k].name = n
      BY <1>1 DEF ServiceInv
    <2>0. service[n] \in Addr
      BY DEF IInv, TypeOK
    <2>1. CASE heap[service[n]] = n /\ service[n] = jobs[j].obj
      BY <2>1, <1>2, <1>3
    <2>2. CASE heap[service[n]] = n /\ service[n] # jobs[j].obj
      BY <2>0, <2>2, <1>4
    <2>3. CASE heap[service[n]] # n
      <3>1. PICK k \in JobId : /\ jobs[k].phase \in Taking \cup {"services"}
                               /\ jobs[k].obj = service[n]
                               /\ jobs[k].name = n
        BY <2>3 DEF IInv, ServiceInv
      <3> QED BY <3>1, <1>2
    <2> QED BY <2>1, <2>2, <2>3
  <1>12. ReachInv'
    BY <1>1, <1>2, <1>3 DEF IInv, ReachInv
  <1>13. EraseInv' /\ ListInv'
    BY <1>1, ListUntouched DEF accounts, Phase, Running, Ended
  <1> QED BY <1>5, <1>6, <1>8, <1>9, <1>10, <1>11, <1>12, <1>13 DEF IInv

\* The services behind the address go.
LEMMA KillObjectServicesStep ==
  ASSUME IInv, NEW j \in JobId, KillObjectServices(j)
  PROVE  IInv'
  <1> USE AccountsAssumption
  <1> DEFINE ph == IF jobs[j].erase THEN "erase" ELSE "done"
  <1>1. /\ jobs[j].phase = "services"
        /\ Advance(j, ph)
        /\ service' = Killed(jobs[j].obj)
        /\ UNCHANGED <<listed, name, proto, enabled, dyn, ppro, saved, impaired, clashed,
                       base, heap, hooked>>
    BY DEF KillObjectServices, accounts
  <1>2. /\ ph \in {"erase", "done"} /\ ph \in Phase
        /\ ph = "erase" => jobs[j].erase
    BY DEF Phase
  <1> HIDE DEF ph
  <1>3. /\ jobs' \in [JobId -> Job]
        /\ jobs'[j].phase = ph
        /\ jobs'[j].obj = jobs[j].obj
        /\ jobs'[j].name = jobs[j].name
        /\ \A k \in JobId : k # j => jobs'[k] = jobs[k]
    BY <1>1, <1>2, AdvanceFacts DEF IInv
  <1>4. /\ service' \in [Name -> Addr \cup {None}]
        /\ \A n \in Name : service[n] = jobs[j].obj => service'[n] = None
        /\ \A n \in Name : service[n] # jobs[j].obj => service'[n] = service[n]
    BY <1>1 DEF Killed, IInv, TypeOK
  <1>5. TypeOK'
    BY <1>1, <1>3, <1>4 DEF IInv, TypeOK
  <1>6. /\ \A k \in JobId : jobs'[k].obj = jobs[k].obj /\ jobs'[k].name = jobs[k].name
        /\ \A k \in JobId : jobs'[k].phase \in Taking <=> jobs[k].phase \in Taking
        /\ \A k \in JobId : jobs'[k].phase \in {"quit", "unhook"} <=> jobs[k].phase \in {"quit", "unhook"}
        /\ \A k \in JobId : jobs'[k].phase = "services" => jobs[k].phase = "services"
        /\ \A k \in JobId : Running(k)' => Running(k)
    BY <1>1, <1>2, <1>3 DEF Taking, Running, Ended
  <1>7. AccInv' /\ ObjectInv' /\ HeapInv' /\ HookInv'
    BY <1>1, <1>6 DEF IInv, AccInv, ObjectInv, HeapInv, HookInv
  <1>8. JobInv'
    BY <1>1, <1>6 DEF IInv, JobInv
  <1>9. ServiceInv'
    <2> SUFFICES ASSUME NEW n \in Name, service'[n] # None
                 PROVE  \/ heap[service'[n]] = n
                        \/ \E k \in JobId : /\ jobs'[k].phase \in Taking \cup {"services"}
                                            /\ jobs'[k].obj = service'[n]
                                            /\ jobs'[k].name = n
      BY <1>1 DEF ServiceInv
    <2>1. service'[n] = service[n] /\ service[n] # jobs[j].obj
      BY <1>4
    <2>2. \A k \in JobId : jobs[k].obj = service[n] => jobs'[k] = jobs[k]
      BY <2>1, <1>3
    <2> QED BY <2>1, <2>2 DEF IInv, ServiceInv
  <1>10. ReachInv'
    <2> SUFFICES ASSUME NEW c \in Acc \ impaired
                 PROVE  /\ c \in listed \cap enabled => ppro[c] # None
                        /\ ppro[c] # None =>
                             /\ service'[name[c]] = ppro[c]
                             /\ \A k \in JobId : jobs'[k].phase = "services" => jobs'[k].obj # ppro[c]
      BY <1>1 DEF ReachInv
    <2>1. c \in listed \cap enabled => ppro[c] # None
      BY DEF IInv, ReachInv
    <2>2. ASSUME ppro[c] # None
          PROVE  name[c] \in Name /\ service[name[c]] = ppro[c] /\ ppro[c] # jobs[j].obj
      BY <2>2, <1>1 DEF IInv, TypeOK, AccInv, ReachInv
    <2>3. ppro[c] # None => service'[name[c]] = ppro[c]
      BY <2>2, <1>4
    <2>4. ppro[c] # None => \A k \in JobId : jobs'[k].phase = "services" => jobs'[k].obj # ppro[c]
      BY <1>6 DEF IInv, ReachInv
    <2> QED BY <2>1, <2>3, <2>4
  <1>11. EraseInv' /\ ListInv'
    BY <1>1, <1>2, ListUntouched DEF accounts, Running, Ended
  <1> QED BY <1>5, <1>7, <1>8, <1>9, <1>10, <1>11 DEF IInv

\* The settings go, also those of an account created anew under the name.
LEMMA JobEraseStep ==
  ASSUME IInv, NEW j \in JobId, JobErase(j)
  PROVE  IInv'
  <1>1. /\ jobs[j].phase = "erase"
        /\ Advance(j, "done")
        /\ base' = [base EXCEPT ![jobs[j].name] = None]
        /\ UNCHANGED <<listed, name, proto, enabled, dyn, ppro, saved, impaired, clashed,
                       heap, hooked, service>>
    BY DEF JobErase, EraseAccount, accounts
  <1>2. /\ jobs' \in [JobId -> Job]
        /\ jobs'[j].phase = "done"
        /\ jobs'[j].obj = jobs[j].obj
        /\ jobs'[j].name = jobs[j].name
        /\ \A k \in JobId : k # j => jobs'[k] = jobs[k]
    BY <1>1, AdvanceFacts DEF IInv, Phase
  <1>3. TypeOK'
    BY <1>1, <1>2 DEF IInv, TypeOK
  <1>4. /\ \A k \in JobId : jobs'[k].obj = jobs[k].obj /\ jobs'[k].name = jobs[k].name
        /\ \A k \in JobId : jobs'[k].phase \in Taking <=> jobs[k].phase \in Taking
        /\ \A k \in JobId : jobs'[k].phase \in {"quit", "unhook"} <=> jobs[k].phase \in {"quit", "unhook"}
        /\ \A k \in JobId : jobs'[k].phase = "services" <=> jobs[k].phase = "services"
        /\ \A k \in JobId : Running(k)' => Running(k) /\ k # j
    BY <1>1, <1>2 DEF Taking, Running, Ended
  <1>5. AccInv' /\ ObjectInv' /\ HeapInv' /\ HookInv' /\ ServiceInv' /\ ReachInv'
    BY <1>1, <1>4 DEF IInv, AccInv, ObjectInv, HeapInv, HookInv, ServiceInv, ReachInv
  <1>6. JobInv'
    BY <1>1, <1>4 DEF IInv, JobInv
  <1>7. EraseInv'
    BY <1>1, <1>2, <1>4 DEF IInv, EraseInv, Listed, Named, accounts
  <1>8. \A c \in listed : name[c] \notin clashed => name[c] # jobs[j].name
    BY <1>1, ListedIs DEF IInv, EraseInv, Running, Ended
  <1>9. ListInv'
    <2>1. \A c \in listed : name[c] \notin clashed => base'[name[c]] = base[name[c]]
      BY <1>1, <1>8 DEF IInv, TypeOK
    <2> QED BY <1>1, <2>1 DEF IInv, ListInv
  <1> QED BY <1>3, <1>5, <1>6, <1>7, <1>9 DEF IInv

---------------------------------------------------------------------------
(* Starting *)

\* What a start finds: one account for each name, with the object and the
\* services of the enabled ones.
LEMMA RestartFacts ==
  ASSUME IInv, Restart
  PROVE  /\ name' \in [Acc -> Name \cup {None}]
         /\ listed' = {c \in Acc : name'[c] # None}
         /\ \A c, d \in Acc : name'[c] = name'[d] /\ name'[c] # None => c = d
         /\ enabled' \subseteq listed' /\ dyn' \subseteq listed'
         /\ ppro' \in [Acc -> Addr \cup {None}]
         /\ \A c \in Acc : ppro'[c] # None <=> c \in enabled' /\ c \notin dyn'
         /\ \A c, d \in Acc : ppro'[c] = ppro'[d] /\ ppro'[c] # None => c = d
         /\ heap' \in [Addr -> Name \cup {None}]
         /\ \A c \in Acc : ppro'[c] # None => heap'[ppro'[c]] = name'[c]
         /\ \A a \in Addr : heap'[a] # None => \E c \in Acc : ppro'[c] = a
         /\ hooked' = {a \in Addr : heap'[a] # None}
         /\ service' \in [Name -> Addr \cup {None}]
         /\ \A n \in Name : service'[n] # None => heap'[service'[n]] = n
         /\ \A c \in Acc : ppro'[c] # None => service'[name'[c]] = ppro'[c]
         /\ impaired' = enabled' \cap dyn'
         /\ jobs' \in [JobId -> Job] /\ \A j \in JobId : jobs'[j].phase = "unused"
  <1> USE AccountsAssumption
  <1>1. /\ name' \in [Acc -> Name \cup {None}]
        /\ \A c, d \in Acc : name'[c] = name'[d] /\ name'[c] # None => c = d
        /\ listed' = {c \in Acc : name'[c] # None}
        /\ enabled' \subseteq listed'
    BY DEF Restart, LoadDbAccounts
  <1>2. /\ dyn' \subseteq listed'
        /\ ppro' \in [Acc -> Addr \cup {None}]
        /\ \A c \in Acc : ppro'[c] # None <=> c \in enabled' /\ c \notin dyn'
        /\ \A c, d \in Acc : ppro'[c] = ppro'[d] /\ ppro'[c] # None => c = d
        /\ heap' = [a \in Addr |-> IF \E c \in Acc : ppro'[c] = a
                                   THEN name'[CHOOSE c \in Acc : ppro'[c] = a] ELSE None]
        /\ hooked' = {a \in Addr : heap'[a] # None}
        /\ service' = [n \in Name |-> IF \E a \in Addr : heap'[a] = n
                                      THEN CHOOSE a \in Addr : heap'[a] = n ELSE None]
        /\ impaired' = enabled' \cap dyn'
    BY DEF Restart, LoadAccountsModule
  <1>3. ASSUME NEW c \in Acc, ppro'[c] # None
        PROVE  ppro'[c] \in Addr /\ name'[c] \in Name /\ heap'[ppro'[c]] = name'[c]
    <2>1. ppro'[c] \in Addr /\ name'[c] \in Name
      BY <1>1, <1>2, <1>3
    <2>2. (CHOOSE d \in Acc : ppro'[d] = ppro'[c]) = c
      <3>1. PICK d \in Acc : d = CHOOSE e \in Acc : ppro'[e] = ppro'[c]
        OBVIOUS
      <3>2. ppro'[d] = ppro'[c]
        BY <3>1
      <3> QED BY <3>1, <3>2, <1>2, <1>3
    <2>3. heap'[ppro'[c]] = name'[CHOOSE d \in Acc : ppro'[d] = ppro'[c]]
      BY <2>1, <1>2
    <2> QED BY <2>1, <2>2, <2>3
  <1>4. \A a \in Addr : heap'[a] # None => \E c \in Acc : ppro'[c] = a
    BY <1>2
  <1>5. heap' \in [Addr -> Name \cup {None}]
    <2>1. \A a \in Addr : heap'[a] \in Name \cup {None}
      BY <1>3, <1>4
    <2> QED BY <2>1, <1>2
  <1>6. ASSUME NEW n \in Name
        PROVE  /\ service'[n] \in Addr \cup {None}
               /\ service'[n] # None => heap'[service'[n]] = n
               /\ \A a \in Addr : heap'[a] = n => service'[n] # None
    <2>1. CASE \E a \in Addr : heap'[a] = n
      <3>1. service'[n] = CHOOSE a \in Addr : heap'[a] = n
        BY <2>1, <1>2
      <3> QED BY <2>1, <3>1
    <2>2. CASE ~\E a \in Addr : heap'[a] = n
      <3>1. service'[n] = None
        BY <2>2, <1>2
      <3> QED BY <2>2, <3>1
    <2> QED BY <2>1, <2>2
  <1>7. service' \in [Name -> Addr \cup {None}]
    BY <1>2, <1>6
  <1>8. ASSUME NEW c \in Acc, ppro'[c] # None PROVE service'[name'[c]] = ppro'[c]
    <2>1. ppro'[c] \in Addr /\ name'[c] \in Name /\ heap'[ppro'[c]] = name'[c]
      BY <1>3, <1>8
    <2>2. /\ service'[name'[c]] \in Addr
          /\ heap'[service'[name'[c]]] = name'[c]
      BY <2>1, <1>6
    <2>3. PICK d \in Acc : ppro'[d] = service'[name'[c]]
      BY <2>1, <2>2, <1>4
    <2>4. name'[d] = name'[c]
      BY <2>2, <2>3, <1>3
    <2>5. d = c
      BY <2>1, <2>4, <1>1
    <2> QED BY <2>3, <2>5
  <1>9. jobs' \in [JobId -> Job] /\ \A j \in JobId : jobs'[j].phase = "unused"
    <2>1. NoJob \in Job /\ NoJob.phase = "unused"
      BY DEF NoJob, Job, Phase
    <2>2. jobs' = [j \in JobId |-> NoJob]
      BY DEF Restart
    <2> QED BY <2>1, <2>2
  <1> QED BY <1>1, <1>2, <1>3, <1>4, <1>5, <1>6, <1>7, <1>8, <1>9

\* The flags and protocols that the start takes from the profile.
LEMMA LoadFacts ==
  ASSUME IInv, Restart
  PROVE  /\ base' \in [Name -> Proto \cup {None}]
         /\ \A n \in Name : base[n] # None => base'[n] = base[n]
         /\ proto' \in [Acc -> Proto \cup {None}]
         /\ \A c \in listed' : proto'[c] = base'[name'[c]] /\ proto'[c] # None
         /\ \A n \in Name : SavedName(n) \/ base[n] # None => \E c \in listed' : name'[c] = n
         /\ \A c \in listed' : SavedName(name'[c]) => <<name'[c], Flag(c \in enabled')>> \in saved
  <1> USE AccountsAssumption
  <1>1. /\ \A n \in Name : (SavedName(n) \/ base[n] # None) <=> \E c \in Acc : name'[c] = n
        /\ listed' = {c \in Acc : name'[c] # None}
        /\ name' \in [Acc -> Name \cup {None}]
        /\ base' = [n \in Name |-> IF SavedName(n) /\ base[n] = None THEN "module" ELSE base[n]]
        /\ proto' = [c \in Acc |-> IF c \in listed' THEN base'[name'[c]] ELSE None]
        /\ \A c \in listed' : SavedName(name'[c]) => <<name'[c], Flag(c \in enabled')>> \in saved
    BY DEF Restart, LoadDbAccounts
  <1>2. /\ base' \in [Name -> Proto \cup {None}]
        /\ \A n \in Name : base[n] # None => base'[n] = base[n]
        /\ \A n \in Name : SavedName(n) \/ base[n] # None => base'[n] # None
    BY <1>1 DEF IInv, TypeOK, Proto
  <1>3. \A c \in listed' : c \in Acc /\ name'[c] \in Name /\ base'[name'[c]] # None
    BY <1>1, <1>2
  <1>4. /\ \A c \in listed' : proto'[c] = base'[name'[c]] /\ proto'[c] # None
        /\ proto' \in [Acc -> Proto \cup {None}]
    BY <1>1, <1>2, <1>3
  <1>5. \A n \in Name : SavedName(n) \/ base[n] # None => \E c \in listed' : name'[c] = n
    BY <1>1
  <1> QED BY <1>1, <1>2, <1>4, <1>5

\* A start makes everything anew from the profile.
LEMMA RestartStep ==
  ASSUME IInv, Restart
  PROVE  IInv'
  <1> USE AccountsAssumption
  <1>1. /\ name' \in [Acc -> Name \cup {None}]
        /\ listed' = {c \in Acc : name'[c] # None}
        /\ \A c, d \in Acc : name'[c] = name'[d] /\ name'[c] # None => c = d
        /\ enabled' \subseteq listed' /\ dyn' \subseteq listed'
        /\ ppro' \in [Acc -> Addr \cup {None}]
        /\ \A c \in Acc : ppro'[c] # None <=> c \in enabled' /\ c \notin dyn'
        /\ \A c, d \in Acc : ppro'[c] = ppro'[d] /\ ppro'[c] # None => c = d
        /\ heap' \in [Addr -> Name \cup {None}]
        /\ \A c \in Acc : ppro'[c] # None => heap'[ppro'[c]] = name'[c]
        /\ \A a \in Addr : heap'[a] # None => \E c \in Acc : ppro'[c] = a
        /\ hooked' = {a \in Addr : heap'[a] # None}
        /\ service' \in [Name -> Addr \cup {None}]
        /\ \A n \in Name : service'[n] # None => heap'[service'[n]] = n
        /\ \A c \in Acc : ppro'[c] # None => service'[name'[c]] = ppro'[c]
        /\ impaired' = enabled' \cap dyn'
        /\ jobs' \in [JobId -> Job] /\ \A j \in JobId : jobs'[j].phase = "unused"
    BY RestartFacts
  <1>2. /\ base' \in [Name -> Proto \cup {None}]
        /\ proto' \in [Acc -> Proto \cup {None}]
        /\ \A c \in listed' : proto'[c] = base'[name'[c]] /\ proto'[c] # None
        /\ \A n \in Name : SavedName(n) \/ base[n] # None => \E c \in listed' : name'[c] = n
        /\ \A c \in listed' : SavedName(name'[c]) => <<name'[c], Flag(c \in enabled')>> \in saved
    BY LoadFacts
  <1>3. clashed' = {n \in Name : <<n, "on">> \in saved' /\ <<n, "off">> \in saved'}
    BY DEF Restart
  <1>4. AccInv'
    BY <1>1 DEF AccInv
  <1>5. ObjectInv'
    BY <1>1 DEF ObjectInv
  <1>6. JobInv' /\ EraseInv'
    BY <1>1 DEF JobInv, EraseInv, Running, Ended, Taking
  <1>7. HeapInv' /\ HookInv' /\ ServiceInv'
    BY <1>1 DEF HeapInv, HookInv, ServiceInv
  <1>8. ReachInv'
    BY <1>1 DEF ReachInv
  <1>9. \A c \in listed' : c \in Acc /\ name'[c] \in Name
    BY <1>1
  <1>10. \A c \in listed' : \A d \in listed' : name'[d] = name'[c] => d = c
    BY <1>1
  <1>11. saved' \subseteq Name \X {"on", "off"} /\ ListInv'
    <2>1. CASE WriteDbAccounts
      <3>1. listed' \subseteq Acc
        BY <1>1
      <3> QED BY <2>1, <3>1, <1>1, <1>2, <1>4, <1>10, WriteStep
    <2>2. CASE UNCHANGED saved /\ \A n \in Name : base[n] # None => SavedName(n)
      <3>1. \A c \in listed' : SavedName(name'[c])
        <4>1. \A n \in Name : (\E c \in Acc : name'[c] = n) => SavedName(n) \/ base[n] # None
          BY DEF Restart, LoadDbAccounts
        <4> QED BY <2>2, <4>1, <1>9
      <3>2. ASSUME NEW c \in listed', name'[c] \notin clashed'
            PROVE  /\ <<name'[c], "on">> \in saved' <=> c \in enabled'
                   /\ <<name'[c], "off">> \in saved' <=> c \notin enabled'
        <4>1. ~(<<name'[c], "on">> \in saved' /\ <<name'[c], "off">> \in saved')
          BY <3>2, <1>3, <1>9
        <4>2. <<name'[c], Flag(c \in enabled')>> \in saved'
          BY <2>2, <3>1, <1>2
        <4>3. CASE c \in enabled'
          BY <4>1, <4>2, <4>3 DEF Flag
        <4>4. CASE c \notin enabled'
          BY <4>1, <4>2, <4>4 DEF Flag
        <4> QED BY <4>3, <4>4
      <3>3. saved' \subseteq Name \X {"on", "off"}
        BY <2>2 DEF IInv, TypeOK
      <3> QED BY <3>2, <3>3, <1>2, <1>10 DEF ListInv
    <2> QED BY <2>1, <2>2 DEF Restart, LoadDbAccounts
  <1>12. /\ listed' \subseteq Acc /\ enabled' \subseteq Acc /\ dyn' \subseteq Acc
         /\ hooked' \subseteq Addr /\ impaired' \subseteq Acc /\ clashed' \subseteq Name
    BY <1>1, <1>3
  <1>13. TypeOK'
    BY <1>1, <1>2, <1>11, <1>12 DEF TypeOK
  <1> QED BY <1>4, <1>5, <1>6, <1>7, <1>8, <1>11, <1>13 DEF IInv

\* Nothing happens.
LEMMA StutterStep ==
  ASSUME IInv, UNCHANGED vars
  PROVE  IInv'
  BY DEF vars, IInv, TypeOK, AccInv, ObjectInv, JobInv, HeapInv, HookInv, ServiceInv, ReachInv,
         EraseInv, ListInv, Running, Listed, Named

---------------------------------------------------------------------------
(* Theorems *)

\* The inductive invariant: objects, hooks and services belong to accounts or
\* to the DeactivationThreads that still have to remove them, and the profile
\* has the list.
THEOREM AccountsInvariant == Spec => []IInv
  <1>1. Init => IInv
    BY InitIInv
  <1>2. IInv /\ [Next]_vars => IInv'
    <2> SUFFICES ASSUME IInv, [Next]_vars PROVE IInv'
      OBVIOUS
    <2>1. CASE \E c \in Acc, n \in Name : Proto_CreateAccount(c, n)
      BY <2>1, Proto_CreateAccountStep
    <2>2. CASE \E c \in Acc : EnableAccount(c) \/ DisableImpaired(c)
      BY <2>2, EnableAccountStep, DisableImpairedStep
    <2>3. CASE \E c \in Acc, j \in JobId : DisableAccount(c, j)
      BY <2>3, DisableAccountStep
    <2>4. CASE \E c, v \in Acc : DeleteInactive(c, v) \/ \E j \in JobId : DeleteActive(c, v, j)
      BY <2>4, DeleteInactiveStep, DeleteActiveStep
    <2>5. CASE \E j \in JobId : JobStep(j)
      BY <2>5, QuitStep, KillObjectEventHooksStep, UninitStep, KillObjectServicesStep,
         JobEraseStep DEF JobStep
    <2>6. CASE Restart
      BY <2>6, RestartStep
    <2>7. CASE UNCHANGED vars
      BY <2>7, StutterStep
    <2> QED BY <2>1, <2>2, <2>3, <2>4, <2>5, <2>6, <2>7 DEF Next
  <1> QED BY <1>1, <1>2, PTL DEF Spec

\* The tables of accounts, objects and threads keep their types.
THEOREM AccountsTypes == Spec => []TypeOK
  <1>1. IInv => TypeOK
    BY DEF IInv
  <1> QED BY <1>1, AccountsInvariant, PTL

\* An enabled account of the list whose activation succeeded, and met no older
\* object of its name or address, has a live object that hears events and
\* answers its services.
THEOREM EnabledAccountsWork == Spec => []EnabledIsReachable
  <1>1. IInv => EnabledIsReachable
    BY DEF IInv, EnabledIsReachable, ObjectInv, ReachInv, TypeOK
  <1> QED BY <1>1, AccountsInvariant, PTL

\* No object has two accounts, or an account and a DeactivationThread.
THEOREM ObjectsAreSeparate == Spec => []ObjectsNotShared
  <1>1. IInv => ObjectsNotShared
    BY DEF IInv, ObjectsNotShared, ObjectInv, JobInv, Taking
  <1> QED BY <1>1, AccountsInvariant, PTL

\* KillObjectEventHooks comes before fnUninit: hooked objects are alive.
THEOREM HookedObjectsLive == Spec => []HookedIsAlive
  <1>1. IInv => HookedIsAlive
    <2> SUFFICES ASSUME IInv, NEW a \in hooked PROVE heap[a] # None
      BY DEF HookedIsAlive
    <2>1. a \in Addr
      BY DEF IInv, TypeOK
    <2>2. CASE \E c \in Acc : ppro[c] = a
      BY <2>1, <2>2, AccountsAssumption DEF IInv, ObjectInv, AccInv
    <2>3. CASE \E j \in JobId : jobs[j].phase \in {"quit", "unhook"} /\ jobs[j].obj = a
      BY <2>3, AccountsAssumption DEF IInv, JobInv, Taking, Running, Ended
    <2> QED BY <2>2, <2>3 DEF IInv, HookInv
  <1> QED BY <1>1, AccountsInvariant, PTL

\* A service leads to a live object of its name or to one that a running
\* DeactivationThread will remove it for.
THEOREM ServicesAreAccountedFor == Spec => []ServiceIsAccountedFor
  <1>1. IInv => ServiceIsAccountedFor
    BY DEF IInv, ServiceInv, ServiceIsAccountedFor, Running, Ended, Taking
  <1> QED BY <1>1, AccountsInvariant, PTL

\* A start brings back every account whose name did not clash, under its name
\* and protocol and enabled or not as it was.
THEOREM AccountsSurvive == Spec => RestartKeepsAccounts
  <1>1. ASSUME IInv, Restart, NEW c \in listed, name[c] \notin clashed
        PROVE  Kept(c)
    <2>1. name[c] \in Name
      BY <1>1 DEF IInv, TypeOK, AccInv
    <2>2. /\ base[name[c]] = proto[c]
          /\ proto[c] # None
          /\ <<name[c], "on">> \in saved <=> c \in enabled
          /\ <<name[c], "off">> \in saved <=> c \notin enabled
      BY <1>1 DEF IInv, ListInv
    <2>3. SavedName(name[c])
      BY <2>2 DEF SavedName
    <2>4. PICK d \in listed' : name'[d] = name[c]
      BY <1>1, <2>1, <2>3, LoadFacts
    <2>5. proto'[d] = proto[c]
      BY <1>1, <2>1, <2>2, <2>4, LoadFacts
    <2>6. <<name[c], Flag(d \in enabled')>> \in saved
      <3>1. SavedName(name'[d])
        BY <2>3, <2>4
      <3>2. <<name'[d], Flag(d \in enabled')>> \in saved
        BY <1>1, <3>1, LoadFacts
      <3> QED BY <3>2, <2>4
    <2>7. d \in enabled' <=> c \in enabled
      <3>1. CASE d \in enabled'
        BY <3>1, <2>2, <2>6 DEF Flag
      <3>2. CASE d \notin enabled'
        BY <3>2, <2>2, <2>6 DEF Flag
      <3> QED BY <3>1, <3>2
    <2> QED BY <2>4, <2>5, <2>7 DEF Kept
  <1>2. IInv => ((\A c \in listed : name[c] \notin clashed => Kept(c)) \/ ~Restart)
    BY <1>1
  <1> QED BY <1>2, AccountsInvariant, PTL DEF RestartKeepsAccounts

---------------------------------------------------------------------------
(* What is left behind will be erased *)

\* A DeactivationThread that has still to erase the settings of n.
WillErase(n, j) == Running(j) /\ jobs[j].erase /\ jobs[j].name = n

\* Settings without an account in the list.
Leftover(n) == base[n] # None /\ ~Listed(n)

\* They have a thread that will erase them.
ErasureUnderWay == \A n \in Name : Leftover(n) => \E j \in JobId : WillErase(n, j)

\* A step that keeps the running erasures has to account only for names that
\* lose their account.
LEMMA ErasureKept ==
  ASSUME ErasureUnderWay,
         \A n \in Name, j \in JobId : Leftover(n)' /\ WillErase(n, j) => WillErase(n, j)',
         \A n \in Name : Leftover(n)' => Leftover(n) \/ \E j \in JobId : WillErase(n, j)'
  PROVE  ErasureUnderWay'
  BY DEF ErasureUnderWay

\* A thread that goes on remains one that will erase, until it has.
LEMMA JobStepErasure ==
  ASSUME IInv, ErasureUnderWay, NEW j \in JobId, JobStep(j)
  PROVE  ErasureUnderWay'
  <1>1. PICK ph \in Phase : /\ Advance(j, ph) /\ ph # "unused"
                            /\ ph = "done" => ~jobs[j].erase \/ jobs[j].phase = "erase"
    BY DEF JobStep, Quit, KillObjectEventHooks, Uninit, KillObjectServices, JobErase, Phase
  <1>2. /\ listed' = listed /\ name' = name
        /\ base' = base \/ base' = [base EXCEPT ![jobs[j].name] = None]
        /\ jobs[j].phase = "erase" => base' = [base EXCEPT ![jobs[j].name] = None]
    BY DEF JobStep, Quit, KillObjectEventHooks, Uninit, KillObjectServices, JobErase,
           EraseAccount, accounts
  <1>3. \A n \in Name : /\ Leftover(n)' => Leftover(n)
                        /\ jobs[j].phase = "erase" /\ Leftover(n)' => jobs[j].name # n
    BY <1>2 DEF Leftover, Listed, Named, IInv, TypeOK
  <1>4. /\ jobs'[j].phase = ph
        /\ jobs'[j].name = jobs[j].name
        /\ jobs'[j].erase = jobs[j].erase
        /\ \A k \in JobId : k # j => jobs'[k] = jobs[k]
    BY <1>1, AdvanceFacts DEF IInv
  <1>5. ASSUME NEW n \in Name, NEW k \in JobId, Leftover(n)', WillErase(n, k)
        PROVE  WillErase(n, k)'
    BY <1>1, <1>3, <1>4, <1>5 DEF WillErase, Running, Ended
  <1> QED BY <1>3, <1>5, ErasureKept

\* A thread takes over an object of c and will erase its settings, or not.
LEMMA HandOver ==
  ASSUME IInv, ErasureUnderWay, NEW c \in Acc, NEW j \in JobId, NEW e \in BOOLEAN,
         DeactivateAccount(c, j, e),
         \A n \in Name : Leftover(n)' => Leftover(n) \/ (e /\ n = name[c])
  PROVE  ErasureUnderWay'
  <1>1. /\ jobs[j].phase = "unused" /\ jobs'[j].phase = "quit"
        /\ jobs'[j].name = name[c] /\ jobs'[j].erase = e
        /\ \A k \in JobId : k # j => jobs'[k] = jobs[k]
    BY DeactivateFacts DEF IInv
  <1>2. \A n \in Name, k \in JobId : WillErase(n, k) => WillErase(n, k)'
    BY <1>1 DEF WillErase, Running, Ended
  <1>3. ASSUME NEW n \in Name, e, n = name[c] PROVE WillErase(n, j)'
    BY <1>1, <1>3 DEF WillErase, Running, Ended
  <1> QED BY <1>2, <1>3, ErasureKept

\* Settings that belong to no account in the list always have a running
\* DeactivationThread that is to erase them, however deletions, creations under
\* the same name and restarts are mixed: the part of DeletedIsErased that is not
\* a matter of fairness.
THEOREM LeftoversHaveAnErasure == Spec => []ErasureUnderWay
  <1>1. Init => ErasureUnderWay
    BY DEF Init, ErasureUnderWay, Leftover
  <1>2. IInv /\ ErasureUnderWay /\ [Next]_vars => ErasureUnderWay'
    <2> SUFFICES ASSUME IInv, ErasureUnderWay, [Next]_vars PROVE ErasureUnderWay'
      OBVIOUS
    <2>1. ASSUME UNCHANGED jobs, \A n \in Name : Leftover(n)' => Leftover(n)
          PROVE  ErasureUnderWay'
      BY <2>1, ErasureKept DEF WillErase, Running
    <2>2. ASSUME NEW c \in Acc, NEW n \in Name, Proto_CreateAccount(c, n) PROVE ErasureUnderWay'
      <3>1. /\ listed' = listed \cup {c} /\ name[c] = None
            /\ name' = [name EXCEPT ![c] = n] /\ base' = [base EXCEPT ![n] = "own"]
            /\ UNCHANGED jobs
        BY <2>2 DEF Proto_CreateAccount
      <3>2. /\ name'[c] = n
            /\ \A d \in Acc : d # c => name'[d] = name[d]
            /\ \A m \in Name : m # n => base'[m] = base[m]
        BY <3>1 DEF IInv, TypeOK
      <3>3. \A m \in Name : (Listed(m) \/ m = n) => Listed(m)'
        BY <3>1, <3>2, AccountsAssumption DEF Listed, Named
      <3> QED BY <2>1, <3>1, <3>2, <3>3 DEF Leftover
    <2>3. ASSUME NEW c \in Acc, EnableAccount(c) \/ DisableImpaired(c) PROVE ErasureUnderWay'
      BY <2>1, <2>3 DEF EnableAccount, DisableImpaired, Leftover, Listed, Named
    <2>4. ASSUME NEW c \in Acc, NEW j \in JobId, DisableAccount(c, j) PROVE ErasureUnderWay'
      <3>1. DeactivateAccount(c, j, FALSE) /\ UNCHANGED <<listed, name, base>>
        BY <2>4 DEF DisableAccount
      <3> QED BY <3>1, HandOver DEF Leftover, Listed, Named
    <2>5. ASSUME NEW c \in Acc, NEW v \in Acc, NEW j \in JobId, DeleteActive(c, v, j)
          PROVE  ErasureUnderWay'
      <3>1. DeactivateAccount(c, j, TRUE) /\ base' = base /\ Removed(c, v)
        BY <2>5 DEF DeleteActive
      <3>2. \A n \in Name \ {name[c]} : Listed(n) => Listed(n)'
        BY <3>1, RemovedFacts
      <3> QED BY <3>1, <3>2, HandOver DEF Leftover
    <2>6. ASSUME NEW c \in Acc, NEW v \in Acc, DeleteInactive(c, v) PROVE ErasureUnderWay'
      <3>1. Removed(c, v) /\ base' = [base EXCEPT ![name[c]] = None] /\ UNCHANGED jobs
        BY <2>6 DEF DeleteInactive, EraseAccount
      <3>2. /\ name[c] \in Name
            /\ \A n \in Name \ {name[c]} : Listed(n) => Listed(n)'
        BY <3>1, RemovedFacts
      <3>3. base'[name[c]] = None /\ \A n \in Name : n # name[c] => base'[n] = base[n]
        BY <3>1, <3>2 DEF IInv, TypeOK
      <3> QED BY <2>1, <3>1, <3>2, <3>3 DEF Leftover
    <2>7. CASE \E j \in JobId : JobStep(j)
      BY <2>7, JobStepErasure
    <2>8. CASE Restart
      <3>1. /\ \A n \in Name : SavedName(n) \/ base[n] # None => \E c \in listed' : name'[c] = n
            /\ base' = [n \in Name |-> IF SavedName(n) /\ base[n] = None THEN "module" ELSE base[n]]
            /\ listed' \subseteq Acc
        BY <2>8, LoadFacts DEF Restart, LoadDbAccounts
      <3>2. \A n \in Name : base'[n] # None => Listed(n)'
        BY <3>1 DEF Listed, Named
      <3> QED BY <3>2 DEF ErasureUnderWay, Leftover
    <2>9. CASE UNCHANGED vars
      BY <2>1, <2>9 DEF vars, Leftover, Listed, Named
    <2> QED BY <2>2, <2>3, <2>4, <2>5, <2>6, <2>7, <2>8, <2>9 DEF Next
  <1> QED BY <1>1, <1>2, AccountsInvariant, PTL DEF Spec
=============================================================================
