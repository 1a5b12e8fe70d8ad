------------------------------ MODULE EventLog ------------------------------
(***************************************************************************)
(* What the history promises to an ordinary contact: a log that threads    *)
(* add events to and delete events from, one at a time, and that ends with *)
(* the contact.  Ids are given once, so an event that is gone stays gone.  *)
(* Linking contacts to metacontacts, merging and splitting histories and   *)
(* loading the profile again have no place here: nobody sees them in the   *)
(* log of an ordinary contact.                                             *)
(*                                                                         *)
(* The promise ends when a call outlives its contact (`broken').           *)
(***************************************************************************)
EXTENDS Integers

CONSTANTS Contact,    \* all contacts
          Ordinary,   \* those that are not metacontacts
          Proc,       \* threads
          MaxEvents,  \* bound: events added
          MaxStamp    \* bound: timestamps

VARIABLES
  live,     \* contacts that exist
  log,      \* the events of every ordinary contact, with their timestamps
  last,     \* the last id given to an event
  call,     \* what each thread has asked for
  broken    \* nothing is promised any more

vars == <<live, log, last, call, broken>>

Idle == [op |-> "none"]

NoLog == [c \in Ordinary |-> {}]

Init ==
  /\ live = {}
  /\ log = NoLog
  /\ last = 0
  /\ call = [p \in Proc |-> Idle]
  /\ broken = FALSE

Ask(p) ==
  /\ call[p] = Idle
  /\ \/ \E c \in live : call' = [call EXCEPT ![p] = [op |-> "add", c |-> c]]
     \/ \E e \in 1..MaxEvents : call' = [call EXCEPT ![p] = [op |-> "delete", e |-> e]]
  /\ UNCHANGED <<live, log, last, broken>>

\* A filter has refused the event.
Refuse(p) ==
  /\ call[p].op = "add"
  /\ call' = [call EXCEPT ![p] = Idle]
  /\ UNCHANGED <<live, log, last, broken>>

\* The events of a metacontact are in no ordinary log.
Add(p) ==
  LET c == call[p].c
  IN /\ call[p].op = "add"
     /\ \/ /\ c \in Ordinary /\ c \in live /\ ~broken
           /\ \E t \in 1..MaxStamp :
                /\ \A r \in log[c] : r.ts # t
                /\ log' = [log EXCEPT ![c] = @ \cup {[id |-> last + 1, ts |-> t]}]
        \/ (c \notin Ordinary \/ broken) /\ UNCHANGED log
     /\ last' = last + 1
     /\ call' = [call EXCEPT ![p] = Idle]
     /\ UNCHANGED <<live, broken>>

Delete(p) ==
  /\ call[p].op = "delete"
  /\ log' = [c \in Ordinary |-> {r \in log[c] : r.id # call[p].e}]
  /\ call' = [call EXCEPT ![p] = Idle]
  /\ UNCHANGED <<live, last, broken>>

\* The contact of the call went away before the call was finished.
Break(p) ==
  /\ call[p].op \in {"add", "delete"}
  /\ broken' = TRUE
  /\ log' = NoLog
  /\ last' \in {last, last + 1}
  /\ call' = [call EXCEPT ![p] = Idle]
  /\ UNCHANGED live

Create(c) ==
  /\ c \notin live
  /\ live' = live \cup {c}
  /\ UNCHANGED <<log, last, call, broken>>

\* The log of a contact ends with the contact.
Remove(c) ==
  /\ c \in live
  /\ live' = live \ {c}
  /\ log' = [d \in Ordinary |-> IF d = c THEN {} ELSE log[d]]
  /\ UNCHANGED <<last, call, broken>>

Next ==
  \/ \E p \in Proc : Ask(p) \/ Refuse(p) \/ Add(p) \/ Delete(p) \/ Break(p)
  \/ \E c \in Contact : Create(c) \/ Remove(c)

Spec == Init /\ [][Next]_vars
=============================================================================
