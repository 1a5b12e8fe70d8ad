------------------------------- MODULE Outbox -------------------------------
(***************************************************************************)
(* What the send queue of the message windows promises about a message:    *)
(* it is written once, it is sent, delayed or given up once, and what has  *)
(* become of it never changes again.  A message in one piece is sent when  *)
(* the protocol answers one of its own sends, and enters the history in    *)
(* that very step.  Slots, timers, retries and windows have no place here. *)
(*                                                                         *)
(* A message in several pieces is `loose': it may be stored before it is   *)
(* complete, and any answer for a loose message may count for it.  All     *)
(* messages are loose once a splitting thread has used a slot that was no  *)
(* longer its own.                                                         *)
(***************************************************************************)
EXTENDS Integers

CONSTANTS Msg,    \* messages, numbered as they are written
          Send    \* what a protocol may be asked to send; each has its msg

VARIABLES
  fate,     \* what has become of each message
  stored,   \* how often each message was added to the history
  wire,     \* sends the protocols have not answered
  loose     \* messages of which less is promised

vars == <<fate, stored, wire, loose>>

Queued == {m \in Msg : fate[m] = "queued"}

Init ==
  /\ fate = [m \in Msg |-> "unwritten"]
  /\ stored = [m \in Msg |-> 0]
  /\ wire = {}
  /\ loose = {}

\* The messages in D become f.
Become(D, f) == [m \in Msg |-> IF m \in D THEN f ELSE fate[m]]

\* The next message is sent off, handed to Send later or queued.  It may take
\* the place of one that nobody waits for any more.
Write(m, f) ==
  /\ fate[m] = "unwritten" /\ \A k \in Msg : k < m => fate[k] # "unwritten"
  /\ \/ fate' = [fate EXCEPT ![m] = f]
     \/ \E k \in Queued : fate' = [Become({k}, "recycled") EXCEPT ![m] = f]
  /\ stored' = IF f = "sent" THEN [stored EXCEPT ![m] = @ + 1] ELSE stored
  /\ \/ f # "sent" /\ wire' = wire
     \/ f # "delayed" /\ \E r \in Send : r.msg = m /\ wire' = wire \cup {r}
  /\ loose' \in {loose, loose \cup {m}}

\* The user asks for another attempt.
Resend(m) ==
  /\ m \in Queued
  /\ \E r \in Send : r.msg = m /\ wire' = wire \cup {r}
  /\ UNCHANGED <<fate, stored, loose>>

\* One more piece is sent, or none.
Piece(m) ==
  /\ m \in loose
  /\ \/ wire' = wire
     \/ \E r \in Send : r.msg = m /\ wire' = wire \cup {r}
  /\ loose' \in {loose, Msg}
  /\ UNCHANGED <<fate, stored>>

\* m enters the history, at once complete unless it is in pieces.
Stored(m) ==
  /\ m \in Queued
  /\ stored' = [stored EXCEPT ![m] = @ + 1]
  /\ \/ fate' = Become({m}, "sent")
     \/ m \in loose' /\ UNCHANGED fate

\* The protocol answers: nothing happens, or the message is sent, or the
\* failure of a message without a window is reported and it is forgotten.
Answer(r) ==
  /\ r \in wire
  /\ wire' = wire \ {r}
  /\ UNCHANGED loose
  /\ \/ UNCHANGED <<fate, stored>>
     \/ \E m \in IF r.msg \in loose THEN loose ELSE {r.msg} :
          \/ Stored(m)
          \/ m \in Queued /\ fate' = Become({m}, "discarded") /\ UNCHANGED stored

\* The window answers for the first piece itself.
OwnAnswer ==
  /\ loose # {}
  /\ loose' \in {loose, Msg}
  /\ (\E m \in loose' : Stored(m)) \/ UNCHANGED <<fate, stored>>
  /\ UNCHANGED wire

\* The user gives up one failed message, or a window closes with all of its.
GiveUp(D, f) ==
  /\ D \subseteq Queued
  /\ fate' = Become(D, f)
  /\ UNCHANGED <<stored, wire, loose>>

Next ==
  \/ \E m \in Msg :
       \/ \E f \in {"queued", "delayed", "sent"} : Write(m, f)
       \/ Resend(m)
       \/ Piece(m)
  \/ \E r \in wire : Answer(r)
  \/ OwnAnswer
  \/ \E D \in SUBSET Msg, f \in {"cancelled", "closed"} : GiveUp(D, f)

Spec == Init /\ [][Next]_vars
=============================================================================
