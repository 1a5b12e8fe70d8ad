--------------------------- MODULE SendQueueProofs ---------------------------
(***************************************************************************)
(* Proofs about SendQueue for any contacts, windows, slots, messages and   *)
(* chunks.  Windows of a metacontact and of its subcontacts may be open at *)
(* the same time; what is said about windows then holds until such two     *)
(* have met, and what is said about messages holds throughout.             *)
(***************************************************************************)
EXTENDS SendQueue, TLAPS, FiniteSetTheorems, WellFoundedInduction

---------------------------------------------------------------------------
(* The inductive invariant *)

\* A slot has neither contact, owner nor message or holds a message that is
\* still queued, and an owner is an open window that sends to the job's contact.
JobInv ==
  \A i \in Slot :
    /\ jobs[i].hContact = None =>
         /\ jobs[i].hOwnerWnd = None
         /\ jobs[i].msg = 0
    /\ jobs[i].hContact # None =>
         /\ jobs[i].iStatus # SQ_UNDEFINED
         /\ jobs[i].msg \in 1..lastMsg
         /\ fate[jobs[i].msg] = "queued"
    /\ jobs[i].hOwnerWnd # None =>
         /\ jobs[i].hOwnerWnd \in open
         /\ jobs[i].hContact = ActiveContact[jobs[i].hOwnerWnd]

\* Until a metacontact's window meets its subcontact's: no open window sends to
\* the contact of another, a slot without a contact is free in all respects, and
\* a failed job in the name of an open window is that window's.
WinInv ==
  ~mixed =>
    /\ \A v, w \in open : ActiveContact[v] = w => v = w
    /\ \A i \in Slot :
         /\ jobs[i].hContact = None => jobs[i].iStatus = SQ_UNDEFINED
         /\ jobs[i].hContact \in open /\ jobs[i].iStatus = SQ_ERROR =>
              jobs[i].hOwnerWnd = jobs[i].hContact

\* No message is in two slots.
JobsDiffer ==
  \A i, k \in Slot : jobs[i].msg # 0 /\ jobs[i].msg = jobs[k].msg => i = k

\* A thread that splits a message has a slot and chunks left to send.
SplitInv ==
  \A m \in Msg :
    /\ splitter[m].phase # "none" => splitter[m].slot \in Slot /\ m <= lastMsg
    /\ splitter[m].phase \in {"send", "store"} => splitter[m].chunk < Chunks
    /\ m \in posted => splitter[m].phase # "none"

\* Ids come from the counter, and the id a thread has yet to store is that of
\* a send of its own message.
IdInv ==
  /\ \A i \in Slot : jobs[i].iSendId < nextId
  /\ \A m \in Msg : splitter[m].id < nextId
  /\ \A r \in wire : r.id < nextId
  /\ \A r \in wire, m \in Msg : r.id = splitter[m].id => r.msg = m

\* While no thread used a slot that was not its own any more, free slots have
\* no id and a message in one piece needs one acknowledgement.
UnstrayedInv ==
  ~strayed => \A i \in Slot :
    /\ jobs[i].hContact = None => jobs[i].iSendId = 0
    /\ jobs[i].hContact # None /\ Unsplit(jobs[i].msg) => jobs[i].iAcksNeeded = 1

\* Messages that have not been written are not in the history.
UnwrittenInv == \A m \in Msg : m > lastMsg => stored[m] = 0 /\ fate[m] = "unwritten"

SafeInv ==
  /\ TimerOnOwnJob
  /\ ErrorNamesOwnFailure
  /\ FailureShown

HistInv == LateAckFindsOwnJob /\ StoredWhenSent

IInv ==
  /\ TypeOK
  /\ JobInv
  /\ JobsDiffer
  /\ SplitInv
  /\ IdInv
  /\ UnstrayedInv
  /\ UnwrittenInv
  /\ WinInv
  /\ SafeInv
  /\ HistInv

---------------------------------------------------------------------------
(* Facts about the helpers *)

\* A set of natural numbers has a smallest element.
LEMMA Smallest ==
  ASSUME NEW T, T \subseteq Nat, T # {}
  PROVE  \E i \in T : \A k \in T : i <= k
  <1> DEFINE R == OpToRel(<, Nat)
  <1>1. \E x \in T : \A y \in T : ~ (<<y, x>> \in R)
    BY NatLessThanWellFounded, WFMin
  <1>2. \A x, y \in Nat : y < x => <<y, x>> \in R
    BY DEF OpToRel
  <1> HIDE DEF R
  <1>3. PICK i \in T : \A y \in T : ~ (<<y, i>> \in R)
    BY <1>1
  <1>4. \A k \in T : ~ (k < i)
    BY <1>2, <1>3
  <1> QED BY <1>4

\* findNextFailed returns a failed job of the window's contact, or 0 if there
\* is none.
LEMMA NextFailedFacts ==
  ASSUME NEW js, NEW w
  PROVE  /\ findNextFailed(js, w) \in 0..NR_SENDJOBS
         /\ findNextFailed(js, w) # 0 =>
              /\ findNextFailed(js, w) \in Slot
              /\ js[findNextFailed(js, w)].hContact = w
              /\ js[findNextFailed(js, w)].iStatus = SQ_ERROR
         /\ findNextFailed(js, w) = 0 =>
              \A i \in Slot : ~(js[i].hContact = w /\ js[i].iStatus = SQ_ERROR)
  <1> USE SendQueueAssumption
  <1>1. CASE Failed(js, w) = {}
    BY <1>1 DEF findNextFailed, Failed
  <1>2. CASE Failed(js, w) # {}
    <2>1. Failed(js, w) \subseteq Nat
      BY DEF Failed, Slot
    <2>2. \E i \in Failed(js, w) : \A k \in Failed(js, w) : i <= k
      BY <1>2, <2>1, Smallest
    <2>3. findNextFailed(js, w) \in Failed(js, w)
      BY <1>2, <2>2 DEF findNextFailed
    <2> QED BY <2>3 DEF Failed, Slot
  <1> QED BY <1>1, <1>2

\* The slot addTo takes has no owner, so no window, timer or error knows it.
LEMMA FoundSlotFacts ==
  ASSUME ~QueueFull
  PROVE  FoundSlot \in Slot /\ (Used(FoundSlot) => jobs[FoundSlot].hOwnerWnd = None)
  <1> USE SendQueueAssumption
  <1>1. Takeable # {} /\ Takeable \subseteq Nat
    BY DEF QueueFull, Takeable, Slot
  <1>2. \E i \in Takeable : \A k \in Takeable : i <= k
    BY <1>1, Smallest
  <1>3. FoundSlot \in Takeable
    BY <1>2 DEF FoundSlot
  <1> QED BY <1>3 DEF Takeable, Orphaned

\* What a cleared slot holds.
LEMMA EmptyFacts ==
  /\ Empty \in Job
  /\ Empty.iStatus = SQ_UNDEFINED /\ Empty.hContact = None /\ Empty.hOwnerWnd = None
  /\ Empty.iSendId = 0 /\ Empty.msg = 0
  BY SendQueueAssumption DEF Empty, Job, SQ_UNDEFINED, SQ_INPROGRESS, SQ_ERROR

\* No timer and no error bar knows a slot without an owner.
LEMMA Ownerless ==
  ASSUME IInv, ~mixed, NEW i \in Slot, jobs[i].hOwnerWnd = None
  PROVE  (\A t \in timers : t[2] # i) /\ (\A v \in Window : curError[v] # i)
  <1> USE SendQueueAssumption
  <1>1. \A t \in timers : t[2] # i
    BY DEF IInv, TypeOK, SafeInv, TimerOnOwnJob
  <1>2. ASSUME NEW v \in Window, curError[v] = i PROVE FALSE
    <2>1. i # 0 /\ None \notin Window
      BY DEF Slot
    <2> QED BY <1>2, <2>1 DEF IInv, SafeInv, ErrorNamesOwnFailure
  <1> QED BY <1>1, <1>2

\* The errors that are shown once window w has looked for the next failed job.
LEMMA NextShown ==
  ASSUME TypeOK, JobInv', WinInv', ~mixed', NEW w \in Window, w \in open', jobs' \in [Slot -> Job],
         NEW e \in 0..NR_SENDJOBS,
         e # 0 => jobs'[e].hOwnerWnd = w /\ jobs'[e].iStatus = SQ_ERROR,
         curError' = [curError EXCEPT ![w] = ShowNext(jobs', w, e)]
  PROVE  /\ curError' \in [Window -> 0..NR_SENDJOBS]
         /\ \A v \in Window : v # w => curError'[v] = curError[v]
         /\ curError'[w] # 0 => /\ jobs'[curError'[w]].hOwnerWnd = w
                                /\ jobs'[curError'[w]].iStatus = SQ_ERROR
         /\ \A i \in Slot : /\ ActiveContact[w] = w
                            /\ jobs'[i].hOwnerWnd = w
                            /\ jobs'[i].iStatus = SQ_ERROR
                            => curError'[w] # 0
  <1> USE SendQueueAssumption
  <1> DEFINE n == findNextFailed(jobs', w)
  <1>1. n \in 0..NR_SENDJOBS /\ (n # 0 => n \in Slot /\ jobs'[n].hContact = w /\ jobs'[n].iStatus = SQ_ERROR)
    BY NextFailedFacts
  <1>2. n = 0 => \A i \in Slot : ~(jobs'[i].hContact = w /\ jobs'[i].iStatus = SQ_ERROR)
    BY NextFailedFacts
  <1>3. ShowNext(jobs', w, e) = IF e # 0 THEN e ELSE n
    BY DEF ShowNext
  <1> HIDE DEF n
  <1>4. n # 0 => jobs'[n].hOwnerWnd = w
    BY <1>1 DEF WinInv
  <1>5. \A i \in Slot : jobs'[i].hOwnerWnd = w => jobs'[i].hContact = ActiveContact[w]
    BY DEF JobInv
  <1>6. /\ curError' \in [Window -> 0..NR_SENDJOBS]
        /\ \A v \in Window : v # w => curError'[v] = curError[v]
        /\ curError'[w] = IF e # 0 THEN e ELSE n
    BY <1>1, <1>3 DEF TypeOK
  <1> QED BY <1>1, <1>2, <1>4, <1>5, <1>6

\* Changed fields leave a job a job.
LEMMA JobUpdates ==
  ASSUME NEW J \in Job
  PROVE  /\ \A st \in {SQ_UNDEFINED, SQ_INPROGRESS, SQ_ERROR} : [J EXCEPT !.iStatus = st] \in Job
         /\ \A id \in 0..MaxId : [J EXCEPT !.iStatus = SQ_INPROGRESS, !.iSendId = id] \in Job
         /\ \A id \in 0..MaxId : [J EXCEPT !.iSendId = id] \in Job
         /\ \A n \in Int : [J EXCEPT !.iAcksNeeded = n] \in Job
         /\ \A id \in 0..MaxId, n \in Int : [J EXCEPT !.iSendId = id, !.iAcksNeeded = n] \in Job
         /\ [J EXCEPT !.hOwnerWnd = None] \in Job
         /\ [J EXCEPT !.old = TRUE] \in Job
  BY DEF Job

---------------------------------------------------------------------------
(* Initial states *)

\* The invariant holds when the queue is made.
LEMMA InitIInv == Init => IInv
  <1> SUFFICES ASSUME Init PROVE IInv
    OBVIOUS
  <1> USE SendQueueAssumption, EmptyFacts DEF Init, Slot, Msg
  <1>1. TypeOK
    <2>1. [phase |-> "none", slot |-> 0, chunk |-> 0, id |-> 0] \in Splitter
      BY DEF Splitter
    <2>2. jobs \in [Slot -> Job]
      BY DEF Slot
    <2>3. fate \in [Msg -> Fates] /\ stored \in [Msg -> Nat]
      BY DEF Fates
    <2>4. splitter \in [Msg -> Splitter]
      BY <2>1 DEF Msg
    <2>5. /\ currentIndex \in Int /\ open \subseteq Window /\ timers \subseteq Window \X Slot
          /\ posted \subseteq Msg /\ wire \subseteq Send
      OBVIOUS
    <2>8. strayed \in BOOLEAN /\ mixed \in BOOLEAN
      OBVIOUS
    <2>7. nextId \in 1..MaxId + 1 /\ lastMsg \in 0..MaxMsg
      OBVIOUS
    <2>6. openJobs \in [Window -> Int] /\ curError \in [Window -> 0..NR_SENDJOBS]
      OBVIOUS
    <2> QED BY <2>2, <2>3, <2>4, <2>5, <2>6, <2>7, <2>8 DEF TypeOK
  <1>2. JobInv /\ JobsDiffer /\ WinInv
    BY DEF JobInv, JobsDiffer, WinInv, SQ_UNDEFINED, SQ_ERROR
  <1>3. SplitInv /\ IdInv
    BY DEF SplitInv, IdInv
  <1>4. UnstrayedInv /\ UnwrittenInv
    BY DEF UnstrayedInv, UnwrittenInv
  <1>5. SafeInv
    BY DEF SafeInv, TimerOnOwnJob, ErrorNamesOwnFailure, FailureShown, SQ_UNDEFINED, SQ_ERROR
  <1>6. HistInv
    BY DEF HistInv, LateAckFindsOwnJob, StoredWhenSent
  <1> QED BY <1>1, <1>2, <1>3, <1>4, <1>5, <1>6 DEF IInv

---------------------------------------------------------------------------
(* Adding a message *)

\* What all modes have in common.
LEMMA WrittenFacts ==
  ASSUME IInv, NEW w \in Window, NEW i \in Slot, NEW m \in Msg, NEW f \in Fates,
         Written(w, i, m, f)
  PROVE  /\ jobs[i].hOwnerWnd = None
         /\ m = lastMsg + 1 /\ lastMsg' = m /\ lastMsg' \in 0..MaxMsg
         /\ fate' \in [Msg -> Fates]
         /\ fate'[m] = f
         /\ \A k \in Msg : k # m => fate'[k] = fate[k] \/ (k < m /\ fate[k] = "queued" /\ fate'[k] = "recycled")
         /\ \A k \in Slot : k # i /\ jobs[k].msg # 0 => fate'[jobs[k].msg] = fate[jobs[k].msg]
         /\ \A k \in Slot : jobs[k].msg < m
         /\ ~mixed => (\A t \in timers : t[2] # i) /\ (\A v \in Window : curError[v] # i)
  <1> USE SendQueueAssumption
  <1>1. jobs[i].hOwnerWnd = None
    BY FoundSlotFacts DEF Written, IInv, JobInv, Used
  <1>2. m = lastMsg + 1 /\ lastMsg' = m /\ lastMsg' \in 0..MaxMsg
    BY DEF Written, Msg
  <1>3. \A k \in Slot : jobs[k].msg \in 0..lastMsg
    BY DEF IInv, TypeOK, JobInv, Job
  <1>4. \A k \in Slot : jobs[k].msg < m
    BY <1>2, <1>3 DEF IInv, TypeOK
  <1>5. Drop(i, "recycled") \in [Msg -> Fates]
    BY DEF Drop, Fates, IInv, TypeOK
  <1>6. fate' = [Drop(i, "recycled") EXCEPT ![m] = f]
    BY DEF Written
  <1>7. fate' \in [Msg -> Fates] /\ fate'[m] = f
    BY <1>5, <1>6
  <1>8. \A k \in Msg : k # m => fate'[k] = Drop(i, "recycled")[k]
    BY <1>5, <1>6
  <1>9. \A k \in Msg : Drop(i, "recycled")[k] = fate[k]
                       \/ (k = jobs[i].msg /\ Drop(i, "recycled")[k] = "recycled")
    BY DEF Drop, IInv, TypeOK
  <1>10. \A k \in Slot : k # i /\ jobs[k].msg # 0 => fate'[jobs[k].msg] = fate[jobs[k].msg]
    <2> SUFFICES ASSUME NEW k \in Slot, k # i, jobs[k].msg # 0
                 PROVE  fate'[jobs[k].msg] = fate[jobs[k].msg]
      OBVIOUS
    <2>1. jobs[k].msg # jobs[i].msg
      BY DEF IInv, JobsDiffer
    <2>2. jobs[k].msg \in Msg /\ jobs[k].msg # m
      BY <1>2, <1>3, <1>4 DEF Msg, IInv, TypeOK
    <2> QED BY <2>1, <2>2, <1>8, <1>9
  <1>11. ~mixed => (\A t \in timers : t[2] # i) /\ (\A v \in Window : curError[v] # i)
    BY <1>1, Ownerless
  <1>12. \A k \in Msg : k # m => fate'[k] = fate[k]
                                \/ (k < m /\ fate[k] = "queued" /\ fate'[k] = "recycled")
    <2> SUFFICES ASSUME NEW k \in Msg, k # m, fate'[k] # fate[k]
                 PROVE  k < m /\ fate[k] = "queued" /\ fate'[k] = "recycled"
      OBVIOUS
    <2>1. k = jobs[i].msg /\ fate'[k] = "recycled"
      BY <1>8, <1>9
    <2>2. jobs[i].msg # 0
      BY <2>1 DEF Msg
    <2> QED BY <2>1, <2>2, <1>4 DEF IInv, JobInv
  <1> QED BY <1>1, <1>2, <1>4, <1>7, <1>10, <1>11, <1>12

\* One lemma per action follows: each keeps the invariant.
LEMMA SendUnsplittedStep ==
  ASSUME IInv, NEW w \in Window, NEW i \in Slot, NEW m \in Msg, SendUnsplitted(w, i, m)
  PROVE  IInv'
  <1> DEFINE J == [iStatus |-> SQ_INPROGRESS, hContact |-> ActiveContact[w], hOwnerWnd |-> w,
        iSendId |-> nextId, iAcksNeeded |-> 1, chunked |-> FALSE, msg |-> m, old |-> FALSE]
  <1> DEFINE r0 == [id |-> nextId, msg |-> m, to |-> ActiveContact[w]]
  <1> USE SendQueueAssumption
  <1>1. /\ Written(w, i, m, "queued") /\ "queued" \in Fates
        /\ w \in open
        /\ nextId \in 1..MaxId
        /\ jobs' = [jobs EXCEPT ![i] = J]
        /\ wire' = wire \cup {r0}
        /\ nextId' = nextId + 1
        /\ timers' = timers \cup {<<w, i>>}
        /\ openJobs' = [openJobs EXCEPT ![w] = @ + 1]
        /\ currentIndex' = currentIndex + 1
        /\ UNCHANGED <<open, curError, splitter, posted, stored, strayed, mixed>>
    BY DEF SendUnsplitted, Written, SetTimer, Fates, IInv, TypeOK
  <1>2. /\ jobs[i].hOwnerWnd = None
        /\ m = lastMsg + 1 /\ lastMsg' = m /\ lastMsg' \in 0..MaxMsg
        /\ fate' \in [Msg -> Fates]
        /\ fate'[m] = "queued"
        /\ \A k \in Msg : k # m => fate'[k] = fate[k] \/ (k < m /\ fate[k] = "queued" /\ fate'[k] = "recycled")
        /\ \A k \in Slot : k # i /\ jobs[k].msg # 0 => fate'[jobs[k].msg] = fate[jobs[k].msg]
        /\ \A k \in Slot : jobs[k].msg < m
        /\ ~mixed => (\A t \in timers : t[2] # i) /\ (\A v \in Window : curError[v] # i)
    BY <1>1, WrittenFacts
  <1>3. J \in Job /\ r0 \in Send
    BY <1>1 DEF Job, Send, SQ_INPROGRESS, SQ_ERROR, SQ_UNDEFINED, Msg
  <1>4. /\ J.iStatus = SQ_INPROGRESS /\ J.hContact = ActiveContact[w] /\ J.hOwnerWnd = w
        /\ J.iSendId = nextId /\ J.iAcksNeeded = 1 /\ J.msg = m
        /\ r0.id = nextId /\ r0.msg = m /\ r0.to = ActiveContact[w]
    OBVIOUS
  <1> HIDE DEF J, r0
  <1>5. /\ jobs' \in [Slot -> Job] /\ jobs'[i] = J
        /\ \A k \in Slot : k # i => jobs'[k] = jobs[k]
    BY <1>1, <1>3 DEF IInv, TypeOK
  <1>6. TypeOK'
    BY <1>1, <1>2, <1>3, <1>5 DEF IInv, TypeOK
  <1>7. JobInv'
    BY <1>1, <1>2, <1>4, <1>5 DEF IInv, TypeOK, JobInv, SQ_INPROGRESS, SQ_ERROR, SQ_UNDEFINED
  <1>8. JobsDiffer' /\ WinInv'
    <2>1. WinInv'
      BY <1>1, <1>4, <1>5 DEF IInv, TypeOK, JobInv, WinInv, SQ_INPROGRESS, SQ_ERROR, SQ_UNDEFINED
    <2> QED BY <2>1, <1>2, <1>4, <1>5 DEF IInv, JobsDiffer
  <1>9. SplitInv'
    BY <1>1, <1>2 DEF IInv, TypeOK, SplitInv, Msg
  <1>10. IdInv'
    BY <1>1, <1>4, <1>5 DEF IInv, TypeOK, IdInv, Job, Splitter, Send
  <1>11. UnstrayedInv'
    BY <1>1, <1>4, <1>5 DEF IInv, TypeOK, UnstrayedInv, Unsplit
  <1>12. UnwrittenInv'
    BY <1>1, <1>2 DEF IInv, TypeOK, JobInv, UnwrittenInv, Msg
  <1>13. SafeInv'
    BY <1>1, <1>2, <1>4, <1>5 DEF IInv, TypeOK, SafeInv, TimerOnOwnJob,
      ErrorNamesOwnFailure, FailureShown, SQ_INPROGRESS, SQ_ERROR, Slot
  <1>14. LateAckFindsOwnJob'
    BY <1>1, <1>4, <1>5 DEF IInv, TypeOK, HistInv, LateAckFindsOwnJob, IdInv, Send, Job
  <1>15. StoredWhenSent'
    BY <1>1, <1>2 DEF IInv, TypeOK, HistInv, StoredWhenSent, UnwrittenInv, JobInv, Unsplit, Msg
  <1> QED BY <1>6, <1>7, <1>8, <1>9, <1>10, <1>11, <1>12, <1>13, <1>14, <1>15 DEF IInv, HistInv

\* SMODE_NOACK leaves the slot free and the message in the history.
LEMMA SendNoAckStep ==
  ASSUME IInv, NEW w \in Window, NEW i \in Slot, NEW m \in Msg, SendNoAck(w, i, m)
  PROVE  IInv'
  <1> DEFINE r0 == [id |-> nextId, msg |-> m, to |-> ActiveContact[w]]
  <1> USE SendQueueAssumption
  <1>1. /\ Written(w, i, m, "sent") /\ "sent" \in Fates
        /\ w \in open
        /\ nextId \in 1..MaxId
        /\ jobs' = [jobs EXCEPT ![i] = Empty]
        /\ wire' = wire \cup {r0}
        /\ nextId' = nextId + 1
        /\ stored' = [stored EXCEPT ![m] = @ + 1]
        /\ curError' = [curError EXCEPT ![w] = ShowNext(jobs', w, @)]
        /\ UNCHANGED <<currentIndex, open, openJobs, timers, splitter, posted, strayed, mixed>>
    BY DEF SendNoAck, Written, clearJob, Fates, IInv, TypeOK
  <1>2. /\ jobs[i].hOwnerWnd = None
        /\ m = lastMsg + 1 /\ lastMsg' = m /\ lastMsg' \in 0..MaxMsg
        /\ fate' \in [Msg -> Fates]
        /\ fate'[m] = "sent"
        /\ \A k \in Msg : k # m => fate'[k] = fate[k] \/ (k < m /\ fate[k] = "queued" /\ fate'[k] = "recycled")
        /\ \A k \in Slot : k # i /\ jobs[k].msg # 0 => fate'[jobs[k].msg] = fate[jobs[k].msg]
        /\ \A k \in Slot : jobs[k].msg < m
        /\ ~mixed => (\A t \in timers : t[2] # i) /\ (\A v \in Window : curError[v] # i)
    BY <1>1, WrittenFacts
  <1>3. r0 \in Send /\ r0.id = nextId /\ r0.msg = m
    BY <1>1 DEF Send
  <1> HIDE DEF r0
  <1>5. /\ jobs' \in [Slot -> Job] /\ jobs'[i] = Empty
        /\ \A k \in Slot : k # i => jobs'[k] = jobs[k]
    BY <1>1, EmptyFacts DEF IInv, TypeOK
  <1>6. /\ curError' \in [Window -> 0..NR_SENDJOBS]
        /\ \A v \in Window : v # w => curError'[v] = curError[v]
        /\ curError'[w] = IF curError[w] # 0 THEN curError[w] ELSE findNextFailed(jobs', w)
    BY <1>1, NextFailedFacts DEF IInv, TypeOK, ShowNext
  <1>7. stored' \in [Msg -> Nat] /\ stored'[m] = 1 /\ \A k \in Msg : k # m => stored'[k] = stored[k]
    BY <1>1, <1>2 DEF IInv, TypeOK, UnwrittenInv
  <1>8. TypeOK'
    BY <1>1, <1>2, <1>3, <1>5, <1>6, <1>7 DEF IInv, TypeOK
  <1>9. JobInv'
    BY <1>1, <1>2, <1>5, EmptyFacts DEF IInv, TypeOK, JobInv, SQ_ERROR, SQ_UNDEFINED
  <1>10. JobsDiffer' /\ WinInv'
    <2>1. WinInv'
      BY <1>1, <1>5, EmptyFacts DEF IInv, TypeOK, JobInv, WinInv, SQ_INPROGRESS, SQ_ERROR, SQ_UNDEFINED
    <2> QED BY <2>1, <1>2, <1>5, EmptyFacts DEF IInv, JobsDiffer
  <1>11. SplitInv'
    BY <1>1, <1>2 DEF IInv, TypeOK, SplitInv, Msg
  <1>12. IdInv'
    BY <1>1, <1>3, <1>5, EmptyFacts DEF IInv, TypeOK, IdInv, Job, Splitter, Send
  <1>13. UnstrayedInv'
    BY <1>1, <1>5, EmptyFacts DEF IInv, TypeOK, UnstrayedInv, Unsplit
  <1>14. UnwrittenInv'
    BY <1>1, <1>2, <1>7 DEF IInv, TypeOK, UnwrittenInv, Msg
  <1>15. TimerOnOwnJob'
    BY <1>1, <1>2, <1>5 DEF IInv, TypeOK, SafeInv, TimerOnOwnJob
  <1>16. ErrorNamesOwnFailure' /\ FailureShown'
    <2> SUFFICES ASSUME ~mixed
                 PROVE  ErrorNamesOwnFailure' /\ FailureShown'
      BY <1>1 DEF ErrorNamesOwnFailure, FailureShown
    <2>1. /\ \A v \in Window : curError[v] # 0 =>
               /\ v \in open
               /\ jobs'[curError[v]].hOwnerWnd = v
               /\ jobs'[curError[v]].iStatus = SQ_ERROR
      BY <1>2, <1>5 DEF IInv, TypeOK, SafeInv, ErrorNamesOwnFailure, Slot
    <2>2. curError[w] \in 0..NR_SENDJOBS /\ w \in open'
      BY <1>1 DEF IInv, TypeOK
    <2>3. /\ curError'[w] # 0 => /\ jobs'[curError'[w]].hOwnerWnd = w
                                 /\ jobs'[curError'[w]].iStatus = SQ_ERROR
          /\ \A k \in Slot : /\ ActiveContact[w] = w
                             /\ jobs'[k].hOwnerWnd = w
                             /\ jobs'[k].iStatus = SQ_ERROR
                             => curError'[w] # 0
      BY <1>1, <1>5, <1>9, <1>10, <2>1, <2>2, NextShown DEF IInv
    <2>4. ErrorNamesOwnFailure'
      BY <1>1, <1>6, <2>1, <2>3 DEF ErrorNamesOwnFailure
    <2>5. FailureShown'
      BY <1>1, <1>5, <1>6, <2>3, EmptyFacts DEF IInv, TypeOK, SafeInv, FailureShown
    <2> QED BY <2>4, <2>5
  <1>17. LateAckFindsOwnJob'
    BY <1>1, <1>3, <1>5, EmptyFacts DEF IInv, TypeOK, HistInv, LateAckFindsOwnJob, IdInv, Send, Job
  <1>18. StoredWhenSent'
    BY <1>1, <1>2, <1>7 DEF IInv, TypeOK, HistInv, StoredWhenSent, Unsplit, Msg
  <1> QED BY <1>8, <1>9, <1>10, <1>11, <1>12, <1>13, <1>14, <1>15, <1>16, <1>17, <1>18
       DEF IInv, SafeInv, HistInv

\* Handing a message to Send later frees its slot at once.
LEMMA SendDelayedStep ==
  ASSUME IInv, NEW w \in Window, NEW i \in Slot, NEW m \in Msg, SendDelayed(w, i, m)
  PROVE  IInv'
  <1> USE SendQueueAssumption
  <1>1. /\ Written(w, i, m, "delayed") /\ "delayed" \in Fates
        /\ jobs' = [jobs EXCEPT ![i] = Empty]
        /\ UNCHANGED <<currentIndex, open, openJobs, curError, timers, splitter,
                       posted, wire, nextId, stored, strayed, mixed>>
    BY DEF SendDelayed, clearJob, Fates
  <1>2. /\ jobs[i].hOwnerWnd = None
        /\ m = lastMsg + 1 /\ lastMsg' = m /\ lastMsg' \in 0..MaxMsg
        /\ fate' \in [Msg -> Fates]
        /\ fate'[m] = "delayed"
        /\ \A k \in Msg : k # m => fate'[k] = fate[k] \/ (k < m /\ fate[k] = "queued" /\ fate'[k] = "recycled")
        /\ \A k \in Slot : k # i /\ jobs[k].msg # 0 => fate'[jobs[k].msg] = fate[jobs[k].msg]
        /\ \A k \in Slot : jobs[k].msg < m
        /\ ~mixed => (\A t \in timers : t[2] # i) /\ (\A v \in Window : curError[v] # i)
    BY <1>1, WrittenFacts
  <1>5. /\ jobs' \in [Slot -> Job] /\ jobs'[i] = Empty
        /\ \A k \in Slot : k # i => jobs'[k] = jobs[k]
    BY <1>1, EmptyFacts DEF IInv, TypeOK
  <1>8. TypeOK'
    BY <1>1, <1>2, <1>5 DEF IInv, TypeOK
  <1>9. JobInv'
    BY <1>1, <1>2, <1>5, EmptyFacts DEF IInv, TypeOK, JobInv, SQ_ERROR, SQ_UNDEFINED
  <1>10. JobsDiffer' /\ WinInv'
    <2>1. WinInv'
      BY <1>1, <1>5, EmptyFacts DEF IInv, TypeOK, JobInv, WinInv, SQ_INPROGRESS, SQ_ERROR, SQ_UNDEFINED
    <2> QED BY <2>1, <1>2, <1>5, EmptyFacts DEF IInv, JobsDiffer
  <1>11. SplitInv'
    BY <1>1, <1>2 DEF IInv, TypeOK, SplitInv, Msg
  <1>12. IdInv'
    BY <1>1, <1>5, EmptyFacts DEF IInv, TypeOK, IdInv
  <1>13. UnstrayedInv'
    BY <1>1, <1>5, EmptyFacts DEF IInv, TypeOK, UnstrayedInv, Unsplit
  <1>14. UnwrittenInv'
    BY <1>1, <1>2 DEF IInv, TypeOK, UnwrittenInv, Msg
  <1>15. SafeInv'
    BY <1>1, <1>2, <1>5, EmptyFacts DEF IInv, TypeOK, SafeInv, TimerOnOwnJob,
      ErrorNamesOwnFailure, FailureShown, Slot
  <1>17. LateAckFindsOwnJob'
    BY <1>1, <1>5, EmptyFacts DEF IInv, TypeOK, HistInv, LateAckFindsOwnJob, Send
  <1>18. StoredWhenSent'
    BY <1>1, <1>2 DEF IInv, TypeOK, HistInv, StoredWhenSent, UnwrittenInv, Unsplit, Msg
  <1> QED BY <1>8, <1>9, <1>10, <1>11, <1>12, <1>13, <1>14, <1>15, <1>17, <1>18
       DEF IInv, HistInv

\* The thread of a long message starts with the slot of its job.
LEMMA SendSplitStep ==
  ASSUME IInv, NEW w \in Window, NEW i \in Slot, NEW m \in Msg, SendSplit(w, i, m)
  PROVE  IInv'
  <1> DEFINE id0 == IF Used(i) THEN 0 ELSE jobs[i].iSendId
  <1> DEFINE J == [iStatus |-> SQ_INPROGRESS, hContact |-> ActiveContact[w], hOwnerWnd |-> w,
        iSendId |-> id0, iAcksNeeded |-> 1, chunked |-> TRUE, msg |-> m, old |-> FALSE]
  <1> DEFINE S == [phase |-> "send", slot |-> i, chunk |-> 0, id |-> 0]
  <1> USE SendQueueAssumption
  <1>1. /\ Written(w, i, m, "queued") /\ "queued" \in Fates
        /\ w \in open
        /\ jobs' = [jobs EXCEPT ![i] = J]
        /\ splitter' = [splitter EXCEPT ![m] = S]
        /\ openJobs' = [openJobs EXCEPT ![w] = @ + 1]
        /\ currentIndex' = currentIndex + 1
        /\ UNCHANGED <<open, curError, timers, posted, wire, nextId, stored, strayed, mixed>>
    BY DEF SendSplit, Written, Fates
  <1>2. /\ jobs[i].hOwnerWnd = None
        /\ m = lastMsg + 1 /\ lastMsg' = m /\ lastMsg' \in 0..MaxMsg
        /\ fate' \in [Msg -> Fates]
        /\ fate'[m] = "queued"
        /\ \A k \in Msg : k # m => fate'[k] = fate[k] \/ (k < m /\ fate[k] = "queued" /\ fate'[k] = "recycled")
        /\ \A k \in Slot : k # i /\ jobs[k].msg # 0 => fate'[jobs[k].msg] = fate[jobs[k].msg]
        /\ \A k \in Slot : jobs[k].msg < m
        /\ ~mixed => (\A t \in timers : t[2] # i) /\ (\A v \in Window : curError[v] # i)
    BY <1>1, WrittenFacts
  <1>3. id0 \in 0..MaxId /\ id0 < nextId /\ (~strayed => id0 = 0)
    BY DEF IInv, TypeOK, Job, IdInv, UnstrayedInv, Used
  <1> HIDE DEF id0
  <1>4. /\ J \in Job
        /\ J.iStatus = SQ_INPROGRESS /\ J.hContact = ActiveContact[w] /\ J.hOwnerWnd = w
        /\ J.iSendId = id0 /\ J.iAcksNeeded = 1 /\ J.msg = m
    BY <1>3 DEF Job, SQ_INPROGRESS, SQ_ERROR, SQ_UNDEFINED, Msg
  <1>5. S \in Splitter /\ S.phase = "send" /\ S.slot = i /\ S.chunk = 0 /\ S.id = 0
    BY DEF Splitter, Slot
  <1> HIDE DEF J, S
  <1>6. /\ jobs' \in [Slot -> Job] /\ jobs'[i] = J
        /\ \A k \in Slot : k # i => jobs'[k] = jobs[k]
    BY <1>1, <1>4 DEF IInv, TypeOK
  <1>7. /\ splitter' \in [Msg -> Splitter] /\ splitter'[m] = S
        /\ \A k \in Msg : k # m => splitter'[k] = splitter[k]
    BY <1>1, <1>5 DEF IInv, TypeOK
  <1>8. TypeOK'
    BY <1>1, <1>2, <1>6, <1>7 DEF IInv, TypeOK
  <1>9. JobInv'
    BY <1>1, <1>2, <1>4, <1>6 DEF IInv, TypeOK, JobInv, SQ_INPROGRESS, SQ_ERROR, SQ_UNDEFINED
  <1>10. JobsDiffer' /\ WinInv'
    <2>1. WinInv'
      BY <1>1, <1>4, <1>6 DEF IInv, TypeOK, JobInv, WinInv, SQ_INPROGRESS, SQ_ERROR, SQ_UNDEFINED
    <2> QED BY <2>1, <1>2, <1>4, <1>6 DEF IInv, JobsDiffer
  <1>11. SplitInv'
    BY <1>1, <1>2, <1>5, <1>7 DEF IInv, TypeOK, SplitInv, Msg
  <1>12. IdInv'
    BY <1>1, <1>3, <1>4, <1>5, <1>6, <1>7 DEF IInv, TypeOK, IdInv, Send
  <1>13. UnstrayedInv'
    <2> SUFFICES ASSUME ~strayed', NEW k \in Slot
                 PROVE  /\ jobs'[k].hContact = None => jobs'[k].iSendId = 0
                        /\ jobs'[k].hContact # None /\ Unsplit(jobs[k].msg)' => jobs'[k].iAcksNeeded = 1
      BY DEF UnstrayedInv
    <2>1. CASE k = i
      BY <2>1, <1>3, <1>4, <1>6
    <2>2. CASE k # i
      <3>1. jobs'[k] = jobs[k] /\ jobs[k].msg # m
        BY <2>2, <1>2, <1>6 DEF IInv, TypeOK, Job, Msg
      <3>2. jobs[k].hContact # None => splitter'[jobs[k].msg] = splitter[jobs[k].msg]
        BY <3>1, <1>7 DEF IInv, TypeOK, JobInv, Msg
      <3> QED BY <3>1, <3>2, <1>1 DEF IInv, UnstrayedInv, Unsplit
    <2> QED BY <2>1, <2>2
  <1>14. UnwrittenInv'
    BY <1>1, <1>2 DEF IInv, TypeOK, UnwrittenInv, Msg
  <1>15. SafeInv'
    BY <1>1, <1>2, <1>4, <1>6 DEF IInv, TypeOK, SafeInv, TimerOnOwnJob,
      ErrorNamesOwnFailure, FailureShown, Slot, SQ_INPROGRESS, SQ_ERROR
  <1>17. LateAckFindsOwnJob'
    BY <1>1, <1>3, <1>4, <1>6 DEF IInv, TypeOK, HistInv, LateAckFindsOwnJob, Send
  <1>18. StoredWhenSent'
    BY <1>1, <1>2, <1>5, <1>7 DEF IInv, TypeOK, HistInv, StoredWhenSent, Unsplit, Msg
  <1> QED BY <1>8, <1>9, <1>10, <1>11, <1>12, <1>13, <1>14, <1>15, <1>17, <1>18
       DEF IInv, HistInv

---------------------------------------------------------------------------
(* Acknowledgements *)

\* What both ways of acknowledging leave alone, or may only take away from.
AckFrame ==
  /\ wire' \subseteq wire
  /\ posted' \subseteq posted
  /\ strayed' \in BOOLEAN /\ (strayed => strayed')
  /\ UNCHANGED <<open, splitter, nextId, lastMsg, mixed>>

\* A cleared slot: the invariants about slots and ids for any way of clearing
\* the job and giving its message, if there is one, another fate.
LEMMA ClearedSlot ==
  ASSUME IInv, NEW i \in Slot, NEW f \in Fates,
         jobs' = clearJob(i), fate' = Drop(i, f), AckFrame
  PROVE  /\ jobs' \in [Slot -> Job] /\ jobs'[i] = Empty
         /\ \A k \in Slot : k # i => jobs'[k] = jobs[k]
         /\ fate' \in [Msg -> Fates]
         /\ \A m \in Msg : m # jobs[i].msg => fate'[m] = fate[m]
         /\ jobs[i].msg # 0 => /\ jobs[i].msg \in Msg
                               /\ fate[jobs[i].msg] = "queued"
                               /\ fate'[jobs[i].msg] = f
         /\ JobInv' /\ JobsDiffer' /\ SplitInv' /\ IdInv' /\ UnstrayedInv' /\ WinInv'
         /\ LateAckFindsOwnJob'
  <1> USE SendQueueAssumption
  <1>1. /\ jobs' \in [Slot -> Job] /\ jobs'[i] = Empty
        /\ \A k \in Slot : k # i => jobs'[k] = jobs[k]
    BY EmptyFacts DEF IInv, TypeOK, clearJob
  <1>2. jobs[i].msg # 0 => jobs[i].msg \in Msg /\ jobs[i].msg <= lastMsg /\ fate[jobs[i].msg] = "queued"
    <2>1. jobs[i].msg # 0 => jobs[i].msg \in 1..lastMsg /\ fate[jobs[i].msg] = "queued"
      BY DEF IInv, JobInv
    <2>2. lastMsg \in 0..MaxMsg
      BY DEF IInv, TypeOK
    <2> QED BY <2>1, <2>2 DEF Msg
  <1>3. /\ fate' \in [Msg -> Fates]
        /\ jobs[i].msg # 0 => fate'[jobs[i].msg] = f
        /\ \A m \in Msg : m # jobs[i].msg => fate'[m] = fate[m]
    BY <1>2 DEF Drop, IInv, TypeOK
  <1>4. \A k \in Slot : k # i /\ jobs[k].msg # 0 => jobs[k].msg # jobs[i].msg
    BY DEF IInv, JobsDiffer
  <1>5. JobInv'
    <2>1. \A k \in Slot : k # i /\ jobs[k].hContact # None => fate'[jobs[k].msg] = fate[jobs[k].msg]
      BY <1>3, <1>4 DEF IInv, TypeOK, JobInv, Msg
    <2> QED BY <1>1, <2>1, EmptyFacts DEF IInv, TypeOK, JobInv, AckFrame, SQ_UNDEFINED, SQ_ERROR
  <1>6. JobsDiffer'
    BY <1>1, EmptyFacts DEF IInv, JobsDiffer
  <1>7. SplitInv'
    BY DEF AckFrame, IInv, SplitInv
  <1>8. IdInv'
    BY <1>1, EmptyFacts DEF AckFrame, IInv, TypeOK, IdInv
  <1>9. UnstrayedInv'
    BY <1>1, EmptyFacts DEF AckFrame, IInv, TypeOK, UnstrayedInv, Unsplit
  <1>10. LateAckFindsOwnJob'
    BY <1>1, EmptyFacts DEF AckFrame, IInv, TypeOK, HistInv, LateAckFindsOwnJob, Send
  <1>11. WinInv'
    BY <1>1, EmptyFacts DEF AckFrame, IInv, TypeOK, WinInv, SQ_UNDEFINED, SQ_ERROR
  <1> QED BY <1>1, <1>2, <1>3, <1>5, <1>6, <1>7, <1>8, <1>9, <1>10, <1>11

\* An acknowledgement for a window that is gone only frees the slot.
LEMMA AckDiscardedStep ==
  ASSUME IInv, NEW i \in Slot, jobs[i].hContact # None, jobs[i].hOwnerWnd = None,
         AckDiscarded(i), AckFrame
  PROVE  IInv'
  <1> USE SendQueueAssumption
  <1>1. /\ jobs' = clearJob(i) /\ fate' = Drop(i, "discarded") /\ "discarded" \in Fates
        /\ UNCHANGED <<currentIndex, openJobs, curError, timers, stored>>
    BY DEF AckDiscarded, Fates
  <1>2. /\ jobs' \in [Slot -> Job] /\ jobs'[i] = Empty
        /\ \A k \in Slot : k # i => jobs'[k] = jobs[k]
        /\ fate' \in [Msg -> Fates]
        /\ \A m \in Msg : m # jobs[i].msg => fate'[m] = fate[m]
        /\ jobs[i].msg # 0 => fate[jobs[i].msg] = "queued" /\ fate'[jobs[i].msg] = "discarded"
        /\ JobInv' /\ JobsDiffer' /\ SplitInv' /\ IdInv' /\ UnstrayedInv' /\ WinInv'
        /\ LateAckFindsOwnJob'
    BY <1>1, ClearedSlot
  <1>3. TypeOK'
    BY <1>1, <1>2 DEF AckFrame, IInv, TypeOK
  <1>4. UnwrittenInv'
    BY <1>1, <1>2 DEF AckFrame, IInv, TypeOK, UnwrittenInv, Msg
  <1>5. SafeInv'
    <2>1. ~mixed => (\A t \in timers : t[2] # i) /\ (\A v \in Window : curError[v] # i)
      BY Ownerless
    <2>2. TimerOnOwnJob'
      BY <1>1, <1>2, <2>1 DEF AckFrame, IInv, TypeOK, SafeInv, TimerOnOwnJob
    <2>3. ErrorNamesOwnFailure'
      BY <1>1, <1>2, <2>1 DEF AckFrame, IInv, TypeOK, SafeInv, ErrorNamesOwnFailure, Slot
    <2>4. FailureShown'
      BY <1>1, <1>2, EmptyFacts DEF AckFrame, IInv, TypeOK, SafeInv, FailureShown
    <2> QED BY <2>2, <2>3, <2>4 DEF SafeInv
  <1>6. StoredWhenSent'
    BY <1>1, <1>2 DEF AckFrame, IInv, TypeOK, HistInv, StoredWhenSent, Unsplit, Msg
  <1> QED BY <1>2, <1>3, <1>4, <1>5, <1>6 DEF IInv, HistInv

\* A job of an open window fails: by a negative answer or a timeout.
LEMMA FailedStep ==
  ASSUME IInv, NEW i \in Slot, NEW w \in Window, ~mixed => jobs[i].hOwnerWnd = w,
         jobs' = [jobs EXCEPT ![i].iStatus = SQ_ERROR],
         timers' = KillTimer(w, i),
         curError' = [curError EXCEPT ![w] = IF @ = 0 THEN i ELSE @],
         UNCHANGED <<currentIndex, openJobs, fate, stored>>, AckFrame
  PROVE  IInv'
  <1> USE SendQueueAssumption
  <1>0. ~mixed => w \in open /\ jobs[i].hContact # None /\ jobs[i].hContact = ActiveContact[w]
    BY DEF IInv, TypeOK, JobInv
  <1>1. /\ jobs' \in [Slot -> Job]
        /\ jobs'[i].iStatus = SQ_ERROR
        /\ jobs'[i].hContact = jobs[i].hContact /\ jobs'[i].hOwnerWnd = jobs[i].hOwnerWnd
        /\ jobs'[i].iSendId = jobs[i].iSendId /\ jobs'[i].msg = jobs[i].msg
        /\ jobs'[i].iAcksNeeded = jobs[i].iAcksNeeded
        /\ \A k \in Slot : k # i => jobs'[k] = jobs[k]
    <2> DEFINE J == [jobs[i] EXCEPT !.iStatus = SQ_ERROR]
    <2>1. J \in Job
      BY JobUpdates DEF IInv, TypeOK
    <2>2. /\ J.iStatus = SQ_ERROR /\ J.hContact = jobs[i].hContact
          /\ J.hOwnerWnd = jobs[i].hOwnerWnd /\ J.iSendId = jobs[i].iSendId
          /\ J.msg = jobs[i].msg /\ J.iAcksNeeded = jobs[i].iAcksNeeded
      BY DEF IInv, TypeOK, Job
    <2>3. jobs' = [jobs EXCEPT ![i] = J]
      OBVIOUS
    <2> HIDE DEF J
    <2> QED BY <2>1, <2>2, <2>3 DEF IInv, TypeOK
  <1>2. /\ curError' \in [Window -> 0..NR_SENDJOBS]
        /\ \A v \in Window : v # w => curError'[v] = curError[v]
        /\ curError'[w] = IF curError[w] = 0 THEN i ELSE curError[w]
    BY DEF IInv, TypeOK, Slot
  <1>3. timers' = timers \ {<<w, i>>}
    BY DEF KillTimer
  <1>4. TypeOK'
    BY <1>1, <1>2, <1>3 DEF AckFrame, IInv, TypeOK
  <1>5. JobInv'
    BY <1>1 DEF AckFrame, IInv, TypeOK, JobInv, SQ_ERROR, SQ_UNDEFINED
  <1>6. JobsDiffer' /\ WinInv'
    <2>1. WinInv'
      BY <1>0, <1>1 DEF AckFrame, IInv, TypeOK, WinInv, SQ_ERROR, SQ_UNDEFINED
    <2> QED BY <1>1, <2>1 DEF IInv, JobsDiffer
  <1>7. SplitInv'
    BY DEF AckFrame, IInv, SplitInv
  <1>8. IdInv'
    BY <1>1 DEF AckFrame, IInv, IdInv
  <1>9. UnstrayedInv' /\ UnwrittenInv'
    BY <1>1 DEF AckFrame, IInv, UnstrayedInv, UnwrittenInv, Unsplit
  <1>10. TimerOnOwnJob'
    <2> SUFFICES ASSUME ~mixed, NEW t \in timers'
                 PROVE  t[1] \in open /\ jobs'[t[2]].hOwnerWnd = t[1] /\ jobs'[t[2]].iStatus = SQ_INPROGRESS
      BY DEF AckFrame, TimerOnOwnJob
    <2>1. /\ t \in Window \X Slot /\ t # <<w, i>> /\ t[1] \in open
          /\ jobs[t[2]].hOwnerWnd = t[1] /\ jobs[t[2]].iStatus = SQ_INPROGRESS
      BY <1>3 DEF IInv, TypeOK, SafeInv, TimerOnOwnJob
    <2>2. t[2] # i
      BY <2>1
    <2> QED BY <1>1, <2>1, <2>2
  <1>11. ErrorNamesOwnFailure'
    BY <1>0, <1>1, <1>2 DEF AckFrame, IInv, TypeOK, SafeInv, ErrorNamesOwnFailure, Slot
  <1>12. FailureShown'
    BY <1>1, <1>2 DEF AckFrame, IInv, TypeOK, SafeInv, FailureShown, Slot
  <1>13. HistInv'
    BY <1>1 DEF AckFrame, IInv, HistInv, LateAckFindsOwnJob, StoredWhenSent, Unsplit
  <1> QED BY <1>4, <1>5, <1>6, <1>7, <1>8, <1>9, <1>10, <1>11, <1>12, <1>13 DEF IInv, SafeInv

\* The last acknowledgement stores the message and shows the next failure.
LEMMA AckSentStep ==
  ASSUME IInv, NEW i \in Slot, jobs[i].hContact # None, AckSent(i), AckFrame
  PROVE  IInv'
  <1> USE SendQueueAssumption
  <1> DEFINE w == jobs[i].hOwnerWnd
             m == jobs[i].msg
  <1>1. /\ m \in Msg /\ m # 0 /\ m <= lastMsg /\ fate[m] = "queued"
        /\ jobs[i].iStatus # SQ_UNDEFINED
        /\ w # None => w \in Window /\ w \in open
    BY DEF IInv, TypeOK, JobInv, Msg, Job
  <1>2. stored' \in [Msg -> Nat] /\ stored'[m] = stored[m] + 1 /\ \A k \in Msg : k # m => stored'[k] = stored[k]
    BY <1>1 DEF AckSent, IInv, TypeOK
  <1>3. currentIndex' \in Int /\ openJobs' \in [Window -> Int]
    BY <1>1 DEF AckSent, CountedDown, IInv, TypeOK
  <1>4. timers' \subseteq timers
    BY DEF AckSent, KillTimer
  <1>5. \A v \in Window : v # w => curError'[v] = curError[v]
    BY DEF AckSent, IInv, TypeOK
  <1>6. /\ jobs' \in [Slot -> Job]
        /\ \A k \in Slot : k # i => jobs'[k] = jobs[k]
        /\ jobs'[i].msg \in {0, m} /\ jobs'[i].hOwnerWnd \in {None, w}
        /\ jobs'[i].hOwnerWnd # None => jobs'[i].iStatus = jobs[i].iStatus
        /\ fate' \in [Msg -> Fates]
        /\ \A k \in Msg : k # m => fate'[k] = fate[k]
        /\ Unsplit(m) /\ ~strayed => fate'[m] = "sent"
        /\ JobInv' /\ JobsDiffer' /\ SplitInv' /\ IdInv' /\ UnstrayedInv' /\ WinInv'
        /\ LateAckFindsOwnJob'
    <2>1. CASE LastAck(i)
      <3>1. jobs' = clearJob(i) /\ fate' = Drop(i, "sent") /\ "sent" \in Fates
        BY <2>1 DEF AckSent, Fates
      <3>2. /\ jobs' \in [Slot -> Job] /\ jobs'[i] = Empty
            /\ \A k \in Slot : k # i => jobs'[k] = jobs[k]
            /\ fate' \in [Msg -> Fates] /\ fate'[m] = "sent"
            /\ \A k \in Msg : k # m => fate'[k] = fate[k]
            /\ JobInv' /\ JobsDiffer' /\ SplitInv' /\ IdInv' /\ UnstrayedInv' /\ WinInv'
            /\ LateAckFindsOwnJob'
        BY <1>1, <3>1, ClearedSlot
      <3> QED BY <3>2, EmptyFacts
    <2>2. CASE ~LastAck(i)
      <3> DEFINE J == [jobs[i] EXCEPT !.iSendId = 0, !.iAcksNeeded = @ - 1]
      <3>1. J \in Job
        <4>1. jobs[i] \in Job /\ jobs[i].iAcksNeeded - 1 \in Int /\ 0 \in 0..MaxId
          BY DEF IInv, TypeOK, Job
        <4> QED BY <4>1, JobUpdates
      <3>2. /\ J.iStatus = jobs[i].iStatus /\ J.hContact = jobs[i].hContact
            /\ J.hOwnerWnd = w /\ J.iSendId = 0 /\ J.msg = m
        BY DEF IInv, TypeOK, Job
      <3>3. jobs' = [jobs EXCEPT ![i] = J] /\ fate' = fate
        BY <2>2 DEF AckSent
      <3> HIDE DEF J
      <3>4. /\ jobs' \in [Slot -> Job] /\ jobs'[i] = J
            /\ \A k \in Slot : k # i => jobs'[k] = jobs[k]
        BY <3>1, <3>3 DEF IInv, TypeOK
      <3>5. ~(Unsplit(m) /\ ~strayed)
        BY <2>2 DEF LastAck, IInv, UnstrayedInv
      <3>6. JobInv'
        BY <3>2, <3>3, <3>4 DEF AckFrame, IInv, JobInv
      <3>7. JobsDiffer' /\ SplitInv'
        BY <3>2, <3>4 DEF AckFrame, IInv, JobsDiffer, SplitInv
      <3>8. IdInv'
        BY <3>2, <3>4 DEF AckFrame, IInv, TypeOK, IdInv
      <3>9. UnstrayedInv'
        BY <3>2, <3>4, <3>5 DEF AckFrame, IInv, UnstrayedInv, Unsplit
      <3>10. LateAckFindsOwnJob'
        BY <3>2, <3>4 DEF AckFrame, IInv, TypeOK, HistInv, LateAckFindsOwnJob, Send
      <3>11. WinInv'
        BY <3>2, <3>4 DEF AckFrame, IInv, TypeOK, WinInv
      <3> QED BY <3>2, <3>3, <3>4, <3>5, <3>6, <3>7, <3>8, <3>9, <3>10, <3>11 DEF IInv, TypeOK
    <2> QED BY <2>1, <2>2
  <1>7. UnwrittenInv'
    BY <1>1, <1>2, <1>6 DEF AckFrame, IInv, TypeOK, UnwrittenInv, Msg
  <1>8. StoredWhenSent'
    BY <1>1, <1>2, <1>6 DEF AckFrame, IInv, TypeOK, HistInv, StoredWhenSent, Unsplit
  <1>9. TimerOnOwnJob'
    <2> SUFFICES ASSUME ~mixed, NEW t \in timers'
                 PROVE  t[1] \in open /\ jobs'[t[2]].hOwnerWnd = t[1] /\ jobs'[t[2]].iStatus = SQ_INPROGRESS
      BY DEF AckFrame, TimerOnOwnJob
    <2>1. /\ t \in Window \X Slot /\ t[1] \in open
          /\ jobs[t[2]].hOwnerWnd = t[1] /\ jobs[t[2]].iStatus = SQ_INPROGRESS
      BY <1>4 DEF IInv, TypeOK, SafeInv, TimerOnOwnJob
    <2>2. CASE t[2] = i
      <3>1. t = <<w, i>>
        BY <2>1, <2>2
      <3>2. ~LastAck(i)
        BY <3>1 DEF AckSent, KillTimer
      <3>3. jobs'[i].hOwnerWnd = w /\ jobs'[i].iStatus = jobs[i].iStatus
        BY <3>2 DEF AckSent, IInv, TypeOK, Job
      <3> QED BY <2>1, <2>2, <3>3
    <2>3. CASE t[2] # i
      BY <1>6, <2>1, <2>3
    <2> QED BY <2>2, <2>3
  <1>12. curError' \in [Window -> 0..NR_SENDJOBS]
    <2>1. CASE w = None
      BY <2>1 DEF AckSent, IInv, TypeOK
    <2>2. CASE w # None
      <3>1. w \in Window /\ curError[w] \in 0..NR_SENDJOBS
        BY <1>1, <2>2 DEF IInv, TypeOK
      <3>2. ShowNext(jobs', w, Calmed(i, curError[w])) \in 0..NR_SENDJOBS
        BY <3>1, NextFailedFacts DEF ShowNext, Calmed
      <3> QED BY <2>2, <3>1, <3>2 DEF AckSent, IInv, TypeOK
    <2> QED BY <2>1, <2>2
  <1>10. ErrorNamesOwnFailure' /\ FailureShown'
    <2> SUFFICES ASSUME ~mixed
                 PROVE  ErrorNamesOwnFailure' /\ FailureShown'
      BY DEF AckFrame, ErrorNamesOwnFailure, FailureShown
    <2>1. ASSUME NEW v \in Window, curError[v] # 0, v # w
          PROVE  v \in open /\ jobs'[curError[v]].hOwnerWnd = v /\ jobs'[curError[v]].iStatus = SQ_ERROR
      <3>1. curError[v] \in Slot /\ curError[v] # i
        BY <2>1 DEF IInv, TypeOK, SafeInv, ErrorNamesOwnFailure, Slot
      <3> QED BY <1>6, <2>1, <3>1 DEF IInv, SafeInv, ErrorNamesOwnFailure
    <2>2. ASSUME NEW v \in open, v # w, NEW k \in Slot, ActiveContact[v] = v,
                 jobs'[k].hOwnerWnd = v, jobs'[k].iStatus = SQ_ERROR
          PROVE  curError[v] # 0
      <3>1. v # None /\ v \in Window
        BY DEF IInv, TypeOK
      <3>2. k # i
        BY <1>6, <2>2, <3>1
      <3> QED BY <1>6, <2>2, <3>2 DEF IInv, SafeInv, FailureShown
    <2>3. CASE w = None
      <3>1. curError' = curError /\ \A v \in Window : v # w
        BY <2>3 DEF AckSent
      <3>2. ErrorNamesOwnFailure'
        BY <2>1, <3>1 DEF AckFrame, ErrorNamesOwnFailure
      <3>3. FailureShown'
        BY <2>2, <3>1 DEF AckFrame, IInv, TypeOK, FailureShown
      <3> QED BY <3>2, <3>3
    <2>4. CASE w # None
      <3> DEFINE e == Calmed(i, curError[w])
      <3>1. w \in Window /\ w \in open'
        BY <1>1, <2>4 DEF AckFrame
      <3>2. curError[w] \in 0..NR_SENDJOBS /\ e \in 0..NR_SENDJOBS
        BY <3>1 DEF IInv, TypeOK, Calmed
      <3>3. e # 0 => e = curError[w] /\ e # i /\ e \in Slot
        BY <3>1, <3>2 DEF Calmed, IInv, SafeInv, ErrorNamesOwnFailure, Slot
      <3>4. e # 0 => jobs'[e].hOwnerWnd = w /\ jobs'[e].iStatus = SQ_ERROR
        BY <1>6, <3>1, <3>3 DEF IInv, SafeInv, ErrorNamesOwnFailure
      <3>5. curError' = [curError EXCEPT ![w] = ShowNext(jobs', w, e)]
        BY <2>4 DEF AckSent
      <3> HIDE DEF e
      <3>6. /\ curError'[w] # 0 => /\ jobs'[curError'[w]].hOwnerWnd = w
                                   /\ jobs'[curError'[w]].iStatus = SQ_ERROR
            /\ \A k \in Slot : /\ ActiveContact[w] = w
                               /\ jobs'[k].hOwnerWnd = w
                               /\ jobs'[k].iStatus = SQ_ERROR
                               => curError'[w] # 0
        <4> HIDE DEF w
        <4> QED BY <1>6, <3>1, <3>2, <3>4, <3>5, NextShown DEF IInv, AckFrame
      <3>7. ErrorNamesOwnFailure'
        BY <1>5, <2>1, <3>1, <3>6 DEF AckFrame, ErrorNamesOwnFailure
      <3>8. FailureShown'
        BY <1>5, <2>2, <3>1, <3>6 DEF AckFrame, IInv, TypeOK, FailureShown
      <3> QED BY <3>7, <3>8
    <2> QED BY <2>3, <2>4
  <1>11. TypeOK'
    BY <1>2, <1>3, <1>4, <1>6, <1>12 DEF AckFrame, IInv, TypeOK
  <1> QED BY <1>6, <1>7, <1>8, <1>9, <1>10, <1>11 DEF IInv, SafeInv, HistInv

\* An answer from the wire is discarded, completes a job or fails it.
LEMMA ProtoAckStep ==
  ASSUME IInv, NEW r \in wire, NEW ok \in BOOLEAN, ProtoAck(r, ok)
  PROVE  IInv'
  <1> USE SendQueueAssumption
  <1>1. AckFrame
    BY DEF ProtoAck, AckFrame, IInv, TypeOK
  <1>2. CASE UNCHANGED <<jobs, fate, currentIndex, openJobs, curError, timers, stored>>
    BY <1>1, <1>2 DEF AckFrame, IInv, TypeOK, JobInv, JobsDiffer, SplitInv, IdInv,
      UnstrayedInv, UnwrittenInv, WinInv, SafeInv, TimerOnOwnJob, ErrorNamesOwnFailure,
      FailureShown, HistInv, LateAckFindsOwnJob, StoredWhenSent, Unsplit
  <1>3. ASSUME NEW i \in Matches(r), ackMessage(i, ok) PROVE IInv'
    <2>1. i \in Slot /\ jobs[i].hContact # None
      BY DEF Matches, IInv, TypeOK, Send
    <2>2. CASE AckDiscarded(i) /\ jobs[i].hOwnerWnd = None
      BY <1>1, <2>1, <2>2, AckDiscardedStep
    <2>3. CASE AckSent(i)
      BY <1>1, <2>1, <2>3, AckSentStep
    <2>4. CASE AckFailed(i) /\ jobs[i].hOwnerWnd # None
      <3>1. jobs[i].hOwnerWnd \in Window
        BY <2>1, <2>4 DEF IInv, TypeOK, Job
      <3> QED BY <1>1, <2>1, <2>4, <3>1, FailedStep DEF AckFailed
    <2> QED BY <1>3, <2>2, <2>3, <2>4 DEF ackMessage
  <1> QED BY <1>2, <1>3 DEF ProtoAck

\* The answer a splitting thread makes up itself.
LEMMA SplitSendAckStep ==
  ASSUME IInv, NEW m \in Msg, SplitSendAck(m)
  PROVE  IInv'
  <1> USE SendQueueAssumption
  <1> DEFINE i == splitter[m].slot
  <1>1. AckFrame
    BY DEF SplitSendAck, AckFrame, IInv, TypeOK
  <1>2. i \in Slot
    BY DEF SplitSendAck, IInv, SplitInv
  <1>3. CASE UNCHANGED <<jobs, fate, currentIndex, openJobs, curError, timers, stored>>
    BY <1>1, <1>3 DEF AckFrame, IInv, TypeOK, JobInv, JobsDiffer, SplitInv, IdInv,
      UnstrayedInv, UnwrittenInv, WinInv, SafeInv, TimerOnOwnJob, ErrorNamesOwnFailure,
      FailureShown, HistInv, LateAckFindsOwnJob, StoredWhenSent, Unsplit
  <1>4. CASE jobs[i].hContact # None /\ AckSent(i)
    BY <1>1, <1>2, <1>4, AckSentStep
  <1> QED BY <1>3, <1>4 DEF SplitSendAck

---------------------------------------------------------------------------
(* Timeouts, the user's answers, windows *)

\* WM_TIMER fails the job of the timer.
LEMMA SendTimeoutStep ==
  ASSUME IInv, NEW w \in Window, NEW i \in Slot, SendTimeout(w, i)
  PROVE  IInv'
  <1>1. AckFrame
    BY DEF SendTimeout, AckFrame, IInv, TypeOK
  <1>2. ~mixed => jobs[i].hOwnerWnd = w
    BY DEF SendTimeout, IInv, SafeInv, TimerOnOwnJob
  <1> QED BY <1>1, <1>2, FailedStep DEF SendTimeout

\* The slot a window shows as failed.
LEMMA ShownSlot ==
  ASSUME IInv, NEW w \in Window, curError[w] # 0
  PROVE  curError[w] \in Slot
  BY SendQueueAssumption DEF IInv, TypeOK, Slot

\* The job a window shows as failed is its own and has no timer.
LEMMA ShownJob ==
  ASSUME IInv, ~mixed, NEW w \in Window, curError[w] # 0
  PROVE  /\ curError[w] \in Slot /\ w \in open
         /\ jobs[curError[w]].hOwnerWnd = w
         /\ jobs[curError[w]].hContact = ActiveContact[w]
         /\ jobs[curError[w]].hContact # None
         /\ jobs[curError[w]].iStatus = SQ_ERROR
         /\ \A t \in timers : t[2] # curError[w]
         /\ \A v \in Window : curError[v] = curError[w] => v = w
  <1> USE SendQueueAssumption
  <1>1. curError[w] \in Slot
    BY ShownSlot
  <1>2. w \in open /\ jobs[curError[w]].hOwnerWnd = w /\ jobs[curError[w]].iStatus = SQ_ERROR
    BY DEF IInv, SafeInv, ErrorNamesOwnFailure
  <1>3. jobs[curError[w]].hContact = ActiveContact[w] /\ jobs[curError[w]].hContact # None
    BY <1>1, <1>2 DEF IInv, JobInv
  <1>4. \A t \in timers : t[2] # curError[w]
    BY <1>2 DEF IInv, SafeInv, TimerOnOwnJob, SQ_ERROR, SQ_INPROGRESS
  <1>5. \A v \in Window : curError[v] = curError[w] => v = w
    BY <1>2 DEF IInv, SafeInv, ErrorNamesOwnFailure
  <1> QED BY <1>1, <1>2, <1>3, <1>4, <1>5

\* After an answer of the user the window shows the next failed job; errors of
\* other windows, and the jobs they are about, have not changed.
LEMMA Answered ==
  ASSUME IInv, ~mixed, NEW w \in Window, curError[w] # 0, JobInv', WinInv', jobs' \in [Slot -> Job],
         \A k \in Slot : k # curError[w] => jobs'[k] = jobs[k],
         jobs'[curError[w]].iStatus # SQ_ERROR,
         curError' = [curError EXCEPT ![w] = findNextFailed(jobs', w)],
         open' = open, mixed' = mixed
  PROVE  /\ ErrorNamesOwnFailure' /\ FailureShown'
  <1> USE SendQueueAssumption
  <1> DEFINE i == curError[w]
  <1>1. /\ i \in Slot /\ w \in open
        /\ \A v \in Window : v # w => curError[v] # i
    BY ShownJob
  <1>2. curError' = [curError EXCEPT ![w] = ShowNext(jobs', w, 0)] /\ 0 \in 0..NR_SENDJOBS
    BY DEF ShowNext
  <1>3. /\ curError' \in [Window -> 0..NR_SENDJOBS]
        /\ \A v \in Window : v # w => curError'[v] = curError[v]
        /\ curError'[w] # 0 => /\ jobs'[curError'[w]].hOwnerWnd = w
                               /\ jobs'[curError'[w]].iStatus = SQ_ERROR
        /\ \A k \in Slot : /\ ActiveContact[w] = w
                           /\ jobs'[k].hOwnerWnd = w
                           /\ jobs'[k].iStatus = SQ_ERROR
                           => curError'[w] # 0
    BY <1>1, <1>2, NextShown DEF IInv
  <1>4. ErrorNamesOwnFailure'
    BY <1>1, <1>3 DEF IInv, TypeOK, SafeInv, ErrorNamesOwnFailure, Slot
  <1>5. FailureShown'
    BY <1>1, <1>3 DEF IInv, TypeOK, SafeInv, FailureShown
  <1> QED BY <1>4, <1>5

\* Cancel and Send later clear the shown job.
LEMMA ErrorGiveUpStep ==
  ASSUME IInv, NEW w \in Window, ErrorGiveUp(w)
  PROVE  IInv'
  <1> USE SendQueueAssumption
  <1> DEFINE i == curError[w]
  <1>1. /\ i # 0 /\ jobs' = clearJob(i) /\ fate' = Drop(i, "cancelled") /\ "cancelled" \in Fates
        /\ openJobs' = [openJobs EXCEPT ![w] = @ - 1] /\ currentIndex' = currentIndex - 1
        /\ curError' = [curError EXCEPT ![w] = findNextFailed(jobs', w)]
        /\ UNCHANGED <<open, timers, splitter, posted, wire, nextId, lastMsg, stored, strayed, mixed>>
    BY DEF ErrorGiveUp, Fates
  <1>2. AckFrame
    BY <1>1 DEF AckFrame, IInv, TypeOK
  <1>3. i \in Slot /\ (~mixed => \A t \in timers : t[2] # i)
    BY <1>1, ShownSlot, ShownJob
  <1>4. /\ jobs' \in [Slot -> Job] /\ jobs'[i] = Empty
        /\ \A k \in Slot : k # i => jobs'[k] = jobs[k]
        /\ fate' \in [Msg -> Fates]
        /\ \A m \in Msg : m # jobs[i].msg => fate'[m] = fate[m]
        /\ jobs[i].msg # 0 => fate[jobs[i].msg] = "queued" /\ fate'[jobs[i].msg] = "cancelled"
        /\ JobInv' /\ JobsDiffer' /\ SplitInv' /\ IdInv' /\ UnstrayedInv' /\ WinInv'
        /\ LateAckFindsOwnJob'
    BY <1>1, <1>2, <1>3, ClearedSlot
  <1>5. curError' \in [Window -> 0..NR_SENDJOBS] /\ ErrorNamesOwnFailure' /\ FailureShown'
    <2>1. jobs'[i].iStatus # SQ_ERROR /\ open' = open /\ mixed' = mixed
      BY <1>1, <1>4, EmptyFacts DEF SQ_UNDEFINED, SQ_ERROR
    <2>2. curError' \in [Window -> 0..NR_SENDJOBS]
      BY <1>1, NextFailedFacts DEF IInv, TypeOK
    <2>3. ~mixed => ErrorNamesOwnFailure' /\ FailureShown'
      BY <1>1, <1>4, <2>1, Answered
    <2> QED BY <2>1, <2>2, <2>3 DEF ErrorNamesOwnFailure, FailureShown
  <1>6. TypeOK'
    BY <1>1, <1>4, <1>5 DEF IInv, TypeOK
  <1>7. TimerOnOwnJob'
    BY <1>1, <1>3, <1>4 DEF IInv, TypeOK, SafeInv, TimerOnOwnJob
  <1>8. UnwrittenInv' /\ StoredWhenSent'
    <2>1. UnwrittenInv'
      BY <1>1, <1>4 DEF IInv, TypeOK, UnwrittenInv, Msg
    <2>2. StoredWhenSent'
      BY <1>1, <1>4 DEF IInv, TypeOK, HistInv, StoredWhenSent, Unsplit, Msg
    <2> QED BY <2>1, <2>2
  <1> QED BY <1>4, <1>5, <1>6, <1>7, <1>8 DEF IInv, SafeInv, HistInv

\* Retry sends the shown job again under a new id.
LEMMA ErrorRetryStep ==
  ASSUME IInv, NEW w \in Window, ErrorRetry(w)
  PROVE  IInv'
  <1> USE SendQueueAssumption
  <1> DEFINE i == curError[w]
             J == [jobs[i] EXCEPT !.iStatus = SQ_INPROGRESS, !.iSendId = nextId]
             r0 == [id |-> nextId, msg |-> jobs[i].msg, to |-> jobs[i].hContact]
  <1>1. /\ i # 0 /\ nextId \in 1..MaxId /\ jobs' = [jobs EXCEPT ![i] = J]
        /\ wire' = IF jobs[i].hContact = None THEN wire ELSE wire \cup {r0}
        /\ nextId' = nextId + 1 /\ (jobs[i].hContact = None => jobs[i].iSendId # 0)
        /\ timers' = timers \cup {<<w, i>>}
        /\ curError' = [curError EXCEPT ![w] = findNextFailed(jobs', w)]
        /\ UNCHANGED <<currentIndex, open, openJobs, splitter, posted, lastMsg, fate, stored, strayed, mixed>>
    <2>1. jobs' = [jobs EXCEPT ![i] = J]
      BY DEF ErrorRetry, Resent
    <2>2. nextId \in 1..MaxId
      BY DEF ErrorRetry, IInv, TypeOK
    <2> HIDE DEF J
    <2> QED BY <2>1, <2>2 DEF ErrorRetry, SetTimer
  <1>2. /\ i \in Slot
        /\ ~mixed => /\ w \in open /\ jobs[i].hOwnerWnd = w /\ jobs[i].hContact # None
                     /\ jobs[i].hContact = ActiveContact[w]
    BY <1>1, ShownSlot, ShownJob
  <1>3. J \in Job
    <2>1. jobs[i] \in Job /\ nextId \in 0..MaxId
      BY <1>1, <1>2 DEF IInv, TypeOK
    <2> QED BY <2>1, JobUpdates
  <1>4. /\ J.iStatus = SQ_INPROGRESS /\ J.hContact = jobs[i].hContact
        /\ J.hOwnerWnd = jobs[i].hOwnerWnd /\ J.iSendId = nextId /\ J.msg = jobs[i].msg
        /\ J.iAcksNeeded = jobs[i].iAcksNeeded
    BY <1>2 DEF IInv, TypeOK, Job
  <1>5. /\ r0.id = nextId /\ r0.msg = jobs[i].msg
        /\ jobs[i].hContact # None => r0 \in Send
    BY <1>1, <1>2 DEF Send, IInv, TypeOK, JobInv, Job, Msg
  <1> HIDE DEF J, r0
  <1>6. /\ jobs' \in [Slot -> Job] /\ jobs'[i] = J
        /\ \A k \in Slot : k # i => jobs'[k] = jobs[k]
    BY <1>1, <1>2, <1>3 DEF IInv, TypeOK
  <1>7. JobInv'
    BY <1>1, <1>4, <1>6 DEF IInv, JobInv, SQ_UNDEFINED, SQ_INPROGRESS, SQ_ERROR
  <1>8. JobsDiffer' /\ SplitInv' /\ WinInv'
    <2>1. WinInv'
      BY <1>1, <1>2, <1>4, <1>6 DEF IInv, WinInv, SQ_UNDEFINED, SQ_INPROGRESS, SQ_ERROR
    <2> QED BY <1>1, <1>4, <1>6, <2>1 DEF IInv, JobsDiffer, SplitInv
  <1>9. curError' \in [Window -> 0..NR_SENDJOBS] /\ ErrorNamesOwnFailure' /\ FailureShown'
    <2>1. jobs'[i].iStatus # SQ_ERROR /\ open' = open /\ mixed' = mixed
      BY <1>1, <1>4, <1>6 DEF SQ_INPROGRESS, SQ_ERROR
    <2>2. curError' \in [Window -> 0..NR_SENDJOBS]
      BY <1>1, NextFailedFacts DEF IInv, TypeOK
    <2>3. ~mixed => ErrorNamesOwnFailure' /\ FailureShown'
      BY <1>1, <1>6, <1>7, <1>8, <2>1, Answered
    <2> QED BY <2>1, <2>2, <2>3 DEF ErrorNamesOwnFailure, FailureShown
  <1>10. TypeOK'
    BY <1>1, <1>2, <1>5, <1>6, <1>9 DEF IInv, TypeOK
  <1>11. IdInv'
    BY <1>1, <1>4, <1>5, <1>6 DEF IInv, TypeOK, IdInv, Job, Splitter, Send
  <1>12. UnstrayedInv' /\ UnwrittenInv'
    BY <1>1, <1>2, <1>4, <1>6 DEF IInv, UnstrayedInv, UnwrittenInv, Unsplit
  <1>13. TimerOnOwnJob'
    BY <1>1, <1>2, <1>4, <1>6 DEF IInv, TypeOK, SafeInv, TimerOnOwnJob
  <1>14. LateAckFindsOwnJob'
    BY <1>1, <1>4, <1>5, <1>6 DEF IInv, TypeOK, HistInv, LateAckFindsOwnJob, IdInv, Send, Job
  <1>15. StoredWhenSent'
    BY <1>1 DEF IInv, HistInv, StoredWhenSent, Unsplit
  <1> QED BY <1>7, <1>8, <1>9, <1>10, <1>11, <1>12, <1>13, <1>14, <1>15 DEF IInv, SafeInv, HistInv

\* A window that opens owns no job yet; if it does not meet its metacontact's or
\* a subcontact's window, no failed job is in its name.
LEMMA OpenWindowStep ==
  ASSUME IInv, NEW w \in Window, OpenWindow(w)
  PROVE  IInv'
  <1> USE SendQueueAssumption
  <1>0. /\ w \notin open /\ open' = open \cup {w}
        /\ mixed' = (mixed \/ Meets(w))
        /\ UNCHANGED <<jobs, currentIndex, openJobs, curError, timers, splitter,
                       posted, wire, nextId, lastMsg, fate, stored, strayed>>
    BY DEF OpenWindow
  <1>1. TypeOK' /\ JobInv' /\ JobsDiffer' /\ SplitInv' /\ IdInv'
    <2>1. mixed' \in BOOLEAN
      BY <1>0
    <2> QED BY <1>0, <2>1 DEF IInv, TypeOK, JobInv, JobsDiffer, SplitInv, IdInv
  <1>2. UnstrayedInv' /\ UnwrittenInv' /\ HistInv'
    BY <1>0 DEF IInv, UnstrayedInv, UnwrittenInv, Unsplit, HistInv, LateAckFindsOwnJob, StoredWhenSent
  <1>3. TimerOnOwnJob' /\ ErrorNamesOwnFailure'
    BY <1>0 DEF IInv, SafeInv, TimerOnOwnJob, ErrorNamesOwnFailure
  <1>4. FailureShown'
    BY <1>0 DEF IInv, TypeOK, JobInv, SafeInv, FailureShown
  <1>5. WinInv'
    BY <1>0 DEF IInv, WinInv, Meets
  <1> QED BY <1>1, <1>2, <1>3, <1>4, <1>5 DEF IInv, SafeInv

\* A window that closes keeps its hands off the jobs of the others.
LEMMA CloseWindowStep ==
  ASSUME IInv, NEW w \in Window, CloseWindow(w)
  PROVE  IInv'
  <1> USE SendQueueAssumption
  <1>1. /\ open' = open \ {w} /\ w \in open
        /\ timers' = {t \in timers : t[1] # w}
        /\ openJobs' = [openJobs EXCEPT ![w] = 0]
        /\ curError' = [curError EXCEPT ![w] = 0]
        /\ UNCHANGED <<currentIndex, splitter, posted, wire, nextId, lastMsg, stored, strayed, mixed>>
    BY DEF CloseWindow
  <1>2. jobs' \in [Slot -> Job]
    <2>1. \A i \in Slot : [jobs[i] EXCEPT !.hOwnerWnd = None] \in Job
      BY JobUpdates DEF IInv, TypeOK
    <2> QED BY <2>1, EmptyFacts DEF CloseWindow, IInv, TypeOK
  <1>3. ASSUME NEW i \in Slot
        PROVE  \/ /\ jobs[i].hContact = w /\ jobs[i].iStatus = SQ_ERROR
                  /\ jobs'[i] = Empty
               \/ /\ ~(jobs[i].hContact = w /\ jobs[i].iStatus = SQ_ERROR)
                  /\ ~mixed => jobs[i].hOwnerWnd \in {None, w}
                  /\ jobs'[i].hOwnerWnd = None
                  /\ jobs'[i].iStatus = jobs[i].iStatus
                  /\ jobs'[i].hContact = jobs[i].hContact
                  /\ jobs'[i].msg = jobs[i].msg
                  /\ jobs'[i].iSendId = jobs[i].iSendId
                  /\ jobs'[i].iAcksNeeded = jobs[i].iAcksNeeded
               \/ /\ ~(jobs[i].hContact = w /\ jobs[i].iStatus = SQ_ERROR)
                  /\ jobs[i].hOwnerWnd # w
                  /\ jobs'[i] = jobs[i]
    <2>1. CASE i \in Destroyed(w)
      BY <2>1 DEF CloseWindow, Destroyed
    <2>2. CASE i \notin Destroyed(w) /\ jobs[i].hOwnerWnd # w /\ ~(jobs[i].hContact = w /\ jobs[i].iStatus = SQ_INPROGRESS)
      BY <2>2 DEF CloseWindow, Destroyed
    <2>3. CASE i \notin Destroyed(w) /\ (jobs[i].hOwnerWnd = w \/ (jobs[i].hContact = w /\ jobs[i].iStatus = SQ_INPROGRESS))
      <3>1. jobs'[i] = [jobs[i] EXCEPT !.hOwnerWnd = None]
        BY <2>3 DEF CloseWindow
      <3>2. ~mixed => jobs[i].hOwnerWnd \in {None, w}
        BY <1>1, <2>3 DEF IInv, TypeOK, JobInv, WinInv, Job
      <3>3. jobs[i] \in Job
        BY DEF IInv, TypeOK
      <3> QED BY <2>3, <3>1, <3>2, <3>3 DEF Job, Destroyed
    <2> QED BY <2>1, <2>2, <2>3
  <1>4. /\ fate' \in [Msg -> Fates]
        /\ \A m \in Msg : fate'[m] = fate[m] \/ (fate[m] = "queued" /\ fate'[m] = "closed" /\ m <= lastMsg)
        /\ \A i \in Slot : jobs[i].hContact # None /\ jobs'[i] # Empty => fate'[jobs[i].msg] = fate[jobs[i].msg]
    <2>1. fate' = [m \in Msg |-> IF \E i \in Destroyed(w) : jobs[i].msg = m THEN "closed" ELSE fate[m]]
      BY DEF CloseWindow
    <2>2. fate' \in [Msg -> Fates]
      BY <2>1 DEF IInv, TypeOK, Fates
    <2>3. \A i \in Destroyed(w) : jobs[i].msg \in 1..lastMsg /\ fate[jobs[i].msg] = "queued"
      BY DEF Destroyed, IInv, JobInv
    <2>4. \A m \in Msg : fate'[m] = fate[m] \/ (fate[m] = "queued" /\ fate'[m] = "closed" /\ m <= lastMsg)
      BY <2>1, <2>3 DEF IInv, TypeOK
    <2>5. ASSUME NEW i \in Slot, jobs[i].hContact # None, jobs'[i] # Empty
          PROVE  fate'[jobs[i].msg] = fate[jobs[i].msg]
      <3>1. jobs[i].msg \in Msg /\ jobs[i].msg # 0
        BY <2>5 DEF IInv, TypeOK, JobInv, Msg
      <3>2. i \notin Destroyed(w)
        BY <2>5 DEF CloseWindow
      <3>3. \A k \in Destroyed(w) : jobs[k].msg # jobs[i].msg
        BY <3>1, <3>2 DEF Destroyed, IInv, JobsDiffer
      <3> QED BY <2>1, <3>1, <3>3
    <2> QED BY <2>2, <2>4, <2>5
  <1>5. curError' \in [Window -> 0..NR_SENDJOBS] /\ curError'[w] = 0
        /\ \A v \in Window : v # w => curError'[v] = curError[v]
    BY <1>1 DEF IInv, TypeOK
  <1>6. TypeOK'
    BY <1>1, <1>2, <1>4, <1>5 DEF IInv, TypeOK
  <1>7. ~mixed => \A i \in Slot : jobs[i].hOwnerWnd \notin {None, w} => jobs'[i] = jobs[i]
    <2> SUFFICES ASSUME ~mixed, NEW i \in Slot, jobs[i].hOwnerWnd \notin {None, w}
                 PROVE  jobs'[i] = jobs[i]
      OBVIOUS
    <2>1. jobs[i].hContact = ActiveContact[jobs[i].hOwnerWnd] /\ jobs[i].hOwnerWnd \in open
      BY DEF IInv, TypeOK, JobInv
    <2>2. jobs[i].hContact # w
      BY <1>1, <2>1 DEF IInv, WinInv
    <2> QED BY <1>3, <2>2
  <1>8. \A i \in Slot : jobs'[i].hOwnerWnd # None => jobs'[i] = jobs[i] /\ jobs[i].hOwnerWnd \notin {None, w}
    BY <1>3, EmptyFacts
  <1>20. \A i \in Slot : \/ jobs'[i] = Empty
                          \/ /\ jobs'[i].iStatus = jobs[i].iStatus
                             /\ jobs'[i].hContact = jobs[i].hContact
                             /\ jobs'[i].msg = jobs[i].msg
                             /\ jobs'[i] # Empty
                             /\ ~(jobs[i].hContact = w /\ jobs[i].iStatus = SQ_ERROR)
    BY <1>3
  <1>9. JobInv'
    <2> SUFFICES ASSUME NEW i \in Slot
                 PROVE  /\ jobs'[i].hContact = None =>
                             /\ jobs'[i].hOwnerWnd = None
                             /\ jobs'[i].msg = 0
                        /\ jobs'[i].hContact # None =>
                             /\ jobs'[i].iStatus # SQ_UNDEFINED
                             /\ jobs'[i].msg \in 1..lastMsg
                             /\ fate'[jobs'[i].msg] = "queued"
                        /\ jobs'[i].hOwnerWnd # None =>
                             /\ jobs'[i].hOwnerWnd \in open'
                             /\ jobs'[i].hContact = ActiveContact[jobs'[i].hOwnerWnd]
      BY <1>1 DEF JobInv
    <2>1. CASE jobs'[i] = Empty
      BY <2>1, EmptyFacts DEF SQ_UNDEFINED, SQ_ERROR
    <2>2. CASE jobs'[i] # Empty
      <3>1. /\ jobs'[i].iStatus = jobs[i].iStatus /\ jobs'[i].hContact = jobs[i].hContact
            /\ jobs'[i].msg = jobs[i].msg
        BY <1>20, <2>2
      <3>2. jobs[i].hContact # None => fate'[jobs[i].msg] = fate[jobs[i].msg]
        BY <1>4, <2>2
      <3>3. jobs'[i].hOwnerWnd # None => jobs[i].hOwnerWnd = jobs'[i].hOwnerWnd /\ jobs[i].hOwnerWnd # w
        BY <1>8
      <3> QED BY <1>1, <3>1, <3>2, <3>3 DEF IInv, JobInv
    <2> QED BY <2>1, <2>2
  <1>21. WinInv'
    <2> SUFFICES ASSUME ~mixed, NEW i \in Slot
                 PROVE  /\ jobs'[i].hContact = None => jobs'[i].iStatus = SQ_UNDEFINED
                        /\ jobs'[i].hContact \in open' /\ jobs'[i].iStatus = SQ_ERROR =>
                             jobs'[i].hOwnerWnd = jobs'[i].hContact
      BY <1>1 DEF IInv, WinInv
    <2>1. CASE jobs'[i] = Empty
      BY <2>1, EmptyFacts DEF SQ_UNDEFINED, SQ_ERROR
    <2>2. CASE jobs'[i] # Empty
      <3>1. /\ jobs'[i].iStatus = jobs[i].iStatus /\ jobs'[i].hContact = jobs[i].hContact
        BY <1>20, <2>2
      <3>2. ASSUME jobs[i].hContact \in open', jobs[i].iStatus = SQ_ERROR
            PROVE  jobs'[i].hOwnerWnd = jobs[i].hContact
        <4>1. jobs[i].hContact # w /\ jobs[i].hContact \in open /\ w \in Window /\ open \subseteq Window
          BY <1>1, <3>2 DEF IInv, TypeOK
        <4>2. jobs[i].hOwnerWnd = jobs[i].hContact /\ jobs[i].hOwnerWnd \notin {None, w}
          BY <3>2, <4>1 DEF IInv, WinInv
        <4> QED BY <1>7, <4>2
      <3> QED BY <3>1, <3>2 DEF IInv, WinInv
    <2> QED BY <2>1, <2>2
  <1>10. \A i \in Slot : jobs'[i].msg \in {0, jobs[i].msg}
    BY <1>3, EmptyFacts
  <1>11. JobsDiffer' /\ SplitInv'
    BY <1>1, <1>10 DEF IInv, JobsDiffer, SplitInv
  <1>12. IdInv'
    BY <1>1, <1>3, EmptyFacts DEF IInv, TypeOK, IdInv
  <1>13. UnstrayedInv'
    BY <1>1, <1>3, EmptyFacts DEF IInv, UnstrayedInv, Unsplit
  <1>14. UnwrittenInv'
    BY <1>1, <1>4 DEF IInv, TypeOK, UnwrittenInv, Msg
  <1>15. TimerOnOwnJob'
    BY <1>1, <1>7 DEF IInv, TypeOK, SafeInv, TimerOnOwnJob
  <1>16. ErrorNamesOwnFailure'
    <2> SUFFICES ASSUME ~mixed, NEW v \in Window, curError'[v] # 0
                 PROVE  /\ v \in open'
                        /\ jobs'[curError'[v]].hOwnerWnd = v
                        /\ jobs'[curError'[v]].iStatus = SQ_ERROR
      BY <1>1 DEF ErrorNamesOwnFailure
    <2>1. v # w /\ curError'[v] = curError[v]
      BY <1>5
    <2>2. curError[v] \in Slot /\ v \in open /\ jobs[curError[v]].hOwnerWnd = v
          /\ jobs[curError[v]].iStatus = SQ_ERROR
      BY <2>1, ShownJob
    <2>3. jobs'[curError[v]] = jobs[curError[v]]
      BY <1>7, <2>1, <2>2
    <2> QED BY <1>1, <2>1, <2>2, <2>3
  <1>17. FailureShown'
    BY <1>1, <1>5, <1>8 DEF IInv, TypeOK, SafeInv, FailureShown
  <1>18. LateAckFindsOwnJob'
    BY <1>1, <1>3, EmptyFacts DEF IInv, TypeOK, HistInv, LateAckFindsOwnJob, Send
  <1>19. StoredWhenSent'
    BY <1>1, <1>4 DEF IInv, TypeOK, HistInv, StoredWhenSent, Unsplit
  <1> QED BY <1>6, <1>9, <1>11, <1>12, <1>13, <1>14, <1>15, <1>16, <1>17, <1>18, <1>19, <1>21
       DEF IInv, SafeInv, HistInv

\* A job gets old enough to be taken over when it has no owner.
LEMMA JobAgesStep ==
  ASSUME IInv, NEW i \in Slot, JobAges(i)
  PROVE  IInv'
  <1> USE SendQueueAssumption
  <1> DEFINE J == [jobs[i] EXCEPT !.old = TRUE]
  <1>1. /\ jobs' = [jobs EXCEPT ![i] = J]
        /\ UNCHANGED <<currentIndex, open, openJobs, curError, timers, splitter,
                       posted, wire, nextId, lastMsg, fate, stored, strayed, mixed>>
    BY DEF JobAges
  <1>2. J \in Job
    BY JobUpdates DEF IInv, TypeOK
  <1>3. /\ J.iStatus = jobs[i].iStatus /\ J.hContact = jobs[i].hContact
        /\ J.hOwnerWnd = jobs[i].hOwnerWnd /\ J.iSendId = jobs[i].iSendId
        /\ J.msg = jobs[i].msg /\ J.iAcksNeeded = jobs[i].iAcksNeeded
    BY DEF IInv, TypeOK, Job
  <1> HIDE DEF J
  <1>4. /\ jobs' \in [Slot -> Job]
        /\ \A k \in Slot : /\ jobs'[k].iStatus = jobs[k].iStatus
                           /\ jobs'[k].hContact = jobs[k].hContact
                           /\ jobs'[k].hOwnerWnd = jobs[k].hOwnerWnd
                           /\ jobs'[k].iSendId = jobs[k].iSendId
                           /\ jobs'[k].msg = jobs[k].msg
                           /\ jobs'[k].iAcksNeeded = jobs[k].iAcksNeeded
    BY <1>1, <1>2, <1>3 DEF IInv, TypeOK
  <1>5. TypeOK'
    BY <1>1, <1>4 DEF IInv, TypeOK
  <1>6. JobInv' /\ JobsDiffer' /\ SplitInv' /\ IdInv' /\ WinInv'
    BY <1>1, <1>4 DEF IInv, JobInv, JobsDiffer, SplitInv, IdInv, WinInv
  <1>7. UnstrayedInv' /\ UnwrittenInv'
    BY <1>1, <1>4 DEF IInv, UnstrayedInv, UnwrittenInv, Unsplit
  <1>8. SafeInv'
    BY <1>1, <1>4 DEF IInv, TypeOK, SafeInv, TimerOnOwnJob, ErrorNamesOwnFailure,
      FailureShown, Slot
  <1>9. HistInv'
    BY <1>1, <1>4 DEF IInv, HistInv, LateAckFindsOwnJob, StoredWhenSent, Unsplit
  <1> QED BY <1>5, <1>6, <1>7, <1>8, <1>9 DEF IInv

---------------------------------------------------------------------------
(* The thread that splits a message *)

\* What both steps of the thread leave alone: all of a slot but the id and the
\* number of acknowledgements.
SplitFrame ==
  /\ jobs' \in [Slot -> Job]
  /\ \A k \in Slot : /\ jobs'[k].iStatus = jobs[k].iStatus
                     /\ jobs'[k].hContact = jobs[k].hContact
                     /\ jobs'[k].hOwnerWnd = jobs[k].hOwnerWnd
                     /\ jobs'[k].msg = jobs[k].msg
  /\ \A m \in Msg : Unsplit(m)' <=> Unsplit(m)
  /\ strayed' \in BOOLEAN /\ (strayed => strayed')
  /\ UNCHANGED <<currentIndex, open, openJobs, curError, timers, lastMsg, fate, stored, mixed>>

\* What the steps of a splitting thread leave alone keeps its invariants.
LEMMA SplitFrameStep ==
  ASSUME IInv, SplitFrame
  PROVE  JobInv' /\ JobsDiffer' /\ UnwrittenInv' /\ WinInv' /\ SafeInv' /\ StoredWhenSent'
  <1> USE SendQueueAssumption
  <1>1. JobInv' /\ JobsDiffer' /\ UnwrittenInv' /\ WinInv'
    BY DEF SplitFrame, IInv, JobInv, JobsDiffer, UnwrittenInv, WinInv
  <1>2. TimerOnOwnJob'
    BY DEF SplitFrame, IInv, TypeOK, SafeInv, TimerOnOwnJob
  <1>3. ErrorNamesOwnFailure'
    <2>1. curError' = curError /\ open' = open
      BY DEF SplitFrame
    <2>2. \A w \in Window : curError[w] # 0 => curError[w] \in Slot
      BY ShownSlot
    <2> QED BY <2>1, <2>2 DEF SplitFrame, IInv, SafeInv, ErrorNamesOwnFailure
  <1>4. FailureShown'
    BY DEF SplitFrame, IInv, SafeInv, FailureShown
  <1>5. StoredWhenSent'
    BY DEF SplitFrame, IInv, HistInv, StoredWhenSent
  <1> QED BY <1>1, <1>2, <1>3, <1>4, <1>5 DEF SafeInv

\* A splitting thread writes the id it got into its slot.
LEMMA SplitStoreStep ==
  ASSUME IInv, NEW m \in Msg, SplitStore(m)
  PROVE  IInv'
  <1> USE SendQueueAssumption
  <1> DEFINE i == splitter[m].slot
             J == [jobs[i] EXCEPT !.iSendId = splitter[m].id]
             S == [splitter[m] EXCEPT !.phase = "send"]
  <1>1. /\ splitter[m].phase = "store"
        /\ jobs' = [jobs EXCEPT ![i] = J]
        /\ splitter' = [splitter EXCEPT ![m] = S]
        /\ posted' = posted \cup {m}
        /\ strayed' = (strayed \/ jobs[i].msg # m)
        /\ UNCHANGED <<currentIndex, open, openJobs, curError, timers, wire, nextId,
                       lastMsg, fate, stored, mixed>>
    BY DEF SplitStore
  <1>2. /\ i \in Slot /\ m <= lastMsg /\ splitter[m].chunk < Chunks
        /\ splitter[m].id \in 0..MaxId /\ splitter[m].id < nextId
    BY <1>1 DEF IInv, TypeOK, SplitInv, IdInv, Splitter
  <1>3. J \in Job
    <2>1. jobs[i] \in Job
      BY <1>2 DEF IInv, TypeOK
    <2> QED BY <1>2, <2>1, JobUpdates
  <1>4. /\ J.iStatus = jobs[i].iStatus /\ J.hContact = jobs[i].hContact
        /\ J.hOwnerWnd = jobs[i].hOwnerWnd /\ J.iSendId = splitter[m].id
        /\ J.msg = jobs[i].msg /\ J.iAcksNeeded = jobs[i].iAcksNeeded
    BY <1>2 DEF IInv, TypeOK, Job
  <1>5. /\ S \in Splitter /\ S.phase = "send" /\ S.slot = i
        /\ S.chunk = splitter[m].chunk /\ S.id = splitter[m].id
    BY DEF IInv, TypeOK, Splitter
  <1> HIDE DEF J, S
  <1>6. /\ jobs' \in [Slot -> Job] /\ jobs'[i] = J
        /\ \A k \in Slot : k # i => jobs'[k] = jobs[k]
    BY <1>1, <1>2, <1>3 DEF IInv, TypeOK
  <1>7. /\ splitter' \in [Msg -> Splitter] /\ splitter'[m] = S
        /\ \A k \in Msg : k # m => splitter'[k] = splitter[k]
    BY <1>1, <1>5 DEF IInv, TypeOK
  <1>8. strayed' \in BOOLEAN /\ (strayed => strayed') /\ (~strayed' => jobs[i].msg = m /\ ~strayed)
    BY <1>1
  <1>9. \A k \in Msg : Unsplit(k)' <=> Unsplit(k)
    BY <1>1, <1>5, <1>7 DEF Unsplit
  <1>10. SplitFrame
    BY <1>1, <1>4, <1>6, <1>8, <1>9 DEF SplitFrame
  <1>11. JobInv' /\ JobsDiffer' /\ UnwrittenInv' /\ WinInv' /\ SafeInv' /\ StoredWhenSent'
    BY <1>10, SplitFrameStep
  <1>12. TypeOK'
    BY <1>1, <1>6, <1>7, <1>8 DEF IInv, TypeOK
  <1>13. SplitInv'
    BY <1>1, <1>2, <1>5, <1>7 DEF IInv, SplitInv
  <1>14. IdInv'
    BY <1>1, <1>2, <1>4, <1>5, <1>6, <1>7 DEF IInv, IdInv
  <1>15. UnstrayedInv'
    <2> SUFFICES ASSUME ~strayed', NEW k \in Slot
                 PROVE  /\ jobs'[k].hContact = None => jobs'[k].iSendId = 0
                        /\ jobs'[k].hContact # None /\ splitter'[jobs'[k].msg].phase = "none" => jobs'[k].iAcksNeeded = 1
      BY DEF UnstrayedInv, Unsplit
    <2>1. ~strayed /\ jobs[i].msg = m /\ m # 0
      BY <1>8 DEF Msg
    <2>2. jobs[i].hContact # None
      BY <1>2, <2>1 DEF IInv, JobInv
    <2>3. jobs'[k].hContact = None => jobs'[k].iSendId = 0
      BY <1>4, <1>6, <2>1, <2>2 DEF IInv, UnstrayedInv
    <2>4. ASSUME jobs'[k].hContact # None, splitter'[jobs'[k].msg].phase = "none" PROVE jobs'[k].iAcksNeeded = 1
      <3>1. jobs'[k].msg = jobs[k].msg /\ jobs'[k].hContact = jobs[k].hContact
            /\ jobs'[k].iAcksNeeded = jobs[k].iAcksNeeded
        BY <1>4, <1>6
      <3>2. jobs[k].msg \in Msg
        BY <2>4, <3>1 DEF IInv, TypeOK, JobInv, Msg
      <3>3. Unsplit(jobs[k].msg)
        BY <1>9, <2>4, <3>1, <3>2 DEF Unsplit
      <3> QED BY <2>1, <2>4, <3>1, <3>3 DEF IInv, UnstrayedInv
    <2> QED BY <2>3, <2>4
  <1>16. LateAckFindsOwnJob'
    BY <1>1, <1>4, <1>6, <1>8 DEF IInv, HistInv, LateAckFindsOwnJob, IdInv
  <1> QED BY <1>11, <1>12, <1>13, <1>14, <1>15, <1>16 DEF IInv, HistInv

\* A splitting thread sends a chunk under a new id.
LEMMA SplitChunkStep ==
  ASSUME IInv, NEW m \in Msg, SplitChunk(m)
  PROVE  IInv'
  <1> USE SendQueueAssumption
  <1> DEFINE s == splitter[m]
             i == s.slot
             j == jobs[i]
             last == j.chunked /\ s.chunk = Chunks - 1
             first == s.chunk = 0 /\ s.id = 0
             sends == j.hContact # None
             r0 == [id |-> nextId, msg |-> m, to |-> j.hContact]
             S == [s EXCEPT !.chunk = IF j.chunked THEN @ + 1 ELSE @,
                            !.id = IF first /\ sends THEN nextId ELSE @,
                            !.phase = IF first THEN "store" ELSE IF last THEN "done" ELSE @]
             J == [j EXCEPT !.iAcksNeeded = @ + 1]
  <1>1. /\ s.phase = "send"
        /\ sends => nextId <= MaxId
        /\ jobs' = jobs \/ (sends /\ jobs' = [jobs EXCEPT ![i] = J])
        /\ wire' = IF sends THEN wire \cup {r0} ELSE wire
        /\ nextId' = IF sends THEN nextId + 1 ELSE nextId
        /\ splitter' = [splitter EXCEPT ![m] = S]
        /\ strayed' = (strayed \/ j.msg # m)
        /\ UNCHANGED <<currentIndex, open, openJobs, curError, timers, posted, lastMsg, fate, stored, mixed>>
    BY DEF SplitChunk
  <1>2. /\ i \in Slot /\ m <= lastMsg /\ s \in Splitter /\ s.chunk < Chunks /\ s.chunk \in 0..Chunks
        /\ s.id \in 0..MaxId /\ s.id < nextId /\ j \in Job /\ nextId \in 1..MaxId + 1
    BY <1>1 DEF IInv, TypeOK, SplitInv, IdInv, Splitter
  <1>3. S \in Splitter
    <2>1. (IF j.chunked THEN s.chunk + 1 ELSE s.chunk) \in 0..Chunks
      BY <1>2
    <2>2. (IF first /\ sends THEN nextId ELSE s.id) \in 0..MaxId
      BY <1>1, <1>2
    <2> QED BY <1>2, <2>1, <2>2 DEF Splitter
  <1>4. /\ S.slot = i
        /\ S.chunk = IF j.chunked THEN s.chunk + 1 ELSE s.chunk
        /\ S.id = IF first /\ sends THEN nextId ELSE s.id
        /\ S.phase = IF first THEN "store" ELSE IF last THEN "done" ELSE s.phase
    BY <1>2 DEF Splitter
  <1>5. S.phase \in {"send", "store"} => S.chunk < Chunks
    BY <1>2, <1>4
  <1>6. S.phase # "none" /\ (S.id = s.id \/ (sends /\ S.id = nextId))
    BY <1>1, <1>4
  <1>7. sends => r0 \in Send /\ r0.id = nextId /\ r0.msg = m
    BY <1>1, <1>2 DEF Send, Job
  <1>8. /\ jobs' \in [Slot -> Job]
        /\ \A k \in Slot : k # i => jobs'[k] = jobs[k]
        /\ jobs'[i].iStatus = jobs[i].iStatus /\ jobs'[i].hContact = jobs[i].hContact
        /\ jobs'[i].hOwnerWnd = jobs[i].hOwnerWnd /\ jobs'[i].msg = jobs[i].msg
        /\ jobs'[i].iSendId = jobs[i].iSendId
    <2>1. CASE jobs' = jobs
      BY <2>1 DEF IInv, TypeOK
    <2>2. CASE jobs' = [jobs EXCEPT ![i] = J]
      <3>1. J \in Job
        <4>1. j.iAcksNeeded + 1 \in Int
          BY <1>2 DEF Job
        <4> QED BY <1>2, <4>1, JobUpdates
      <3>2. /\ J.iStatus = j.iStatus /\ J.hContact = j.hContact /\ J.hOwnerWnd = j.hOwnerWnd
            /\ J.msg = j.msg /\ J.iSendId = j.iSendId
        BY <1>2 DEF Job
      <3> HIDE DEF J
      <3> QED BY <1>2, <2>2, <3>1, <3>2 DEF IInv, TypeOK
    <2> QED BY <1>1, <2>1, <2>2
  <1>9. strayed' \in BOOLEAN /\ (strayed => strayed') /\ (~strayed' => jobs[i].msg = m /\ ~strayed)
    BY <1>1
  <1> HIDE DEF S, J, r0
  <1>10. /\ splitter' \in [Msg -> Splitter] /\ splitter'[m] = S
         /\ \A k \in Msg : k # m => splitter'[k] = splitter[k]
    BY <1>1, <1>3 DEF IInv, TypeOK
  <1>11. \A k \in Msg : Unsplit(k)' <=> Unsplit(k)
    BY <1>1, <1>6, <1>10 DEF Unsplit
  <1>12. SplitFrame
    BY <1>1, <1>8, <1>9, <1>11 DEF SplitFrame
  <1>13. JobInv' /\ JobsDiffer' /\ UnwrittenInv' /\ WinInv' /\ SafeInv' /\ StoredWhenSent'
    BY <1>12, SplitFrameStep
  <1>14. /\ wire' \subseteq Send /\ nextId' \in 1..MaxId + 1 /\ nextId <= nextId'
         /\ \A r \in wire' : r \in wire \/ (sends /\ r = r0)
    BY <1>1, <1>2, <1>7 DEF IInv, TypeOK
  <1>15. TypeOK'
    BY <1>1, <1>8, <1>9, <1>10, <1>14 DEF IInv, TypeOK
  <1>16. SplitInv'
    BY <1>1, <1>2, <1>4, <1>5, <1>6, <1>10 DEF IInv, SplitInv
  <1>17. \A k \in Slot : jobs'[k].iSendId = jobs[k].iSendId
    BY <1>8
  <1>18. IdInv'
    <2>1. \A k \in Slot : jobs'[k].iSendId < nextId'
      BY <1>2, <1>14, <1>17 DEF IInv, TypeOK, IdInv, Job
    <2>2. \A k \in Msg : splitter'[k].id < nextId'
      BY <1>1, <1>2, <1>6, <1>10, <1>14 DEF IInv, TypeOK, IdInv, Splitter
    <2>3. \A r \in wire' : r.id < nextId'
      BY <1>1, <1>2, <1>7, <1>14 DEF IInv, TypeOK, IdInv, Send
    <2>4. ASSUME NEW r \in wire', NEW k \in Msg, r.id = splitter'[k].id PROVE r.msg = k
      <3>1. CASE r \in wire
        <4>1. r.id < nextId /\ r.id \in Int
          BY <3>1 DEF IInv, TypeOK, IdInv, Send
        <4>2. splitter'[k].id = splitter[k].id
          BY <1>2, <1>6, <1>10, <2>4, <4>1
        <4> QED BY <2>4, <3>1, <4>2 DEF IInv, IdInv
      <3>2. CASE sends /\ r = r0
        <4>1. r.id = nextId /\ r.msg = m
          BY <1>7, <3>2
        <4>2. splitter[k].id < nextId /\ splitter[k].id \in Int
          BY DEF IInv, TypeOK, IdInv, Splitter
        <4>3. ASSUME k # m PROVE FALSE
          <5>1. splitter'[k] = splitter[k] /\ nextId \in Int
            BY <1>2, <1>10, <4>3
          <5>2. splitter[k].id = nextId
            BY <2>4, <4>1, <5>1
          <5>3. ~(nextId < nextId)
            BY <5>1
          <5> QED BY <4>2, <5>2, <5>3
        <4> QED BY <4>1, <4>3
      <3> QED BY <1>14, <3>1, <3>2
    <2> QED BY <2>1, <2>2, <2>3, <2>4 DEF IdInv
  <1>19. UnstrayedInv'
    <2> SUFFICES ASSUME ~strayed', NEW k \in Slot
                 PROVE  /\ jobs'[k].hContact = None => jobs'[k].iSendId = 0
                        /\ jobs'[k].hContact # None /\ splitter'[jobs'[k].msg].phase = "none" => jobs'[k].iAcksNeeded = 1
      BY DEF UnstrayedInv, Unsplit
    <2>1. ~strayed /\ jobs[i].msg = m
      BY <1>9
    <2>2. jobs'[k].hContact = None => jobs'[k].iSendId = 0
      BY <1>8, <2>1 DEF IInv, UnstrayedInv
    <2>3. ASSUME jobs'[k].hContact # None, splitter'[jobs'[k].msg].phase = "none" PROVE jobs'[k].iAcksNeeded = 1
      <3>1. jobs'[k].msg = jobs[k].msg /\ jobs'[k].hContact = jobs[k].hContact
        BY <1>8
      <3>2. jobs[k].msg \in Msg
        BY <2>3, <3>1 DEF IInv, TypeOK, JobInv, Msg
      <3>3. Unsplit(jobs[k].msg)
        BY <1>11, <2>3, <3>1, <3>2 DEF Unsplit
      <3>4. k # i
        BY <1>1, <2>1, <3>3 DEF Unsplit
      <3> QED BY <1>8, <2>1, <2>3, <3>1, <3>3, <3>4 DEF IInv, UnstrayedInv
    <2> QED BY <2>2, <2>3
  <1>20. LateAckFindsOwnJob'
    <2> SUFFICES ASSUME ~strayed', NEW r \in wire', NEW k \in Slot,
                        jobs'[k].iSendId = r.id, jobs'[k].hContact = r.to
                 PROVE  jobs'[k].msg = r.msg
      BY DEF LateAckFindsOwnJob
    <2>1. /\ jobs'[k].msg = jobs[k].msg /\ jobs'[k].hContact = jobs[k].hContact
          /\ jobs'[k].iSendId = jobs[k].iSendId /\ jobs[k].iSendId < nextId /\ jobs[k].iSendId \in Int
      BY <1>8 DEF IInv, TypeOK, IdInv, Job
    <2>2. r # r0 \/ ~sends
      <3>1. ~(nextId < nextId)
        BY <1>2
      <3>2. ASSUME r = r0, sends PROVE FALSE
        <4>1. r0.id = nextId
          BY <1>7, <3>2
        <4>2. jobs[k].iSendId = nextId
          BY <2>1, <3>2, <4>1
        <4> QED BY <2>1, <3>1, <4>2
      <3> QED BY <3>2
    <2>3. r \in wire
      BY <1>14, <2>2
    <2> QED BY <1>9, <2>1, <2>3 DEF IInv, HistInv, LateAckFindsOwnJob
  <1> QED BY <1>13, <1>15, <1>16, <1>18, <1>19, <1>20 DEF IInv, HistInv

---------------------------------------------------------------------------
(* The counter *)

Taken == {i \in Slot : jobs[i].hContact # None}

\* The three ways in which the jobs and the counter change together.
Kept       == Taken' \subseteq Taken /\ currentIndex' = currentIndex
Added(i)   == Taken' \subseteq Taken \cup {i} /\ currentIndex' = currentIndex + 1
Removed(i) == i \in Taken /\ Taken' \subseteq Taken \ {i} /\ currentIndex' = currentIndex - 1

\* A completed job takes one off the counter.
LEMMA AckSentCount ==
  ASSUME IInv, NEW i \in Slot, jobs[i].hContact # None, AckSent(i)
  PROVE  Kept \/ Removed(i)
  <1>1. CASE LastAck(i)
    <2>1. jobs' = [jobs EXCEPT ![i] = Empty] /\ currentIndex' = currentIndex - 1
      BY <1>1 DEF AckSent, clearJob, CountedDown
    <2> QED BY <2>1, EmptyFacts DEF IInv, TypeOK, Taken, Removed
  <1>2. CASE ~LastAck(i)
    <2>1. currentIndex' = currentIndex
      BY <1>2 DEF AckSent, CountedDown
    <2>2. \A k \in Slot : jobs'[k].hContact = jobs[k].hContact
      BY <1>2 DEF AckSent, IInv, TypeOK, Job
    <2> QED BY <2>1, <2>2 DEF Taken, Kept
  <1> QED BY <1>1, <1>2

\* A step that raises the counter takes at most one more slot, one that lowers it
\* frees a slot, and no other step takes one.
LEMMA StepCount ==
  ASSUME IInv, ~mixed, Next
  PROVE  Kept \/ \E i \in Slot : Added(i) \/ Removed(i)
  <1> USE SendQueueAssumption
  <1>1. ASSUME NEW w \in Window, NEW i \in Slot, NEW m \in Msg, SendUnsplitted(w, i, m)
        PROVE  Added(i)
    BY <1>1 DEF SendUnsplitted, IInv, TypeOK, Taken, Added
  <1>2. ASSUME NEW w \in Window, NEW i \in Slot, NEW m \in Msg, SendNoAck(w, i, m) \/ SendDelayed(w, i, m)
        PROVE  Kept
    <2>1. jobs' = [jobs EXCEPT ![i] = Empty] /\ currentIndex' = currentIndex
      BY <1>2 DEF SendNoAck, SendDelayed, clearJob
    <2> QED BY <2>1, EmptyFacts DEF IInv, TypeOK, Taken, Kept
  <1>3. ASSUME NEW w \in Window, NEW i \in Slot, NEW m \in Msg, SendSplit(w, i, m)
        PROVE  Added(i)
    BY <1>3 DEF SendSplit, IInv, TypeOK, Taken, Added
  <1>4. ASSUME NEW r \in wire, NEW ok \in BOOLEAN, ProtoAck(r, ok)
        PROVE  Kept \/ \E i \in Slot : Removed(i)
    <2>1. CASE UNCHANGED <<jobs, fate, currentIndex, openJobs, curError, timers, stored>>
      BY <2>1 DEF Taken, Kept
    <2>2. ASSUME NEW i \in Matches(r), ackMessage(i, ok) PROVE Kept \/ Removed(i)
      <3>1. i \in Slot /\ jobs[i].hContact # None
        BY DEF Matches, IInv, TypeOK, Send
      <3>2. CASE AckDiscarded(i)
        <4>1. jobs' = [jobs EXCEPT ![i] = Empty] /\ currentIndex' = currentIndex
          BY <3>2 DEF AckDiscarded, clearJob
        <4> QED BY <3>1, <4>1, EmptyFacts DEF IInv, TypeOK, Taken, Kept
      <3>3. CASE AckSent(i)
        BY <3>1, <3>3, AckSentCount
      <3>4. CASE AckFailed(i)
        BY <3>4 DEF AckFailed, IInv, TypeOK, Job, Taken, Kept
      <3> QED BY <2>2, <3>2, <3>3, <3>4 DEF ackMessage
    <2>3. \A i \in Matches(r) : i \in Slot
      BY DEF Matches
    <2> QED BY <1>4, <2>1, <2>2, <2>3 DEF ProtoAck
  <1>5. ASSUME NEW w \in Window, NEW i \in Slot, SendTimeout(w, i)
        PROVE  Kept
    BY <1>5 DEF SendTimeout, IInv, TypeOK, Job, Taken, Kept
  <1>6. ASSUME NEW w \in Window, ErrorGiveUp(w)
        PROVE  \E i \in Slot : Removed(i)
    <2>1. /\ curError[w] # 0 /\ jobs' = [jobs EXCEPT ![curError[w]] = Empty]
          /\ currentIndex' = currentIndex - 1
      BY <1>6 DEF ErrorGiveUp, clearJob
    <2>2. curError[w] \in Slot /\ jobs[curError[w]].hContact # None
      BY <2>1, ShownJob
    <2>3. Removed(curError[w])
      BY <2>1, <2>2, EmptyFacts DEF IInv, TypeOK, Taken, Removed
    <2> QED BY <2>2, <2>3
  <1>7. ASSUME NEW w \in Window, ErrorRetry(w)
        PROVE  Kept
    BY <1>7 DEF ErrorRetry, Resent, IInv, TypeOK, Job, Taken, Kept
  <1>8. ASSUME NEW w \in Window, OpenWindow(w)
        PROVE  Kept
    BY <1>8 DEF OpenWindow, Taken, Kept
  <1>9. ASSUME NEW w \in Window, CloseWindow(w)
        PROVE  Kept
    <2>1. \A i \in Slot : jobs'[i].hContact \in {None, jobs[i].hContact}
      BY <1>9, EmptyFacts DEF CloseWindow, IInv, TypeOK, Job
    <2> QED BY <1>9, <2>1 DEF CloseWindow, Taken, Kept
  <1>10. ASSUME NEW i \in Slot, JobAges(i)
         PROVE  Kept
    BY <1>10 DEF JobAges, IInv, TypeOK, Job, Taken, Kept
  <1>11. ASSUME NEW m \in Msg, SplitChunk(m) \/ SplitStore(m)
         PROVE  Kept
    <2>1. \A i \in Slot : jobs'[i].hContact = jobs[i].hContact
      BY <1>11 DEF SplitChunk, SplitStore, IInv, TypeOK, Job
    <2> QED BY <1>11, <2>1 DEF SplitChunk, SplitStore, Taken, Kept
  <1>12. ASSUME NEW m \in Msg, SplitSendAck(m)
         PROVE  Kept \/ \E i \in Slot : Removed(i)
    <2>1. splitter[m].slot \in Slot
      BY <1>12 DEF SplitSendAck, IInv, SplitInv
    <2>2. CASE UNCHANGED <<jobs, fate, currentIndex, openJobs, curError, timers, stored>>
      BY <2>2 DEF Taken, Kept
    <2>3. CASE jobs[splitter[m].slot].hContact # None /\ AckSent(splitter[m].slot)
      BY <2>1, <2>3, AckSentCount
    <2> QED BY <1>12, <2>2, <2>3 DEF SplitSendAck
  <1> QED BY <1>1, <1>2, <1>3, <1>4, <1>5, <1>6, <1>7, <1>8, <1>9, <1>10, <1>11, <1>12 DEF Next

\* A slot counts as used when it has a contact.
LEMMA UsedIsTaken == JobInv /\ WinInv /\ ~mixed => {i \in Slot : Used(i)} = Taken
  BY DEF JobInv, WinInv, Used, Taken

\* Windows that have met are not parted again.
LEMMA NextMixed ==
  ASSUME Next
  PROVE  mixed => mixed'
  <1>1. ASSUME NEW w \in Window, NEW i \in Slot, NEW m \in Msg,
               \/ SendUnsplitted(w, i, m) \/ SendNoAck(w, i, m)
               \/ SendDelayed(w, i, m) \/ SendSplit(w, i, m)
        PROVE  mixed' = mixed
    BY <1>1 DEF SendUnsplitted, SendNoAck, SendDelayed, SendSplit
  <1>2. ASSUME NEW r \in wire, NEW ok \in BOOLEAN, ProtoAck(r, ok) PROVE mixed' = mixed
    BY <1>2 DEF ProtoAck
  <1>3. ASSUME NEW w \in Window,
               \/ \E i \in Slot : SendTimeout(w, i)
               \/ ErrorGiveUp(w) \/ ErrorRetry(w) \/ CloseWindow(w)
        PROVE  mixed' = mixed
    BY <1>3 DEF SendTimeout, ErrorGiveUp, ErrorRetry, CloseWindow
  <1>4. ASSUME NEW w \in Window, OpenWindow(w) PROVE mixed => mixed'
    BY <1>4 DEF OpenWindow
  <1>5. ASSUME NEW i \in Slot, JobAges(i) PROVE mixed' = mixed
    BY <1>5 DEF JobAges
  <1>6. ASSUME NEW m \in Msg, SplitChunk(m) \/ SplitStore(m) \/ SplitSendAck(m)
        PROVE  mixed' = mixed
    BY <1>6 DEF SplitChunk, SplitStore, SplitSendAck
  <1> QED BY <1>1, <1>2, <1>3, <1>4, <1>5, <1>6 DEF Next

\* The counter stays at least the number of slots in use.
LEMMA CountStep ==
  ASSUME IInv, IInv', CounterCoversJobs, Next
  PROVE  CounterCoversJobs'
  <1> USE SendQueueAssumption
  <1> SUFFICES ASSUME ~mixed, ~mixed' PROVE CounterCoversJobs'
    <2>1. mixed => mixed'
      BY NextMixed
    <2> QED BY <2>1 DEF CounterCoversJobs
  <1>0. {i \in Slot : Used(i)}' = Taken'
    BY DEF IInv, JobInv, WinInv, Used, Taken
  <1>1. IsFiniteSet(Slot)
    BY FS_Interval DEF Slot
  <1>2. Taken \subseteq Slot /\ Taken' \subseteq Slot
    BY DEF Taken
  <1>3. IsFiniteSet(Taken) /\ Cardinality(Taken) \in Nat
    BY <1>1, <1>2, FS_Subset, FS_CardinalityType
  <1>4. Cardinality(Taken) <= currentIndex /\ currentIndex \in Int
    BY UsedIsTaken DEF CounterCoversJobs, IInv, TypeOK
  <1>5. CASE Kept
    <2>1. Cardinality(Taken') <= Cardinality(Taken) /\ Cardinality(Taken') \in Nat
      BY <1>3, <1>5, FS_Subset, FS_CardinalityType DEF Kept
    <2>2. Cardinality(Taken') <= currentIndex'
      BY <1>3, <1>4, <1>5, <2>1 DEF Kept
    <2> QED BY <1>0, <2>2 DEF CounterCoversJobs
  <1>6. ASSUME NEW i \in Slot, Added(i) PROVE CounterCoversJobs'
    <2>1. IsFiniteSet(Taken \cup {i}) /\ Cardinality(Taken \cup {i}) <= Cardinality(Taken) + 1
          /\ Cardinality(Taken \cup {i}) \in Nat
      <3>1. /\ IsFiniteSet(Taken \cup {i})
            /\ \/ Cardinality(Taken \cup {i}) = Cardinality(Taken)
               \/ Cardinality(Taken \cup {i}) = Cardinality(Taken) + 1
        BY <1>3, FS_AddElement
      <3> QED BY <1>3, <3>1
    <2>2. Cardinality(Taken') <= Cardinality(Taken \cup {i}) /\ Cardinality(Taken') \in Nat
      BY <1>6, <2>1, FS_Subset, FS_CardinalityType DEF Added
    <2>3. Cardinality(Taken') <= currentIndex'
      BY <1>3, <1>4, <1>6, <2>1, <2>2 DEF Added
    <2> QED BY <1>0, <2>3 DEF CounterCoversJobs
  <1>7. ASSUME NEW i \in Slot, Removed(i) PROVE CounterCoversJobs'
    <2>1. IsFiniteSet(Taken \ {i}) /\ Cardinality(Taken \ {i}) = Cardinality(Taken) - 1
          /\ Cardinality(Taken \ {i}) \in Nat
      BY <1>3, <1>7, FS_RemoveElement, FS_CardinalityType DEF Removed
    <2>2. Cardinality(Taken') <= Cardinality(Taken \ {i}) /\ Cardinality(Taken') \in Nat
      BY <1>7, <2>1, FS_Subset, FS_CardinalityType DEF Removed
    <2>3. Cardinality(Taken') <= currentIndex'
      BY <1>3, <1>4, <1>7, <2>1, <2>2 DEF Removed
    <2> QED BY <1>0, <2>3 DEF CounterCoversJobs
  <1> QED BY <1>5, <1>6, <1>7, StepCount

---------------------------------------------------------------------------
(* The theorems *)

\* Every step keeps the invariant.
LEMMA NextIInv == IInv /\ [Next]_vars => IInv'
  <1> SUFFICES ASSUME IInv, [Next]_vars PROVE IInv'
    OBVIOUS
  <1>1. ASSUME NEW w \in Window, NEW i \in Slot, NEW m \in Msg,
               \/ SendUnsplitted(w, i, m) \/ SendNoAck(w, i, m)
               \/ SendDelayed(w, i, m) \/ SendSplit(w, i, m)
        PROVE  IInv'
    BY <1>1, SendUnsplittedStep, SendNoAckStep, SendDelayedStep, SendSplitStep
  <1>2. ASSUME NEW r \in wire, NEW ok \in BOOLEAN, ProtoAck(r, ok) PROVE IInv'
    BY <1>2, ProtoAckStep
  <1>3. ASSUME NEW w \in Window, NEW i \in Slot, SendTimeout(w, i) PROVE IInv'
    BY <1>3, SendTimeoutStep
  <1>4. ASSUME NEW w \in Window,
               ErrorGiveUp(w) \/ ErrorRetry(w) \/ OpenWindow(w) \/ CloseWindow(w)
        PROVE  IInv'
    BY <1>4, ErrorGiveUpStep, ErrorRetryStep, OpenWindowStep, CloseWindowStep
  <1>5. ASSUME NEW i \in Slot, JobAges(i) PROVE IInv'
    BY <1>5, JobAgesStep
  <1>6. ASSUME NEW m \in Msg, SplitChunk(m) \/ SplitStore(m) \/ SplitSendAck(m) PROVE IInv'
    BY <1>6, SplitChunkStep, SplitStoreStep, SplitSendAckStep
  <1>7. CASE UNCHANGED vars
    BY <1>7 DEF vars, IInv, TypeOK, JobInv, JobsDiffer, SplitInv, IdInv, UnstrayedInv,
      UnwrittenInv, WinInv, SafeInv, TimerOnOwnJob, ErrorNamesOwnFailure, FailureShown, HistInv,
      LateAckFindsOwnJob, StoredWhenSent, Unsplit
  <1> QED BY <1>1, <1>2, <1>3, <1>4, <1>5, <1>6, <1>7 DEF Next

\* The inductive invariant of the queue, its windows and its splitting threads.
THEOREM SendQueueInvariant == Spec => []IInv
  BY InitIInv, NextIInv, PTL DEF Spec

\* Everything keeps its type: ids, chunks and shown errors stay in range.
THEOREM SendQueueTypes == Spec => []TypeOK
  <1>1. IInv => TypeOK
    BY DEF IInv
  <1> QED BY <1>1, SendQueueInvariant, PTL

\* WM_TIMER of a window finds a job of that window in progress, as long as no
\* metacontact's window has met its subcontact's.
THEOREM TimeoutsHitTheirJob == Spec => []TimerOnOwnJob
  <1>1. IInv => TimerOnOwnJob
    BY DEF IInv, SafeInv
  <1> QED BY <1>1, SendQueueInvariant, PTL

\* Retry, Cancel and Send later act on a failed job of the window they belong to,
\* under the same condition.
THEOREM ErrorsAreOwn == Spec => []ErrorNamesOwnFailure
  <1>1. IInv => ErrorNamesOwnFailure
    BY DEF IInv, SafeInv
  <1> QED BY <1>1, SendQueueInvariant, PTL

\* A window without an error bar has no failed message of its own contact, under
\* the same condition.
THEOREM FailuresAreShown == Spec => []FailureShown
  <1>1. IInv => FailureShown
    BY DEF IInv, SafeInv
  <1> QED BY <1>1, SendQueueInvariant, PTL

\* While no splitting thread has used a slot that is no longer its own, a late
\* answer that ProtoAck matches with a slot is about the message there, whatever
\* windows are open side by side.
THEOREM LateAcksAreHarmless == Spec => []LateAckFindsOwnJob
  <1>1. IInv => LateAckFindsOwnJob
    BY DEF IInv, HistInv
  <1> QED BY <1>1, SendQueueInvariant, PTL

\* Under the same condition a message in one piece is in the history once if its
\* job was completed and not at all otherwise.
THEOREM HistoryIsExact == Spec => []StoredWhenSent
  <1>1. IInv => StoredWhenSent
    BY DEF IInv, HistInv
  <1> QED BY <1>1, SendQueueInvariant, PTL

\* m_currentIndex is at least the number of slots in use, as long as no
\* metacontact's window has met its subcontact's.
THEOREM CounterIsEnough == Spec => []CounterCoversJobs
  <1>1. Init => CounterCoversJobs
    <2> SUFFICES ASSUME Init PROVE CounterCoversJobs
      OBVIOUS
    <2>1. \A i \in Slot : ~Used(i)
      BY EmptyFacts DEF Init, Used
    <2>2. {i \in Slot : Used(i)} = {}
      BY <2>1
    <2>3. currentIndex = 0 /\ Cardinality({}) = 0
      BY FS_EmptySet DEF Init
    <2> QED BY <2>2, <2>3 DEF CounterCoversJobs
  <1>2. IInv /\ IInv' /\ CounterCoversJobs /\ [Next]_vars => CounterCoversJobs'
    <2>1. CASE Next
      BY <2>1, CountStep
    <2>2. CASE UNCHANGED vars
      BY <2>2 DEF vars, CounterCoversJobs, Used
    <2> QED BY <2>1, <2>2
  <1> QED BY <1>1, <1>2, SendQueueInvariant, PTL DEF Spec

---------------------------------------------------------------------------
(* Every wait has its timer *)

\* The job in slot i waits for one answer, and its window waits with it.
Waits(i) ==
  jobs[i].hOwnerWnd # None /\ jobs[i].iStatus = SQ_INPROGRESS /\ ~jobs[i].chunked

AllTimed == \A i \in Slot : Waits(i) => <<jobs[i].hOwnerWnd, i>> \in timers

\* The timer of the window that will end the wait is running, until a window
\* meets its metacontact's and may retry its jobs.  SendTimeout asks for nothing
\* else, so it stays enabled until the job is answered or let go.
WaitingIsTimed == ~mixed => AllTimed

\* A step that concerns one slot has to look after that slot only.
LEMMA OneSlotTimed ==
  ASSUME AllTimed, NEW i \in Slot,
         \A k \in Slot : k # i => jobs'[k] = jobs[k],
         \A t \in timers : t[2] # i => t \in timers',
         Waits(i)' => <<jobs'[i].hOwnerWnd, i>> \in timers'
  PROVE  AllTimed'
  <1> SUFFICES ASSUME NEW k \in Slot, k # i, Waits(k)'
               PROVE  <<jobs'[k].hOwnerWnd, k>> \in timers'
    BY DEF AllTimed
  <1>1. Waits(k) /\ jobs'[k] = jobs[k]
    BY DEF Waits
  <1>2. <<jobs[k].hOwnerWnd, k>> \in timers
    BY <1>1 DEF AllTimed
  <1> QED BY <1>1, <1>2

\* ... and one that changes no job of a window must leave the timers alone.
LEMMA SameTimed ==
  ASSUME AllTimed, UNCHANGED timers,
         \A k \in Slot : Waits(k)' => Waits(k) /\ jobs'[k].hOwnerWnd = jobs[k].hOwnerWnd
  PROVE  AllTimed'
  BY DEF AllTimed

\* Sending: the slot had no owner, and only the usual mode waits.
LEMMA SendTimed ==
  ASSUME IInv, AllTimed, NEW w \in Window, NEW i \in Slot, NEW m \in Msg,
         \/ SendUnsplitted(w, i, m) \/ SendNoAck(w, i, m)
         \/ SendDelayed(w, i, m) \/ SendSplit(w, i, m)
  PROVE  AllTimed'
  <1>1. jobs \in [Slot -> Job]
    BY DEF IInv, TypeOK
  <1>2. CASE SendUnsplitted(w, i, m)
    <2>1. /\ \A k \in Slot : k # i => jobs'[k] = jobs[k]
          /\ jobs'[i].hOwnerWnd = w
          /\ timers' = timers \cup {<<w, i>>}
      BY <1>1, <1>2 DEF SendUnsplitted, SetTimer
    <2> QED BY <2>1, OneSlotTimed
  <1>3. CASE SendNoAck(w, i, m) \/ SendDelayed(w, i, m)
    <2>1. UNCHANGED timers /\ jobs' = [jobs EXCEPT ![i] = Empty]
      BY <1>3 DEF SendNoAck, SendDelayed, clearJob
    <2>2. Empty.hOwnerWnd = None
      BY DEF Empty
    <2> QED BY <1>1, <2>1, <2>2, OneSlotTimed DEF Waits
  <1>4. CASE SendSplit(w, i, m)
    <2>1. /\ UNCHANGED timers
          /\ \A k \in Slot : k # i => jobs'[k] = jobs[k]
          /\ jobs'[i].chunked = TRUE
      BY <1>1, <1>4 DEF SendSplit
    <2> QED BY <2>1, OneSlotTimed DEF Waits
  <1> QED BY <1>2, <1>3, <1>4

\* An acknowledgement ends the wait, or leaves the job and its timer.
LEMMA AckTimed ==
  ASSUME IInv, AllTimed, NEW i \in Slot,
         AckDiscarded(i) \/ AckFailed(i) \/ AckSent(i)
  PROVE  AllTimed'
  <1>1. jobs \in [Slot -> Job] /\ Empty.hOwnerWnd = None
    BY DEF IInv, TypeOK, Empty
  <1>2. \A k \in Slot : k # i => jobs'[k] = jobs[k]
    BY <1>1 DEF AckDiscarded, AckFailed, AckSent, clearJob
  <1>3. \A t \in timers : t[2] # i => t \in timers'
    BY DEF AckDiscarded, AckFailed, AckSent, KillTimer
  <1>4. Waits(i)' => Waits(i) /\ jobs'[i].hOwnerWnd = jobs[i].hOwnerWnd /\ UNCHANGED timers
    <2>1. jobs[i] \in Job
      BY <1>1
    <2>2. CASE AckDiscarded(i)
      BY <1>1, <2>2 DEF AckDiscarded, clearJob, Waits
    <2>3. CASE AckFailed(i)
      BY <1>1, <2>1, <2>3 DEF AckFailed, Waits, Job, SQ_ERROR, SQ_INPROGRESS
    <2>4. CASE AckSent(i)
      BY <1>1, <2>1, <2>4 DEF AckSent, clearJob, Waits, Job
    <2> QED BY <2>2, <2>3, <2>4
  <1>5. Waits(i)' => <<jobs'[i].hOwnerWnd, i>> \in timers'
    BY <1>4 DEF AllTimed
  <1> QED BY <1>2, <1>3, <1>5, OneSlotTimed

\* Timeouts, the user's answers to an error, and windows that open and close.
LEMMA WindowTimed ==
  ASSUME IInv, AllTimed, ~mixed, NEW w \in Window,
         \/ \E i \in Slot : SendTimeout(w, i)
         \/ ErrorGiveUp(w) \/ ErrorRetry(w) \/ OpenWindow(w) \/ CloseWindow(w)
  PROVE  AllTimed'
  <1>1. jobs \in [Slot -> Job] /\ Empty.hOwnerWnd = None
    BY DEF IInv, TypeOK, Empty
  <1>2. CASE \E i \in Slot : SendTimeout(w, i)
    <2>1. PICK i \in Slot : SendTimeout(w, i)
      BY <1>2
    <2>2. /\ \A k \in Slot : k # i => jobs'[k] = jobs[k]
          /\ jobs'[i].iStatus = SQ_ERROR
          /\ timers' = timers \ {<<w, i>>}
      BY <1>1, <2>1 DEF SendTimeout, KillTimer, Job
    <2>3. ~Waits(i)'
      BY <2>2 DEF Waits, SQ_ERROR, SQ_INPROGRESS
    <2>4. \A t \in timers : t[2] # i => t \in timers'
      BY <2>2
    <2> QED BY <2>2, <2>3, <2>4, OneSlotTimed
  <1>3. CASE ErrorGiveUp(w)
    <2>1. PICK i \in Slot : i = curError[w]
      BY <1>3, ShownJob DEF ErrorGiveUp
    <2>2. jobs' = [jobs EXCEPT ![i] = Empty] /\ UNCHANGED timers
      BY <1>3, <2>1 DEF ErrorGiveUp, clearJob
    <2> QED BY <1>1, <2>2, OneSlotTimed DEF Waits
  <1>4. CASE ErrorRetry(w)
    <2>1. PICK i \in Slot : i = curError[w] /\ jobs[i].hOwnerWnd = w
      BY <1>4, ShownJob DEF ErrorRetry
    <2>2. jobs' = [jobs EXCEPT ![i].iStatus = SQ_INPROGRESS, ![i].iSendId = nextId]
          /\ timers' = timers \cup {<<w, i>>}
      BY <1>4, <2>1 DEF ErrorRetry, Resent, SetTimer
    <2>3. jobs'[i].hOwnerWnd = w /\ \A k \in Slot : k # i => jobs'[k] = jobs[k]
      BY <1>1, <2>1, <2>2 DEF Job
    <2>4. /\ \A t \in timers : t[2] # i => t \in timers'
          /\ <<jobs'[i].hOwnerWnd, i>> \in timers'
      BY <2>2, <2>3
    <2> QED BY <2>3, <2>4, OneSlotTimed
  <1>5. CASE OpenWindow(w)
    <2>1. UNCHANGED <<jobs, timers>>
      BY <1>5 DEF OpenWindow
    <2> QED BY <2>1, SameTimed DEF Waits
  <1>6. CASE CloseWindow(w)
    <2> SUFFICES ASSUME NEW k \in Slot, Waits(k)'
                 PROVE  <<jobs'[k].hOwnerWnd, k>> \in timers'
      BY DEF AllTimed
    <2>1. jobs'[k] = IF k \in Destroyed(w) THEN Empty
                     ELSE IF jobs[k].hOwnerWnd = w
                             \/ (jobs[k].hContact = w /\ jobs[k].iStatus = SQ_INPROGRESS)
                          THEN [jobs[k] EXCEPT !.hOwnerWnd = None] ELSE jobs[k]
      BY <1>6 DEF CloseWindow
    <2>2. jobs[k] \in Job
      BY <1>1
    <2>3. jobs'[k] = jobs[k] /\ jobs[k].hOwnerWnd # w
      BY <1>1, <2>1, <2>2 DEF Waits, Job
    <2>4. <<jobs[k].hOwnerWnd, k>> \in timers
      BY <2>3 DEF AllTimed, Waits
    <2>5. timers' = {t \in timers : t[1] # w}
      BY <1>6 DEF CloseWindow
    <2> QED BY <2>3, <2>4, <2>5
  <1> QED BY <1>2, <1>3, <1>4, <1>5, <1>6

\* A splitting thread may change the id and the count of any slot; it starts
\* no wait.
LEMMA SplitTimed ==
  ASSUME IInv, AllTimed, NEW m \in Msg,
         SplitChunk(m) \/ SplitStore(m) \/ SplitSendAck(m)
  PROVE  AllTimed'
  <1>1. jobs \in [Slot -> Job]
    BY DEF IInv, TypeOK
  <1>2. PICK i \in Slot : i = splitter[m].slot
    BY DEF SplitChunk, SplitStore, SplitSendAck, IInv, SplitInv
  <1>3. CASE SplitChunk(m) \/ SplitStore(m)
    <2>1. /\ UNCHANGED timers
          /\ \/ jobs' = jobs
             \/ \E n : jobs' = [jobs EXCEPT ![i].iAcksNeeded = n]
             \/ \E n : jobs' = [jobs EXCEPT ![i].iSendId = n]
      BY <1>2, <1>3 DEF SplitChunk, SplitStore
    <2>2. \A k \in Slot : /\ jobs'[k].hOwnerWnd = jobs[k].hOwnerWnd
                          /\ jobs'[k].iStatus = jobs[k].iStatus
                          /\ jobs'[k].chunked = jobs[k].chunked
      BY <1>1, <2>1 DEF Job
    <2> QED BY <2>1, <2>2, SameTimed DEF Waits
  <1>4. CASE SplitSendAck(m)
    <2>1. AckSent(i) \/ UNCHANGED <<jobs, timers>>
      BY <1>2, <1>4 DEF SplitSendAck
    <2>2. CASE UNCHANGED <<jobs, timers>>
      BY <2>2, SameTimed DEF Waits
    <2> QED BY <2>1, <2>2, AckTimed
  <1> QED BY <1>3, <1>4

\* Every step keeps a timer for every wait.
LEMMA TimedStep == IInv /\ WaitingIsTimed /\ [Next]_vars => WaitingIsTimed'
  <1>0. (UNCHANGED vars \/ Next) => (mixed => mixed')
    BY NextMixed DEF vars
  <1> SUFFICES ASSUME IInv, AllTimed, ~mixed, [Next]_vars PROVE AllTimed'
    BY <1>0 DEF WaitingIsTimed
  <1>1. CASE UNCHANGED vars
    BY <1>1, SameTimed DEF vars, Waits
  <1>2. ASSUME NEW i \in Slot, JobAges(i) PROVE AllTimed'
    <2>1. jobs \in [Slot -> Job] /\ UNCHANGED timers
          /\ jobs' = [jobs EXCEPT ![i].old = TRUE]
      BY <1>2 DEF JobAges, IInv, TypeOK
    <2>2. \A k \in Slot : /\ jobs'[k].hOwnerWnd = jobs[k].hOwnerWnd
                          /\ jobs'[k].iStatus = jobs[k].iStatus
                          /\ jobs'[k].chunked = jobs[k].chunked
      BY <2>1 DEF Job
    <2> QED BY <2>1, <2>2, SameTimed DEF Waits
  <1>3. ASSUME NEW r \in wire, NEW ok \in BOOLEAN, ProtoAck(r, ok) PROVE AllTimed'
    <2>1. \/ UNCHANGED <<jobs, timers>>
          \/ \E i \in Slot : AckDiscarded(i) \/ AckFailed(i) \/ AckSent(i)
      BY <1>3 DEF ProtoAck, Matches, ackMessage
    <2>2. CASE UNCHANGED <<jobs, timers>>
      BY <2>2, SameTimed DEF Waits
    <2> QED BY <2>1, <2>2, AckTimed
  <1> QED BY <1>1, <1>2, <1>3, SendTimed, WindowTimed, SplitTimed DEF Next

\* A message sent in one piece that a window waits for has that window's timer
\* running, whatever was answered, retried, closed or sent in pieces meanwhile:
\* the part of NoEndlessWait that is not a matter of fairness, under its condition.
THEOREM EveryWaitIsTimed == Spec => []WaitingIsTimed
  <1>1. Init => WaitingIsTimed
    <2> SUFFICES ASSUME Init, NEW i \in Slot PROVE ~Waits(i)
      BY DEF WaitingIsTimed, AllTimed
    <2>1. jobs[i] = Empty
      BY DEF Init
    <2> QED BY <2>1 DEF Waits, Empty
  <1> QED BY <1>1, TimedStep, SendQueueInvariant, PTL DEF Spec

---------------------------------------------------------------------------
(* The queue implements Outbox *)

\* Every message up to the last one has been written.
WrittenInv == \A m \in Msg : m <= lastMsg => fate[m] # "unwritten"

\* A job that is thrown away held a message that was queued, or none.
LEMMA DropFacts ==
  ASSUME IInv, NEW i \in Slot, NEW f
  PROVE  /\ jobs[i].msg = 0 => Drop(i, f) = fate
         /\ jobs[i].msg # 0 => /\ jobs[i].msg \in Msg
                               /\ jobs[i].msg \in Out!Queued
                               /\ Drop(i, f) = Out!Become({jobs[i].msg}, f)
         /\ jobs[i].hContact # None => jobs[i].msg # 0
  <1> USE SendQueueAssumption
  <1>1. jobs[i].msg # 0 => jobs[i].msg \in Msg /\ fate[jobs[i].msg] = "queued"
    <2>1. jobs[i].msg # 0 => jobs[i].msg \in 1..lastMsg /\ fate[jobs[i].msg] = "queued"
      BY DEF IInv, JobInv
    <2>2. lastMsg \in 0..MaxMsg
      BY DEF IInv, TypeOK
    <2> QED BY <2>1, <2>2 DEF Msg
  <1>2. jobs[i].msg # 0 => Drop(i, f) = Out!Become({jobs[i].msg}, f)
    BY <1>1 DEF Drop, Out!Become, IInv, TypeOK
  <1>3. jobs[i].hContact # None => jobs[i].msg # 0
    BY DEF IInv, JobInv
  <1> QED BY <1>1, <1>2, <1>3 DEF Drop, Out!Queued

\* The common part of all modes of sending.
LEMMA WriteRefines ==
  ASSUME IInv, WrittenInv, NEW w \in Window, NEW i \in Slot, NEW m \in Msg,
         NEW f \in {"queued", "delayed", "sent"}, Written(w, i, m, f),
         stored' = IF f = "sent" THEN [stored EXCEPT ![m] = @ + 1] ELSE stored,
         \/ f # "sent" /\ wire' = wire
         \/ f # "delayed" /\ \E r \in Send : r.msg = m /\ wire' = wire \cup {r},
         LooseSeen' \in {LooseSeen, LooseSeen \cup {m}}
  PROVE  Out!Next
  <1> USE SendQueueAssumption
  <1>1. m = lastMsg + 1 /\ fate' = [Drop(i, "recycled") EXCEPT ![m] = f]
    BY DEF Written
  <1>2. fate[m] = "unwritten" /\ \A k \in Msg : k < m => fate[k] # "unwritten"
    BY <1>1 DEF IInv, TypeOK, UnwrittenInv, WrittenInv, Msg
  <1>3. \/ fate' = [fate EXCEPT ![m] = f]
        \/ \E k \in Out!Queued : fate' = [Out!Become({k}, "recycled") EXCEPT ![m] = f]
    BY <1>1, DropFacts
  <1>4. Out!Write(m, f)
    BY <1>2, <1>3 DEF Out!Write
  <1> QED BY <1>4 DEF Out!Next

\* All modes of sending are a Write of the outbox.
LEMMA SendRefines ==
  ASSUME IInv, WrittenInv, NEW w \in Window, NEW i \in Slot, NEW m \in Msg,
         \/ SendUnsplitted(w, i, m) \/ SendNoAck(w, i, m)
         \/ SendDelayed(w, i, m) \/ SendSplit(w, i, m)
  PROVE  Out!Next
  <1> USE SendQueueAssumption
  <1> DEFINE r0 == [id |-> nextId, msg |-> m, to |-> ActiveContact[w]]
  <1>1. nextId <= MaxId => r0 \in Send /\ r0.msg = m
    BY DEF Send, IInv, TypeOK
  <1> HIDE DEF r0
  <1>2. UNCHANGED <<splitter, strayed>> => LooseSeen' = LooseSeen
    BY DEF LooseSeen, Unsplit
  <1>3. CASE SendUnsplitted(w, i, m)
    <2>1. /\ Written(w, i, m, "queued") /\ nextId <= MaxId /\ wire' = wire \cup {r0}
          /\ UNCHANGED <<splitter, strayed, stored>>
      BY <1>3 DEF SendUnsplitted, r0
    <2> QED BY <1>1, <1>2, <2>1, WriteRefines
  <1>4. CASE SendNoAck(w, i, m)
    <2>1. /\ Written(w, i, m, "sent") /\ nextId <= MaxId /\ wire' = wire \cup {r0}
          /\ stored' = [stored EXCEPT ![m] = @ + 1]
          /\ UNCHANGED <<splitter, strayed>>
      BY <1>4 DEF SendNoAck, r0
    <2> QED BY <1>1, <1>2, <2>1, WriteRefines
  <1>5. CASE SendDelayed(w, i, m)
    <2>1. Written(w, i, m, "delayed") /\ UNCHANGED <<wire, splitter, strayed, stored>>
      BY <1>5 DEF SendDelayed
    <2> QED BY <1>2, <2>1, WriteRefines
  <1>6. CASE SendSplit(w, i, m)
    <2> DEFINE s == [phase |-> "send", slot |-> i, chunk |-> 0, id |-> 0]
    <2>1. /\ Written(w, i, m, "queued") /\ UNCHANGED <<wire, strayed, stored>>
          /\ splitter' = [splitter EXCEPT ![m] = s] /\ s.phase # "none"
      BY <1>6 DEF SendSplit
    <2> HIDE DEF s
    <2>2. LooseSeen' = LooseSeen \cup {m}
      BY <2>1 DEF LooseSeen, Unsplit, IInv, TypeOK
    <2> QED BY <2>1, <2>2, WriteRefines
  <1> QED BY <1>3, <1>4, <1>5, <1>6

\* A completed acknowledgement stores the message of the slot; it ends the job
\* of a message in one piece.
LEMMA AckSentRefines ==
  ASSUME IInv, NEW i \in Slot, jobs[i].hContact # None, AckSent(i),
         LooseSeen \subseteq LooseSeen', strayed' => LooseSeen' = Msg
  PROVE  Out!Stored(jobs[i].msg)
  <1> USE SendQueueAssumption
  <1>1. jobs[i].msg \in Msg /\ jobs[i].msg \in Out!Queued
    BY DropFacts
  <1>2. stored' = [stored EXCEPT ![jobs[i].msg] = @ + 1]
    BY DEF AckSent
  <1>3. CASE LastAck(i)
    <2>1. fate' = Out!Become({jobs[i].msg}, "sent")
      BY <1>3, DropFacts DEF AckSent
    <2> QED BY <1>1, <1>2, <2>1 DEF Out!Stored
  <1>4. CASE ~LastAck(i)
    <2>1. fate' = fate
      BY <1>4 DEF AckSent
    <2>2. jobs[i].msg \in LooseSeen
      BY <1>1, <1>4 DEF LooseSeen, LastAck, IInv, UnstrayedInv
    <2> QED BY <1>1, <1>2, <2>1, <2>2 DEF Out!Stored
  <1> QED BY <1>3, <1>4

\* An answer of a protocol counts for the message it is about.
LEMMA ProtoAckRefines ==
  ASSUME IInv, NEW r \in wire, NEW ok \in BOOLEAN, ProtoAck(r, ok)
  PROVE  Out!Next
  <1> USE SendQueueAssumption
  <1>1. wire' = wire \ {r} /\ UNCHANGED <<splitter, strayed>>
    BY DEF ProtoAck
  <1>2. UNCHANGED LooseSeen
    BY <1>1 DEF LooseSeen, Unsplit
  <1>3. r \in Send /\ r.to # None /\ r.msg \in Msg
    BY DEF IInv, TypeOK, Send
  <1>4. CASE UNCHANGED <<fate, stored>>
    <2>1. Out!Answer(r)
      BY <1>1, <1>2, <1>4 DEF Out!Answer
    <2> QED BY <2>1 DEF Out!Next
  <1>5. ASSUME NEW i \in Matches(r), ackMessage(i, ok)
        PROVE  Out!Next
    <2>1. i \in Slot /\ jobs[i].hContact # None /\ jobs[i].iSendId = r.id
          /\ jobs[i].hContact = r.to
      BY <1>3, <1>5 DEF Matches
    <2>2. jobs[i].msg \in Msg /\ jobs[i].msg \in Out!Queued
      BY <2>1, DropFacts
    <2>3. jobs[i].msg \in IF r.msg \in LooseSeen THEN LooseSeen ELSE {r.msg}
      <3>1. CASE strayed
        BY <1>3, <2>2, <3>1 DEF LooseSeen
      <3>2. CASE ~strayed
        BY <2>1, <3>2 DEF IInv, HistInv, LateAckFindsOwnJob
      <3> QED BY <3>1, <3>2
    <2>4. CASE AckDiscarded(i)
      <3>1. fate' = Out!Become({jobs[i].msg}, "discarded") /\ UNCHANGED stored
        BY <2>1, <2>4, DropFacts DEF AckDiscarded
      <3>2. Out!Answer(r)
        BY <1>1, <1>2, <2>2, <2>3, <3>1 DEF Out!Answer
      <3> QED BY <3>2 DEF Out!Next
    <2>5. CASE AckSent(i)
      <3>1. LooseSeen \subseteq LooseSeen' /\ (strayed' => LooseSeen' = Msg)
        BY <1>1, <1>2 DEF LooseSeen
      <3>2. Out!Stored(jobs[i].msg)
        BY <2>1, <2>5, <3>1, AckSentRefines
      <3>3. Out!Answer(r)
        BY <1>1, <1>2, <2>3, <3>2 DEF Out!Answer
      <3> QED BY <3>3 DEF Out!Next
    <2>6. CASE AckFailed(i)
      BY <1>4, <2>6 DEF AckFailed
    <2> QED BY <1>5, <2>4, <2>5, <2>6 DEF ackMessage
  <1> QED BY <1>4, <1>5 DEF ProtoAck

\* Timeouts, errors and windows: what the user gives up was still queued.
LEMMA WindowRefines ==
  ASSUME IInv, NEW w \in Window,
         \/ \E i \in Slot : SendTimeout(w, i)
         \/ ErrorGiveUp(w) \/ ErrorRetry(w) \/ OpenWindow(w) \/ CloseWindow(w)
  PROVE  Out!Next \/ UNCHANGED Out!vars
  <1> USE SendQueueAssumption
  <1>1. UNCHANGED LooseSeen
    <2>1. UNCHANGED <<splitter, strayed>>
      BY DEF SendTimeout, ErrorGiveUp, ErrorRetry, OpenWindow, CloseWindow
    <2> QED BY <2>1 DEF LooseSeen, Unsplit
  <1>2. CASE (\E i \in Slot : SendTimeout(w, i)) \/ OpenWindow(w)
    BY <1>1, <1>2 DEF SendTimeout, OpenWindow, Out!vars
  <1>3. CASE ErrorGiveUp(w)
    <2>1. curError[w] # 0 /\ fate' = Drop(curError[w], "cancelled") /\ UNCHANGED <<stored, wire>>
      BY <1>3 DEF ErrorGiveUp
    <2>2. curError[w] \in Slot
      BY <2>1, ShownSlot
    <2>3. CASE jobs[curError[w]].msg = 0
      <3>1. fate' = fate
        BY <2>1, <2>2, <2>3, DropFacts
      <3> QED BY <1>1, <2>1, <3>1 DEF Out!vars
    <2>4. CASE jobs[curError[w]].msg # 0
      <3>1. \E m \in Out!Queued : m \in Msg /\ fate' = Out!Become({m}, "cancelled")
        BY <2>1, <2>2, <2>4, DropFacts
      <3>2. \E m \in Msg : Out!GiveUp({m}, "cancelled")
        BY <1>1, <2>1, <3>1 DEF Out!GiveUp
      <3> QED BY <3>2 DEF Out!Next
    <2> QED BY <2>3, <2>4
  <1>4. CASE ErrorRetry(w)
    <2> DEFINE i == curError[w]
               r0 == [id |-> nextId, msg |-> jobs[i].msg, to |-> jobs[i].hContact]
    <2>0. CASE jobs[i].hContact = None
      <3>1. UNCHANGED <<fate, stored, wire>>
        BY <1>4, <2>0 DEF ErrorRetry
      <3> QED BY <1>1, <3>1 DEF Out!vars
    <2> SUFFICES ASSUME jobs[i].hContact # None PROVE Out!Next
      BY <2>0
    <2>1. i # 0 /\ nextId <= MaxId /\ wire' = wire \cup {r0} /\ UNCHANGED <<fate, stored>>
      BY <1>4 DEF ErrorRetry
    <2>2. i \in Slot /\ jobs[i].hContact # None
      BY <2>1, ShownSlot
    <2>3. jobs[i].msg \in Msg /\ jobs[i].msg \in Out!Queued
      BY <2>2, DropFacts
    <2>4. r0 \in Send /\ r0.msg = jobs[i].msg
      <3>1. jobs[i].hContact \in Contact /\ nextId \in 1..MaxId
        BY <2>1, <2>2 DEF IInv, TypeOK, Job
      <3> QED BY <2>3, <3>1 DEF Send
    <2> HIDE DEF i, r0
    <2>5. Out!Resend(jobs[i].msg)
      BY <1>1, <2>1, <2>3, <2>4 DEF Out!Resend
    <2> QED BY <2>3, <2>5 DEF Out!Next
  <1>5. CASE CloseWindow(w)
    <2> DEFINE D == {m \in Msg : \E i \in Destroyed(w) : jobs[i].msg = m}
    <2>1. /\ fate' = [m \in Msg |-> IF \E i \in Destroyed(w) : jobs[i].msg = m
                                    THEN "closed" ELSE fate[m]]
          /\ UNCHANGED <<stored, wire>>
      BY <1>5 DEF CloseWindow
    <2>2. fate' = Out!Become(D, "closed")
      BY <2>1 DEF Out!Become
    <2>3. \A i \in Destroyed(w) : i \in Slot /\ jobs[i].hContact # None
      BY DEF Destroyed
    <2>4. D \subseteq Out!Queued /\ D \in SUBSET Msg
      BY <2>3, DropFacts
    <2> HIDE DEF D
    <2>5. Out!GiveUp(D, "closed")
      BY <1>1, <2>1, <2>2, <2>4 DEF Out!GiveUp
    <2> QED BY <2>4, <2>5 DEF Out!Next
  <1> QED BY <1>2, <1>3, <1>4, <1>5

\* The steps of a splitting thread concern a message in pieces.
LEMMA SplitRefines ==
  ASSUME IInv, NEW m \in Msg, SplitChunk(m) \/ SplitStore(m) \/ SplitSendAck(m)
  PROVE  Out!Next
  <1> USE SendQueueAssumption
  <1>1. splitter[m].phase # "none"
    BY DEF SplitChunk, SplitStore, SplitSendAck, IInv, SplitInv
  <1>2. m \in LooseSeen
    BY <1>1 DEF LooseSeen, Unsplit
  <1>3. LooseSeen' \in {LooseSeen, Msg} /\ (strayed' => LooseSeen' = Msg)
        /\ LooseSeen \subseteq LooseSeen'
    <2>1. strayed => strayed'
      BY DEF SplitChunk, SplitStore, SplitSendAck
    <2>2. \A k \in Msg : splitter'[k].phase # "none" <=> splitter[k].phase # "none"
      <3>1. splitter \in [Msg -> Splitter] /\ splitter[m] \in Splitter
        BY DEF IInv, TypeOK
      <3>2. CASE SplitSendAck(m)
        BY <3>2 DEF SplitSendAck
      <3>3. CASE SplitStore(m)
        <4>1. splitter' = [splitter EXCEPT ![m].phase = "send"]
          BY <3>3 DEF SplitStore
        <4> QED BY <1>1, <3>1, <4>1 DEF Splitter
      <3>4. CASE SplitChunk(m)
        <4>1. \E s : s.phase # "none" /\ splitter' = [splitter EXCEPT ![m] = s]
          BY <3>1, <3>4 DEF SplitChunk, Splitter
        <4> QED BY <1>1, <3>1, <4>1
      <3> QED BY <3>2, <3>3, <3>4
    <2> QED BY <2>1, <2>2 DEF LooseSeen, Unsplit
  <1>4. CASE SplitChunk(m)
    <2> DEFINE j == jobs[splitter[m].slot]
               r0 == [id |-> nextId, msg |-> m, to |-> j.hContact]
    <2>1. /\ UNCHANGED <<fate, stored>>
          /\ \/ wire' = wire
             \/ wire' = wire \cup {r0} /\ nextId <= MaxId /\ j.hContact # None
      BY <1>4 DEF SplitChunk
    <2>2. j \in Job
      BY <1>1 DEF IInv, TypeOK, SplitInv
    <2>3. nextId <= MaxId /\ j.hContact # None => r0 \in Send /\ r0.msg = m
      BY <2>2 DEF Send, Job, IInv, TypeOK
    <2> HIDE DEF j, r0
    <2>4. Out!Piece(m)
      BY <1>2, <1>3, <2>1, <2>3 DEF Out!Piece
    <2> QED BY <2>4 DEF Out!Next
  <1>5. CASE SplitStore(m)
    <2>1. Out!Piece(m)
      BY <1>2, <1>3, <1>5 DEF SplitStore, Out!Piece
    <2> QED BY <2>1 DEF Out!Next
  <1>6. CASE SplitSendAck(m)
    <2>1. splitter[m].slot \in Slot
      BY <1>1 DEF IInv, SplitInv
    <2>2. CASE UNCHANGED <<jobs, fate, currentIndex, openJobs, curError, timers, stored>>
      <3>1. Out!OwnAnswer
        BY <1>2, <1>3, <1>6, <2>2 DEF SplitSendAck, Out!OwnAnswer
      <3> QED BY <3>1 DEF Out!Next
    <2>3. CASE /\ jobs[splitter[m].slot].hContact # None
               /\ AckSent(splitter[m].slot)
               /\ strayed' = (strayed \/ jobs[splitter[m].slot].msg # m)
      <3>1. PICK k \in Msg : k = jobs[splitter[m].slot].msg
        BY <2>1, <2>3, DropFacts
      <3>2. Out!Stored(k)
        BY <1>3, <2>1, <2>3, <3>1, AckSentRefines
      <3>3. k \in LooseSeen'
        BY <1>2, <1>3, <2>3, <3>1
      <3>4. Out!OwnAnswer
        BY <1>2, <1>3, <1>6, <3>2, <3>3 DEF SplitSendAck, Out!OwnAnswer
      <3> QED BY <3>4 DEF Out!Next
    <2> QED BY <1>6, <2>2, <2>3 DEF SplitSendAck
  <1> QED BY <1>4, <1>5, <1>6

\* Every step of the queue is a step of the outbox, or the outbox sees none.
LEMMA StepRefines == IInv /\ WrittenInv /\ [Next]_vars => [Out!Next]_(Out!vars)
  <1> SUFFICES ASSUME IInv, WrittenInv, [Next]_vars PROVE Out!Next \/ UNCHANGED Out!vars
    OBVIOUS
  <1>1. CASE UNCHANGED vars
    BY <1>1 DEF vars, Out!vars, LooseSeen, Unsplit
  <1>2. CASE \E i \in Slot : JobAges(i)
    BY <1>2 DEF JobAges, Out!vars, LooseSeen, Unsplit
  <1> QED BY <1>1, <1>2, SendRefines, ProtoAckRefines, WindowRefines, SplitRefines DEF Next

\* What is written stays written.
LEMMA WrittenStep == IInv /\ WrittenInv /\ [Next]_vars => WrittenInv'
  <1> SUFFICES ASSUME IInv, WrittenInv, [Next]_vars PROVE WrittenInv'
    OBVIOUS
  <1> USE SendQueueAssumption
  <1>1. ASSUME NEW w \in Window, NEW i \in Slot, NEW m \in Msg,
               NEW f \in {"queued", "delayed", "sent"}, Written(w, i, m, f)
        PROVE  WrittenInv'
    <2>1. /\ m = lastMsg + 1 /\ lastMsg' = m /\ fate'[m] = f
          /\ \A k \in Msg : k # m => fate'[k] = fate[k] \/ fate'[k] = "recycled"
      BY <1>1, WrittenFacts DEF Fates
    <2>2. \A k \in Msg : k <= lastMsg' /\ k # m => k <= lastMsg
      BY <2>1 DEF IInv, TypeOK, Msg
    <2>3. \A k \in Msg : k <= lastMsg => fate[k] # "unwritten"
      BY DEF WrittenInv
    <2>4. f # "unwritten"
      BY <1>1
    <2> QED BY <2>1, <2>2, <2>3, <2>4 DEF WrittenInv
  <1>2. ASSUME UNCHANGED lastMsg,
               \A k \in Msg : fate'[k] = fate[k] \/ fate'[k] # "unwritten"
        PROVE  WrittenInv'
    BY <1>2 DEF WrittenInv
  <1>3. CASE UNCHANGED vars
    BY <1>2, <1>3 DEF vars
  <1>4. ASSUME NEW w \in Window, NEW i \in Slot, NEW m \in Msg,
               \/ SendUnsplitted(w, i, m) \/ SendNoAck(w, i, m)
               \/ SendDelayed(w, i, m) \/ SendSplit(w, i, m)
        PROVE  WrittenInv'
    BY <1>1, <1>4 DEF SendUnsplitted, SendNoAck, SendDelayed, SendSplit
  <1>5. fate \in [Msg -> Fates]
    BY DEF IInv, TypeOK
  <1>6. \A i \in Slot, f \in {"sent", "discarded", "cancelled"}, k \in Msg :
          Drop(i, f)[k] = fate[k] \/ Drop(i, f)[k] # "unwritten"
    BY <1>5 DEF Drop
  <1>7. ASSUME NEW r \in wire, NEW ok \in BOOLEAN, ProtoAck(r, ok) PROVE WrittenInv'
    <2>1. UNCHANGED lastMsg
      BY <1>7 DEF ProtoAck
    <2>2. UNCHANGED fate \/ \E i \in Slot : fate' \in {Drop(i, "sent"), Drop(i, "discarded")}
      BY <1>7 DEF ProtoAck, Matches, ackMessage, AckDiscarded, AckSent, AckFailed
    <2> QED BY <1>2, <1>6, <2>1, <2>2
  <1>8. ASSUME NEW w \in Window,
               \/ \E i \in Slot : SendTimeout(w, i)
               \/ ErrorGiveUp(w) \/ ErrorRetry(w) \/ OpenWindow(w) \/ CloseWindow(w)
        PROVE  WrittenInv'
    <2>1. CASE ErrorGiveUp(w)
      <3>1. fate' = Drop(curError[w], "cancelled") /\ curError[w] \in Slot /\ UNCHANGED lastMsg
        BY <2>1, ShownSlot DEF ErrorGiveUp
      <3> QED BY <1>2, <1>6, <3>1
    <2>2. CASE CloseWindow(w)
      BY <1>2, <2>2 DEF CloseWindow
    <2>3. CASE (\E i \in Slot : SendTimeout(w, i)) \/ ErrorRetry(w) \/ OpenWindow(w)
      BY <1>2, <2>3 DEF SendTimeout, ErrorRetry, OpenWindow
    <2> QED BY <1>8, <2>1, <2>2, <2>3
  <1>9. ASSUME NEW i \in Slot, JobAges(i) PROVE WrittenInv'
    BY <1>2, <1>9 DEF JobAges
  <1>10. ASSUME NEW m \in Msg, SplitChunk(m) \/ SplitStore(m) \/ SplitSendAck(m)
         PROVE  WrittenInv'
    <2>1. splitter[m].phase # "none" => splitter[m].slot \in Slot
      BY DEF IInv, SplitInv
    <2>2. SplitSendAck(m) => splitter[m].phase # "none"
      BY DEF SplitSendAck, IInv, SplitInv
    <2>3. UNCHANGED lastMsg
      BY <1>10 DEF SplitChunk, SplitStore, SplitSendAck
    <2>4. UNCHANGED fate \/ \E i \in Slot : fate' = Drop(i, "sent")
      BY <1>10, <2>1, <2>2 DEF SplitChunk, SplitStore, SplitSendAck, AckSent
    <2> QED BY <1>2, <1>6, <2>3, <2>4
  <1> QED BY <1>3, <1>4, <1>7, <1>8, <1>9, <1>10 DEF Next

\* The queue with its slots, timers, retries and windows implements the outbox:
\* the fate of a message is final, and a message in one piece is sent and stored
\* in one step, by an answer to one of its own sends.
THEOREM SendQueueImplementsOutbox == Spec => ImplementsOutbox
  <1>1. Init => Out!Init /\ WrittenInv
    BY SendQueueAssumption DEF Init, Out!Init, LooseSeen, Unsplit, WrittenInv, Msg
  <1> QED BY <1>1, SendQueueInvariant, WrittenStep, StepRefines, PTL
          DEF Spec, ImplementsOutbox, Out!Spec
=============================================================================
