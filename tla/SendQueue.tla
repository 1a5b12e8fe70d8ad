----------------------------- MODULE SendQueue -----------------------------
(***************************************************************************)
(* The send queue of TabSRMM (sendqueue.cpp) with the parts of the message *)
(* window that drive it (msgdialog.cpp, generic_msghandlers.cpp), the      *)
(* dispatcher of acknowledgements (mim.cpp) and the thread that sends long *)
(* messages in chunks (DoSplitSendA).                                      *)
(*                                                                         *)
(* Everything but DoSplitSendA runs in the main thread, one message at a   *)
(* time, so a handler is one step.  Protocols answer a send at any later   *)
(* time, with success or failure, or never.  Time is not modelled: a timer *)
(* that runs may expire at any moment, a job may turn 120 seconds old.     *)
(* A window that does not exist any more behaves like no window in every   *)
(* test of hOwnerWnd, so its handle is replaced by None when it dies.      *)
(***************************************************************************)
EXTENDS Integers, FiniteSets

CONSTANTS Contact,        \* contacts
          Window,         \* the contacts that have a message window
          ActiveContact,  \* CContactCache::getActiveContact of a window's contact
          None,           \* no contact, no window
          NR_SENDJOBS,    \* slots of the queue
          MaxMsg,         \* bound: messages the user writes
          MaxId,          \* bound: ids the protocols hand out
          Chunks          \* chunks of a message that is too long

\* A metacontact's window sends to a subcontact, which may have a window too.
ASSUME SendQueueAssumption ==
  /\ Window \subseteq Contact
  /\ None \notin Contact
  /\ ActiveContact \in [Window -> Contact]
  /\ NR_SENDJOBS \in Nat \ {0}
  /\ MaxMsg \in Nat
  /\ MaxId \in Nat
  /\ Chunks \in Nat \ {0, 1}

VARIABLES
  jobs,          \* m_jobs
  currentIndex,  \* m_currentIndex
  open,          \* windows that exist
  openJobs,      \* m_iOpenJobs of every window
  curError,      \* m_iCurrentQueueError, 0 for -1; m_bErrorState is "not 0"
  timers,        \* <<window, slot>> with a running TIMERID_MSGSEND timer
  splitter,      \* the DoSplitSendA thread of every message
  posted,        \* messages with a DM_SPLITSENDACK in the queue
  wire,          \* sends the protocol has not answered
  nextId,        \* the next id a protocol returns
  lastMsg,       \* messages written so far
  fate,          \* what became of every message
  stored,        \* how often a message was added to the history
  strayed,       \* a splitter has used a slot that holds another message
  mixed          \* a metacontact's window has met its subcontact's, or what one left

vars == <<jobs, currentIndex, open, openJobs, curError, timers, splitter,
          posted, wire, nextId, lastMsg, fate, stored, strayed, mixed>>

Slot == 1..NR_SENDJOBS
Msg  == 1..MaxMsg

SQ_UNDEFINED == 0
SQ_INPROGRESS == 1
SQ_ERROR == 2

Job == [iStatus : {SQ_UNDEFINED, SQ_INPROGRESS, SQ_ERROR},
        hContact : Contact \cup {None}, hOwnerWnd : Window \cup {None},
        iSendId : 0..MaxId, iAcksNeeded : Int,
        chunked : BOOLEAN,                    \* chunkSize is not 0
        msg : 0..MaxMsg, old : BOOLEAN]       \* szSendBuffer; dwTime

\* clearJob zeroes the slot.
Empty == [iStatus |-> SQ_UNDEFINED, hContact |-> None, hOwnerWnd |-> None,
          iSendId |-> 0, iAcksNeeded |-> 0, chunked |-> FALSE, msg |-> 0,
          old |-> FALSE]

Send == [id : 1..MaxId, msg : Msg, to : Contact]

Fates == {"unwritten", "queued", "sent", "delayed", "cancelled", "closed",
          "discarded", "recycled"}

Splitter == [phase : {"none", "send", "store", "done"}, slot : 0..NR_SENDJOBS,
             chunk : 0..Chunks, id : 0..MaxId]

Init ==
  /\ jobs = [i \in Slot |-> Empty]
  /\ currentIndex = 0
  /\ open = {}
  /\ openJobs = [w \in Window |-> 0]
  /\ curError = [w \in Window |-> 0]
  /\ timers = {}
  /\ splitter = [m \in Msg |-> [phase |-> "none", slot |-> 0, chunk |-> 0, id |-> 0]]
  /\ posted = {}
  /\ wire = {}
  /\ nextId = 1
  /\ lastMsg = 0
  /\ fate = [m \in Msg |-> "unwritten"]
  /\ stored = [m \in Msg |-> 0]
  /\ strayed = FALSE
  /\ mixed = FALSE

Used(i) == jobs[i].hContact # None \/ jobs[i].iStatus # SQ_UNDEFINED

---------------------------------------------------------------------------
(* Helpers *)

\* Slots whose job belongs to the window's contact and has failed.
Failed(js, w) == {i \in Slot : js[i].hContact = w /\ js[i].iStatus = SQ_ERROR}

\* Mutated: only the first slot is looked at.
FindNextFailedFirst(js, w) == IF 1 \in Failed(js, w) THEN 1 ELSE 0

\* findNextFailed; 0 when there is none.
findNextFailed(js, w) ==
  IF Failed(js, w) = {} THEN 0
  ELSE CHOOSE i \in Failed(js, w) : \A k \in Failed(js, w) : i <= k

\* handleError for the next failed job, if the window shows no error now.
ShowNext(js, w, e) == IF e # 0 THEN e ELSE findNextFailed(js, w)

\* A slot addTo can take: free, or left behind by a window that is gone.
Orphaned(i) == Used(i) /\ jobs[i].hOwnerWnd = None /\ jobs[i].old

Takeable == {i \in Slot : ~Used(i) \/ Orphaned(i)}

QueueFull == currentIndex >= NR_SENDJOBS \/ Takeable = {}

FoundSlot == CHOOSE i \in Takeable : \A k \in Takeable : i <= k

\* Mutated: the slot is marked free, the id of the send stays in it.
clearJobKeepsId(i) == [jobs EXCEPT ![i] = [Empty EXCEPT !.iSendId = jobs[i].iSendId]]

clearJob(i) == [jobs EXCEPT ![i] = Empty]

\* Mutated: the timer is not started.
SetTimerNot(w, i) == timers

SetTimer(w, i) == timers \cup {<<w, i>>}

\* Mutated: the timer is left running.
KillTimerNot(w, i) == timers

KillTimer(w, i) == timers \ {<<w, i>>}

\* The fate of the message when the job in slot i is thrown away.
Drop(i, f) ==
  IF jobs[i].msg = 0 THEN fate ELSE [fate EXCEPT ![jobs[i].msg] = f]

---------------------------------------------------------------------------
(* addTo and sendQueued *)

\* What every mode has in common: a new message m of window w gets slot i.
Written(w, i, m, f) ==
  /\ w \in open
  /\ lastMsg < MaxMsg
  /\ ~QueueFull
  /\ i = FoundSlot
  /\ m = lastMsg + 1
  /\ lastMsg' = m
  /\ fate' = [Drop(i, "recycled") EXCEPT ![m] = f]

\* The usual mode: wait for the protocol's answer, and for a timer.
SendUnsplitted(w, i, m) ==
  /\ Written(w, i, m, "queued")
  /\ nextId <= MaxId
  /\ jobs' = [jobs EXCEPT ![i] =
       [iStatus |-> SQ_INPROGRESS, hContact |-> ActiveContact[w], hOwnerWnd |-> w,
        iSendId |-> nextId, iAcksNeeded |-> 1, chunked |-> FALSE, msg |-> m,
        old |-> FALSE]]
  /\ wire' = wire \cup {[id |-> nextId, msg |-> m, to |-> ActiveContact[w]]}
  /\ nextId' = nextId + 1
  /\ timers' = SetTimer(w, i)
  /\ openJobs' = [openJobs EXCEPT ![w] = @ + 1]
  /\ currentIndex' = currentIndex + 1
  /\ UNCHANGED <<open, curError, splitter, posted, stored, strayed, mixed>>

\* SMODE_NOACK: the acknowledgement is faked inside sendQueued, before the
\* counters are raised; ackMessage lowers them first, so they end as they were.
SendNoAck(w, i, m) ==
  /\ Written(w, i, m, "sent")
  /\ nextId <= MaxId
  /\ jobs' = clearJob(i)
  /\ wire' = wire \cup {[id |-> nextId, msg |-> m, to |-> ActiveContact[w]]}
  /\ nextId' = nextId + 1
  /\ stored' = [stored EXCEPT ![m] = @ + 1]
  /\ curError' = [curError EXCEPT ![w] = ShowNext(jobs', w, @)]
  /\ UNCHANGED <<currentIndex, open, openJobs, timers, splitter, posted, strayed,
                 mixed>>

\* SMODE_SENDLATER and SMODE_MULTIPLE: doSendLater takes the text over, or it
\* is too long and refused; the slot is cleared and nothing was counted.
SendDelayed(w, i, m) ==
  /\ Written(w, i, m, "delayed")
  /\ jobs' = clearJob(i)
  /\ UNCHANGED <<currentIndex, open, openJobs, curError, timers, splitter,
                 posted, wire, nextId, stored, strayed, mixed>>

\* autosplit: a thread sends the chunks; there is no timer.  The thread has
\* copied the text by the time the slot can change hands.
SendSplit(w, i, m) ==
  /\ Written(w, i, m, "queued")
  /\ jobs' = [jobs EXCEPT ![i] =
       [iStatus |-> SQ_INPROGRESS, hContact |-> ActiveContact[w], hOwnerWnd |-> w,
        iSendId |-> IF Used(i) THEN 0 ELSE jobs[i].iSendId, iAcksNeeded |-> 1,
        chunked |-> TRUE, msg |-> m, old |-> FALSE]]
  /\ splitter' = [splitter EXCEPT ![m] =
       [phase |-> "send", slot |-> i, chunk |-> 0, id |-> 0]]
  /\ openJobs' = [openJobs EXCEPT ![w] = @ + 1]
  /\ currentIndex' = currentIndex + 1
  /\ UNCHANGED <<open, curError, timers, posted, wire, nextId, stored, strayed, mixed>>

---------------------------------------------------------------------------
(* Acknowledgements *)

\* inform_and_discard: a popup, clearJob, and m_currentIndex stays as it is.
AckDiscarded(i) ==
  /\ jobs' = clearJob(i)
  /\ fate' = Drop(i, "discarded")
  /\ UNCHANGED <<currentIndex, openJobs, curError, timers, stored>>

\* A failed job of an open window stays in the queue for the user to decide.
AckFailed(i) ==
  LET w == jobs[i].hOwnerWnd IN
  /\ jobs' = [jobs EXCEPT ![i].iStatus = SQ_ERROR]
  /\ timers' = KillTimer(w, i)
  /\ curError' = [curError EXCEPT ![w] = IF @ = 0 THEN i ELSE @]
  /\ UNCHANGED <<currentIndex, openJobs, fate, stored>>

LastAck(i) == jobs[i].iAcksNeeded = 1

\* Mutated: a late success does not take the error bar back.
CalmedNever(i, e) == e

\* An error that is shown for a job which was sent after all is taken back.
Calmed(i, e) == IF jobs[i].iStatus = SQ_ERROR /\ e = i THEN 0 ELSE e

\* Mutated: m_currentIndex is lowered with every acknowledgement.
CountedDownEach(i) == currentIndex - 1

CountedDown(i) == IF LastAck(i) THEN currentIndex - 1 ELSE currentIndex

\* The message goes to the history; with the last acknowledgement the job ends.
\* With bAutoClose a WM_CLOSE follows at once, which CloseWindow stands for.
AckSent(i) ==
  LET w == jobs[i].hOwnerWnd IN
  /\ stored' = [stored EXCEPT ![jobs[i].msg] = @ + 1]
  /\ jobs' = IF LastAck(i) THEN clearJob(i)
             ELSE [jobs EXCEPT ![i].iSendId = 0, ![i].iAcksNeeded = @ - 1]
  /\ fate' = IF LastAck(i) THEN Drop(i, "sent") ELSE fate
  /\ currentIndex' = CountedDown(i)
  /\ openJobs' = IF LastAck(i) /\ w # None THEN [openJobs EXCEPT ![w] = @ - 1] ELSE openJobs
  /\ timers' = IF LastAck(i) THEN KillTimer(w, i) ELSE timers
  /\ curError' = IF w = None THEN curError
                 ELSE [curError EXCEPT ![w] = ShowNext(jobs', w, Calmed(i, @))]

ackMessage(i, ok) ==
  LET w == jobs[i].hOwnerWnd IN
  IF w = None /\ (jobs[i].iStatus = SQ_ERROR \/ ~ok) THEN AckDiscarded(i)
  ELSE IF ok THEN AckSent(i) ELSE AckFailed(i)

\* Mutated: the id of the send is not compared.
MatchesAnyId(r) == {i \in Slot : jobs[i].hContact = r.to}

\* CMimAPI::ProtoAck looks for the job by id and contact; what it does not
\* find belongs to the send-later jobs.
Matches(r) == {i \in Slot : jobs[i].iSendId = r.id /\ jobs[i].hContact = r.to}

ProtoAck(r, ok) ==
  /\ r \in wire
  /\ wire' = wire \ {r}
  /\ \/ /\ Matches(r) = {}
        /\ UNCHANGED <<jobs, fate, currentIndex, openJobs, curError, timers, stored>>
     \/ \E i \in Matches(r) :
          (\A k \in Matches(r) : i <= k) /\ ackMessage(i, ok)
  /\ UNCHANGED <<open, splitter, posted, nextId, lastMsg, strayed, mixed>>

---------------------------------------------------------------------------
(* Timeouts and the user's answers *)

\* WM_TIMER of the window: the job in that slot has failed.
SendTimeout(w, i) ==
  /\ <<w, i>> \in timers
  /\ timers' = KillTimer(w, i)
  /\ jobs' = [jobs EXCEPT ![i].iStatus = SQ_ERROR]
  /\ curError' = [curError EXCEPT ![w] = IF @ = 0 THEN i ELSE @]
  /\ UNCHANGED <<currentIndex, open, openJobs, splitter, posted, wire, nextId,
                 lastMsg, fate, stored, strayed, mixed>>

\* DM_ErrorDetected, MSGERROR_CANCEL (also from WM_CLOSE) and
\* MSGERROR_SENDLATER, which first saves the text where SendLater is available.
ErrorGiveUp(w) ==
  LET i == curError[w] IN
  /\ w \in open
  /\ i # 0
  /\ jobs' = clearJob(i)
  /\ fate' = Drop(i, "cancelled")
  /\ openJobs' = [openJobs EXCEPT ![w] = @ - 1]
  /\ currentIndex' = currentIndex - 1
  /\ curError' = [curError EXCEPT ![w] = findNextFailed(jobs', w)]
  /\ UNCHANGED <<open, timers, splitter, posted, wire, nextId, lastMsg, stored,
                 strayed, mixed>>

\* Mutated: the retry counts one more acknowledgement.
ResentCounts(i) ==
  [jobs EXCEPT ![i].iStatus = SQ_INPROGRESS, ![i].iSendId = nextId,
               ![i].iAcksNeeded = @ + 1]

Resent(i) == [jobs EXCEPT ![i].iStatus = SQ_INPROGRESS, ![i].iSendId = nextId]

\* DM_ErrorDetected, MSGERROR_RETRY: the whole text is sent again under a new id.
\* A slot that names no contact gets an id that is never answered.
ErrorRetry(w) ==
  LET i == curError[w] IN
  /\ w \in open
  /\ i # 0
  /\ ~(jobs[i].iSendId = 0 /\ jobs[i].hContact = None)
  /\ nextId <= MaxId
  /\ jobs' = Resent(i)
  /\ wire' = IF jobs[i].hContact = None THEN wire
             ELSE wire \cup {[id |-> nextId, msg |-> jobs[i].msg, to |-> jobs[i].hContact]}
  /\ nextId' = nextId + 1
  /\ timers' = SetTimer(w, i)
  /\ curError' = [curError EXCEPT ![w] = findNextFailed(jobs', w)]
  /\ UNCHANGED <<currentIndex, open, openJobs, splitter, posted, lastMsg, fate,
                 stored, strayed, mixed>>

---------------------------------------------------------------------------
(* Windows *)

\* Window w opens beside a window that sends to w, or to whose contact w sends,
\* or finds a failed job in its own contact's name: the queue finds the jobs of
\* a window by hContact, so the two windows now take part in each other's jobs.
Meets(w) ==
  \/ \E v \in open : ActiveContact[v] = w \/ ActiveContact[w] = v
  \/ \E i \in Slot : jobs[i].hContact = w /\ jobs[i].iStatus = SQ_ERROR

\* SendMessageCommand_Worker: a contact has one window, and metacontact and
\* subcontact count as two contacts.
OpenWindow(w) ==
  /\ w \notin open
  /\ open' = open \cup {w}
  /\ mixed' = (mixed \/ Meets(w))
  /\ UNCHANGED <<jobs, currentIndex, openJobs, curError, timers, splitter,
                 posted, wire, nextId, lastMsg, fate, stored, strayed>>

\* CMsgDialog::OnDestroy, after the warning or forced.  Failed jobs of the
\* contact are cleared, the others are left to a later acknowledgement; the
\* timers and the counter of the window die with it, m_currentIndex stays.
\* WM_CLOSE of a window that shows an error is ErrorGiveUp followed by this.
Destroyed(w) == {i \in Slot : jobs[i].hContact = w /\ jobs[i].iStatus = SQ_ERROR}

CloseWindow(w) ==
  /\ w \in open
  /\ open' = open \ {w}
  /\ jobs' = [i \in Slot |->
       IF i \in Destroyed(w) THEN Empty
       ELSE IF jobs[i].hOwnerWnd = w \/ (jobs[i].hContact = w /\ jobs[i].iStatus = SQ_INPROGRESS)
            THEN [jobs[i] EXCEPT !.hOwnerWnd = None] ELSE jobs[i]]
  /\ fate' = [m \in Msg |->
       IF \E i \in Destroyed(w) : jobs[i].msg = m THEN "closed" ELSE fate[m]]
  /\ timers' = {t \in timers : t[1] # w}
  /\ openJobs' = [openJobs EXCEPT ![w] = 0]
  /\ curError' = [curError EXCEPT ![w] = 0]
  /\ UNCHANGED <<currentIndex, splitter, posted, wire, nextId, lastMsg, stored,
                 strayed, mixed>>

\* 120 seconds after it was added a job without a window may be reused.  Nobody
\* asks for the age of a job while it has a window, so it turns old afterwards.
JobAges(i) ==
  /\ Used(i)
  /\ jobs[i].hOwnerWnd = None
  /\ ~jobs[i].old
  /\ jobs' = [jobs EXCEPT ![i].old = TRUE]
  /\ UNCHANGED <<currentIndex, open, openJobs, curError, timers, splitter,
                 posted, wire, nextId, lastMsg, fate, stored, strayed, mixed>>

---------------------------------------------------------------------------
(* DoSplitSendA, in a thread of its own: it keeps a pointer to the slot.    *)

\* One round of the loop: count one more acknowledgement unless this is the
\* last chunk, and send to whatever contact the slot names.  In a slot that
\* was cleared or reused chunkSize may be 0, and the loop makes no progress.
SplitChunk(m) ==
  LET s == splitter[m]
      j == jobs[s.slot]
      last == j.chunked /\ s.chunk = Chunks - 1
      first == s.chunk = 0 /\ s.id = 0
      sends == j.hContact # None IN
  /\ s.phase = "send"
  /\ sends => nextId <= MaxId
  /\ jobs' = IF last \/ ~sends THEN jobs  \* the count of a free slot is never read
             ELSE [jobs EXCEPT ![s.slot].iAcksNeeded = @ + 1]
  /\ wire' = IF sends THEN wire \cup {[id |-> nextId, msg |-> m, to |-> j.hContact]} ELSE wire
  /\ nextId' = IF sends THEN nextId + 1 ELSE nextId
  /\ splitter' = [splitter EXCEPT ![m] =
       [s EXCEPT !.chunk = IF j.chunked THEN @ + 1 ELSE @,
                 !.id = IF first /\ sends THEN nextId ELSE @,
                 !.phase = IF first THEN "store" ELSE IF last THEN "done" ELSE @]]
  /\ strayed' = (strayed \/ j.msg # m)
  /\ UNCHANGED <<currentIndex, open, openJobs, curError, timers, posted, lastMsg,
                 fate, stored, mixed>>

\* After the first chunk: the id is stored and DM_SPLITSENDACK posted.
SplitStore(m) ==
  LET s == splitter[m] IN
  /\ s.phase = "store"
  /\ jobs' = [jobs EXCEPT ![s.slot].iSendId = s.id]
  /\ posted' = posted \cup {m}
  /\ splitter' = [splitter EXCEPT ![m].phase = "send"]
  /\ strayed' = (strayed \/ jobs[s.slot].msg # m)
  /\ UNCHANGED <<currentIndex, open, openJobs, curError, timers, wire, nextId,
                 lastMsg, fate, stored, mixed>>

\* DM_SPLITSENDACK: an acknowledgement for whatever is in the slot now.
SplitSendAck(m) ==
  LET i == splitter[m].slot
      takes == /\ jobs[i].hContact # None
               /\ jobs[i].iAcksNeeded # 0
               /\ jobs[i].iStatus = SQ_INPROGRESS IN
  /\ m \in posted
  /\ posted' = posted \ {m}
  /\ IF takes THEN AckSent(i)
     ELSE UNCHANGED <<jobs, fate, currentIndex, openJobs, curError, timers, stored>>
  /\ strayed' = (strayed \/ (takes /\ jobs[i].msg # m))
  /\ UNCHANGED <<open, splitter, wire, nextId, lastMsg, mixed>>

---------------------------------------------------------------------------
Next ==
  \/ \E w \in Window, i \in Slot, m \in Msg :
       \/ SendUnsplitted(w, i, m)
       \/ SendNoAck(w, i, m)
       \/ SendDelayed(w, i, m)
       \/ SendSplit(w, i, m)
  \/ \E r \in wire, ok \in BOOLEAN : ProtoAck(r, ok)
  \/ \E w \in Window, i \in Slot : SendTimeout(w, i)
  \/ \E w \in Window : ErrorGiveUp(w) \/ ErrorRetry(w) \/ OpenWindow(w) \/ CloseWindow(w)
  \/ \E i \in Slot : JobAges(i)
  \/ \E m \in Msg : SplitChunk(m) \/ SplitStore(m) \/ SplitSendAck(m)

Spec == Init /\ [][Next]_vars

\* Windows deliver the timers they were asked for; nothing else is promised.
FairSpec == Spec /\ \A w \in Window, i \in Slot : WF_vars(SendTimeout(w, i))

---------------------------------------------------------------------------
TypeOK ==
  /\ jobs \in [Slot -> Job]
  /\ currentIndex \in Int
  /\ open \subseteq Window
  /\ openJobs \in [Window -> Int]
  /\ curError \in [Window -> 0..NR_SENDJOBS]
  /\ timers \subseteq Window \X Slot
  /\ splitter \in [Msg -> Splitter]
  /\ posted \subseteq Msg
  /\ wire \subseteq Send
  /\ nextId \in 1..MaxId + 1
  /\ lastMsg \in 0..MaxMsg
  /\ fate \in [Msg -> Fates]
  /\ stored \in [Msg -> Nat]
  /\ strayed \in BOOLEAN
  /\ mixed \in BOOLEAN

Unsplit(m) == splitter[m].phase = "none"

\* A timer that runs belongs to a job in progress of that very window: a
\* timeout never turns somebody else's message, or a free slot, into a failure.
\* The closing window of a subcontact takes the jobs of its metacontact's window
\* along, so this, like the other promises about windows, holds until two such
\* windows meet.
TimerOnOwnJob ==
  ~mixed => \A t \in timers : /\ t[1] \in open
                              /\ jobs[t[2]].hOwnerWnd = t[1]
                              /\ jobs[t[2]].iStatus = SQ_INPROGRESS

\* The error bar of a window is about a failed job of that window, so Retry,
\* Cancel and Send later act on the message the user sees.
ErrorNamesOwnFailure ==
  ~mixed => \A w \in Window : curError[w] # 0 =>
    /\ w \in open
    /\ jobs[curError[w]].hOwnerWnd = w
    /\ jobs[curError[w]].iStatus = SQ_ERROR

\* While a window shows no error none of its own contact's messages has failed:
\* failures that came together are all shown, one after the other.
FailureShown ==
  ~mixed => \A w \in open, i \in Slot :
    /\ ActiveContact[w] = w
    /\ jobs[i].hOwnerWnd = w
    /\ jobs[i].iStatus = SQ_ERROR
    => curError[w] # 0

\* An answer that is still on its way, however late, finds the job of the
\* message it was sent for or none: slots are reused, ids are not.
LateAckFindsOwnJob ==
  ~strayed => \A r \in wire, i \in Slot :
    jobs[i].iSendId = r.id /\ jobs[i].hContact = r.to => jobs[i].msg = r.msg

\* A message sent in one piece is in the history once if its job was completed,
\* and not at all if it was given up, handed to Send later or is still queued.
StoredWhenSent ==
  ~strayed => \A m \in Msg : Unsplit(m) =>
    stored[m] = IF fate[m] = "sent" THEN 1 ELSE 0

LooseSeen == IF strayed THEN Msg ELSE {m \in Msg : ~Unsplit(m)}

Out == INSTANCE Outbox WITH loose <- LooseSeen

\* Whatever becomes of a message is final, and a message in one piece is sent,
\* and stored, in the step that takes the answer to one of its own sends,
\* however slots are reused and answers delayed: the queue implements Outbox.
ImplementsOutbox == Out!Spec

\* m_currentIndex never falls below the number of jobs, however acknowledgements,
\* timeouts and the user's answers are mixed.
CounterCoversJobs == ~mixed => Cardinality({i \in Slot : Used(i)}) <= currentIndex

\* A message sent in one piece does not wait for ever in an open window: the
\* protocol answers, it times out, or the window is closed.
Waiting(m) ==
  \E i \in Slot : /\ jobs[i].msg = m /\ jobs[i].hOwnerWnd # None
                  /\ jobs[i].iStatus = SQ_INPROGRESS /\ ~jobs[i].chunked

NoEndlessWait == \A m \in Msg : Waiting(m) ~> ~Waiting(m) \/ mixed

\* When the job of a long message is removed because "everything sent", its
\* thread has sent every chunk.
EverythingSent ==
  \A m \in Msg : fate[m] = "sent" => splitter[m].phase \in {"none", "done"}
=============================================================================
