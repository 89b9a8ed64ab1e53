------------------------------- MODULE SubAgent -------------------------------
(***************************************************************************)
(* src/agents/SubAgent.cpp: one sub-agent's thread (run), the peers that   *)
(* send it messages, ask it questions, promote and cancel it, and the      *)
(* manifest (AgentJournal) and transcript a later generation starts from.  *)
(*                                                                         *)
(* One action per critical section of interrogate_mutex_ or per durable    *)
(* write.  The wait of a parked agent is two steps, the test of its        *)
(* predicate ("checked", still inside the mutex) and the sleep, because    *)
(* the cancel callback notifies without the mutex.  Permits are            *)
(* AgentSupervisor's; here a resume just succeeds unless cancelled.        *)
(***************************************************************************)
EXTENDS Integers, FiniteSets, SequencesExt

CONSTANTS Messages,      \* what peers may send
          Questions,     \* what interrogators may ask
          Prompt,        \* the initial prompt
          None,          \* no question
          Journaled,     \* the supervisor keeps durable agents
          MaxTurnCycles, \* max_subagent_turn_cycles, 0 for none
          MaxLives       \* bound: generations of the agent

ASSUME EntriesAssumption ==
  /\ IsFiniteSet(Messages) /\ IsFiniteSet(Questions)
  /\ Messages \cap Questions = {}
  /\ Prompt \notin Messages \union Questions
  /\ None \notin Messages \union Questions \union {Prompt}
ASSUME ModeAssumption == Journaled \in BOOLEAN
ASSUME BoundAssumption == MaxTurnCycles \in Nat /\ MaxLives \in Nat \ {0}

VARIABLES pc,          \* where the thread is
          status,      \* status_
          standing,    \* standing_
          cancelled,   \* child_token_ has fired
          ringing,     \* who has still to notify interrogate_cv_
          mail,        \* pending_messages_
          asked,       \* interrogations_
          current,     \* pending_answer's question
          terminated,  \* terminated_
          answer,      \* the futures of the questions
          todo,        \* drained, not yet delivered
          needTurn,    \* need_turn
          cycles,      \* cycles
          log,         \* the transcript's user turns (on disk)
          served,      \* how many of them a completed turn has answered
          disk,        \* the manifest: recoverable, standing, inbox
          accepted,    \* messages enqueue_message took on, in order
          sent,        \* messages peers have sent
          promoting,   \* a promote() between its check and its marks
          lives,       \* generations so far
          continuous   \* a managed worker: parks for two seconds at a time

thread == <<pc, status, current, todo, needTurn, cycles, served, log>>
channel == <<standing, cancelled, ringing, mail, asked, terminated>>
callers == <<answer, accepted, sent, promoting>>
vars == <<thread, channel, callers, disk, lives, continuous>>

Entries == Messages \union Questions \union {Prompt}

\* The generation's thread has ended, or never ran.
Stopped == pc \in {"gone", "crashed"}
\* status() is terminal.
Closed == status \in {"done", "failed", "cancelled"}
\* Mutant: the wait does not look at the mailbox.
BugReady == cancelled \/ asked # << >>
\* The wait predicate (call it under interrogate_mutex_).
Ready == cancelled \/ asked # << >> \/ mail # << >>
\* Everybody but the parked thread finds interrogate_mutex_ free.
MutexFree == pc # "checked"

InSeq(s, e) == \E i \in 1..Len(s) : s[i] = e
\* std::find and erase; an entry has an id of its own, so s holds it once at most.
Minus(s, e) ==
  IF InSeq(s, e) THEN RemoveAt(s, CHOOSE i \in 1..Len(s) : s[i] = e) ELSE s

\* journal_->update, a no-op without a journal.
Record(field, value) ==
  disk' = IF Journaled THEN [disk EXCEPT ![field] = value] ELSE disk

-----------------------------------------------------------------------------
\* launch() has written the manifest and constructed the agent.
Init == /\ pc = "queued"
        /\ status = "queued"
        /\ continuous \in (IF Journaled THEN BOOLEAN ELSE {FALSE})
        /\ standing \in (IF continuous THEN {TRUE} ELSE BOOLEAN)
        /\ cancelled = FALSE
        /\ ringing = {}
        /\ mail = << >>
        /\ asked = << >>
        /\ current = None
        /\ terminated = FALSE
        /\ answer = [q \in Questions |-> "unasked"]
        /\ todo = << >>
        /\ needTurn = FALSE
        /\ cycles = 0
        /\ log = << >>
        /\ served = 0
        /\ disk = [recoverable |-> Journaled, standing |-> Journaled /\ standing,
                   inbox |-> << >>]
        /\ accepted = << >>
        /\ sent = {}
        /\ promoting = FALSE
        /\ lives = 1

-----------------------------------------------------------------------------
(* Peers.                                                                  *)

\* Mutant: only a closed agent's message goes into the durable inbox.
BugEnqueue(m) ==
  LET closed == terminated \/ Closed
  IN  /\ m \notin sent
      /\ pc # "crashed" /\ MutexFree
      /\ sent' = sent \union {m}
      /\ IF closed /\ ~disk.recoverable
           THEN UNCHANGED <<accepted, disk, mail, ringing>>
           ELSE /\ accepted' = Append(accepted, m)
                /\ IF closed
                     THEN /\ Record("inbox", Append(disk.inbox, m))
                          /\ UNCHANGED <<mail, ringing>>
                     ELSE /\ mail' = Append(mail, m)
                          /\ ringing' = ringing \union {"peer"}
                          /\ UNCHANGED disk
      /\ UNCHANGED <<thread, standing, cancelled, asked, terminated, answer,
                     promoting, lives, continuous>>

\* Mutant: a message goes to the front of the queue.
BugEnqueueFront(m) ==
  LET closed == terminated \/ Closed
  IN  /\ m \notin sent
      /\ pc # "crashed" /\ MutexFree
      /\ sent' = sent \union {m}
      /\ IF closed /\ ~disk.recoverable
           THEN UNCHANGED <<accepted, disk, mail, ringing>>
           ELSE /\ accepted' = Append(accepted, m)
                /\ Record("inbox", Append(disk.inbox, m))
                /\ mail' = IF closed THEN mail ELSE <<m>> \o mail
                /\ ringing' = IF closed THEN ringing ELSE ringing \union {"peer"}
      /\ UNCHANGED <<thread, standing, cancelled, asked, terminated, answer,
                     promoting, lives, continuous>>

\* enqueue_message(): refused by a closed agent that will not come back, else
\* first into the durable inbox and then, when the thread lives, into its own.
Enqueue(m) ==
  LET closed == terminated \/ Closed
  IN  /\ m \notin sent
      /\ pc # "crashed" /\ MutexFree
      /\ sent' = sent \union {m}
      /\ IF closed /\ ~disk.recoverable
           THEN UNCHANGED <<accepted, disk, mail, ringing>>
           ELSE /\ accepted' = Append(accepted, m)
                /\ Record("inbox", Append(disk.inbox, m))
                /\ IF closed
                     THEN UNCHANGED <<mail, ringing>>
                     ELSE /\ mail' = Append(mail, m)
                          /\ ringing' = ringing \union {"peer"}
      /\ UNCHANGED <<thread, standing, cancelled, asked, terminated, answer,
                     promoting, lives, continuous>>

\* Mutant: a question is taken on although the channel is closed.
BugAsk(q) ==
  /\ answer[q] = "unasked"
  /\ pc # "crashed" /\ MutexFree
  /\ IF standing /\ ~cancelled
       THEN /\ answer' = [answer EXCEPT ![q] = "open"]
            /\ asked' = Append(asked, q)
            /\ Record("inbox", Append(disk.inbox, q))
            /\ ringing' = ringing \union {"peer"}
       ELSE /\ answer' = [answer EXCEPT ![q] = "empty"]
            /\ UNCHANGED <<asked, disk, ringing>>
  /\ UNCHANGED <<thread, standing, cancelled, mail, terminated, accepted, sent,
                 promoting, lives, continuous>>

\* interrogate(): queued for a warm window, else answered with the sentinel.
Ask(q) ==
  /\ answer[q] = "unasked"
  /\ pc # "crashed" /\ MutexFree
  /\ IF ~terminated /\ standing /\ ~cancelled
       THEN /\ answer' = [answer EXCEPT ![q] = "open"]
            /\ asked' = Append(asked, q)
            /\ Record("inbox", Append(disk.inbox, q))
            /\ ringing' = ringing \union {"peer"}
       ELSE /\ answer' = [answer EXCEPT ![q] = "empty"]
            /\ UNCHANGED <<asked, disk, ringing>>
  /\ UNCHANGED <<thread, standing, cancelled, mail, terminated, accepted, sent,
                 promoting, lives, continuous>>

\* AgentSupervisor::promote() step 1: read a status that is not terminal ...
PromoteCheck ==
  /\ ~promoting
  /\ ~Stopped /\ ~Closed
  /\ promoting' = TRUE
  /\ UNCHANGED <<thread, channel, answer, accepted, sent, disk, lives, continuous>>

\* ... then mark the manifest and the agent, and notify.
Promote ==
  /\ promoting
  /\ promoting' = FALSE
  /\ disk' = IF Journaled THEN [disk EXCEPT !.recoverable = TRUE, !.standing = TRUE] ELSE disk
  /\ standing' = TRUE
  /\ ringing' = ringing \union {"peer"}
  /\ UNCHANGED <<thread, cancelled, mail, asked, terminated, answer, accepted, sent, lives, continuous>>

\* The parent's token fires, or the supervisor shuts down; the callback of
\* child_token_ has still to notify.
Cascade ==
  /\ ~cancelled /\ ~Stopped
  /\ cancelled' = TRUE
  /\ ringing' = ringing \union {"cancel"}
  /\ UNCHANGED <<thread, standing, mail, asked, terminated, callers, disk, lives, continuous>>

\* cancel() or an eviction: first close_durably(), so that the agent will not
\* be restored; the token fires in a step of its own (Cascade).
CloseDurably ==
  /\ Journaled /\ pc # "crashed" /\ disk.recoverable
  /\ Record("recoverable", FALSE)
  /\ UNCHANGED <<thread, channel, callers, lives, continuous>>

\* A notify_one or notify_all of interrogate_cv_: wakes a sleeper, and is
\* lost on a thread that is not asleep yet.
Ring(who) ==
  /\ who \in ringing
  /\ ringing' = ringing \ {who}
  /\ pc' = IF pc = "asleep" THEN "awake" ELSE pc
  /\ UNCHANGED <<status, current, todo, needTurn, cycles, served, log, standing,
                 cancelled, mail, asked, terminated, callers, disk, lives, continuous>>

-----------------------------------------------------------------------------
(* The thread.  Goto moves it; each action names what else it changes.     *)

Goto(from, to) == pc = from /\ pc' = to
restOfCallers == UNCHANGED <<accepted, sent, promoting, lives, continuous>>

\* start(), from the supervisor.
Start ==
  /\ Goto("queued", "begin")
  /\ status' = "running"
  /\ UNCHANGED <<current, todo, needTurn, cycles, served, log, channel, answer, disk>>
  /\ restOfCallers

\* The supervisor's shutdown destroys an agent that never started; it waits
\* for a promote(), which holds the agent map's lock.
Destroy ==
  /\ Goto("queued", "gone")
  /\ ~promoting
  /\ cancelled' = TRUE
  /\ terminated' = TRUE
  /\ asked' = << >>
  /\ answer' = [q \in Questions |-> IF InSeq(asked, q) THEN "empty" ELSE answer[q]]
  /\ UNCHANGED <<status, current, todo, needTurn, cycles, served, log, standing,
                 ringing, mail, disk>>
  /\ restOfCallers

\* run() up to the first prompt: a fresh transcript gets the prompt.
Begin ==
  /\ pc = "begin"
  /\ IF cancelled
       THEN pc' = "reap" /\ status' = "cancelled" /\ UNCHANGED log
       ELSE /\ pc' = "greeting"
            /\ log' = IF log = << >> THEN <<Prompt>> ELSE log
            /\ UNCHANGED status
  /\ UNCHANGED <<current, todo, needTurn, cycles, served, channel, answer, disk>>
  /\ restOfCallers

\* Then whatever the inbox holds; a restored window whose last turn was
\* complete and has no mail needs no turn.
Greet ==
  /\ Goto("greeting", "delivering")
  /\ todo' = mail
  /\ mail' = << >>
  /\ needTurn' = (mail # << >> \/ served < Len(log))
  /\ UNCHANGED <<status, current, cycles, served, log, standing, cancelled, ringing,
                 asked, terminated, answer, disk>>
  /\ restOfCallers

\* Mutant: a message is appended without looking whether it is recorded.
BugDeliver ==
  /\ pc = "delivering"
  /\ IF todo = << >>
       THEN pc' = "top" /\ UNCHANGED log
       ELSE pc' = "acking" /\ log' = Append(log, Head(todo))
  /\ UNCHANGED <<status, current, todo, needTurn, cycles, served, channel, answer, disk>>
  /\ restOfCallers

\* deliver(): append to the transcript what is not recorded there yet ...
Deliver ==
  /\ pc = "delivering"
  /\ IF todo = << >>
       THEN pc' = "top" /\ UNCHANGED log
       ELSE /\ pc' = "acking"
            /\ log' = IF Journaled /\ InSeq(log, Head(todo)) THEN log
                      ELSE Append(log, Head(todo))
  /\ UNCHANGED <<status, current, todo, needTurn, cycles, served, channel, answer, disk>>
  /\ restOfCallers

\* ... and only then acknowledge it in the durable inbox.
Acknowledge ==
  /\ Goto("acking", "delivering")
  /\ Record("inbox", Minus(disk.inbox, Head(todo)))
  /\ todo' = Tail(todo)
  /\ UNCHANGED <<status, current, needTurn, cycles, served, log, channel, answer>>
  /\ restOfCallers

\* The loop head: cancelled, nothing to do, out of cycles, or a turn.
OutOfCycles == ~continuous /\ MaxTurnCycles > 0 /\ cycles >= MaxTurnCycles

Top ==
  /\ pc = "top"
  /\ pc' = CASE cancelled -> "interrupted"
             [] ~cancelled /\ ~needTurn -> "quiet"
             [] ~cancelled /\ needTurn /\ OutOfCycles -> "capped"
             [] OTHER -> "turn"
  /\ UNCHANGED <<status, current, todo, needTurn, cycles, served, log, channel, answer, disk>>
  /\ restOfCallers

Capped ==
  /\ Goto("capped", "reap")
  /\ Record("recoverable", FALSE)
  /\ status' = "done"
  /\ UNCHANGED <<current, todo, needTurn, cycles, served, log, channel, answer>>
  /\ restOfCallers

\* run_turn() completes: the transcript ends with the model's answer.
RunTurn ==
  /\ Goto("turn", "turned")
  /\ cycles' = IF MaxTurnCycles = 0 THEN 0 ELSE cycles + 1
  /\ served' = Len(log)
  /\ UNCHANGED <<status, current, todo, needTurn, log, channel, answer, disk>>
  /\ restOfCallers

\* Mutant: the promise of an answered question is kept.
BugAnswer ==
  /\ Goto("turned", "quiet")
  /\ answer' = [q \in Questions |-> IF q = current THEN "answered" ELSE answer[q]]
  /\ UNCHANGED <<status, current, todo, needTurn, cycles, served, log, channel, disk>>
  /\ restOfCallers

\* Once the manifest says so too, the question in flight is answered.
Answer ==
  /\ Goto("turned", "quiet")
  /\ answer' = [q \in Questions |-> IF q = current THEN "answered" ELSE answer[q]]
  /\ current' = None
  /\ UNCHANGED <<status, todo, needTurn, cycles, served, log, channel, disk>>
  /\ restOfCallers

\* Any step that persists or calls the model may throw.
Fail ==
  /\ pc \in {"begin", "delivering", "acking", "turn", "turned", "capped", "closing",
            "resuming", "interrupted"}
  /\ pc' = "reap"
  /\ status' = "failed"
  /\ UNCHANGED <<current, todo, needTurn, cycles, served, log, channel, answer, disk>>
  /\ restOfCallers

\* A turn that notices its cancellation.
TurnCancelled ==
  /\ Goto("turn", "interrupted")
  /\ cancelled
  /\ UNCHANGED <<status, current, todo, needTurn, cycles, served, log, channel, answer, disk>>
  /\ restOfCallers

\* Quiescence: mail gets the next turn, else standing_ decides.
Quiet ==
  /\ pc = "quiet"
  /\ \/ cancelled /\ pc' = "interrupted" /\ UNCHANGED <<todo, mail, needTurn>>
     \/ /\ ~cancelled /\ mail # << >>
        /\ todo' = mail /\ mail' = << >> /\ needTurn' = TRUE
        /\ pc' = "delivering"
     \/ /\ ~cancelled /\ mail = << >>
        /\ pc' = IF standing THEN "parked" ELSE "closing"
        /\ UNCHANGED <<todo, mail, needTurn>>
  /\ UNCHANGED <<status, current, cycles, served, log, standing, cancelled, ringing,
                 asked, terminated, answer, disk>>
  /\ restOfCallers

\* Mutant: the close does not look into the mailbox again.
BugClose ==
  /\ Goto("closing", "reap")
  /\ Record("recoverable", FALSE)
  /\ status' = "done"
  /\ UNCHANGED <<current, todo, needTurn, cycles, served, log, channel, answer>>
  /\ restOfCallers

\* The natural close, under interrogate_mutex_: mail that came first is
\* served first; else not recoverable and done.
Close ==
  /\ pc = "closing"
  /\ IF mail # << >>
       THEN pc' = "top" /\ needTurn' = FALSE /\ UNCHANGED <<status, disk>>
       ELSE /\ pc' = "reap"
            /\ Record("recoverable", FALSE)
            /\ status' = "done"
            /\ UNCHANGED needTurn
  /\ UNCHANGED <<current, todo, cycles, served, log, channel, answer>>
  /\ restOfCallers

\* What the thread does when its wait is over.
TakeWork ==
  \/ /\ cancelled
     /\ pc' = "interrupted" /\ UNCHANGED <<current, asked>>
  \/ /\ ~cancelled /\ asked # << >>
     /\ pc' = "resuming" /\ current' = Head(asked) /\ asked' = Tail(asked)
  \/ /\ ~cancelled /\ asked = << >>
     /\ pc' = "resuming" /\ UNCHANGED <<current, asked>>

restOfWait == /\ UNCHANGED <<status, todo, needTurn, cycles, served, log, standing,
                             cancelled, ringing, mail, terminated, answer, disk>>
              /\ restOfCallers

\* The wait tests its predicate under the mutex ...
Look == /\ pc \in {"parked", "awake"}
        /\ IF Ready THEN TakeWork ELSE pc' = "checked" /\ UNCHANGED <<current, asked>>
        /\ restOfWait

\* ... and sleeps, leaving the mutex.
Doze == Goto("checked", "asleep") /\ UNCHANGED <<current, asked>> /\ restOfWait

\* wait_for() of a continuous worker: two seconds are over.
Timeout == continuous /\ pc = "asleep" /\ TakeWork /\ restOfWait

\* Mutant: the question is answered without being delivered.
BugResume ==
  /\ pc = "resuming"
  /\ IF cancelled
       THEN pc' = "interrupted" /\ UNCHANGED <<todo, mail, needTurn>>
       ELSE /\ pc' = "delivering"
            /\ todo' = mail
            /\ mail' = << >>
            /\ needTurn' = TRUE
  /\ UNCHANGED <<status, current, cycles, served, log, standing, cancelled, ringing,
                 asked, terminated, answer, disk>>
  /\ restOfCallers

\* on_resume_, then the mail and the question become the next turn.  (A
\* continuous worker without either reminds itself of its role.)
Resume ==
  /\ pc = "resuming"
  /\ IF cancelled
       THEN pc' = "interrupted" /\ UNCHANGED <<todo, mail, needTurn>>
       ELSE /\ pc' = "delivering"
            /\ todo' = mail \o (IF current = None THEN << >> ELSE <<current>>)
            /\ mail' = << >>
            /\ needTurn' = TRUE
  /\ UNCHANGED <<status, current, cycles, served, log, standing, cancelled, ringing,
                 asked, terminated, answer, disk>>
  /\ restOfCallers

\* The loop was left because of a cancellation.
Interrupted ==
  /\ Goto("interrupted", "reap")
  /\ status' = "cancelled"
  /\ UNCHANGED <<current, todo, needTurn, cycles, served, log, channel, answer, disk>>
  /\ restOfCallers

\* Mutant: only the question in flight is released.
BugReap ==
  /\ Goto("reap", "gone")
  /\ terminated' = TRUE
  /\ answer' = [q \in Questions |-> IF q = current THEN "empty" ELSE answer[q]]
  /\ asked' = << >>
  /\ current' = None
  /\ UNCHANGED <<status, todo, needTurn, cycles, served, log, standing, cancelled,
                 ringing, mail, disk>>
  /\ restOfCallers

\* terminate_interrogations(): close the channel, release every asker.
Reap ==
  /\ Goto("reap", "gone")
  /\ terminated' = TRUE
  /\ answer' = [q \in Questions |-> IF q = current \/ InSeq(asked, q) THEN "empty" ELSE answer[q]]
  /\ asked' = << >>
  /\ current' = None
  /\ UNCHANGED <<status, todo, needTurn, cycles, served, log, standing, cancelled,
                 ringing, mail, disk>>
  /\ restOfCallers

-----------------------------------------------------------------------------
(* Crash, restart, recovery.                                               *)

\* The process dies: manifest and transcript stay, askers die with it.
Crash ==
  /\ Journaled /\ lives < MaxLives
  /\ pc # "crashed"
  /\ pc' = "crashed"
  /\ answer' = [q \in Questions |-> IF answer[q] = "open" THEN "lost" ELSE answer[q]]
  /\ promoting' = FALSE
  /\ mail' = << >> /\ asked' = << >> /\ todo' = << >> /\ ringing' = {}
  /\ current' = None
  /\ UNCHANGED <<status, needTurn, cycles, served, log, standing, cancelled,
                 terminated, accepted, sent, disk, lives, continuous>>

\* restore_durable_agents_locked(): a recoverable agent whose process died or
\* whose thread has ended is launched again from manifest and transcript.
Restore ==
  /\ Journaled /\ lives < MaxLives
  /\ pc = "crashed" \/ (pc = "gone" /\ Closed /\ ~promoting)
  /\ disk.recoverable
  /\ lives' = lives + 1
  /\ pc' = "queued"
  /\ status' = "queued"
  /\ standing' = disk.standing
  /\ cancelled' = FALSE
  /\ ringing' = {}
  /\ mail' = disk.inbox
  /\ asked' = << >>
  /\ current' = None
  /\ terminated' = FALSE
  /\ todo' = << >>
  /\ needTurn' = FALSE
  /\ cycles' = 0
  /\ UNCHANGED <<served, log, callers, disk, continuous>>

\* The end of an agent that will not come back: not a deadlock.
Rest == /\ Stopped
        /\ UNCHANGED vars

-----------------------------------------------------------------------------
ThreadStep == \/ Begin \/ Greet \/ Deliver \/ Acknowledge \/ Top \/ Capped \/ Answer
              \/ Quiet \/ Close \/ Look \/ Doze \/ Timeout \/ Resume
              \/ Interrupted \/ Reap

Next == \/ \E m \in Messages : Enqueue(m)
        \/ \E q \in Questions : Ask(q)
        \/ PromoteCheck \/ Promote \/ Cascade \/ CloseDurably
        \/ \E who \in {"peer", "cancel"} : Ring(who)
        \/ Start \/ Destroy \/ ThreadStep \/ RunTurn \/ Fail \/ TurnCancelled
        \/ Crash \/ Restore \/ Rest

Spec == Init /\ [][Next]_vars

(***************************************************************************)
(* Fairness.  The supervisor starts or destroys a queued agent             *)
(* (AgentSupervisor!QueuedStarts); the thread runs; every turn ends,       *)
(* because requests time out and rounds are bounded; a caller that has     *)
(* left the mutex notifies.                                                *)
(***************************************************************************)
FairSpec == /\ Spec
            /\ WF_vars(Start \/ Destroy)
            /\ WF_vars(ThreadStep)
            /\ WF_vars(RunTurn \/ TurnCancelled \/ Fail)
            /\ \A who \in {"peer", "cancel"} : WF_vars(Ring(who))

-----------------------------------------------------------------------------
(* Properties.                                                             *)

ThreadPc == {"queued", "begin", "greeting", "delivering", "acking", "top", "capped",
             "turn", "turned", "quiet", "closing", "parked", "checked", "asleep", "awake",
             "resuming", "interrupted", "reap", "gone", "crashed"}

\* Every variable has its type.
TypeOK == /\ pc \in ThreadPc
          /\ status \in {"queued", "running", "done", "failed", "cancelled"}
          /\ standing \in BOOLEAN /\ cancelled \in BOOLEAN
          /\ terminated \in BOOLEAN /\ needTurn \in BOOLEAN /\ promoting \in BOOLEAN
          /\ ringing \subseteq {"peer", "cancel"}
          /\ mail \in Seq(Entries) /\ todo \in Seq(Entries) /\ log \in Seq(Entries)
          /\ asked \in Seq(Questions)
          /\ current \in Questions \union {None}
          /\ answer \in [Questions -> {"unasked", "open", "answered", "empty", "lost"}]
          /\ continuous \in BOOLEAN /\ cycles \in Nat /\ served \in 0..Len(log) /\ lives \in 1..MaxLives
          /\ disk \in [recoverable : BOOLEAN, standing : BOOLEAN, inbox : Seq(Entries)]
          /\ accepted \in Seq(Messages) /\ sent \subseteq Messages

\* A promise is fulfilled once: an answer never changes (Reaper and the turn
\* share pending_answer).
AnswerOnce == [][\A q \in Questions : answer[q] \in {"answered", "empty"} => answer'[q] = answer[q]]_vars

\* "never hangs" (SubAgent.hpp, interrogate): an agent that has ended leaves
\* no asker behind, however its end and the question interleave.
NoAskerLeft == pc = "gone" => \A q \in Questions : answer[q] # "open"

\* A non-empty answer is the output of a turn run after the question entered
\* the transcript.
AnsweredFromTurn ==
  \A q \in Questions : answer[q] = "answered" => \E i \in 1..served : log[i] = q

\* No message a durable agent accepted is lost, whatever crashes, failures and
\* restarts: it is in the transcript or still in the manifest's inbox.
AcceptedSurvives ==
  Journaled => \A i \in 1..Len(accepted) :
                 InSeq(log, accepted[i]) \/ InSeq(disk.inbox, accepted[i])

\* ... and none is delivered twice, though append and acknowledgement are two
\* writes ("Stable message IDs make that boundary idempotent").
DeliveredOnce == \A i, j \in 1..Len(log) : log[i] = log[j] => i = j

\* Every message of s comes after all that were accepted before it: those are
\* in S or stand before it in s.
InOrder(a, s, S) ==
  \A i \in 1..Len(s) : s[i] \in Messages =>
    \E k \in 1..Len(a) : /\ a[k] = s[i]
                         /\ \A j \in 1..k - 1 : a[j] \in S \/ \E h \in 1..i - 1 : s[h] = a[j]

\* Messages reach the transcript in the order they were accepted, without gap
\* and once (SubAgent.cpp:447-461; a durable agent's too, in any generation).
FifoDelivery ==
  /\ InOrder(accepted, log, {})
  /\ \A i, j \in 1..Len(log) : log[i] \in Messages /\ log[i] = log[j] => i = j

\* "any message accepted before close gets its own turn": when an agent closes
\* by itself, a completed turn has answered every message it accepted.
CloseServesAll ==
  [][(pc = "closing" /\ status' = "done") =>
        \A i \in 1..Len(accepted) : \E k \in 1..served : log[k] = accepted[i]]_vars

\* Every asker gets an answer or the sentinel, unless the process dies.
AskersReleased == \A q \in Questions : answer[q] = "open" ~> answer[q] # "open"

\* A message for a live agent wakes it if it sleeps: it is delivered unless
\* the agent ends first.
MailIsServed == mail # << >> ~> (mail = << >> \/ Stopped)

\* Cancelling an agent ends its thread: eviction and shutdown join it.
CancelEnds == cancelled ~> Stopped
=============================================================================
