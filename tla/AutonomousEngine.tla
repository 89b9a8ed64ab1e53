--------------------------- MODULE AutonomousEngine ---------------------------
(***************************************************************************)
(* The coordinator of src/autonomous/Engine.cpp: one process that turns    *)
(* files (inbox messages, letters, a wake command) into prompts of one     *)
(* durable session, runs a turn on each and files the reply.  It           *)
(* checkpoints `state` into state.json at the lines that call persist();   *)
(* it can crash between any two writes, any read or write may throw, and   *)
(* the next process starts from the files alone.  An append to the session *)
(* file may report a failure after it has replaced the file: the process   *)
(* then goes on from a memory that ends before that entry.                 *)
(*                                                                         *)
(* A prompt is what is said and not its words: whether it is a message, a  *)
(* wake or a work cycle, which one, the letters it carries and whether it  *)
(* carries the crash evidence.                                             *)
(***************************************************************************)
EXTENDS Naturals, Sequences, FiniteSets, FiniteSetsExt

CONSTANTS Messages,   \* ids of inbox files, in the order of their names
          Malformed,  \* those next_inbox() cannot parse
          Choking,    \* those it parses and no prompt can be made of
          MaxWakes,   \* bound on wake commands
          Letters,    \* editions of the letter file
          MaxCycles,  \* bound on the cycles the timer starts
          MaxPosts,   \* bound on files a client posts, also again under an old id
          MaxTools,   \* bound on tool calls and on the cycles that make one
          MaxFaults,  \* bound on reads and writes that throw
          MaxCuts,    \* bound on answers whose excerpt cannot be stored
          MaxEnds     \* bound on crashes and stops from outside

ASSUME EngineAssumption == /\ Messages \subseteq Nat \ {0} /\ Malformed \subseteq Messages
                           /\ MaxWakes \in Nat /\ Letters \subseteq Nat \ {0}

VARIABLES
  pc,        \* where the process is, "off" between processes
  mem,       \* `state` in memory
  disk,      \* state.json
  log,       \* the session file
  tail,      \* conv.messages().back(): its place in the file
  unacked,   \* history: entries of the file whose append reported a failure
  cut,       \* answers whose first 12000 bytes end within a character
  inbox, outbox, processed, rejected, \* the message directories
  wakeFile,  \* wake.json
  offered,   \* wake commands written, each under an id of its own
  observed,  \* observations written to memory-outbox, from where flush_memory()
             \* hands them to the memory service at least once
  running,   \* does running.json exist?
  stop,      \* stop_requested
  posted,    \* history: messages a client has put in the inbox
  unreported,\* history: a process died and the transcript does not say so yet
  posts, faults, ends

said    == <<log, tail, unacked, cut>>
store   == <<disk, said>>
mail    == <<inbox, outbox, processed, rejected>>
clients == <<wakeFile, offered, posted, posts>>
marks   == <<running, stop, unreported>>
vars == <<pc, mem, store, mail, clients, observed, marks, faults, ends>>

NoPrompt == [kind |-> "none", id |-> 0, letter |-> 0, recovery |-> FALSE]
Said(kind, id) == [NoPrompt EXCEPT !.kind = kind, !.id = id]
NoWake   == [id |-> 0, fresh |-> FALSE]
NoState  == [phase |-> "idle", inbox |-> 0, wake |-> 0, lastWake |-> 0, letter |-> 0,
             prompt |-> NoPrompt, cycle |-> 0, crash |-> FALSE]

Init ==
  /\ pc = "off" /\ mem = NoState /\ disk = NoState
  /\ log = <<>> /\ tail = 0 /\ unacked = {} /\ cut = {}
  /\ inbox = {} /\ outbox = <<>> /\ processed = {} /\ rejected = {}
  /\ wakeFile = NoWake /\ offered = 0 /\ posted = {} /\ posts = 0
  /\ observed = {} /\ running = FALSE /\ stop = FALSE
  /\ unreported = FALSE /\ faults = 0 /\ ends = 0

-----------------------------------------------------------------------------
Entry(role, p) == [role |-> role, prompt |-> p]
TailIs(role)   == tail # 0 /\ log[tail].role = role
Completed      == TailIs("assistant")

\* Two wake prompts read the same, whatever the id of the command.
Text(p) == IF p.kind = "wake" THEN [p EXCEPT !.id = 0] ELSE p
TailIsPrompt == TailIs("user") /\ Text(log[tail].prompt) = Text(mem.prompt)

Goto(next) == pc' = next
Fail == faults < MaxFaults /\ faults' = faults + 1 /\ Goto("failed")

\* An entry is appended to the file, then to memory; or the append fails,
\* before it has replaced the file or after.
Say(e, next) ==
  \/ log' = Append(log, e) /\ tail' = Len(log) + 1 /\ Goto(next) /\ UNCHANGED <<unacked, faults>>
  \/ log' = Append(log, e) /\ unacked' = unacked \union {Len(log) + 1} /\ Fail /\ UNCHANGED tail
  \/ Fail /\ UNCHANGED <<log, tail, unacked>>

\* The process is gone and does not know it.
Die == /\ Goto("off") /\ mem' = NoState /\ tail' = 0 /\ stop' = FALSE
       /\ unreported' = (unreported \/ running)
       /\ UNCHANGED <<log, unacked, cut>>

\* persist(): `state` becomes s; the write of state.json is done or throws.
Persist(s, next) ==
  /\ mem' = s
  /\ \/ disk' = s /\ Goto(next) /\ UNCHANGED faults
     \/ Fail /\ UNCHANGED disk

\* The observation of a user's message is written before the checkpoint.
MarkRunning(next) ==
  /\ observed' = IF mem.inbox = 0 THEN observed ELSE observed \union {<<"input", mem.inbox>>}
  /\ Persist([mem EXCEPT !.phase = "running"], next)

-----------------------------------------------------------------------------
\* The calls the file ends in are closed with "outcome unknown".
Repaired == IF log # <<>> /\ log[Len(log)].role = "calls"
              THEN Append(log, Entry("result", NoPrompt)) ELSE log

\* Mutant: a wake command belongs to the run that accepted it.
BugStartWake ==
  /\ pc = "off"
  /\ mem' = [disk EXCEPT !.crash = @ \/ running, !.wake = 0]
  /\ log' = Repaired /\ tail' = Len(log')
  /\ wakeFile' = [wakeFile EXCEPT !.fresh = FALSE]
  /\ Goto("starting")
  /\ UNCHANGED <<disk, unacked, cut, mail, offered, posted, posts, observed, marks, faults, ends>>

\* A process loads the checkpoint and the session file, finds the marker a
\* clean stop would have removed, and closes the interrupted tool group.
Start ==
  /\ pc = "off"
  /\ mem' = [disk EXCEPT !.crash = @ \/ running]
  /\ log' = Repaired /\ tail' = Len(log')
  /\ wakeFile' = [wakeFile EXCEPT !.fresh = FALSE]
  /\ Goto("starting")
  /\ UNCHANGED <<disk, unacked, cut, mail, offered, posted, posts, observed, marks, faults, ends>>

Started ==
  /\ pc = "starting"
  /\ disk' = mem /\ Goto("cycle")
  /\ UNCHANGED <<mem, said, mail, clients, observed, marks, faults, ends>>

\* publish_status("preparing"): the marker is there from now on, and the new
\* revision makes a wake command on disk stale.
Begin ==
  /\ pc = "cycle" /\ ~stop
  /\ running' = TRUE
  /\ wakeFile' = [wakeFile EXCEPT !.fresh = FALSE]
  /\ Goto(IF mem.phase = "idle" THEN "prepare" ELSE "recognise")
  /\ UNCHANGED <<mem, store, mail, offered, posted, posts, observed, stop, unreported, faults, ends>>

-----------------------------------------------------------------------------
\* Mutant: the letters are noted as read, a wake prompt does not carry them.
BugPrepareWake ==
  /\ pc = "prepare" /\ mem.wake # 0
  /\ \E l \in Letters \union {mem.letter} :
       Persist([mem EXCEPT !.inbox = 0, !.prompt = Said("wake", mem.wake), !.phase = "prepared",
                           !.letter = l], "recognise")
  /\ UNCHANGED <<said, mail, clients, observed, marks, ends>>

\* The phase is idle: a wake command, else a message, else the goal.
PrepareWake ==
  /\ pc = "prepare" /\ mem.wake # 0
  /\ Persist([mem EXCEPT !.inbox = 0, !.prompt = Said("wake", mem.wake), !.phase = "prepared"], "recognise")
  /\ UNCHANGED <<said, mail, clients, observed, marks, ends>>

\* Mutant: a message is filed as processed when it is taken.
BugNextInbox ==
  LET waiting == inbox \ (DOMAIN outbox \union Malformed)
  IN  /\ pc = "prepare" /\ mem.wake = 0
      /\ waiting = {} => mem.cycle < MaxCycles
      /\ mem' = [mem EXCEPT !.inbox = IF waiting = {} THEN 0 ELSE Min(waiting)]
      /\ inbox' = inbox \ {mem'.inbox}
      /\ processed' = processed \union (inbox \intersect {mem'.inbox})
      /\ Goto("letters")
      /\ UNCHANGED <<store, outbox, rejected, clients, observed, marks, faults, ends>>

\* Mutant: a malformed file stays and hides those behind it.
BugNextInboxStuck ==
  LET waiting == {m \in inbox \ DOMAIN outbox : \A b \in Malformed \intersect inbox : m < b}
  IN  /\ pc = "prepare" /\ mem.wake = 0
      /\ waiting = {} => mem.cycle < MaxCycles
      /\ mem' = [mem EXCEPT !.inbox = IF waiting = {} THEN 0 ELSE Min(waiting)]
      /\ Goto("letters")
      /\ UNCHANGED <<store, mail, clients, observed, marks, faults, ends>>

\* next_inbox(): files that come before the message it returns are moved, the
\* answered ones to processed, the malformed ones to rejected.
NextInbox ==
  LET waiting == inbox \ (DOMAIN outbox \union Malformed)
      passed  == IF waiting = {} THEN inbox ELSE {f \in inbox : f < Min(waiting)}
  IN  /\ pc = "prepare" /\ mem.wake = 0
      /\ inbox' = inbox \ passed
      /\ processed' = processed \union (passed \intersect DOMAIN outbox)
      /\ rejected' = rejected \union (passed \ DOMAIN outbox)
      /\ waiting = {} => mem.cycle < MaxCycles
      /\ mem' = [mem EXCEPT !.inbox = IF waiting = {} THEN 0 ELSE Min(waiting)]
      /\ Goto("letters")
      /\ UNCHANGED <<store, outbox, clients, observed, marks, faults, ends>>

\* The letter file is read into `state` and into the prompt; then come the
\* files of the server context and of the program map, which may throw, the
\* recall, which may fail, and the checkpoint of the prompt.
Prepare ==
  /\ pc = "letters" /\ mem.inbox \notin Choking
  /\ \E l \in Letters \union {mem.letter} :
       LET p    == IF mem.inbox = 0 THEN Said("work", mem.cycle + 1) ELSE Said("message", mem.inbox)
           read == [mem EXCEPT !.letter = l]
       IN  \/ Persist([read EXCEPT !.phase = "prepared",
                                   !.prompt = IF l = mem.letter THEN p ELSE [p EXCEPT !.letter = l]],
                      "recognise")
           \/ Fail /\ mem' = read /\ UNCHANGED disk
  /\ UNCHANGED <<said, mail, clients, observed, marks, ends>>

\* An issue id that is no string, or a recall cut within a character: the one
\* throws in every cycle, the other in the failure handler as well.
Choke ==
  /\ pc = "letters" /\ mem.inbox \in Choking
  /\ \/ Goto("failed") /\ UNCHANGED <<mem, said, stop, unreported>>
     \/ Die
  /\ UNCHANGED <<disk, mail, clients, observed, running, faults, ends>>

\* Mutant: an append is recognised only after the crash evidence is added.
BugRecognise ==
  /\ pc = "recognise"
  /\ Goto("report")
  /\ UNCHANGED <<mem, store, mail, clients, observed, marks, faults, ends>>

\* The prompt may be in the transcript already.
Recognise ==
  /\ pc = "recognise"
  /\ IF mem.phase = "prepared" /\ TailIsPrompt
       THEN MarkRunning("report")
       ELSE Goto("report") /\ UNCHANGED <<mem, disk, observed, faults>>
  /\ UNCHANGED <<said, mail, clients, marks, ends>>

\* Mutant: the evidence is appended after an answer, too.
BugReport ==
  /\ pc = "report"
  /\ IF ~mem.crash
       THEN Goto("append") /\ UNCHANGED <<mem, store, unreported, faults>>
     ELSE IF mem.phase = "prepared"
       THEN /\ Persist([mem EXCEPT !.crash = FALSE, !.prompt.recovery = TRUE], "append")
            /\ UNCHANGED <<said, unreported>>
     ELSE /\ Say(Entry("recovery", NoPrompt), "reported")
          /\ unreported' = (unreported /\ log' = log)
          /\ UNCHANGED <<mem, disk, cut>>
  /\ UNCHANGED <<mail, clients, observed, running, stop, ends>>

\* The crash evidence goes into a prompt that is not in the transcript yet, or
\* becomes a message of its own, unless the turn has its answer already.
Report ==
  /\ pc = "report"
  /\ IF ~mem.crash \/ (mem.phase = "running" /\ Completed)
       THEN Goto("append") /\ UNCHANGED <<mem, store, unreported, faults>>
     ELSE IF mem.phase = "prepared"
       THEN /\ Persist([mem EXCEPT !.crash = FALSE, !.prompt.recovery = TRUE], "append")
            /\ UNCHANGED <<said, unreported>>
     ELSE /\ Say(Entry("recovery", NoPrompt), "reported")
          /\ unreported' = (unreported /\ log' = log)
          /\ UNCHANGED <<mem, disk, cut>>
  /\ UNCHANGED <<mail, clients, observed, running, stop, ends>>

Reported ==
  /\ pc = "reported"
  /\ Persist([mem EXCEPT !.crash = FALSE], "append")
  /\ UNCHANGED <<said, mail, clients, observed, marks, ends>>

AppendPrompt ==
  /\ pc = "append"
  /\ IF mem.phase = "prepared" /\ ~TailIsPrompt
       THEN /\ Say(Entry("user", mem.prompt), "appended")
            /\ unreported' = (unreported /\ (log' = log \/ ~mem.prompt.recovery))
            /\ UNCHANGED cut
       ELSE /\ Goto(IF mem.phase = "prepared" THEN "appended" ELSE "turn")
            /\ UNCHANGED <<said, unreported, faults>>
  /\ UNCHANGED <<mem, disk, mail, clients, observed, running, stop, ends>>

Appended ==
  /\ pc = "appended"
  /\ MarkRunning("turn")
  /\ UNCHANGED <<said, mail, clients, marks, ends>>

-----------------------------------------------------------------------------
\* Conversation::run_turn(), unless the transcript ends in the answer.
StartTurn ==
  /\ pc = "turn"
  /\ IF TailIs("calls") THEN Say(Entry("result", NoPrompt), "model") /\ UNCHANGED cut
                        ELSE Goto(IF Completed THEN "reply" ELSE "model") /\ UNCHANGED <<said, faults>>
  /\ UNCHANGED <<mem, disk, mail, clients, observed, marks, ends>>

ModelCalls ==
  /\ pc = "model" /\ mem.cycle < MaxTools
  /\ Quantify(DOMAIN log, LAMBDA i : log[i].role = "calls") < MaxTools
  /\ Say(Entry("calls", NoPrompt), "tools")
  /\ UNCHANGED <<mem, disk, cut, mail, clients, observed, marks, ends>>

\* The tool's own result, or the one that closes what a cancelled turn left.
ToolResult ==
  /\ pc = "tools"
  /\ Say(Entry("result", NoPrompt), "model")
  /\ UNCHANGED <<mem, disk, cut, mail, clients, observed, marks, ends>>

ModelAnswers ==
  /\ pc = "model"
  /\ Say(Entry("assistant", NoPrompt), "reply")
  /\ \/ UNCHANGED cut
     \/ log' # log /\ Cardinality(cut) < MaxCuts /\ cut' = cut \union {Len(log')}
  /\ UNCHANGED <<mem, disk, mail, clients, observed, marks, ends>>

\* Cancelled by the signal watcher, or an error.
TurnFails ==
  /\ pc \in {"turn", "model", "tools"}
  /\ \/ stop /\ pc # "tools" /\ Goto("failed") /\ UNCHANGED faults
     \/ Fail
  /\ UNCHANGED <<mem, store, mail, clients, observed, marks, ends>>

-----------------------------------------------------------------------------
\* The answer is filed: outbox, processed, memory-outbox, checkpoint.
WriteReply ==
  /\ pc = "reply"
  /\ outbox' = IF mem.inbox = 0 \/ mem.inbox \in DOMAIN outbox THEN outbox
               ELSE [m \in DOMAIN outbox \union {mem.inbox} |->
                       IF m = mem.inbox THEN tail ELSE outbox[m]]
  /\ Goto("archive")
  /\ UNCHANGED <<mem, store, inbox, processed, rejected, clients, observed, marks, faults, ends>>

Archive ==
  /\ pc = "archive"
  /\ inbox' = inbox \ {mem.inbox}
  /\ processed' = processed \union (inbox \intersect {mem.inbox})
  /\ Goto("remember")
  /\ UNCHANGED <<mem, store, outbox, rejected, clients, observed, marks, faults, ends>>

Remember ==
  /\ pc = "remember"
  /\ observed' = observed \union {<<"cycle", mem.cycle + 1>>} /\ Goto("commit")
  /\ UNCHANGED <<mem, store, mail, clients, marks, faults, ends>>

Commit ==
  /\ pc = "commit" /\ tail \notin cut
  /\ Persist([mem EXCEPT !.cycle = @ + 1, !.phase = "idle", !.prompt = NoPrompt,
                         !.inbox = 0, !.wake = 0], "wait")
  /\ UNCHANGED <<said, mail, clients, observed, marks, ends>>

\* The excerpt of the answer is not UTF-8: state.dump() throws, in the handler
\* too, and it will in every process that finds this answer.
CommitChokes ==
  /\ pc = "commit" /\ tail \in cut
  /\ Die
  /\ UNCHANGED <<disk, mail, clients, observed, running, faults, ends>>

-----------------------------------------------------------------------------
\* A read or a write throws before it has changed anything.
Throw ==
  /\ pc \in {"cycle", "prepare", "letters", "recognise", "reported",
             "appended", "reply", "archive", "remember"}
  /\ Fail
  /\ UNCHANGED <<mem, store, mail, clients, observed, marks, ends>>

\* The handler of the cycle checkpoints what is in memory and backs off.
HandleFailure ==
  /\ pc = "failed"
  /\ IF stop THEN Goto("stopping") /\ UNCHANGED disk
             ELSE Goto("backoff") /\ disk' = mem
  /\ UNCHANGED <<mem, said, mail, clients, observed, marks, faults, ends>>

Timer ==
  /\ pc \in {"wait", "backoff"} /\ ~stop
  /\ pc = "wait" => mem.cycle < MaxCycles \/ mem.wake # 0
  /\ Goto("cycle")
  /\ UNCHANGED <<mem, store, mail, clients, observed, marks, faults, ends>>

InboxWakes ==
  /\ pc = "wait" /\ ~stop /\ inbox # {}
  /\ Goto("cycle")
  /\ UNCHANGED <<mem, store, mail, clients, observed, marks, faults, ends>>

\* consume_wake().  `state` is changed before the checkpoint is written; when
\* the write or the removal throws, the file stays and the engine waits on.
AcceptWake ==
  /\ pc = "wait" /\ ~stop /\ wakeFile.fresh /\ wakeFile.id # mem.lastWake
  /\ mem' = [mem EXCEPT !.wake = wakeFile.id, !.lastWake = wakeFile.id]
  /\ \/ disk' = mem' /\ wakeFile' = NoWake /\ Goto("cycle") /\ UNCHANGED faults
     \/ /\ faults < MaxFaults /\ faults' = faults + 1 /\ disk' \in {disk, mem'}
        /\ UNCHANGED <<pc, wakeFile>>
  /\ UNCHANGED <<said, mail, offered, posted, posts, observed, marks, ends>>

IgnoreWake ==
  /\ pc = "wait" /\ ~stop /\ wakeFile # NoWake
  /\ wakeFile.id = mem.lastWake \/ ~wakeFile.fresh
  /\ wakeFile' = NoWake
  /\ UNCHANGED <<pc, mem, store, mail, offered, posted, posts, observed, marks, faults, ends>>

\* The end of the loop: the last checkpoint, the workers' shutdown, the marker.
Stopping ==
  /\ pc \in {"cycle", "wait", "backoff"} /\ stop
  /\ Goto("stopping")
  /\ UNCHANGED <<mem, store, mail, clients, observed, marks, faults, ends>>

LastCheckpoint ==
  /\ pc = "stopping"
  /\ disk' = mem /\ Goto("halting")
  /\ UNCHANGED <<mem, said, mail, clients, observed, marks, faults, ends>>

Stopped ==
  /\ pc = "halting"
  /\ running' = FALSE /\ stop' = FALSE
  /\ Goto("off") /\ mem' = NoState /\ tail' = 0
  /\ UNCHANGED <<disk, log, unacked, cut, mail, clients, observed, unreported, faults, ends>>

\* The process dies, also of a checkpoint that throws outside a cycle.
Crash ==
  /\ pc # "off" /\ (stop \/ ends < MaxEnds)
  /\ Die
  /\ ends' = IF stop THEN ends ELSE ends + 1
  /\ UNCHANGED <<disk, mail, clients, observed, running, faults>>

-----------------------------------------------------------------------------
\* SIGTERM, where the engine looks at stop_requested next (elsewhere it would
\* change nothing until then).
RequestStop ==
  /\ pc \in {"cycle", "turn", "model", "tools", "failed", "wait", "backoff"} /\ ~stop
  /\ ends < MaxEnds /\ ends' = ends + 1
  /\ stop' = TRUE
  /\ UNCHANGED <<pc, mem, store, mail, clients, observed, running, unreported, faults>>

\* A client writes an inbox file, perhaps again under an id it has used.
Post(m) ==
  /\ m \notin inbox
  /\ posts < MaxPosts /\ posts' = posts + 1
  /\ inbox' = inbox \union {m}
  /\ posted' = posted \union {m}
  /\ UNCHANGED <<pc, mem, store, outbox, processed, rejected, wakeFile, offered,
                 observed, marks, faults, ends>>

\* The supervisor writes a wake command for the activity it has seen; it is
\* stale when a worker has published another revision since.
PostWake ==
  /\ pc = "wait" /\ wakeFile = NoWake /\ offered < MaxWakes
  /\ offered' = offered + 1
  /\ \E b \in BOOLEAN : wakeFile' = [id |-> offered', fresh |-> b]
  /\ UNCHANGED <<pc, mem, store, mail, posted, posts, observed, marks, faults, ends>>

-----------------------------------------------------------------------------
Turn == Start \/ Started \/ Begin \/ PrepareWake \/ NextInbox
        \/ Prepare \/ Choke \/ Recognise \/ Report \/ Reported \/ AppendPrompt \/ Appended
        \/ StartTurn \/ ModelCalls \/ ToolResult \/ ModelAnswers \/ TurnFails
        \/ WriteReply \/ Archive \/ Remember \/ Commit \/ CommitChokes \/ HandleFailure \/ Timer
        \/ Stopping \/ LastCheckpoint \/ Stopped

Next == \/ Turn \/ InboxWakes \/ AcceptWake \/ IgnoreWake
        \/ Throw \/ Crash \/ RequestStop
        \/ \E m \in Messages : Post(m)
        \/ PostWake

Spec == Init /\ [][Next]_vars

\* The process runs, somebody starts it again after it has ended, the model
\* answers in the end, and the wait loop looks at the inbox every second.
FairSpec == Spec /\ WF_vars(Turn) /\ WF_vars(InboxWakes)

-----------------------------------------------------------------------------
\* Type invariant.
Phases == {"idle", "prepared", "running"}
Kinds  == {"none", "message", "wake", "work"}
Prompts == [kind : Kinds, id : Nat, letter : Letters \union {0}, recovery : BOOLEAN]
States == [phase : Phases, inbox : Messages \union {0}, wake : Nat,
           lastWake : Nat, letter : Letters \union {0}, prompt : Prompts,
           cycle : Nat, crash : BOOLEAN]
Roles == {"user", "recovery", "calls", "result", "assistant"}
TypeOK ==
  /\ mem \in States /\ disk \in States
  /\ {mem.inbox, disk.inbox} \subseteq (posted \ Malformed) \union {0}
  /\ log \in Seq([role : Roles, prompt : Prompts]) /\ unacked \subseteq DOMAIN log
  /\ tail \in 0..Len(log) /\ cut \subseteq DOMAIN log
  /\ inbox \subseteq posted /\ processed \subseteq posted /\ rejected \subseteq Malformed
  /\ DOMAIN outbox \subseteq posted \ Malformed /\ posted \subseteq Messages
  /\ \A m \in DOMAIN outbox : outbox[m] \in DOMAIN log
  /\ wakeFile \in [id : Nat, fresh : BOOLEAN] /\ offered \in Nat
  /\ {running, stop, unreported} \subseteq BOOLEAN
  /\ {posts, faults, ends} \subseteq Nat

PromptsBefore(i) == {j \in 1..i : log[j].role = "user"}

Acked == DOMAIN log \ unacked

\* A message, a wake command or a work cycle becomes a prompt of the session
\* at most once, whatever fails between the append and the checkpoint
\* ("resume this same turn exactly once", Engine.cpp:668).  Only a prompt whose
\* append reported a failure and left it in the file can be there again.
PromptOnce ==
  \A i, j \in Acked :
    /\ i # j /\ log[i].role = "user" /\ log[j].role = "user"
    => <<log[i].prompt.kind, log[i].prompt.id>> # <<log[j].prompt.kind, log[j].prompt.id>>

\* A reply in the outbox is the answer of the turn that its message started,
\* also when the turn went through crashes, recovery texts and retries.
ReplyIsOwn ==
  \A m \in DOMAIN outbox :
    /\ log[outbox[m]].role = "assistant"
    /\ PromptsBefore(outbox[m]) # {}
    /\ LET p == log[Max(PromptsBefore(outbox[m]))].prompt
       IN  p.kind = "message" /\ p.id = m

\* A prompt is answered once: a turn whose answer is known to be in the
\* transcript is not run again, neither by a retry nor by the next process
\* (Engine.cpp:786-788).
AnsweredOnce ==
  \A i, j \in Acked :
    i < j /\ log[i].role = "assistant" /\ log[j].role = "assistant"
    => PromptsBefore(i) # PromptsBefore(j)

\* A message leaves the inbox with its reply in the outbox, or rejected.
NoMessageLost ==
  /\ posted \subseteq inbox \union processed \union rejected
  /\ processed \subseteq DOMAIN outbox

\* An interrupted tool call is closed before anything else is said, and once:
\* a call is followed by a result, and between a result and its call are at
\* most entries of which the process did not know (Engine.cpp:475-477).
CallsAreClosed ==
  \A i \in Acked :
    /\ log[i].role = "calls" /\ i < Len(log) => log[i + 1].role = "result"
    /\ log[i].role = "result" =>
         \E c \in 1..i - 1 : log[c].role = "calls" /\ c + 1..i - 1 \subseteq unacked

\* The death of a process is not forgotten until the session has been told: a
\* process knows of it, and between processes the files do.
CrashIsKept ==
  unreported => IF pc = "off" THEN running \/ disk.crash \/ disk.prompt.recovery
                              ELSE mem.crash \/ mem.prompt.recovery

\* What a committed cycle said, and every answered message, is on its way to
\* the memory service or there.
ObservationsKept ==
  /\ \A n \in 1..disk.cycle : <<"cycle", n>> \in observed
  /\ \A m \in processed : <<"input", m>> \in observed

\* As long as nothing has thrown, the edition of the letters that the
\* checkpoint has recorded is in a prompt, whenever the process died.
LettersKept ==
  faults = 0 /\ disk.letter > 0 =>
    \/ disk.prompt.letter = disk.letter
    \/ \E i \in DOMAIN log : log[i].prompt.letter = disk.letter

\* Nothing a crash can take is forgotten: that it happened, what the process has
\* learned and what it was sent; and no call of the transcript stays open.
NothingForgotten == CrashIsKept /\ ObservationsKept /\ LettersKept /\ CallsAreClosed

\* What the outbox says is what the model said, once, to that message.
RepliesAreSound == ReplyIsOwn /\ AnsweredOnce

\* Every message of which a prompt can be made is answered, unless one of which
\* none can is before it, or an answer that cannot be excerpted is the last.
InboxServed ==
  \A m \in Messages \ (Malformed \union Choking) :
    m \in inbox ~> \/ m \in DOMAIN outbox
                   \/ \E b \in Choking \intersect inbox : b < m
                   \/ Len(log) \in cut

\* A wake command in the checkpoint is said to the model, itself or, when its
\* acceptance could not be recorded, as the one that came after it.
WakeServed ==
  \A w \in 1..MaxWakes : disk.wake = w ~> \E i \in DOMAIN log :
    log[i].prompt.kind = "wake" /\ log[i].prompt.id >= w
=============================================================================
