---------------------------- MODULE Conversation ----------------------------
(***************************************************************************)
(* A Conversation: the messages in memory, the session file on disk that   *)
(* they are appended to, and run_turn(), which asks the model, journals    *)
(* the calls it wants, executes them one by one and journals each result.  *)
(* The process may die at any step, the turn may be cancelled at any step, *)
(* an append may fail, also after the file was replaced.                   *)
(*                                                                         *)
(* Two drivers: a worker (SubAgent) appends what it is told durably, drops *)
(* the conversation on an error and restores it from disk; the REPL keeps  *)
(* memory going, and /resume loads the old messages into a new session.    *)
(* A message is its role and what it refers to: the texts it says, the     *)
(* calls it asks for or the call it answers.                               *)
(***************************************************************************)
EXTENDS Naturals, Sequences, FiniteSets, FiniteSetsExt

CONSTANTS Drivers,      \* subset of {"worker", "repl"}
          Says,         \* texts the user or a peer has to say
          KeepLast,     \* keep_last_n_turns_verbatim
          MaxToolTurns, \* tools.max_tool_turns
          MaxCalls,     \* bound on the calls the model makes
          MaxRejected,  \* bound on degenerate answers
          MaxCompacted, \* bound on checkpoints
          MaxFaults,    \* bound on appends that fail
          MaxRuns       \* bound on processes started

ASSUME ConversationAssumption ==
  /\ Drivers \subseteq {"worker", "repl"}
  /\ KeepLast \in Nat \ {0} /\ MaxToolTurns \in Nat \ {0}
  /\ Says \subseteq Nat /\ MaxCalls \in Nat

VARIABLES
  driver, exact,   \* configuration: who drives; exact_compact_tokens_ > 0?
  pc,              \* where the thread is
  mem, disk,       \* messages_; the entries of the session file
  job,             \* run_turn()'s locals: tool_turn, overflow_retry_used, its
                   \* token, and where it goes once the calls are closed
  told,            \* history: texts whose acceptance was acknowledged
  executed,        \* history: how often each call was executed
  issued,          \* number of calls the model has made
  faults, runs

config == <<driver, exact>>
ghosts == <<told, executed, issued>>
vars   == <<config, pc, mem, disk, job, ghosts, faults, runs>>

NoJob == [turn |-> 0, retried |-> FALSE, cancelled |-> FALSE, after |-> "idle"]

Outcomes == {"done", "error", "unknown", "pruned"}
Roles    == {"user", "calls", "answer", "blank", "rejected", "reminder",
             "summary", "continue"} \union Outcomes
Msg(role, refs) == [role |-> role, refs |-> refs, active |-> <<>>]
IsResult(m)     == m.role \in Outcomes

Init ==
  /\ driver \in Drivers /\ exact \in BOOLEAN
  /\ pc = "off" /\ mem = <<>> /\ disk = <<>> /\ job = NoJob
  /\ told = {} /\ executed = [c \in 1..MaxCalls |-> 0] /\ issued = 0
  /\ faults = 0 /\ runs = 0

-----------------------------------------------------------------------------
\* A rejected answer is on disk as it was; the context holds a reminder.
InContext(m) == IF m.role = "rejected" THEN Msg("reminder", {}) ELSE m

\* restore(): the context a session file stands for, the last checkpoint and
\* what was said after it.
LastCheckpoint(entries) == Max({0} \union {i \in DOMAIN entries : entries[i].role = "checkpoint"})
Active(entries) ==
  LET c == LastCheckpoint(entries)
  IN  (IF c = 0 THEN <<>> ELSE entries[c].active)
        \o [i \in 1..Len(entries) - c |-> InContext(entries[c + i])]

\* The calls of the group at the end of s that have no result yet.
GroupStart(s) == Max({0} \union {i \in DOMAIN s : ~IsResult(s[i])})
Open(s) ==
  LET g == GroupStart(s)
  IN  IF g = 0 \/ s[g].role # "calls" THEN {}
      ELSE s[g].refs \ UNION {s[i].refs : i \in g + 1..Len(s)}

\* compact_to_notepad(): the bodies of old tool results are dropped.
Pruned(s) ==
  [i \in DOMAIN s |-> IF i + KeepLast <= Len(s) /\ IsResult(s[i])
                        THEN Msg("pruned", s[i].refs) ELSE s[i]]

\* Mutant: the tail begins where the count says.
BugTailStart(s, keep) == IF Len(s) > keep THEN Len(s) - keep + 1 ELSE 1

\* safe_tail_start(): the tail takes the call of every result that it keeps.
TailStart(s, keep) ==
  LET cut == IF Len(s) > keep THEN Len(s) - keep + 1 ELSE 1
  IN  Min({cut} \union {i \in DOMAIN s : i < cut /\ s[i].role = "calls" /\
             \E j \in cut..Len(s) : IsResult(s[j]) /\ s[j].refs \subseteq s[i].refs})

Carried(s) == UNION {s[i].refs : i \in {j \in DOMAIN s : s[j].role \in {"user", "summary"}}}

\* compact(): a summary in place of the head.
Compacted(s, keep) ==
  LET t == TailStart(s, keep)
  IN  IF t = 1 THEN s
      ELSE <<Msg("summary", Carried(SubSeq(s, 1, t - 1)))>> \o SubSeq(s, t, Len(s))
             \o (IF keep = 0 THEN <<Msg("continue", {})>> ELSE <<>>)

-----------------------------------------------------------------------------
Goto(p) == pc' = p

\* run_turn() or a delivery returns Err: a worker is thrown away and restored.
GiveUp == /\ job' = NoJob
          /\ IF driver = "worker" THEN Goto("off") /\ mem' = <<>>
                                  ELSE Goto("idle") /\ UNCHANGED mem

\* append_message() fails; the file may have been replaced nevertheless.
AppendFails(m) ==
  /\ faults < MaxFaults /\ faults' = faults + 1
  /\ disk' \in {disk, Append(disk, m)}

\* A message is appended to the file, then to memory.
Journal(m, next) ==
  \/ /\ disk' = Append(disk, m) /\ mem' = Append(mem, m)
     /\ Goto(next) /\ job' = (IF next = "idle" THEN NoJob ELSE job) /\ UNCHANGED faults
  \/ AppendFails(m) /\ GiveUp

-----------------------------------------------------------------------------
\* A worker restores its session and closes an open group; /resume loads the
\* messages, the session of the new process begins empty.
Start ==
  /\ pc = "off" /\ runs < MaxRuns
  /\ runs' = runs + 1
  /\ mem' = Active(disk)
  /\ IF driver = "worker" THEN Goto("close") /\ UNCHANGED disk
                          ELSE Goto("idle") /\ disk' = <<>>
  /\ UNCHANGED <<config, job, ghosts, faults>>

\* Mutant: what was not recorded did not happen.
BugClose ==
  /\ pc = "close"
  /\ IF Open(mem) = {}
       THEN Goto(job.after) /\ UNCHANGED <<mem, disk, job, faults>>
       ELSE Journal(Msg("error", {Min(Open(mem))}), "close")
  /\ UNCHANGED <<config, ghosts, runs>>

\* Mutant: an open group is dispatched again.
BugCloseReplays ==
  /\ pc = "close"
  /\ Goto(IF Open(mem) = {} THEN job.after ELSE "calls")
  /\ UNCHANGED <<config, mem, disk, job, ghosts, faults, runs>>

\* recover_interrupted_tools(), one append at a time.
Close ==
  /\ pc = "close"
  /\ IF Open(mem) = {}
       THEN Goto(job.after) /\ UNCHANGED <<mem, disk, job, faults>>
       ELSE Journal(Msg("unknown", {Min(Open(mem))}), "close")
  /\ UNCHANGED <<config, ghosts, runs>>

\* Mutant: mail is appended whether it is recorded or not.
BugDeliver(n) ==
  /\ pc = "idle" /\ driver = "worker" /\ n \notin told
  /\ \/ Journal(Msg("user", {n}), "idle") /\ told' = told \union {n}
     \/ AppendFails(Msg("user", {n})) /\ GiveUp /\ UNCHANGED told
  /\ UNCHANGED <<config, executed, issued, runs>>

\* SubAgent's deliver(): what is recorded already is acknowledged only; mail
\* that comes after a turn first compacts a standing window.
Deliver(n) ==
  /\ pc = "idle" /\ driver = "worker" /\ n \notin told
  /\ \E m \in IF exact THEN {mem} ELSE {mem, Pruned(mem)} :
       IF \E i \in DOMAIN m : m[i] = Msg("user", {n})
         THEN told' = told \union {n} /\ mem' = m /\ UNCHANGED <<pc, disk, job, faults>>
         ELSE \/ /\ disk' = Append(disk, Msg("user", {n})) /\ mem' = Append(m, Msg("user", {n}))
                 /\ told' = told \union {n} /\ UNCHANGED <<pc, job, faults>>
              \/ AppendFails(Msg("user", {n})) /\ GiveUp /\ UNCHANGED told
  /\ UNCHANGED <<config, executed, issued, runs>>

\* user_message(): best effort on disk, memory in any case.
UserMessage(n) ==
  /\ pc = "idle" /\ driver = "repl" /\ n \notin told
  /\ \/ disk' = Append(disk, Msg("user", {n})) /\ UNCHANGED faults
     \/ AppendFails(Msg("user", {n}))
  /\ mem' = Append(mem, Msg("user", {n})) /\ told' = told \union {n}
  /\ UNCHANGED <<config, pc, job, executed, issued, runs>>

-----------------------------------------------------------------------------
\* A worker runs a turn when mail came or its last turn has no answer, after
\* it was told again what its inbox still holds; the REPL when the user has
\* said something.
RunTurn ==
  /\ pc = "idle" /\ mem # <<>>
  /\ IF driver = "worker" THEN mem[Len(mem)].role \notin {"answer", "blank"} /\ Carried(mem) \subseteq told
                          ELSE mem[Len(mem)].role = "user"
  /\ Goto("close") /\ job' = [NoJob EXCEPT !.after = IF exact THEN "request" ELSE "preflight"]
  /\ UNCHANGED <<config, mem, disk, ghosts, faults, runs>>

\* The estimate reaches the threshold or not.
Preflight ==
  /\ pc = "preflight"
  /\ mem' \in {mem, Pruned(mem)} /\ Goto("request")
  /\ UNCHANGED <<config, disk, job, ghosts, faults, runs>>

\* The top of the tool loop: count the tokens, or go ahead.
Request ==
  /\ pc = "request"
  /\ IF job.cancelled THEN GiveUp
                      ELSE Goto(IF exact THEN "count" ELSE "stream") /\ UNCHANGED <<mem, job>>
  /\ UNCHANGED <<config, disk, ghosts, faults, runs>>

Fits ==
  /\ pc = "count"
  /\ Goto("stream")
  /\ UNCHANGED <<config, mem, disk, job, ghosts, faults, runs>>

\* prepare_exact_context(): one of the three candidates fits; its checkpoint
\* is on disk before memory changes.
Compact ==
  /\ pc = "count"
  /\ Quantify(DOMAIN disk, LAMBDA i : disk[i].role = "checkpoint") < MaxCompacted
  /\ \E keep \in {KeepLast, 1, 0} :
       LET context    == Compacted(mem, keep)
           checkpoint == [Msg("checkpoint", {}) EXCEPT !.active = context]
       IN  /\ context # mem
           /\ \/ disk' = Append(disk, checkpoint) /\ mem' = context /\ Goto("stream")
                 /\ UNCHANGED <<job, faults>>
              \/ AppendFails(checkpoint) /\ GiveUp
  /\ UNCHANGED <<config, ghosts, runs>>

\* The tokenizer, a summary, every candidate or the model fails, or the turn
\* is cancelled.
Fail ==
  /\ pc \in {"count", "stream"}
  /\ GiveUp
  /\ UNCHANGED <<config, disk, ghosts, faults, runs>>

\* Mutant: prune and ask again as long as the prompt is too large.
BugOverflow ==
  /\ pc = "stream" /\ ~exact
  /\ mem' = Pruned(mem) /\ Goto("request")
  /\ UNCHANGED <<config, disk, job, ghosts, faults, runs>>

\* The prompt is too large: prune, once, and go round the loop.  Past its
\* last round what there is becomes the answer: nothing.
Overflow ==
  /\ pc = "stream" /\ ~exact /\ ~job.retried
  /\ mem' = Pruned(mem) /\ job' = [job EXCEPT !.retried = TRUE, !.turn = @ + 1]
  /\ Goto(IF job.turn = MaxToolTurns THEN "blank" ELSE "request")
  /\ UNCHANGED <<config, disk, ghosts, faults, runs>>

\* finish_reason "tool_calls": the intents are journaled before any executes.
ModelCalls ==
  /\ pc = "stream" /\ job.turn < MaxToolTurns
  /\ \E n \in issued + 1..MaxCalls :
       Journal(Msg("calls", issued + 1..n), "calls") /\ issued' = n
  /\ UNCHANGED <<config, told, executed, runs>>

\* A stop, or more calls when the cap is reached.
ModelAnswers ==
  /\ pc \in {"stream", "blank"}
  /\ Journal(Msg(IF pc = "stream" THEN "answer" ELSE "blank", {}), "idle")
  /\ UNCHANGED <<config, ghosts, runs>>

\* A degenerate answer is journaled as it is; memory keeps one reminder.
Reject ==
  /\ pc = "stream" /\ driver = "worker"
  /\ Quantify(DOMAIN disk, LAMBDA i : disk[i].role = "rejected") < MaxRejected
  /\ \/ disk' = Append(disk, Msg("rejected", {})) /\ UNCHANGED faults
     \/ AppendFails(Msg("rejected", {}))
  /\ GiveUp
  /\ UNCHANGED <<config, ghosts, runs>>

-----------------------------------------------------------------------------
Call == Min(Open(mem))

\* Malformed arguments, a denied permission, an unknown or a blocked tool.
Refuse ==
  /\ pc = "calls" /\ Open(mem) # {}
  /\ Journal(Msg("error", {Call}), "calls")
  /\ UNCHANGED <<config, ghosts, runs>>

Execute ==
  /\ pc = "calls" /\ Open(mem) # {} /\ ~job.cancelled
  /\ executed' = [executed EXCEPT ![Call] = @ + 1] /\ Goto("result")
  /\ UNCHANGED <<config, mem, disk, job, told, issued, faults, runs>>

Result ==
  /\ pc = "result"
  /\ Journal(Msg("done", {Call}), "calls")
  /\ UNCHANGED <<config, ghosts, runs>>

\* All calls are done, or the token is cancelled between two of them.
Dispatched ==
  /\ pc = "calls" /\ (Open(mem) = {} \/ job.cancelled)
  /\ Goto("close") /\ job' = [job EXCEPT !.after = "request", !.turn = @ + 1]
  /\ UNCHANGED <<config, mem, disk, ghosts, faults, runs>>

-----------------------------------------------------------------------------
\* Where the thread looks at the token next (elsewhere it would change nothing
\* until then; a stream or a count that is cancelled fails).
Cancel ==
  /\ pc \in {"request", "calls"} /\ ~job.cancelled
  /\ job' = [job EXCEPT !.cancelled = TRUE]
  /\ UNCHANGED <<config, pc, mem, disk, ghosts, faults, runs>>

Crash ==
  /\ pc # "off"
  /\ Goto("off") /\ mem' = <<>> /\ job' = NoJob
  /\ UNCHANGED <<config, disk, ghosts, faults, runs>>

Thread == \/ Close \/ Preflight \/ Request \/ Fits \/ Compact \/ Fail \/ Overflow
          \/ ModelCalls \/ ModelAnswers \/ Reject \/ Refuse \/ Execute \/ Result \/ Dispatched

Next == \/ Start \/ RunTurn \/ Thread \/ Cancel \/ Crash
        \/ \E n \in Says : Deliver(n) \/ UserMessage(n)

Spec == Init /\ [][Next]_vars

\* The thread of the turn runs, and the model, the tokenizer and the tools
\* answer or fail in the end (the client has time-outs).
FairSpec == Spec /\ WF_vars(Thread)

-----------------------------------------------------------------------------
\* Type invariant.
Entries == [role : Roles, refs : SUBSET Nat, active : {<<>>}]
Lines   == Entries \union [role : {"checkpoint"}, refs : SUBSET Nat, active : Seq(Entries)]
Places  == {"off", "idle", "close", "preflight", "request", "count", "stream", "blank",
            "calls", "result"}
TypeOK ==
  /\ driver \in Drivers /\ exact \in BOOLEAN
  /\ pc \in Places
  /\ mem \in Seq(Entries) /\ disk \in Seq(Lines)
  /\ job \in [turn : 0..MaxToolTurns + 1, retried : BOOLEAN, cancelled : BOOLEAN,
              after : {"idle", "preflight", "request"}]
  /\ issued \in 0..MaxCalls /\ executed \in [1..MaxCalls -> Nat]
  /\ told \subseteq Says

\* The results of a group of calls follow it, one for each call, and no result
\* stands alone: what a chat endpoint accepts.
Paired(s) ==
  \A i \in DOMAIN s :
    LET n == Cardinality(s[i].refs)
    IN  /\ s[i].role = "calls" =>
             /\ i + n <= Len(s) /\ \A j \in i + 1..i + n : IsResult(s[j])
             /\ UNION {s[j].refs : j \in i + 1..i + n} = s[i].refs
        /\ IsResult(s[i]) =>
             \E g \in 1..i - 1 : s[g].role = "calls" /\ s[i].refs \subseteq s[g].refs
                                 /\ i - g <= Cardinality(s[g].refs)

\* Every request of a worker is well formed, whatever was interrupted, failed,
\* restored, pruned or compacted before it (Conversation.cpp:1021-1022).
RequestIsPaired == pc = "stream" /\ driver = "worker" => Paired(mem)

Recorded(role, c) == \E i \in DOMAIN disk : disk[i].role = role /\ c \in disk[i].refs

\* A call that the transcript reports as refused has not been executed, one
\* with a result has; what is in doubt is "unknown", in a crash and after it.
TranscriptIsTrue ==
  \A c \in 1..MaxCalls :
    /\ Recorded("done", c) => executed[c] = 1
    /\ Recorded("error", c) => executed[c] = 0

\* When a turn begins or the model is asked, a crash would restore the context
\* in memory, bodies of pruned results aside (Conversation.cpp:1074-1075).
Alike(s, t) == /\ Len(s) = Len(t)
               /\ \A i \in DOMAIN s :
                    s[i] = t[i] \/ (IsResult(s[i]) /\ t[i] = Msg("pruned", s[i].refs))
RestoreIsMemory ==
  driver = "worker" /\ pc \in {"idle", "stream"} => Alike(Active(disk), mem)

\* What a worker has acknowledged is in every request, itself or as part of a
\* summary, and in its transcript once (SubAgent.cpp:447-461).
ToldIsKept ==
  driver = "worker" =>
    /\ pc = "stream" => told \subseteq Carried(mem)
    /\ \A i, j \in DOMAIN disk : disk[i].role = "user" /\ disk[i] = disk[j] => i = j

\* What is in memory and what was acknowledged are what the file gives back.
MemoryIsDurable == RestoreIsMemory /\ ToldIsKept

\* A call executes at most once, only after its intent is on disk and never
\* after an outcome for it is ("avoid blind replay", Conversation.cpp:943-944).
ActsOnce ==
  [][\A c \in 1..MaxCalls : executed'[c] # executed[c] =>
       /\ executed[c] = 0 /\ Recorded("calls", c)
       /\ \A o \in Outcomes : ~Recorded(o, c)]_vars

\* A turn ends: with an answer, an error or a crash.
TurnEnds == pc \notin {"idle", "off"} ~> pc \in {"idle", "off"}
=============================================================================
