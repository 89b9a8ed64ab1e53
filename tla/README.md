# BatBox: a TLA+ verification project

BatBox is a terminal coding assistant and, in its autonomous mode, a long-running
engine that drives a language model through tasks with the help of sub-agents.
This directory holds TLA+ models of its concurrent and crash-tolerant parts, the
TLC configurations that check them, and TLAPS proofs about them.

## 1. Inventory

| Part | State it keeps | Operations | Who it talks to |
|---|---|---|---|
| **AgentSupervisor** (`src/agents/AgentSupervisor.cpp`) | permits (`slots`), `pending_ids`, `active_count`, the `agents` map, `standing_lru`, `slot_released`, `pinned_standing`, `exited`, `max_standing`, `shutting_down` | spawn/launch, park, resume, exit, promote, interrogate, evict, cancel, restore, prune, wait_all, shutdown | starts and destroys SubAgents, is called back by their threads |
| **SubAgent** (`src/agents/SubAgent.cpp`) | `status_`, `standing_`, `pending_messages_`, `interrogations_`, `terminated_`, its thread | run (turn, quiescence, park, close), enqueue_message, interrogate, promote, cancel, destructor | Conversation, AgentJournal, the supervisor's callbacks |
| **AgentJournal / recovery** (`AgentJournal.cpp`, `restore_durable_agents_locked`) | one manifest per worker: `recoverable`, `standing`, `status`, `inbox`, `session_id`, retry counters | atomic update; restore after a restart or a failure | SubAgent, SessionStore |
| **CancelToken** (`src/core/CancelToken.cpp`) | a tree of stop sources joined by relay callbacks | child, combine, on_cancel, request_stop | everything that can be cancelled |
| **Autonomous engine** (`src/autonomous/Engine.cpp`) | `state.json` (phase, turn, inputs), inbox, outbox, processed letters, wake id, crash report | one cycle: recall, prepare, append, turn, outbox, archive, observe; idle waits; wake; recovery | Conversation, memory service, operator files |
| **Activity monitor** (`src/inference/Activity.cpp`) | revision, per-actor phases, parked actors, wake file | begin/end of requests, phase changes, accept_wake | Engine, SubAgent, Client |
| **Conversation, orchestrator, compaction** (`src/conversation`) | transcript, allowed tools, plan mode, context window | user message, run_turn (stream, tool calls, results), restore, compact | Client, ToolRegistry, PermissionGate, SessionStore |
| **Inference client** (`src/inference`) | one HTTP stream, parsers, usage | chat with retry and cancellation | providers |
| **Sessions** (`src/session`) | append-only session files, index | append, load, repair, index | Conversation |
| **SidecarManager** (`src/sidecar`) | process state Cold/Starting/Running/CrashedRestarting/Disabled, pending requests | prewarm, request, restart, shutdown | Python sidecar |
| **MCP** (`src/mcp`) | request ids, pending futures, transports, server registry | call, notify, reconnect, stop | MCP servers |
| **Permissions** (`src/permissions`) | rules, mode, session grants | check, remember | tools, TUI |
| **Cron, task store, notepad** (`src/tools`) | jobs, tasks, notes in files | create, fire, claim, update | agents |
| **Workflow** (`src/agents/Workflow.cpp`) | steps and dependencies | topological run of steps | AgentSupervisor |
| **Config, plugins, REPL, TUI, commands, wiring** | settings, registries, screen | load, reload, render | all |
| **Memory service, engine supervisor (Python)** | graph store; process restart policy | observe, recall; restart | Engine |

How they interact.  `AgentSupervisor::launch` creates a SubAgent, puts it in the
map and either starts its thread on a free permit or queues it.  A SubAgent's
thread calls the supervisor back: `park` when a standing agent becomes quiet,
`resume_work` before it works again, `on_exit` at the end; these hand permits
on to queued agents.  Clients call into an agent only through the supervisor's
map (messages, questions, promotion, cancellation).  Workers and the engine
persist before they act, so that a restart finds what was accepted.

What is hard here: three locks of the supervisor taken one after the other and
never together with the agent's own lock; agents that end while they are being
promoted, evicted or restored under the same id; a condition variable that is
notified without its mutex; cancellation that travels through relay objects with
lifetimes of their own; sequences of durable writes that a crash can cut
anywhere; queues, pools and budgets at their limits.

What makes each part correct, in a sentence: permits are neither lost nor made
and queued agents start (AgentSupervisor); every question is answered exactly
once and no accepted message is dropped by a natural close (SubAgent); an accepted
message survives restarts and is delivered once (journal); cancelling an ancestor
cancels its descendants (CancelToken); every letter is processed and archived
exactly once whatever the crash point (Engine).

## 2. Plan

Order of work, most important first.

1. `SlotPool` (abstract permit pool), `AgentSupervisor` (lock-level detail), the
   refinement between them, and proofs of both.
2. `SubAgent`: one agent's mailbox, question channel, park wait and close, with
   its manifest, inbox and transcript over crashes and restarts.
3. `CancelTree`: the relay tree of CancelToken.
4. `AutonomousEngine`: the durable cycle of the engine over crashes.
5. `Conversation` (turn, tools, compaction), `SessionStore`, `SidecarManager`,
   `McpTransport`, with proofs of all of them and of `AutonomousEngine`.
   Steps 1 to 5 are done.
6. Not done: `Activity` with the wake-ups, `CronScheduler`, `TaskStore`,
   `PermissionGate`, `Workflow`, `AgentEventQueue`, `EngineSupervisor`; the composition
   of supervisor shutdown with `AppShutdown.cpp`, and of Conversation with SessionStore.

Each part has one run for its safety and liveness together where the state
space allows, and an abstract specification where it promises something simple
(a queue, a log, a set of grants); the runs of a finished part are merged when
two of them ask the same question.

Theorems worth proving: permit conservation, bounded parallelism and the
refinement for any number of agents and permits; one answer per question, and no
message lost, delivered twice or out of order by a durable agent; that the cancel cascade
misses no hop and comes down a chain of any length; well-formed requests and a
truthful transcript; the count of `wait_all` and the soundness of the standing pool;
the map of promises of a transport, the election of a sidecar's driver, what a session
store keeps; what the engine says once, answers truly and never forgets (all done: every safety property of a passing run is a
theorem).

## 3. Modules

### SlotPool
What the supervisor promises about permits, without saying how: `free` permits,
the `holders`, the FIFO `line` of workers waiting for their first permit.
`Take`, `Join`, `Pass` (to the head of the line), `Return`, `Stop`.
After `Stop` a permit may become free although somebody waits: shutdown empties
the map, so a popped agent may be unknown by the time it would be started.

### AgentSupervisor
One action per critical section of `AgentSupervisor.cpp`, and the steps of a
SubAgent's thread that meet the supervisor.  `pc[a]` says where agent `a` is:
a launch not yet admitted (`reviving` to `registering`), a live thread (`queued` to
`acquired`) or an exit in progress (`ending` to `leaving`).  A worker that a launch has
pruned out of the map and not joined yet is not found by a restore, which relaunches its
id at once (`RestorePruned`): from then on `latePc[a]` follows the exit of the old
generation (`LateMark`, `LatePass`, `LateStart`, `LateLeave`) and the join that waits for it
(`LateJoin`), next to the new one.  `agents_mutex` is
represented by who is inside it across two steps: a launch that is
`registering` holds it exclusively, a promote that is `checked` holds it shared.
Other critical sections are single steps.

| TLA+ | Code |
|---|---|
| `permits`, `pending`, `active` | `slots`, `pending_ids`, `active_count` |
| `registered` | the keys of `agents` |
| `lru`, `pinned`, `maxStanding` | `standing_lru`, `pinned_standing`, `max_standing` |
| `released`, `exited` | `slot_released`, `exited` |
| `standing`, `cancelled` | `SubAgent::standing_`, the agent's child token |
| `promo`, `victims`, `retiring`, `carry` | local variables of promote, evict, prune_completed, start_pending_or_release |
| `latePc`, `lateCarry`, `lateBy` | the thread of an old generation, the agent it has popped, the launch that joins it |
| `maintaining` | `durable_maintenance_mutex`: one restore at a time |
| `overtaken` | history: ids relaunched before their old `on_exit()` was done |

Abstractions: which completed agents are the oldest is left open in pruning; a
restore clears and relaunches an id in its own steps; an agent's turn is one
state; the journal's `recoverable` flag is the constant `Restorable`; one old generation
of an id at a time.

### SubAgent
One agent's thread against its peers, over several generations.  `pc` is the
place of `run()`; the names follow the loop: `greeting` (drain the restored
inbox), `delivering`/`acking` (append to the transcript, then acknowledge in the
manifest), `top`, `turn`, `turned`, `quiet`, `closing`, `parked`, `checked`,
`asleep`, `awake`, `resuming`, `interrupted`, `reap`, `gone`.  A parked thread is
`checked` between the test of its wait predicate and the sleep: it still holds
`interrogate_mutex_` then, which stops `enqueue_message` and `interrogate` but not
the cancel callback, because that notifies without the mutex.

| TLA+ | Code |
|---|---|
| `mail`, `asked`, `current` | `pending_messages_`, `interrogations_`, `pending_answer` |
| `todo`, `needTurn`, `cycles` | local variables of `run` |
| `answer[q]` | the future of question `q`: `lost` when the asker's process died |
| `log`, `served` | the user entries of the session file; how many a stored assistant message has answered |
| `disk` | the manifest (`AgentJournal`) |
| `ringing` | notifications of `interrogate_cv_` that are still to come |
| `accepted` | history: what `enqueue_message` took on |

Abstractions: the prompt, a message and a question are model values; the entry's
unique id is the value itself; tool calls inside a turn are part of `turn`; a
failing durable write changes nothing.  Permits are AgentSupervisor's matter:
here `on_park_`/`on_resume_` always succeed unless the agent is cancelled.

### CancelTree
The stop sources and relays of `CancelToken.cpp`.  `fired` is the primary stop
state of a token; `owed` holds the tokens whose watcher has been called but has
not run, so that every order of one thread stopping a tree and others deriving,
dropping and registering meanwhile is explored.  A dropped token keeps its
primary stop state but loses its watchers.  `above` is history.

### AutonomousEngine
The coordinator's loop, cut at every durable write.  `pc` follows `run()`:
`starting`, `cycle`, `prepare`, `letters`, `recognise`, `report`, `append`,
`appended`, `turn` (`model`, `tools`), `reply`, `archive`, `remember`, `commit`,
then `wait` or, after an exception, `failed` and `backoff`; `stopping` and
`halting` end the process, `off` is between two.

| TLA+ | Code |
|---|---|
| `mem`, `disk` | `state` and `state.json`; `Persist` is `persist()`, which may throw |
| `log` | the session file: prompts, recovery texts, call groups, results, answers |
| `tail` | `conv.messages().back()`, by its place in the file: what the process knows |
| `unacked` | history: entries in the file whose append reported a failure |
| `cut` | answers of which `last_response` is cut within a UTF-8 character (`Engine.cpp:862`) |
| `inbox`, `outbox`, `processed`, `rejected` | the directories; `outbox[m]` is the transcript entry the reply was taken from |
| `wakeFile.id`, `offered` | a wake command has an id of its own, random in `tools/engine_supervisor.py`; how many there were |
| `wakeFile.fresh` | run id and revision of the command are the ones of this wait |
| `observed` | the files ever written to `memory-outbox` |
| `running` | `running.json` exists |
| `unreported`, `posted` | history |

Two prompts are equal when `kind`, `id`, `letter` and `recovery` are; the ids of
wake commands do not appear in the text, so `Text` hides them.  Each directory
entry moves atomically (rename); a write is there as a whole or not (temporary
file, fsync, rename).  An append to the session file has three outcomes (`Say`): done; failed
with the file as it was; failed after the rename (`SessionFile.cpp:114-129`), when the entry is
in the file and not in memory, and the same process goes on from memory.  Any other throw
changes nothing, except where the code has changed `state` before (`Prepare`, `AcceptWake`,
`Persist`).  Two throws recur: a message of `Choking` has an issue id that is no string, or a
recall that is cut within a UTF-8 character (`Choke`, `Engine.cpp:706`, `758`), and an answer of
`cut` makes `state.dump()` throw in the failure handler too, which ends the process
(`CommitChokes`, `Die`).  `RequestStop` is possible
where the flag is read next.  Compaction replaces a prefix of the context only
inside a turn and keeps the session file, so the transcript's tail is unaffected.

### Conversation
A conversation, its session file and `run_turn()`, driven by a worker (deliver
durably, drop and restore after an error) or by the REPL (memory goes on, `/resume`
loads the messages into a new session).  `pc` follows the loop: `close`
(`recover_interrupted_tools`), `preflight`, `request`, `count`, `stream`, `blank`,
`calls`, `result`.

| TLA+ | Code |
|---|---|
| `mem`, `disk` | `messages_`; the lines of the session file |
| `job` | locals of `run_turn`: `tool_turn`, `overflow_retry_used`, the token, where it goes after the open group is closed |
| `Active`, `LastCheckpoint` | `restore()`: what a file stands for, checkpoints and rejected answers included |
| `Pruned`, `TailStart`, `Compacted` | `compact_to_notepad()`, `safe_tail_start()`, `compact()` |
| `Journal` | append to the file, then to memory; a failing append may have replaced the file |
| `told`, `executed` | history |

A message is its role and the texts, calls or call it refers to; whether the
window is full is a choice, in both ways the code measures it (`exact`).

### SessionStore
Every agent thread has a store of its own on one directory; nothing excludes them
from each other.  `pc[a]`: `find` or `create` and `list` a session, `prune` and
`delete` old ones, then `ready`; an append goes through `replace`, `compress`,
`unlink` and `record`.  The rebuilder is `rb`: `scan`, then `write`.

| TLA+ | Code |
|---|---|
| `json[s]`, `gz[s]` | number of messages in the two files of a session |
| `index` | `index.json`: of each session the record a reader takes, and whether a line is torn |
| `maps[a]` | the path and agent maps of the store, and what an append has read |
| `born` | `updated_at` of the file's header |
| `unlisted`, `blurred`, `pruned`, `acked`, `owner` | history |

Times have the resolution of a second, so equal ones occur.  A crash may tear the
line that is being appended to the index; session files are replaced by rename.

### SidecarManager
The manager of the Python process, at the steps where its threads meet, for both
of App's managers (`tools`, `prewarm`).  `pc[t]` follows `ensure_started()`: `kill`,
`join`, `spawn`, `health`, `loadpid`, `waitpid`, `storepid`, `crash` for the caller
that drives, `poll` for those that wait; `mpc` is the thread of shutdown and
destruction.  Tools run on turn threads that App detaches (`App.cpp:1567`), so the destructor
runs with callers inside, and calls may come while it runs; what a caller does in a manager
that is destroyed is undefined, and the model ends there.

| TLA+ | Code |
|---|---|
| `state`, `restarts` | `SidecarStateMachine`, `restart_count_` |
| `child`, `port`, `reader` | `child_pid_`, `port_`, `stderr_reader_` (whose pipe it reads) |
| `proc[p]` | the process as the kernel sees it: booting, serving, zombie, gone |
| `future` | `prewarm_future_` |
| `abandoned` | history: a cancelled driver left |
| `overtaken` | history: a pid was cleared that named the next child |
| `intruded` | history: a tool was inside while the destructor ran |
| `raced` | history: a restart was taken on a count that another restart had outdated |

### McpTransport
A request over stdio or SSE, from `McpClient::dispatch` to the future, with the
reader thread and `stop()`.  Threads take `write_mutex_` in a step of their own,
because a write may block.  Over stdio an answer leaves the map and fulfils its promise under
one lock; over SSE the reader (`Deliver`, then `Fulfil`) and `stop()` (`CancelPending`, then
`TellAll`) take entries in one critical section and tell them one by one in others, and the
request may have left in between.

| TLA+ | Code |
|---|---|
| `pending`, `result` | the map of promises; what its promise was set to |
| `hand` | entries that the SSE reader, or `stop()`, has taken and not told yet |
| `healthy`, `stopping`, `reader`, `stdin` | `healthy_`, `stopping_` (`stopped_`), the reader thread, the pipe |
| `server`, `output`, `sent`, `stream` | the server process, its end of its stdout or stream, requests it has, answers under way |
| `killed` | the process has died of SIGPIPE |
| `late` | history: requests registered when nobody was left to tell them |
| `token` | requests whose CancelToken has fired |


## 4. Runs

| Run | What it shows |
|---|---|
| `supervisor_standing` (pass) | One managed, one promotable and one one-shot agent on one permit, pool bound 1 shrinking to 0: every interleaving of spawning, queueing, parking, promoting, interrogating, evicting, cancelling and shutting down keeps the standing pool alive, bounded and its pinned workers in place (DIS-1001); a queued agent is started past any number of resumes, and a cancelled agent ends from every place of its life but one: asleep without being managed, where the wake-up can be lost (subagent_lost_wakeup). |
| `supervisor_recovery` (pass) | All three agents restorable, nothing retained: pruning, restoring under the same id, also ahead of the old generation's on_exit(), and shutdown keep the inductive invariant; wait_all never returns before the last thread of any generation; and the permits implement SlotPool until an id is relaunched ahead of its old on_exit(). |
| `subagent_memory` (pass) | Without durable state, two messages and two questions against one thread with three turns that may be promoted, cancelled and fail anywhere: nobody who asked is left behind and everybody is released, an answer comes from a turn that saw its question, messages keep their order and wake a parked thread, and a natural close has served all of them. |
| `subagent_durable` (pass) | With a manifest, over three generations, managed (continuous) or not: a crash between any two durable writes, a failure or a restart loses no accepted message and delivers none twice. |
| `subagent_lost_wakeup` (violation) | An agent that is not continuous, so without the timed wait: it has found its wait predicate false, the token fires and the callback notifies before it sleeps, and it sleeps on. |
| `cancel_tree` (pass) | Three tokens, every way to derive, combine, drop and stop them, also in the middle of a cascade: no hop is missed, a chain whose relays are held fires to its end, and so do the callbacks. |
| `cancel_cascade` (violation) | Three tokens: a grandchild whose parent token has been dropped does not fire when the root is stopped. |
| `engine_recovery` (pass) | A malformed message, one of which no prompt can be made and a good one, one posted twice, a wake command, letters, tool calls, an answer that cannot be excerpted, one failing read, write or append (before or after it has replaced the file), a crash or a stop at every step: of what was acknowledged each prompt is said once and answered once, the reply is its own, nothing accepted is lost, and what waits is served. |
| `conversation_turns` (pass) | Two texts, two tool calls in one group or two, both drivers and both ways to watch the window, a failing append, a degenerate answer, a checkpoint, cancellation and a crash at every step: every request of a worker is well formed, the transcript tells the truth about what was executed, nothing is executed twice or forgotten, and the turn ends. |
| `session_store` (pass) | The main conversation and one agent, each with its own store on one directory, two sessions of two messages, a cap of one, compression, an index that is absent, torn or rebuilt, two stores opened, two crashes or failed appends anywhere: what was acknowledged is on disk, an agent finds its session again, and the index lists what exists. |
| `sidecar` (pass) | Two tool threads (or the prewarm thread and Ctrl+C), two processes that become ready or die at any step, one restart allowed, four calls, shutdown and destruction at any step: one caller at a time starts the child; the documented cap holds until a restart is taken on an outdated count, and then up to one more for each other caller; no process escapes, unless a tool is inside while the destructor runs; and every call returns. |
| `mcp` (pass) | A tool and a command with two requests over either transport, a server that answers in any order, stops reading, closes its output or dies, cancellation and shutdown at any step: the map of promises holds the waiting requests and nothing else, every future is set once; and in a process that survives its writes requests return, but those nobody is left to tell, and stop() ends. |

Bounds.  AgentSupervisor: three agents and one permit let one work, one queue and one
park at a time, which is every pair of roles the code distinguishes; two agents
suffice where only a queue of one matters.  SubAgent: two messages show every
order, one or two questions the one in flight and the one behind it; `MaxLives`
(generations) is three where crashes matter, so a message can be cut off twice;
`MaxTurnCycles` is 2 where liveness needs the turn budget to run out.
CancelTree: three tokens are a root, an intermediate and a leaf, or two to
combine and their combination.  AutonomousEngine: one crash or stop from outside (`MaxEnds`), at any step, and any number of
processes after it, one throw or failed append anywhere (`MaxFaults`), one answer that cannot be
excerpted (`MaxCuts`), one wake command (`MaxWakes`), one malformed message, one that chokes the
engine and a good one, two of which are posted or one twice (`MaxPosts`), cycles by timer,
message and wake command, one tool call (`MaxTools`).  One fault suffices to put memory behind
the file, and the crash may come before or after it.
Conversation: two texts and two calls make every group (two calls, or one after
the other); one rejection, one checkpoint, one failing append and two processes
put each of them before and after each other.  SessionStore: one nameless and one
named agent, a cap of one, so that creating the second session prunes the first;
two messages, so that a compressed file is appended to and a stale one is left
behind; two stores are opened, together or one after a crash.  The theorems hold for any
number of all of these.  SidecarManager: two callers race for one restart, two
processes are the old child and the new one.  `MaxRestarts` plus one is
reached.  McpTransport: two threads and two ids are a request whose answer comes late and the
one behind it.

## 5. Fairness

`AgentSupervisor!Fairness`: weak fairness on the steps a thread takes by itself
(`OwnStep`, `StartCarried`, `LaunchAdmit`) because each is a bounded critical
section, for an overtaken generation too (`LateStep`); weak fairness on `WakeCancelled` for
managed workers only, because they wait with a time-out, while for any other parked agent the
wake-up can be lost (`SubAgent.cpp:69-76`, `574`; `subagent_lost_wakeup` shows it), which is why
`CancelledEnds` lets a parked agent that is not managed sleep; weak fairness on `TurnStep` because a model request has a timeout and a
turn a bounded number of rounds; strong fairness on `Close` because an agent that
keeps receiving messages is ended by `max_subagent_turn_cycles`.  Nothing is
assumed of callers: nobody has to spawn, promote, interrogate, cancel or shut down.

`SubAgent!FairSpec`: weak fairness on the thread's own steps, on the end of a turn
(requests time out, rounds are bounded), on the start or destruction of a queued
agent (`QueuedStarts` of AgentSupervisor shows it) and on a notification by a
caller that has left the mutex.  Waking without a notification is not assumed.

`CancelTree!FairSpec`: weak fairness on `Relay` and `RunCallback`: `request_stop`
runs every registered callback before it returns.

`AutonomousEngine!FairSpec`: weak fairness on the process's own steps (its start
included: a supervisor restarts it, `tools/`) and on `InboxWakes`, which the wait
loop tests every second whatever wake commands come; crashes, stops and
throws that come from outside are finitely many, the two that recur are not, and the model
answers in the end.

`Conversation!FairSpec`: weak fairness on the thread of the turn: requests, token
counts and tools have time-outs and the loop is capped.

`SidecarManager!FairSpec`: weak fairness on each caller, on the assignment of the
future and on shutdown: no lock is held across a wait, polls are counted, and a
killed process ends.

`McpTransport!FairSpec`: weak fairness on each thread and on the reader.  The
server need not answer, read or exit; `Cancel` is nobody's duty.  `RequestReturns` and
`StopEnds` state what they need of the server and of the process: that it does not leave a
writer blocked for ever, and that no write ends the program.


## 6. Proofs

`AgentSupervisorProofs`: `SlotInv` is inductive (`SlotInvariant`).  Its parts about queue,
hand-over and map hold of every id; `ReleasedIsParked` and `MarkerFresh` of every id that is
not `overtaken`: what the old `on_exit()` of an overtaken one erases belongs to the new
generation.  `LateIsOvertaken` ties the old exit to that mark, and `Undisturbed` says that a
step which leaves `overtaken` empty is no late step, so what follows about permits and pool is
stated for as long as `overtaken` is empty; the count of `wait_all` needs no such condition.  Its parts are
needed for each other: an agent popped from the queue is owned by exactly one
thread (`CarryOk`) which is why the permit it travels with is counted once;
`ReleasedIsParked` ties the release mark to the places where no permit is held,
which is why `on_exit` neither loses nor duplicates one; `MarkerFresh` is why
parking always releases; `LiveIsRegistered` is why a popped agent is started
unless shutdown emptied the map.  `InitMaps`, `QuietMaps` and `StepMaps` give the
refinement (`ImplementsPool`).  Of the pool itself `PoolInv` (types, conservation, work
conservation, a line of distinct workers that hold nothing) is inductive (`PoolSafe`), so
the refinement yields `PermitsConserved`, `QueueIsServed` and with them
`ParallelismBounded`.
`CountOk` (`active` is the number of agents, of old and new generations, between admission and their last step) is an
equation, not a bound: an agent is counted by its own registration and counted off
once, by `Leave` or by the thread that finds it gone from the map, and `OneLess` never
meets a zero.  `WaitAllReturnsLast` follows.
The standing pool has an invariant of its own, `StandingInv`.  `UpToRanks` and
`FromRanks` (in a finite set of positions every rank is taken, by the pigeonhole
principle) say what erasing from the pool and choosing the coldest entries return;
`ColdestFits` is why one victim per registration, or `Len(lru) - bound` of them when the
bound shrinks, is enough.  `Unborn` (a launch finds its id nowhere in the pool, nor in a
`promote()` in flight) gives distinct entries and `PoolStaysBounded`.  `Marked` (a
`promote()` in flight that passes the DIS-1001 guard is for an agent that has not
exited) and `Pinned` (a managed worker that is, or may come to be, in the pool is pinned)
give `PoolStaysSound`.  Both theorems have hypotheses, which the code needs: `OneWayIn`
(no promotable agents, or no restorable ones) and, for the second, `NeverForgotten` (no
promotable agents, or no pruning).  They cover every instance with managed workers only,
recovery included, and every instance with promotions in which no exit marker is
erased; without them TLC finds a dead agent in the pool (section 7).
Both, like the refinement, are about runs in which no id is relaunched ahead of its old
`on_exit()`.  Assumptions: the agents are a finite set, the limit is a positive number, the
bounds are naturals.

`SubAgentProofs`: `WindowInv` is inductive (`WindowInvariant`).  `Waiting` says that
the open questions are exactly the queued ones and the one in flight, each once:
that is why reaper, turn and destructor together release everybody (`NobodyHangs`)
and nobody twice (`PromiseOnce`).  `InFlight` follows the question from the wait to
the transcript and needs `needTurn`, because a question that is delivered without a
turn would be answered by an old one (`AnswerIsEarned`).  `Recorded` is the order of
the two durable writes of `deliver`; with `MinusKeeps` (erasing one entry keeps the
others) it gives `NoMessageLost`.  `GrowStep` and `WindowFrame` say what may change at
all.  `OrderInv` is about order: `Orderly` says that the transcript, then what has left
the mailbox, then the mailbox itself hold the accepted messages in the order of their
acceptance, and so does the manifest's inbox after the transcript.  With a journal
`deliver` skips what is in the transcript; without one `NoReplay` says there is nothing to
skip.  `LivingIsOpen` and `AllAnswered` follow the thread to its close.  This gives
`FirstInFirstOut`, and, as a close succeeds with an empty mailbox only
(`CloseOnlyEmpty`), `NothingUnanswered`.
Assumptions: messages, questions, the prompt and `None` are distinct values, the
bounds are naturals.

`CancelTreeProofs`: `TreeInv` is inductive (`TreeInvariant`).  `AboveIsClosed`
(what is above an upstream is above the token) carries "somebody asked" down one
hop, `DueWasAsked` extends `FiredWasAsked` to the watchers that are still due, and
`FreshIsNowhere` makes a new token unable to disturb an old one.  `StopComesDown` speaks
of chains of any length: of the held tokens that have missed a stop, take one with the
fewest tokens above it (`NobodyStuck`); by `NoHopMissed` nothing directly above it has
fired, a root would have fired with its stop (`RootsFire`), so the token directly above it
on the way to the stopped source is held and has missed the stop as well, with fewer
tokens above, because the relation has no cycle (`StuckAbove`).  Assumption: the tokens are a finite set.

`ConversationProofs`: `ConversationInv` is inductive (`ConversationInvariant`) and has two
halves that do not need each other.  What was executed: `OpenIsUntouched` says that a
call which still waits has its intent on disk, no outcome and no execution, and
`CallsAreKnown` that nothing refers to a call not made yet; `CallsActOnce` and
`TranscriptTellsTheTruth` follow, in crashes too, because memory is a reading of the
file.  What is in the context, for a worker: `Grouped` (a result stands in the group of
its call, once, and a group that is not at the end is complete), `Alike` (the context a
restart gives back is the one in memory but for pruned bodies), `ToldIsSaid` and
`SaidOnDisk`.  Steps either leave the context alone (`KeepsStep`), append one line to it
(`WritesStep`) or replace it (`CompactStep`, `StartStep`); that a safe tail cuts no group is
`TailIsGrouped`.  From `Grouped` and a context without an open group `GroupIs` builds the
bijection between calls and results that `RequestIsPaired` asks for.  Assumption: texts
are naturals, the bounds are naturals (`ConversationAssumption`).

`SidecarManagerProofs`: `ManagerInv` is inductive (`ManagerInvariant`).  `Elected`
says at most one caller is between an exchange that takes the start and the one
that ends it; without a lock this rests on the two compare-and-exchange steps only
(`Election`, with the four ways a step can matter to it: `Keeps`, `Leaves`, `Wins`,
`Watches`).  `Polled` and `Remembers` tie what the driver holds in locals to the
members others may overwrite, `Cleared` and `ChildIsNamed` give `NothingEscapes`, and
`Counted` adds the callers that have read the restart count to the count itself,
which is why the cap can be passed by the number of callers less one and no more; `Capped`
says that it is not passed before a restart is taken on an outdated count.
Each action has an effect lemma that says what it changes.  Assumptions: callers are
a finite, nonempty set, the bounds are naturals.

`McpTransportProofs`: `MapInv` is inductive (`MapInvariant`).  Ids are distinct
(`IdsAreDistinct`, `FreshIsNowhere`), so the two halves of `PendingIsWaiting` can be
carried request by request; `Held` is where an entry that still has to be told can be: in
the map or in one of the two hands.  `Told` is what each way to fulfil promises does
(`CancelAllTells`, `TellTells`, `DeliverTells`); with `EntryIsOpen` it gives `FulfilledOnce`:
over stdio the entry leaves with the promise, over SSE the result guards it.

`SessionStoreProofs`: `SessionInv` and `NameInv` are inductive.  `OwnerIsMe` (nobody
appends to another's session) is what makes a read-modify-replace without locks
safe; `InTheFile` says for every step of an append what is on disk already, so a
crash there loses nothing acknowledged (`AcknowledgedIsKept`).  `ScanIsWhole` and
`RebuildComes` carry `ListsAll` over a rebuild.  `FoundAgain` needs a most recent
record, whose existence (`MostRecent`) comes from the well-foundedness of the
natural numbers.  Assumption: none but the types of the constants.

`AutonomousEngineProofs`: `EngineInv` is inductive (`EngineInvariant`).  Its heart is
`Fitting`: at every place the process can die, the checkpoint fits the transcript.
An idle one has every prompt of the transcript behind it (`IsPast`), a prepared one
has its own prompt at the tail or not yet said, a running one has its own prompt as
the last; memory and disk both satisfy this (`Sound`), because a throw leaves them
apart.  "The transcript" is what was acknowledged: `InView` relates the file to what the
process knows of it: everything behind `tail` is unacknowledged, so a retry from memory
repeats only entries whose append reported a failure.  `SoundStep` goes through the cycle, `WakesAreNew` keeps a command that may
still be accepted out of the transcript.  Then each entry the code appends is legal
(`LegalStep`), and `PromptOnce`, `CallsAreClosed` and the order of answers follow from
the legality of entries alone (`TranscriptStep`).  `Filed` is the order reply, move,
observation, checkpoint: it gives `NoMessageLost`.  `CrashIsKnown` follows the mark of
a crash from `running.json` to the checkpoint and the prompt, `LettersIn` an edition
of letters.  Assumptions: messages and letters are positive numbers,
`MaxWakes` is a natural.  `InboxServed` and `WakeServed` are liveness and stay with TLC.


Only model-checked: the liveness properties (`QueuedStarts`, `CancelledEnds`,
`AskersReleased`, `MailIsServed`, `CallbackRuns`, `InboxServed`, `WakeServed`, `TurnEnds`,
`EnsureReturns`, `RequestReturns`, `StopEnds`), which need fairness and `ENABLED`, beyond
the prover.  Each inductive invariant was checked by TLC before it was proved.  Where a
definition is recursive in the standard modules (`SelectSeq`), the modules state it by
positions instead (`Without`, `InOrder`), so that it can be reasoned about.

## 7. Disagreements between comments and code

- `subagent_lost_wakeup` / `CancelEnds` (src/src/agents/SubAgent.cpp:73): The cancel callback calls interrogate_cv_.notify_all() without taking interrogate_mutex_, so a token that fires after the parked thread has evaluated its predicate and before it blocks is not noticed: wait() (SubAgent.cpp:574) has no time-out for an agent that is not continuous, and the destructor's join waits for ever. The comment on the callback says 'Without this the loop would sleep through an eviction / parent-cancel and the jthread join would hang.' (src/src/agents/SubAgent.cpp:71-72).
- `cancel_cascade` / `CancelCascades` (src/src/agents/SubAgent.cpp:64): The SubAgent constructor takes parent_ct by value, derives its own token with child() and drops parent_ct; child() watches only the relay of its immediate parent, and that relay's watchers die with the parent's token. TaskTool, Workflow, restore and ensure_continuous all pass such an intermediate child token, so the agent's token no longer fires when the caller's is stopped. TaskTool says 'The child fires when the parent fires (cascade), but can also be cancelled independently by TaskStop.' (src/src/tools/TaskTool.cpp:138-139) and the header '@param ct Parent cancel token; cancelling the parent cascades.' (src/include/batbox/agents/AgentSupervisor.hpp:116).

Disagreements met while modelling that no run shows, because a run would say little
more than the lines do:

- `shutdown()` leaves `active_count` above zero when two agents are queued: the popped
  one is accounted for, the second is not (`AgentSupervisor.cpp:534`), although
  `wait_all()` is said to return after a shutdown (`AgentSupervisor.hpp:175-177`).
- `promote()` writes a recoverable manifest (`AgentSupervisor.cpp:717`) for an agent
  that may just have closed; the comment at 700-702 excludes that.
- A `restore` between the two halves of `promote()` puts a dead id into
  `standing_lru` (`AgentSupervisor.cpp:955`), and so does a prune that erases the exit
  marker there.  TLC finds `PoolSound` violated as soon as an agent is both promotable
  and restorable, or promotable with `Retained` at 0; `PoolStaysSound` says that nothing
  else breaks it.
- "join before clearing the old generation's exit marker" (`AgentSupervisor.cpp:918`) is not
  kept for a worker that a concurrent launch has moved out of the map (373-374) and not
  joined yet (381): `restore_durable_agents_locked` does not find it, relaunches it, and its
  old `on_exit()` then erases the release mark, the pool entry and the pin of the new
  generation and marks it as exited; a permit can be lost.  `SlotInv` says what survives this,
  `PermitsArePool` that nothing goes wrong before (`overtaken`).
- "resume this same turn exactly once" (`Engine.cpp:668`) and the recognition of a durable
  append (772-776, 808-810) look at the conversation in memory.  When `write_atomic` fails after
  the rename (`SessionFile.cpp:118-128`), the file has the entry and memory has not: the same
  process appends the prompt again, runs a turn again that has its answer in the file, or leaves
  calls open in it.  `PromptOnce`, `AnsweredOnce` and `CallsAreClosed` therefore speak of
  acknowledged entries; without `unacked` TLC finds each of them violated.
- `next_inbox()` (`Engine.cpp:230-255`) rejects what cannot be used, but accepts a message whose
  `issue_id` is no string; line 706 then throws in every cycle and nothing behind the message
  is served.  `text.resize(24000)` (758) and `substr(0, 12000)` (862) may end within a UTF-8
  character; `state.dump()` then throws in `persist()`, in the handler at 873 too, and ends the
  process; after an answer of this kind so does every process that follows.  `InboxServed`
  excepts these two and nothing else.
- `SidecarManager.hpp:17` ("Honour restart cap (3 per session); fourth failure -> Disabled") and
  `:152` ("Maximum number of restart attempts per session before giving up") state a cap that
  concurrent callers pass: each reads the count (`SidecarManager.cpp:590`) before the exchange, and
  one that has read it before another's restart takes one more later.  The run reaches
  `MaxRestarts + 1` with two callers; `RestartsBounded` says when the cap holds and by how much it
  can be passed.
- The destructor is to leave no zombies (`SidecarManager.cpp:193-194`), but shutdown does not wait
  for the turn threads that App detaches (`App.cpp:1567-1593`): one that is inside
  `ensure_started()` while the manager is destroyed may spawn behind it.  `NothingIsLeft` is
  claimed for the other runs.
- "return false; // pipe broken" (`StdioTransport.cpp:525`) and "Best-effort write, ignore errors
  (pipe may already be broken)" (246) expect an error from a write to a server that has died.
  Nothing in `src/` handles or ignores SIGPIPE, whose default ends the process, in a request as
  in `stop()`.  The model has both outcomes; `RequestReturns` and `StopEnds` are claimed for a
  process that survives its writes.
- "the reader loop will have called cancel_all_pending which resolves our future"
  (`StdioTransport.cpp:379-380`) does not hold of a request that is registered after it did: the
  poll has a fallback for this, but not after `stop()` (378 asks for `!stopping_`), and an SSE
  request has none.  Such a request (`late`) waits until its token fires.
- `consume_wake()` changes `state` in memory before the write that may throw
  (`Engine.cpp:669`); the fence described at 666 and 680 is then in memory only.
- After a failed append, or after `/resume`, the REPL keeps an open group of calls in
  memory (`Conversation.cpp:254`), against `Conversation.hpp:174-175`.
- The prewarm thread can find `prewarm_future_` valid and wait for itself
  (`SidecarManager.cpp:564`; `SidecarManager.hpp:162-172` says the caller waits for the
  prewarm).  The model has the state (`itself`) and lets it end.
- `McpClient::resolve_transport` restarts a dead server, which can never succeed after
  a `stop()`, since nothing resets `stopping_` (`McpClient.hpp:33-36`).


## 8. Not modelled

See the `components` of `PROJECT.json` for each part and the reason.  In short:
parsing and rendering (config, plugins, REPL, TUI, commands, SSE bytes) keep no
protocol state; the Python services are seen only through the calls that may
fail; the parts listed under step 6 of the plan remain.

Known limits of what the runs say.  `NothingForgotten` is about crashes: when a context
file cannot be read after the letters were (`Engine.cpp:723` to `750`), the failure
handler checkpoints `letter_content` and the edition never reaches a prompt; the
model has this step and the property excludes it.  `PoolSound` is checked
without restores and without pruning, and proved under the hypotheses of section 6.  `combine_tokens` of a child token cuts the
combination from the child's own source, as `Drop` does; `HeldChainFires` says
what remains.

Conversation: an answer that overflows at the cap becomes a blank one
(`Conversation.cpp:802`), as modelled; `/clear`, `/compact` and the archives of large
outputs are left out, and `manages_own_context` is a case of the estimate.  A session
exists before its first message.

SidecarManager: what a tool does in a destroyed manager is undefined and not modelled.
A driver that is cancelled leaves `Starting` with nobody driving
(`SidecarManager.cpp:502-507`), so callers poll to their deadline: `StateIsTrue` excludes
these runs by `abandoned`.  `try_reap_child()` and `shutdown()` store 0 into `child_pid_`
after `waitpid`, when it may name the next child already: `NothingEscapes` excludes
these by `overtaken`.  The four exchanges of `shutdown()` may all miss a state that
changes between them.  A join of the reader by two threads is undefined and not
modelled.

SessionStore: of records with equal times the first wins (`SessionIndex.cpp:282`),
whatever the comments at 218 say; `prune()` protects only the store's own session, an
append that races it makes the file again, and the index keeps the lines.  A rebuild
forgets agent ids and takes a wrong time for files above 8 KB, hence `blurred`; when a
crash cuts a rebuild after somebody has appended, the index looks whole and is not,
hence `unlisted`.  Two processes that rebuild share one temporary file; one rebuilder
is modelled.  A plain file that cannot be removed after compression stays, and `load()`
prefers it (`SessionFile.cpp:591`).

McpTransport: a write to a server that does not read holds `write_mutex_`, on which `stop()`
then waits (`StdioTransport.cpp:247`), so `StopEnds` is conditional on that.  Pipes
inherited by another child may hide the end of stdout.  `SseTransport::stop()` joins a
reader that looks at `stopped_` only when data comes (`SseTransport.cpp:153`).  The
`tools_list` cache, the health monitor, HttpTransport and WsTransport are left out.

