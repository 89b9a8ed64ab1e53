--------------------------- MODULE SidecarManager ---------------------------
(***************************************************************************)
(* A SidecarManager: the Python process that fetches web pages for tools.  *)
(* Tool threads call request(), which starts the process on first use and  *)
(* restarts it after a crash, a bounded number of times; the main thread   *)
(* shuts it down and destroys it while tools may still be calling.  There  *)
(* is no lock: state_, child_pid_, port_ and restart_count_ are atomics,   *)
(* each read and written on its own.                                       *)
(*                                                                         *)
(* App keeps a second manager whose only caller is the thread that         *)
(* prewarm_async() starts; Ctrl+C cancels or aborts that start.            *)
(***************************************************************************)
EXTENDS Naturals, Sequences, FiniteSets

CONSTANTS Callers,     \* threads that call the manager
          Modes,       \* subset of {"tools", "prewarm"}: which manager it is
          MaxRestarts, \* kMaxRestarts
          MaxPolls,    \* health checks before the start-up deadline
          MaxSpawns,   \* bound on processes spawned
          MaxCalls     \* bound on requests

ASSUME SidecarAssumption ==
  /\ IsFiniteSet(Callers) /\ Callers # {} /\ Modes \subseteq {"tools", "prewarm"}
  /\ {MaxRestarts, MaxPolls, MaxSpawns, MaxCalls} \subseteq Nat

VARIABLES
  mode,       \* configuration: which of App's two managers
  state,      \* state_
  child,      \* child_pid_ (0: none)
  port,       \* port_: the process it was picked for
  restarts,   \* restart_count_
  reader,     \* the process whose pipe stderr_reader_thread_ reads (0: joined)
  future,     \* prewarm_future_.valid()
  proc,       \* the processes, as the operating system sees them
  pc, at,     \* the callers, and what each has read: pid, attempts, polls
  mpc, mpid, todo, \* the main thread, its pid, the exchanges left in shutdown()
  final,      \* is the destructor running?
  intruded,   \* history: a tool was inside when the destructor ran
  abandoned,  \* history: a start-up was left with nobody waiting for it
  overtaken,  \* history: a pid was cleared by a thread that had reaped another
  raced,      \* history: a restart was taken on a count read before another one
  calls

count   == <<restarts, raced>>
machine == <<state, child, port, count, reader, future, proc>>
callers == <<pc, at, abandoned, calls>>
ending  == <<final, intruded>>
main    == <<mpc, mpid, todo, ending>>
vars    == <<mode, machine, callers, main, overtaken>>

Pids  == 1..MaxSpawns
Alive == {p \in Pids : proc[p] \in {"booting", "serving"}}
NoAt  == [pid |-> 0, tries |-> 0, polls |-> 0, port |-> 0, from |-> "Running"]

\* In request() a dead child ends "Running", in wait_for_healthy() "Starting".
Driving == {"kill", "join", "spawn", "health", "again"}
Drives(t) == \/ pc[t] \in Driving
             \/ pc[t] \in {"reap", "wait", "store", "crash"} /\ at[t].from = "Starting"

\* SidecarStateMachine::try_transition(): the legal transitions.
Legal == {<<"Disabled", "Cold">>, <<"Cold", "Starting">>, <<"Cold", "Disabled">>,
          <<"Starting", "Running">>, <<"Starting", "Crashed">>, <<"Starting", "Disabled">>,
          <<"Running", "Crashed">>, <<"Running", "Disabled">>,
          <<"Crashed", "Starting">>, <<"Crashed", "Disabled">>}

\* try_transition(): compare and exchange along a legal edge.
Exchange(from, to) == state' = IF state = from /\ <<from, to>> \in Legal THEN to ELSE state

Init ==
  /\ mode \in Modes /\ state = "Cold" /\ child = 0 /\ port = 0 /\ restarts = 0
  /\ reader = 0 /\ future = FALSE /\ proc = [p \in Pids |-> "none"]
  /\ pc = [t \in Callers |-> "idle"] /\ at = [t \in Callers |-> NoAt]
  /\ mpc = "ui" /\ mpid = 0 /\ todo = <<>> /\ final = FALSE
  /\ intruded = FALSE /\ abandoned = FALSE /\ overtaken = FALSE /\ raced = FALSE /\ calls = 0

-----------------------------------------------------------------------------
Goto(t, p) == pc' = [pc EXCEPT ![t] = p]
\* A call comes back; its locals are gone.
Return(t, p) == /\ Goto(t, p) /\ at' = [at EXCEPT ![t] = NoAt]

\* request(), or the prewarm thread: the process is wanted.
Call(t) ==
  /\ pc[t] = "idle" /\ mode = "tools" /\ mpc # "destroyed" /\ calls < MaxCalls
  /\ calls' = calls + 1 /\ intruded' = (intruded \/ final)
  /\ Goto(t, IF state = "Running" THEN "post" ELSE "ensure")
  /\ UNCHANGED <<mode, machine, mpc, mpid, todo, final, at, abandoned, overtaken>>

\* ensure_started() returns Ok: request() goes on with its POST.
Served == IF mode = "tools" THEN "post" ELSE "idle"

\* ensure_started(): by state; the thread of prewarm_future_ waits for itself.
Ensure(t) ==
  /\ pc[t] = "ensure"
  /\ \/ /\ state \in {"Running", "Disabled"}
        /\ Return(t, IF state = "Running" THEN Served ELSE "idle")
        /\ UNCHANGED <<state, future>>
     \/ /\ state \notin {"Running", "Disabled"} /\ future
        /\ Goto(t, "itself") /\ future' = FALSE /\ UNCHANGED <<state, at>>
     \/ /\ state = "Crashed" /\ ~future
        /\ Goto(t, "crashed") /\ at' = [at EXCEPT ![t].tries = restarts]
        /\ UNCHANGED <<state, future>>
     \/ /\ state = "Cold" /\ ~future /\ Goto(t, "spawn") /\ Exchange("Cold", "Starting")
        /\ UNCHANGED <<future, at>>
     \/ /\ state = "Starting" /\ ~future /\ Goto(t, "poll") /\ UNCHANGED <<state, future, at>>
  /\ UNCHANGED <<mode, child, port, count, reader, proc, calls, main,
                 abandoned, overtaken>>

\* Mutant: the restart is taken without an exchange.
BugCrashed(t) ==
  /\ pc[t] = "crashed" /\ at[t].tries < MaxRestarts
  /\ state' = "Starting" /\ restarts' = restarts + 1 /\ UNCHANGED raced /\ Goto(t, "kill")
  /\ UNCHANGED <<mode, child, port, reader, future, proc, at, calls, main,
                 abandoned, overtaken>>

\* The winner counts its restart, also when its count is of an earlier one.
Restarted(t) == restarts' = restarts + 1 /\ raced' = (raced \/ at[t].tries # restarts)

\* Mutant: the cap is off by one.
BugCap(t) ==
  /\ pc[t] = "crashed" /\ at[t].tries <= MaxRestarts /\ Exchange("Crashed", "Starting")
  /\ IF state = "Crashed" THEN Restarted(t) /\ Goto(t, "kill")
                          ELSE UNCHANGED count /\ Goto(t, "poll")
  /\ UNCHANGED <<mode, child, port, reader, future, proc, at, calls, main,
                 abandoned, overtaken>>

\* CrashedRestarting: give up at the cap, else try to win the restart.
Crashed(t) ==
  /\ pc[t] = "crashed"
  /\ \/ /\ at[t].tries >= MaxRestarts /\ Exchange("Crashed", "Disabled")
        /\ Return(t, "idle") /\ UNCHANGED count
     \/ /\ at[t].tries < MaxRestarts /\ Exchange("Crashed", "Starting")
        /\ at' = [at EXCEPT ![t].tries = 0]
        /\ IF state = "Crashed" THEN Restarted(t) /\ Goto(t, "kill")
                                ELSE UNCHANGED count /\ Goto(t, "poll")
  /\ UNCHANGED <<mode, child, port, reader, future, proc, calls, main,
                 abandoned, overtaken>>

\* kill_and_reap() of the previous child.
Kill(t) ==
  /\ pc[t] = "kill" /\ Goto(t, "join")
  /\ child' = 0 /\ proc' = [p \in Pids |-> IF p = child THEN "gone" ELSE proc[p]]
  /\ UNCHANGED <<mode, state, port, count, reader, future, at, calls, main,
                 abandoned, overtaken>>

\* The reader ends when the process whose pipe it reads does.
ReaderEnds == reader = 0 \/ reader \notin Alive

Join(t) ==
  /\ pc[t] = "join" /\ ReaderEnds /\ reader' = 0 /\ Goto(t, "spawn")
  /\ UNCHANGED <<mode, state, child, port, count, future, proc, at, calls, main,
                 abandoned, overtaken>>

\* do_spawn(), or its failure.
Spawn(t) ==
  /\ pc[t] = "spawn"
  /\ \/ /\ Exchange("Starting", "Crashed") /\ Return(t, "idle")
        /\ UNCHANGED <<child, port, reader, proc>>
     \/ \E p \in {q \in Pids : proc[q] = "none" /\ \A r \in 1..q - 1 : proc[r] # "none"} :
          /\ child' = p /\ port' = p /\ reader' = p
          /\ proc' = [proc EXCEPT ![p] = "booting"]
          /\ Goto(t, "health")
          /\ at' = [at EXCEPT ![t] = [NoAt EXCEPT !.port = p, !.from = "Starting"]]
          /\ UNCHANGED state
  /\ UNCHANGED <<mode, count, future, calls, main, abandoned, overtaken>>

\* wait_for_healthy(): a round of the poll; a cancelled call leaves Starting.
Health(t) ==
  /\ pc[t] = "health"
  /\ \/ /\ Return(t, "idle") /\ abandoned' = TRUE /\ UNCHANGED state
     \/ /\ proc[at[t].port] = "serving"
        /\ Exchange("Starting", "Running")
        /\ Return(t, IF state' = "Running" THEN Served ELSE "idle") /\ UNCHANGED abandoned
     \/ /\ proc[at[t].port] # "serving"
        /\ Goto(t, "reap") /\ UNCHANGED <<state, at, abandoned>>
  /\ UNCHANGED <<mode, child, port, count, reader, future, proc, calls, main,
                 overtaken>>

\* A child that is gone: the state that from names is no longer true.
IsGone(t) == Goto(t, "crash")
StillThere(t) ==
  IF at[t].from = "Running" THEN Return(t, "idle")
                            ELSE Goto(t, "again") /\ at' = [at EXCEPT ![t].pid = 0]

\* try_reap_child() reads child_pid_, asks the system, then clears child_pid_.
LoadPid(t) ==
  /\ pc[t] = "reap"
  /\ IF child = 0 THEN IsGone(t) /\ UNCHANGED at
                  ELSE Goto(t, "wait") /\ at' = [at EXCEPT ![t].pid = child]
  /\ UNCHANGED <<mode, machine, calls, main, abandoned, overtaken>>

WaitPid(t) ==
  /\ pc[t] = "wait"
  /\ IF at[t].pid \in Alive
       THEN StillThere(t) /\ UNCHANGED proc
       ELSE Goto(t, "store") /\ UNCHANGED at /\ proc' = [proc EXCEPT ![at[t].pid] = "gone"]
  /\ UNCHANGED <<mode, state, child, port, count, reader, future, calls, main,
                 abandoned, overtaken>>

StorePid(t) ==
  /\ pc[t] = "store" /\ IsGone(t) /\ UNCHANGED at
  /\ child' = 0 /\ overtaken' = (overtaken \/ child \notin {0, at[t].pid})
  /\ UNCHANGED <<mode, state, port, count, reader, future, proc, calls, main,
                 abandoned>>

\* Starting or Running becomes CrashedRestarting; the call returns Err.
Crash(t) ==
  /\ pc[t] = "crash" /\ Exchange(at[t].from, "Crashed") /\ Return(t, "idle")
  /\ UNCHANGED <<mode, child, port, count, reader, future, proc, calls, main,
                 abandoned, overtaken>>

\* The child lives and does not answer: another round, until the deadline.
AnotherRound(t) ==
  /\ pc[t] = "again"
  /\ \/ /\ at[t].polls < MaxPolls /\ Goto(t, "health")
        /\ at' = [at EXCEPT ![t].polls = @ + 1] /\ UNCHANGED state
     \/ Exchange("Starting", "Crashed") /\ Return(t, "idle")
  /\ UNCHANGED <<mode, child, port, count, reader, future, proc, calls, main,
                 abandoned, overtaken>>

\* Mutant: a caller that finds another one starting has no deadline.
BugPoll(t) ==
  /\ pc[t] = "poll" /\ state # "Starting"
  /\ Return(t, IF state = "Running" THEN Served ELSE IF state = "Crashed" THEN "ensure" ELSE "idle")
  /\ UNCHANGED <<mode, machine, calls, main, abandoned, overtaken>>

\* Somebody else starts the child: wait for what comes of it, until the deadline or a cancel.
Poll(t) ==
  /\ pc[t] = "poll"
  /\ \/ /\ state # "Starting"
        /\ Return(t, CASE state = "Running" -> Served
                       [] state = "Crashed" -> "ensure"
                       [] OTHER -> "idle")
     \/ Return(t, "idle")
  /\ UNCHANGED <<mode, machine, calls, main, abandoned, overtaken>>

\* request(): POST to the child; a failure asks whether the child is gone.
Post(t) ==
  /\ pc[t] = "post"
  /\ \/ port # 0 /\ proc[port] = "serving" /\ Return(t, "idle")
     \/ Goto(t, "reap") /\ UNCHANGED at
  /\ UNCHANGED <<mode, machine, calls, main, abandoned, overtaken>>

-----------------------------------------------------------------------------
\* prewarm_async(): the thread is started, then its future is assigned.
Launch(t) ==
  /\ mode = "prewarm" /\ mpc = "ui" /\ calls = 0 /\ state \notin {"Running", "Disabled"}
  /\ calls' = 1 /\ Goto(t, "ensure") /\ mpc' = "assign"
  /\ UNCHANGED <<mode, machine, at, abandoned, overtaken, mpid, todo, ending>>

Assign ==
  /\ mpc = "assign" /\ future' = TRUE /\ mpc' = "ui"
  /\ UNCHANGED <<mode, state, child, port, count, reader, proc, callers, mpid, todo, ending,
                 overtaken>>

\* abort_startup(): SIGTERM, and the start or the run counts as crashed.
Abort ==
  /\ mode = "prewarm" /\ mpc = "ui" /\ child # 0
  /\ proc' = [proc EXCEPT ![child] = IF @ = "gone" THEN @ ELSE "zombie"]
  /\ state' = IF state \in {"Starting", "Running"} THEN "Crashed" ELSE state
  /\ UNCHANGED <<mode, child, port, count, reader, future, callers, main, overtaken>>

\* shutdown(): nothing to do, or look for the child.
NothingLeft == state = "Disabled" /\ child = 0 /\ reader = 0
Down        == IF final THEN "destroyed" ELSE "down"

Shutdown ==
  /\ mode = "tools" /\ mpc = "ui"
  /\ mpc' = (IF NothingLeft THEN "down" ELSE "find")
  /\ UNCHANGED <<mode, machine, callers, mpid, todo, ending, overtaken>>

\* Is a caller inside?
Inside == \E t \in Callers : pc[t] # "idle"

\* Mutant: the destructor looks at the state only.
BugDestroy ==
  /\ mpc = "down"
  /\ mpc' = (IF state = "Disabled" THEN "destroyed" ELSE "find")
  /\ final' = TRUE /\ intruded' = Inside /\ future' = FALSE
  /\ UNCHANGED <<mode, state, child, port, count, reader, proc, callers, mpid, todo, overtaken>>

\* ~SidecarManager(): a child or a reader that is left is shut down. Nobody
\* waits for the tools, which run on detached threads; the prewarm thread is
\* waited for, unless it has consumed its own future.
Destroy ==
  /\ IF mode = "tools" THEN mpc = "down" ELSE mpc = "ui"
  /\ future => ~Inside
  /\ mpc' = (IF child # 0 \/ reader # 0 THEN "find" ELSE "destroyed")
  /\ final' = TRUE /\ intruded' = Inside /\ future' = FALSE
  /\ UNCHANGED <<mode, state, child, port, count, reader, proc, callers, mpid, todo, overtaken>>

Find ==
  /\ mpc = "find"
  /\ IF final /\ NothingLeft THEN mpc' = Down /\ UNCHANGED mpid
     ELSE mpid' = child /\ mpc' = (IF child = 0 THEN "joining" ELSE "reaping")
  /\ UNCHANGED <<mode, machine, callers, todo, ending, overtaken>>

\* The process exits, or is killed; it is reaped, then its pid is cleared.
Reap ==
  /\ mpc = "reaping" /\ mpc' = "clearing" /\ proc' = [proc EXCEPT ![mpid] = "gone"]
  /\ UNCHANGED <<mode, state, child, port, count, reader, future, callers, mpid, todo, ending,
                 overtaken>>

Clear ==
  /\ mpc = "clearing" /\ mpc' = "joining" /\ mpid' = 0
  /\ child' = 0 /\ overtaken' = (overtaken \/ child \notin {0, mpid})
  /\ UNCHANGED <<mode, state, port, count, reader, future, proc, callers, todo, ending>>

JoinReader ==
  /\ mpc = "joining" /\ ReaderEnds /\ reader' = 0 /\ mpc' = "disabling"
  /\ todo' = <<"Running", "Starting", "Crashed", "Cold">>
  /\ UNCHANGED <<mode, state, child, port, count, future, proc, callers, mpid, ending, overtaken>>

\* The four exchanges to Disabled, one after the other.
Disable ==
  /\ mpc = "disabling"
  /\ IF todo = <<>> THEN mpc' = Down /\ UNCHANGED <<state, todo>>
     ELSE Exchange(Head(todo), "Disabled") /\ todo' = Tail(todo) /\ UNCHANGED mpc
  /\ UNCHANGED <<mode, child, port, count, reader, future, proc, callers, mpid, ending,
                 overtaken>>

-----------------------------------------------------------------------------
\* The process becomes ready, or dies.
Process(p) ==
  /\ p \in Alive
  /\ \E s \in {"serving", "zombie"} : s # proc[p] /\ proc' = [proc EXCEPT ![p] = s]
  /\ UNCHANGED <<mode, state, child, port, count, reader, future, callers, main, overtaken>>

\* What a caller does in a destroyed manager is undefined; the model ends there.
Caller(t) == /\ mpc # "destroyed"
             /\ \/ Ensure(t) \/ Crashed(t) \/ Kill(t) \/ Join(t) \/ Spawn(t) \/ Health(t)
                \/ LoadPid(t) \/ WaitPid(t) \/ StorePid(t) \/ Crash(t) \/ AnotherRound(t)
                \/ Poll(t) \/ Post(t)
Closing   == Find \/ Reap \/ Clear \/ JoinReader \/ Disable

Next == \/ \E t \in Callers : Call(t) \/ Caller(t) \/ Launch(t)
        \/ Assign \/ Abort \/ Shutdown \/ Destroy \/ Closing
        \/ \E p \in Pids : Process(p)

Spec == Init /\ [][Next]_vars

\* A thread that can take a step takes one: it blocks nowhere but in a join.
FairSpec == Spec /\ (\A t \in Callers : WF_vars(Caller(t))) /\ WF_vars(Closing) /\ WF_vars(Assign)

-----------------------------------------------------------------------------
Waiting == {"idle", "ensure", "itself", "crashed", "poll", "post", "reap", "wait", "store", "crash"}
Asked   == [pid : Pids \union {0}, tries : Nat, polls : Nat, port : Pids \union {0},
            from : {"Running", "Starting"}]

\* Type invariant.
TypeOK ==
  /\ mode \in Modes /\ state \in {"Disabled", "Cold", "Starting", "Running", "Crashed"}
  /\ child \in Pids \union {0} /\ port \in Pids \union {0} /\ reader \in Pids \union {0}
  /\ mpid \in Pids \union {0} /\ restarts \in Nat /\ calls \in Nat /\ future \in BOOLEAN
  /\ proc \in [Pids -> {"none", "booting", "serving", "zombie", "gone"}]
  /\ pc \in [Callers -> Driving \union Waiting] /\ at \in [Callers -> Asked]
  /\ mpc \in {"ui", "assign", "find", "reaping", "clearing", "joining", "disabling", "down",
              "destroyed"}
  /\ todo \in Seq({"Running", "Starting", "Crashed", "Cold"}) /\ final \in BOOLEAN
  /\ intruded \in BOOLEAN /\ abandoned \in BOOLEAN
  /\ overtaken \in BOOLEAN /\ raced \in BOOLEAN

\* One caller at a time starts the child, with no lock; unless a cancelled one
\* left, a manager that is Starting has it. (ensure_started(): the exchanges
\* Cold -> Starting and CrashedRestarting -> Starting elect it.)
OneDriver ==
  LET drivers == {t \in Callers : Drives(t)}
  IN  /\ Cardinality(drivers) <= 1
      /\ state = "Starting" /\ ~abandoned => drivers # {}

\* Running is never entered for a child that has not answered /healthz.
RunningAnswered == state = "Running" => port # 0 /\ proc[port] # "booting"

\* state_ says who may start the child and whether it has ever answered.
StateIsTrue == OneDriver /\ RunningAnswered

\* The documented cap is kept until a caller wins the exchange with a count that
\* another restart has outdated; the count is read before the exchange, so each
\* of the other callers can take one restart more, and no further.
\* (ensure_started())
RestartsBounded ==
  /\ ~raced => restarts <= MaxRestarts
  /\ restarts <= MaxRestarts + Cardinality(Callers) - 1

\* Every process that lives is the one child_pid_ names, unless a thread that
\* reaped the previous child cleared the pid of the next. (try_reap_child(),
\* kill_and_reap(), shutdown())
ChildIsNamed == ~overtaken => \A p \in Alive : child = p

\* Once the manager is destroyed, no process it started lives and its reader has
\* been joined, also when a caller spawned during shutdown(); unless a tool was
\* inside while the destructor ran: nobody waits for the detached threads.
NothingIsLeft ==
  mpc = "destroyed" /\ mode = "tools" /\ ~overtaken /\ ~intruded => Alive = {} /\ reader = 0

\* No process escapes the manager, while it lives and when it is gone.
NothingEscapes == ChildIsNamed /\ NothingIsLeft

\* Every ensure_started() of a tool returns, whatever the child and the other
\* callers do, unless the manager is destroyed under it; a thread that cleared
\* another's pid can leave a reader that nobody ends.
EnsureReturns ==
  \A t \in Callers :
    pc[t] = "ensure" ~> pc[t] \in {"idle", "post", "itself"} \/ mpc = "destroyed" \/ overtaken
=============================================================================
