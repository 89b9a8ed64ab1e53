------------------------ MODULE SidecarManagerProofs ------------------------
(***************************************************************************)
(* For any number of calling threads, restarts and processes: one thread   *)
(* at a time starts the child although there is no lock, state_ says       *)
(* whether the child has answered, the restart cap holds up to the callers *)
(* that race for it, and no process escapes the manager.                   *)
(***************************************************************************)
EXTENDS SidecarManager, FiniteSetTheorems, TLAPS

\* Who starts the child was elected by an exchange; the prewarm thread is alone.
Elected ==
  /\ \A t, u \in Callers : Drives(t) /\ Drives(u) => t = u
  /\ \A t \in Callers : Drives(t) =>
       state \in {"Starting", "Disabled"} \/ (state = "Crashed" /\ mode = "prewarm")
  /\ state = "Starting" /\ ~abandoned => \E t \in Callers : Drives(t)
  /\ mode = "prewarm" => \A t, u \in Callers : pc[t] # "idle" /\ pc[u] # "idle" => t = u
  /\ mode = "prewarm" /\ calls = 0 => \A t \in Callers : pc[t] = "idle"

\* The state a caller remembers tells where it came from.
Remembers ==
  \A t \in Callers :
    /\ pc[t] \in {"health", "again"} => at[t].from = "Starting"
    /\ pc[t] \in {"idle", "ensure", "itself", "post", "crashed", "poll", "kill", "join", "spawn"} =>
         at[t].from = "Running"

\* The driver polls the port of the current child; no child was there when Cold.
Polled ==
  /\ \A t \in Callers : Drives(t) /\ pc[t] \notin {"kill", "join", "spawn"} =>
       at[t].port = port /\ port # 0
  /\ RunningAnswered

\* The child is spawned when none is left, and a pid is cleared when its
\* process is gone.
Cleared ==
  /\ state = "Cold" => child = 0
  /\ \A t \in Callers : pc[t] \in {"join", "spawn"} /\ ~overtaken => child = 0
  /\ \A t \in Callers : pc[t] = "wait" => at[t].pid # 0
  /\ \A t \in Callers : pc[t] = "store" => at[t].pid # 0 /\ proc[at[t].pid] = "gone"
  /\ mpc = "reaping" => mpid # 0
  /\ mpc = "clearing" => mpid # 0 /\ proc[mpid] = "gone"

\* Unless a tool was inside, the destructor is alone with the child.
Final ==
  /\ mpc = "destroyed" => final
  /\ mode = "tools" /\ final /\ ~intruded =>
       /\ \A t \in Callers : pc[t] = "idle"
       /\ mpc \in {"joining", "disabling", "destroyed"} => child = 0
       /\ mpc \in {"disabling", "destroyed"} => reader = 0

\* Those who have read a count below the cap and have not exchanged yet.
Racers == {t \in Callers : pc[t] = "crashed" /\ at[t].tries < MaxRestarts}
Counted == restarts + Cardinality(Racers) <= MaxRestarts + Cardinality(Callers) - 1

\* Until a count that is out of date wins, the cap is kept.
Capped == ~raced => restarts <= MaxRestarts

ManagerInv == TypeOK /\ Elected /\ Remembers /\ Polled /\ Cleared /\ ChildIsNamed /\ Final /\ Counted
              /\ Capped

-----------------------------------------------------------------------------
\* What a step of caller t leaves alone.
OnlyOne(t) ==
  /\ pc' \in [Callers -> Driving \union Waiting] /\ at' \in [Callers -> Asked]
  /\ \A u \in Callers : u # t => pc'[u] = pc[u] /\ at'[u] = at[u]

LEMMA NoAtIs == NoAt \in Asked /\ NoAt.from = "Running"
BY DEF NoAt, Asked

LEMMA Goes ==
  ASSUME TypeOK, NEW t \in Callers, NEW p \in Driving \union Waiting, Goto(t, p), UNCHANGED at
  PROVE  OnlyOne(t) /\ pc'[t] = p /\ at'[t] = at[t]
BY DEF TypeOK, OnlyOne, Goto

LEMMA Returns ==
  ASSUME TypeOK, NEW t \in Callers, NEW p \in Driving \union Waiting, Return(t, p)
  PROVE  OnlyOne(t) /\ pc'[t] = p /\ at'[t] = NoAt
BY NoAtIs DEF TypeOK, OnlyOne, Goto, Return

LEMMA Sets ==
  ASSUME TypeOK, NEW t \in Callers, NEW p \in Driving \union Waiting, NEW a \in Asked, Goto(t, p),
         at' = [at EXCEPT ![t] = a]
  PROVE  OnlyOne(t) /\ pc'[t] = p /\ at'[t] = a
BY DEF TypeOK, OnlyOne, Goto

\* Fields that are set one by one.
LEMMA AskedFields ==
  ASSUME NEW r \in Asked
  PROVE  /\ r.from \in {"Running", "Starting"} /\ r.tries \in Nat /\ r.polls \in Nat
         /\ \A n \in Nat : LET s == [r EXCEPT !.tries = n]
                           IN  s \in Asked /\ s.tries = n /\ s.from = r.from /\ s.port = r.port
         /\ LET s == [r EXCEPT !.polls = @ + 1]
            IN  s \in Asked /\ s.from = r.from /\ s.port = r.port
         /\ \A p \in Pids \union {0} : LET s == [r EXCEPT !.pid = p]
                                      IN  s \in Asked /\ s.pid = p /\ s.from = r.from /\ s.port = r.port
BY DEF Asked

LEMMA SpawnedAt ==
  ASSUME NEW p \in Pids
  PROVE  LET s == [NoAt EXCEPT !.port = p, !.from = "Starting"]
         IN  s \in Asked /\ s.port = p /\ s.from = "Starting"
BY DEF NoAt, Asked

CallDoes(t) ==
  /\ OnlyOne(t) /\ pc[t] = "idle"
  /\ UNCHANGED <<mode, state, child, port, restarts, raced, reader, future, proc, abandoned,
                  overtaken, mpc, mpid, todo, final>>
  /\ mode = "tools" /\ intruded' = (intruded \/ final)
  /\ calls' \in Nat
  /\ pc'[t] \in {"post", "ensure"} /\ at'[t] = at[t]

LEMMA CallEffect == ASSUME TypeOK, NEW t \in Callers, Call(t) PROVE CallDoes(t)
<1>1. {"ensure", "post"} \subseteq Driving \union Waiting
  BY DEF Driving, Waiting
<1>2. /\ pc[t] = "idle"
      /\ UNCHANGED <<mode, state, child, port, restarts, raced, reader, future, proc, abandoned,
                     overtaken, mpc, mpid, todo, final>>
      /\ mode = "tools" /\ intruded' = (intruded \/ final)
      /\ calls' \in Nat
  BY DEF Call, TypeOK, machine, callers, main, count, ending
<1>3. \/ /\ \E p \in {"post", "ensure"} : Goto(t, p) /\ UNCHANGED at
  BY DEF Call
<1>4. CASE /\ \E p \in {"post", "ensure"} : Goto(t, p) /\ UNCHANGED at
  <2>1. OnlyOne(t) /\ pc'[t] \in {"post", "ensure"} /\ at'[t] = at[t]
    BY <1>1, <1>4, Goes
  <2> QED BY <1>2, <1>4, <2>1 DEF CallDoes
<1> QED BY <1>3, <1>4

LaunchDoes(t) ==
  /\ OnlyOne(t)
  /\ UNCHANGED <<mode, state, child, port, restarts, raced, reader, future, proc, abandoned,
                  overtaken, mpid, todo, final, intruded>>
  /\ mode = "prewarm" /\ calls = 0 /\ calls' = 1 /\ mpc' = "assign"
  /\ pc'[t] = "ensure" /\ at'[t] = at[t]

LEMMA LaunchEffect == ASSUME TypeOK, NEW t \in Callers, Launch(t) PROVE LaunchDoes(t)
<1>1. {"ensure"} \subseteq Driving \union Waiting
  BY DEF Driving, Waiting
<1>2. /\ UNCHANGED <<mode, state, child, port, restarts, raced, reader, future, proc, abandoned,
                     overtaken, mpid, todo, final, intruded>>
      /\ mode = "prewarm" /\ calls = 0 /\ calls' = 1 /\ mpc' = "assign"
  BY DEF Launch, TypeOK, machine, callers, main, count, ending
<1>3. \/ /\ Goto(t, "ensure") /\ UNCHANGED at
  BY DEF Launch
<1>4. CASE /\ Goto(t, "ensure") /\ UNCHANGED at
  <2>1. OnlyOne(t) /\ pc'[t] = "ensure" /\ at'[t] = at[t]
    BY <1>1, <1>4, Goes
  <2> QED BY <1>2, <1>4, <2>1 DEF LaunchDoes
<1> QED BY <1>3, <1>4

EnsureDoes(t) ==
  /\ OnlyOne(t) /\ pc[t] = "ensure"
  /\ UNCHANGED <<mode, child, port, restarts, raced, reader, proc, calls, abandoned, overtaken, mpc,
                  mpid, todo, final, intruded>>
  /\ future' \in BOOLEAN
  /\ \/ /\ pc'[t] \in {"idle", "post"} /\ at'[t] = NoAt
        /\ state' = state
     \/ /\ pc'[t] \in {"itself", "poll"} /\ at'[t] = at[t]
        /\ state' = state
     \/ /\ pc'[t] = "crashed" /\ at'[t].tries = restarts /\ at'[t].from = at[t].from
        /\ state' = state
     \/ /\ pc'[t] = "spawn" /\ at'[t] = at[t]
        /\ state = "Cold" /\ state' = "Starting"

LEMMA EnsureEffect == ASSUME TypeOK, NEW t \in Callers, Ensure(t) PROVE EnsureDoes(t)
<1>1. {"crashed", "idle", "itself", "poll", "post", "spawn"} \subseteq Driving \union Waiting
  BY DEF Driving, Waiting
<1>2. /\ pc[t] = "ensure"
      /\ UNCHANGED <<mode, child, port, restarts, raced, reader, proc, calls, abandoned, overtaken, mpc,
                     mpid, todo, final, intruded>>
      /\ future' \in BOOLEAN
  BY DEF Ensure, Served, Exchange, Legal, TypeOK, machine, callers, main, count, ending
<1>3. \/ /\ \E p \in {"idle", "post"} : Return(t, p)
         /\ state' = state
      \/ /\ \E p \in {"itself", "poll"} : Goto(t, p) /\ UNCHANGED at
         /\ state' = state
      \/ /\ Goto(t, "crashed") /\ at' = [at EXCEPT ![t].tries = restarts]
         /\ state' = state
      \/ /\ Goto(t, "spawn") /\ UNCHANGED at
         /\ state = "Cold" /\ state' = "Starting"
  BY DEF Ensure, Served, Exchange, Legal
<1>4. CASE /\ \E p \in {"idle", "post"} : Return(t, p)
             /\ state' = state
  <2>1. OnlyOne(t) /\ pc'[t] \in {"idle", "post"} /\ at'[t] = NoAt
    BY <1>1, <1>4, Returns
  <2> QED BY <1>2, <1>4, <2>1 DEF EnsureDoes
<1>5. CASE /\ \E p \in {"itself", "poll"} : Goto(t, p) /\ UNCHANGED at
             /\ state' = state
  <2>1. OnlyOne(t) /\ pc'[t] \in {"itself", "poll"} /\ at'[t] = at[t]
    BY <1>1, <1>5, Goes
  <2> QED BY <1>2, <1>5, <2>1 DEF EnsureDoes
<1>6. CASE /\ Goto(t, "crashed") /\ at' = [at EXCEPT ![t].tries = restarts]
             /\ state' = state
  <2> DEFINE a == [at[t] EXCEPT !.tries = restarts]
  <2>1. a \in Asked /\ a.tries = restarts /\ a.from = at[t].from
    <3>1. at[t] \in Asked /\ restarts \in Nat /\ child \in Pids \union {0}
      BY DEF TypeOK
    <3> QED BY <3>1, AskedFields
  <2>2. at' = [at EXCEPT ![t] = a]
    BY <1>6
  <2> HIDE DEF a
  <2>3. OnlyOne(t) /\ pc'[t] = "crashed" /\ at'[t] = a
    BY <1>1, <1>6, <2>1, <2>2, Sets
  <2> QED BY <1>2, <1>6, <2>1, <2>3 DEF EnsureDoes
<1>7. CASE /\ Goto(t, "spawn") /\ UNCHANGED at
             /\ state = "Cold" /\ state' = "Starting"
  <2>1. OnlyOne(t) /\ pc'[t] = "spawn" /\ at'[t] = at[t]
    BY <1>1, <1>7, Goes
  <2> QED BY <1>2, <1>7, <2>1 DEF EnsureDoes
<1> QED BY <1>3, <1>4, <1>5, <1>6, <1>7

CrashedDoes(t) ==
  /\ OnlyOne(t) /\ pc[t] = "crashed"
  /\ UNCHANGED <<mode, child, port, reader, future, proc, calls, abandoned, overtaken, mpc,
                  mpid, todo, final, intruded>>
  /\ restarts' \in Nat /\ raced' \in BOOLEAN
  /\ \/ /\ pc'[t] = "idle" /\ at'[t] = NoAt
        /\ at[t].tries >= MaxRestarts /\ restarts' = restarts /\ raced' = raced
        /\ state' = (IF state = "Crashed" THEN "Disabled" ELSE state)
     \/ /\ pc'[t] = "kill" /\ at'[t].from = at[t].from
        /\ at[t].tries < MaxRestarts /\ restarts' = restarts + 1
        /\ raced' = (raced \/ at[t].tries # restarts)
        /\ state = "Crashed" /\ state' = "Starting"
     \/ /\ pc'[t] = "poll" /\ at'[t].from = at[t].from
        /\ at[t].tries < MaxRestarts /\ restarts' = restarts /\ raced' = raced /\ state' = state

LEMMA CrashedEffect == ASSUME TypeOK, NEW t \in Callers, Crashed(t) PROVE CrashedDoes(t)
<1>1. {"idle", "kill", "poll"} \subseteq Driving \union Waiting
  BY DEF Driving, Waiting
<1>2. /\ pc[t] = "crashed"
      /\ UNCHANGED <<mode, child, port, reader, future, proc, calls, abandoned, overtaken, mpc,
                     mpid, todo, final, intruded>>
      /\ restarts' \in Nat
  BY DEF Crashed, Restarted, Exchange, Legal, TypeOK, machine, callers, main, count, ending
<1>3. \/ /\ Return(t, "idle")
         /\ at[t].tries >= MaxRestarts /\ restarts' = restarts /\ raced' = raced
         /\ state' = (IF state = "Crashed" THEN "Disabled" ELSE state)
      \/ /\ Goto(t, "kill") /\ at' = [at EXCEPT ![t].tries = 0]
         /\ at[t].tries < MaxRestarts /\ restarts' = restarts + 1
         /\ raced' = (raced \/ at[t].tries # restarts)
         /\ state = "Crashed" /\ state' = "Starting"
      \/ /\ Goto(t, "poll") /\ at' = [at EXCEPT ![t].tries = 0]
         /\ at[t].tries < MaxRestarts /\ restarts' = restarts /\ raced' = raced /\ state' = state
  BY DEF Crashed, Restarted, Exchange, Legal, count
<1>3a. raced' \in BOOLEAN
  BY <1>3 DEF TypeOK
<1>4. CASE /\ Return(t, "idle")
             /\ at[t].tries >= MaxRestarts /\ restarts' = restarts /\ raced' = raced
             /\ state' = (IF state = "Crashed" THEN "Disabled" ELSE state)
  <2>1. OnlyOne(t) /\ pc'[t] = "idle" /\ at'[t] = NoAt
    BY <1>1, <1>4, Returns
  <2> QED BY <1>2, <1>3a, <1>4, <2>1 DEF CrashedDoes
<1>5. CASE /\ Goto(t, "kill") /\ at' = [at EXCEPT ![t].tries = 0]
             /\ at[t].tries < MaxRestarts /\ restarts' = restarts + 1
             /\ raced' = (raced \/ at[t].tries # restarts)
             /\ state = "Crashed" /\ state' = "Starting"
  <2> DEFINE a == [at[t] EXCEPT !.tries = 0]
  <2>1. a \in Asked /\ a.from = at[t].from
    <3>1. at[t] \in Asked /\ restarts \in Nat /\ child \in Pids \union {0}
      BY DEF TypeOK
    <3> QED BY <3>1, AskedFields
  <2>2. at' = [at EXCEPT ![t] = a]
    BY <1>5
  <2> HIDE DEF a
  <2>3. OnlyOne(t) /\ pc'[t] = "kill" /\ at'[t] = a
    BY <1>1, <1>5, <2>1, <2>2, Sets
  <2> QED BY <1>2, <1>3a, <1>5, <2>1, <2>3 DEF CrashedDoes
<1>6. CASE /\ Goto(t, "poll") /\ at' = [at EXCEPT ![t].tries = 0]
             /\ at[t].tries < MaxRestarts /\ restarts' = restarts /\ raced' = raced /\ state' = state
  <2> DEFINE a == [at[t] EXCEPT !.tries = 0]
  <2>1. a \in Asked /\ a.from = at[t].from
    <3>1. at[t] \in Asked /\ restarts \in Nat /\ child \in Pids \union {0}
      BY DEF TypeOK
    <3> QED BY <3>1, AskedFields
  <2>2. at' = [at EXCEPT ![t] = a]
    BY <1>6
  <2> HIDE DEF a
  <2>3. OnlyOne(t) /\ pc'[t] = "poll" /\ at'[t] = a
    BY <1>1, <1>6, <2>1, <2>2, Sets
  <2> QED BY <1>2, <1>3a, <1>6, <2>1, <2>3 DEF CrashedDoes
<1> QED BY <1>3, <1>4, <1>5, <1>6

KillDoes(t) ==
  /\ OnlyOne(t) /\ pc[t] = "kill"
  /\ UNCHANGED <<mode, state, port, restarts, raced, reader, future, calls, abandoned, overtaken,
                  mpc, mpid, todo, final, intruded>>
  /\ child' = 0
  /\ proc' = [p \in Pids |-> IF p = child THEN "gone" ELSE proc[p]]
  /\ pc'[t] = "join" /\ at'[t] = at[t]

LEMMA KillEffect == ASSUME TypeOK, NEW t \in Callers, Kill(t) PROVE KillDoes(t)
<1>1. {"join"} \subseteq Driving \union Waiting
  BY DEF Driving, Waiting
<1>2. /\ pc[t] = "kill"
      /\ UNCHANGED <<mode, state, port, restarts, raced, reader, future, calls, abandoned, overtaken,
                     mpc, mpid, todo, final, intruded>>
      /\ child' = 0
      /\ proc' = [p \in Pids |-> IF p = child THEN "gone" ELSE proc[p]]
  BY DEF Kill, TypeOK, machine, callers, main, count, ending
<1>3. \/ /\ Goto(t, "join") /\ UNCHANGED at
  BY DEF Kill
<1>4. CASE /\ Goto(t, "join") /\ UNCHANGED at
  <2>1. OnlyOne(t) /\ pc'[t] = "join" /\ at'[t] = at[t]
    BY <1>1, <1>4, Goes
  <2> QED BY <1>2, <1>4, <2>1 DEF KillDoes
<1> QED BY <1>3, <1>4

JoinDoes(t) ==
  /\ OnlyOne(t) /\ pc[t] = "join"
  /\ UNCHANGED <<mode, state, child, port, restarts, raced, future, proc, calls, abandoned,
                  overtaken, mpc, mpid, todo, final, intruded>>
  /\ reader' = 0
  /\ pc'[t] = "spawn" /\ at'[t] = at[t]

LEMMA JoinEffect == ASSUME TypeOK, NEW t \in Callers, Join(t) PROVE JoinDoes(t)
<1>1. {"spawn"} \subseteq Driving \union Waiting
  BY DEF Driving, Waiting
<1>2. /\ pc[t] = "join"
      /\ UNCHANGED <<mode, state, child, port, restarts, raced, future, proc, calls, abandoned,
                     overtaken, mpc, mpid, todo, final, intruded>>
      /\ reader' = 0
  BY DEF Join, TypeOK, machine, callers, main, count, ending
<1>3. \/ /\ Goto(t, "spawn") /\ UNCHANGED at
  BY DEF Join
<1>4. CASE /\ Goto(t, "spawn") /\ UNCHANGED at
  <2>1. OnlyOne(t) /\ pc'[t] = "spawn" /\ at'[t] = at[t]
    BY <1>1, <1>4, Goes
  <2> QED BY <1>2, <1>4, <2>1 DEF JoinDoes
<1> QED BY <1>3, <1>4

HealthDoes(t) ==
  /\ OnlyOne(t) /\ pc[t] = "health"
  /\ UNCHANGED <<mode, child, port, restarts, raced, reader, future, proc, calls, overtaken, mpc,
                  mpid, todo, final, intruded>>
  /\ abandoned' \in BOOLEAN
  /\ \/ /\ pc'[t] = "idle" /\ at'[t] = NoAt
        /\ abandoned' = TRUE /\ state' = state
     \/ /\ pc'[t] \in {"idle", "post"} /\ at'[t] = NoAt
        /\ abandoned' = abandoned /\ proc[at[t].port] = "serving"
        /\ state' = (IF state = "Starting" THEN "Running" ELSE state)
     \/ /\ pc'[t] = "reap" /\ at'[t] = at[t]
        /\ UNCHANGED <<abandoned, state>>

LEMMA HealthEffect == ASSUME TypeOK, NEW t \in Callers, Health(t) PROVE HealthDoes(t)
<1>1. {"idle", "post", "reap"} \subseteq Driving \union Waiting
  BY DEF Driving, Waiting
<1>2. /\ pc[t] = "health"
      /\ UNCHANGED <<mode, child, port, restarts, raced, reader, future, proc, calls, overtaken, mpc,
                     mpid, todo, final, intruded>>
      /\ abandoned' \in BOOLEAN
  BY DEF Health, Served, Exchange, Legal, TypeOK, machine, callers, main, count, ending
<1>3. \/ /\ Return(t, "idle")
         /\ abandoned' = TRUE /\ state' = state
      \/ /\ \E p \in {"idle", "post"} : Return(t, p)
         /\ abandoned' = abandoned /\ proc[at[t].port] = "serving"
         /\ state' = (IF state = "Starting" THEN "Running" ELSE state)
      \/ /\ Goto(t, "reap") /\ UNCHANGED at
         /\ UNCHANGED <<abandoned, state>>
  BY DEF Health, Served, Exchange, Legal
<1>4. CASE /\ Return(t, "idle")
             /\ abandoned' = TRUE /\ state' = state
  <2>1. OnlyOne(t) /\ pc'[t] = "idle" /\ at'[t] = NoAt
    BY <1>1, <1>4, Returns
  <2> QED BY <1>2, <1>4, <2>1 DEF HealthDoes
<1>5. CASE /\ \E p \in {"idle", "post"} : Return(t, p)
             /\ abandoned' = abandoned /\ proc[at[t].port] = "serving"
             /\ state' = (IF state = "Starting" THEN "Running" ELSE state)
  <2>1. OnlyOne(t) /\ pc'[t] \in {"idle", "post"} /\ at'[t] = NoAt
    BY <1>1, <1>5, Returns
  <2> QED BY <1>2, <1>5, <2>1 DEF HealthDoes
<1>6. CASE /\ Goto(t, "reap") /\ UNCHANGED at
             /\ UNCHANGED <<abandoned, state>>
  <2>1. OnlyOne(t) /\ pc'[t] = "reap" /\ at'[t] = at[t]
    BY <1>1, <1>6, Goes
  <2> QED BY <1>2, <1>6, <2>1 DEF HealthDoes
<1> QED BY <1>3, <1>4, <1>5, <1>6

LoadPidDoes(t) ==
  /\ OnlyOne(t) /\ pc[t] = "reap"
  /\ UNCHANGED <<mode, state, child, port, restarts, raced, reader, future, proc, calls, abandoned,
                  overtaken, mpc, mpid, todo, final, intruded>>
  /\ \/ /\ pc'[t] = "crash" /\ at'[t] = at[t]
     \/ /\ pc'[t] = "wait" /\ at'[t].pid = child /\ at'[t].from = at[t].from /\ at'[t].port = at[t].port
        /\ child # 0

LEMMA LoadPidEffect == ASSUME TypeOK, NEW t \in Callers, LoadPid(t) PROVE LoadPidDoes(t)
<1>1. {"crash", "wait"} \subseteq Driving \union Waiting
  BY DEF Driving, Waiting
<1>2. /\ pc[t] = "reap"
      /\ UNCHANGED <<mode, state, child, port, restarts, raced, reader, future, proc, calls, abandoned,
                     overtaken, mpc, mpid, todo, final, intruded>>
  BY DEF LoadPid, IsGone, TypeOK, machine, callers, main, count, ending
<1>3. \/ /\ Goto(t, "crash") /\ UNCHANGED at
      \/ /\ Goto(t, "wait") /\ at' = [at EXCEPT ![t].pid = child]
         /\ child # 0
  BY DEF LoadPid, IsGone
<1>4. CASE /\ Goto(t, "crash") /\ UNCHANGED at
  <2>1. OnlyOne(t) /\ pc'[t] = "crash" /\ at'[t] = at[t]
    BY <1>1, <1>4, Goes
  <2> QED BY <1>2, <1>4, <2>1 DEF LoadPidDoes
<1>5. CASE /\ Goto(t, "wait") /\ at' = [at EXCEPT ![t].pid = child]
             /\ child # 0
  <2> DEFINE a == [at[t] EXCEPT !.pid = child]
  <2>1. a \in Asked /\ a.pid = child /\ a.from = at[t].from /\ a.port = at[t].port
    <3>1. at[t] \in Asked /\ restarts \in Nat /\ child \in Pids \union {0}
      BY DEF TypeOK
    <3> QED BY <3>1, AskedFields
  <2>2. at' = [at EXCEPT ![t] = a]
    BY <1>5
  <2> HIDE DEF a
  <2>3. OnlyOne(t) /\ pc'[t] = "wait" /\ at'[t] = a
    BY <1>1, <1>5, <2>1, <2>2, Sets
  <2> QED BY <1>2, <1>5, <2>1, <2>3 DEF LoadPidDoes
<1> QED BY <1>3, <1>4, <1>5

WaitPidDoes(t) ==
  /\ OnlyOne(t) /\ pc[t] = "wait"
  /\ UNCHANGED <<mode, state, child, port, restarts, raced, reader, future, calls, abandoned,
                  overtaken, mpc, mpid, todo, final, intruded>>
  /\ \/ /\ pc'[t] = "idle" /\ at'[t] = NoAt
        /\ at[t].from = "Running" /\ proc' = proc
     \/ /\ pc'[t] = "again" /\ at'[t].from = at[t].from /\ at'[t].port = at[t].port
        /\ at[t].from # "Running" /\ proc' = proc
     \/ /\ pc'[t] = "store" /\ at'[t] = at[t]
        /\ proc' = [proc EXCEPT ![at[t].pid] = "gone"]

LEMMA WaitPidEffect == ASSUME TypeOK, NEW t \in Callers, WaitPid(t) PROVE WaitPidDoes(t)
<1>1. {"again", "idle", "store"} \subseteq Driving \union Waiting
  BY DEF Driving, Waiting
<1>2. /\ pc[t] = "wait"
      /\ UNCHANGED <<mode, state, child, port, restarts, raced, reader, future, calls, abandoned,
                     overtaken, mpc, mpid, todo, final, intruded>>
  BY DEF WaitPid, StillThere, TypeOK, machine, callers, main, count, ending
<1>3. \/ /\ Return(t, "idle")
         /\ at[t].from = "Running" /\ proc' = proc
      \/ /\ Goto(t, "again") /\ at' = [at EXCEPT ![t].pid = 0]
         /\ at[t].from # "Running" /\ proc' = proc
      \/ /\ Goto(t, "store") /\ UNCHANGED at
         /\ proc' = [proc EXCEPT ![at[t].pid] = "gone"]
  BY DEF WaitPid, StillThere
<1>4. CASE /\ Return(t, "idle")
             /\ at[t].from = "Running" /\ proc' = proc
  <2>1. OnlyOne(t) /\ pc'[t] = "idle" /\ at'[t] = NoAt
    BY <1>1, <1>4, Returns
  <2> QED BY <1>2, <1>4, <2>1 DEF WaitPidDoes
<1>5. CASE /\ Goto(t, "again") /\ at' = [at EXCEPT ![t].pid = 0]
             /\ at[t].from # "Running" /\ proc' = proc
  <2> DEFINE a == [at[t] EXCEPT !.pid = 0]
  <2>1. a \in Asked /\ a.from = at[t].from /\ a.port = at[t].port
    <3>1. at[t] \in Asked /\ restarts \in Nat /\ child \in Pids \union {0}
      BY DEF TypeOK
    <3> QED BY <3>1, AskedFields
  <2>2. at' = [at EXCEPT ![t] = a]
    BY <1>5
  <2> HIDE DEF a
  <2>3. OnlyOne(t) /\ pc'[t] = "again" /\ at'[t] = a
    BY <1>1, <1>5, <2>1, <2>2, Sets
  <2> QED BY <1>2, <1>5, <2>1, <2>3 DEF WaitPidDoes
<1>6. CASE /\ Goto(t, "store") /\ UNCHANGED at
             /\ proc' = [proc EXCEPT ![at[t].pid] = "gone"]
  <2>1. OnlyOne(t) /\ pc'[t] = "store" /\ at'[t] = at[t]
    BY <1>1, <1>6, Goes
  <2> QED BY <1>2, <1>6, <2>1 DEF WaitPidDoes
<1> QED BY <1>3, <1>4, <1>5, <1>6

StorePidDoes(t) ==
  /\ OnlyOne(t) /\ pc[t] = "store"
  /\ UNCHANGED <<mode, state, port, restarts, raced, reader, future, proc, calls, abandoned, mpc,
                  mpid, todo, final, intruded>>
  /\ child' = 0
  /\ overtaken' = (overtaken \/ child \notin {0, at[t].pid})
  /\ pc'[t] = "crash" /\ at'[t] = at[t]

LEMMA StorePidEffect == ASSUME TypeOK, NEW t \in Callers, StorePid(t) PROVE StorePidDoes(t)
<1>1. {"crash"} \subseteq Driving \union Waiting
  BY DEF Driving, Waiting
<1>2. /\ pc[t] = "store"
      /\ UNCHANGED <<mode, state, port, restarts, raced, reader, future, proc, calls, abandoned, mpc,
                     mpid, todo, final, intruded>>
      /\ child' = 0
      /\ overtaken' = (overtaken \/ child \notin {0, at[t].pid})
  BY DEF StorePid, IsGone, TypeOK, machine, callers, main, count, ending
<1>3. \/ /\ Goto(t, "crash") /\ UNCHANGED at
  BY DEF StorePid, IsGone
<1>4. CASE /\ Goto(t, "crash") /\ UNCHANGED at
  <2>1. OnlyOne(t) /\ pc'[t] = "crash" /\ at'[t] = at[t]
    BY <1>1, <1>4, Goes
  <2> QED BY <1>2, <1>4, <2>1 DEF StorePidDoes
<1> QED BY <1>3, <1>4

CrashDoes(t) ==
  /\ OnlyOne(t) /\ pc[t] = "crash"
  /\ UNCHANGED <<mode, child, port, restarts, raced, reader, future, proc, calls, abandoned,
                  overtaken, mpc, mpid, todo, final, intruded>>
  /\ state' = (IF state = at[t].from THEN "Crashed" ELSE state)
  /\ pc'[t] = "idle" /\ at'[t] = NoAt

LEMMA CrashEffect == ASSUME TypeOK, NEW t \in Callers, Crash(t) PROVE CrashDoes(t)
<1>0. at[t].from \in {"Running", "Starting"}
  BY AskedFields DEF TypeOK
<1>1. {"idle"} \subseteq Driving \union Waiting
  BY DEF Driving, Waiting
<1>2. /\ pc[t] = "crash"
      /\ UNCHANGED <<mode, child, port, restarts, raced, reader, future, proc, calls, abandoned,
                     overtaken, mpc, mpid, todo, final, intruded>>
      /\ state' = (IF state = at[t].from THEN "Crashed" ELSE state)
  BY <1>0 DEF Crash, Exchange, Legal, TypeOK, machine, callers, main, count, ending
<1>3. \/ /\ Return(t, "idle")
  BY DEF Crash, Exchange, Legal
<1>4. CASE /\ Return(t, "idle")
  <2>1. OnlyOne(t) /\ pc'[t] = "idle" /\ at'[t] = NoAt
    BY <1>1, <1>4, Returns
  <2> QED BY <1>2, <1>4, <2>1 DEF CrashDoes
<1> QED BY <1>3, <1>4

AnotherRoundDoes(t) ==
  /\ OnlyOne(t) /\ pc[t] = "again"
  /\ UNCHANGED <<mode, child, port, restarts, raced, reader, future, proc, calls, abandoned,
                  overtaken, mpc, mpid, todo, final, intruded>>
  /\ \/ /\ pc'[t] = "health" /\ at'[t].from = at[t].from /\ at'[t].port = at[t].port
        /\ state' = state
     \/ /\ pc'[t] = "idle" /\ at'[t] = NoAt
        /\ state' = (IF state = "Starting" THEN "Crashed" ELSE state)

LEMMA AnotherRoundEffect == ASSUME TypeOK, NEW t \in Callers, AnotherRound(t) PROVE AnotherRoundDoes(t)
<1>1. {"health", "idle"} \subseteq Driving \union Waiting
  BY DEF Driving, Waiting
<1>2. /\ pc[t] = "again"
      /\ UNCHANGED <<mode, child, port, restarts, raced, reader, future, proc, calls, abandoned,
                     overtaken, mpc, mpid, todo, final, intruded>>
  BY DEF AnotherRound, Exchange, Legal, TypeOK, machine, callers, main, count, ending
<1>3. \/ /\ Goto(t, "health") /\ at' = [at EXCEPT ![t].polls = @ + 1]
         /\ state' = state
      \/ /\ Return(t, "idle")
         /\ state' = (IF state = "Starting" THEN "Crashed" ELSE state)
  BY DEF AnotherRound, Exchange, Legal
<1>4. CASE /\ Goto(t, "health") /\ at' = [at EXCEPT ![t].polls = @ + 1]
             /\ state' = state
  <2> DEFINE a == [at[t] EXCEPT !.polls = @ + 1]
  <2>1. a \in Asked /\ a.from = at[t].from /\ a.port = at[t].port
    <3>1. at[t] \in Asked /\ restarts \in Nat /\ child \in Pids \union {0}
      BY DEF TypeOK
    <3> QED BY <3>1, AskedFields
  <2>2. at' = [at EXCEPT ![t] = a]
    BY <1>4
  <2> HIDE DEF a
  <2>3. OnlyOne(t) /\ pc'[t] = "health" /\ at'[t] = a
    BY <1>1, <1>4, <2>1, <2>2, Sets
  <2> QED BY <1>2, <1>4, <2>1, <2>3 DEF AnotherRoundDoes
<1>5. CASE /\ Return(t, "idle")
             /\ state' = (IF state = "Starting" THEN "Crashed" ELSE state)
  <2>1. OnlyOne(t) /\ pc'[t] = "idle" /\ at'[t] = NoAt
    BY <1>1, <1>5, Returns
  <2> QED BY <1>2, <1>5, <2>1 DEF AnotherRoundDoes
<1> QED BY <1>3, <1>4, <1>5

PollDoes(t) ==
  /\ OnlyOne(t) /\ pc[t] = "poll"
  /\ UNCHANGED <<mode, state, child, port, restarts, raced, reader, future, proc, calls, abandoned,
                  overtaken, mpc, mpid, todo, final, intruded>>
  /\ pc'[t] \in {"idle", "post", "ensure"} /\ at'[t] = NoAt

LEMMA PollEffect == ASSUME TypeOK, NEW t \in Callers, Poll(t) PROVE PollDoes(t)
<1>1. {"ensure", "idle", "post"} \subseteq Driving \union Waiting
  BY DEF Driving, Waiting
<1>2. /\ pc[t] = "poll"
      /\ UNCHANGED <<mode, state, child, port, restarts, raced, reader, future, proc, calls, abandoned,
                     overtaken, mpc, mpid, todo, final, intruded>>
  BY DEF Poll, Served, TypeOK, machine, callers, main, count, ending
<1>3. \/ /\ \E p \in {"idle", "post", "ensure"} : Return(t, p)
  BY DEF Poll, Served
<1>4. CASE /\ \E p \in {"idle", "post", "ensure"} : Return(t, p)
  <2>1. OnlyOne(t) /\ pc'[t] \in {"idle", "post", "ensure"} /\ at'[t] = NoAt
    BY <1>1, <1>4, Returns
  <2> QED BY <1>2, <1>4, <2>1 DEF PollDoes
<1> QED BY <1>3, <1>4

PostDoes(t) ==
  /\ OnlyOne(t) /\ pc[t] = "post"
  /\ UNCHANGED <<mode, state, child, port, restarts, raced, reader, future, proc, calls, abandoned,
                  overtaken, mpc, mpid, todo, final, intruded>>
  /\ \/ /\ pc'[t] = "idle" /\ at'[t] = NoAt
     \/ /\ pc'[t] = "reap" /\ at'[t] = at[t]

LEMMA PostEffect == ASSUME TypeOK, NEW t \in Callers, Post(t) PROVE PostDoes(t)
<1>1. {"idle", "reap"} \subseteq Driving \union Waiting
  BY DEF Driving, Waiting
<1>2. /\ pc[t] = "post"
      /\ UNCHANGED <<mode, state, child, port, restarts, raced, reader, future, proc, calls, abandoned,
                     overtaken, mpc, mpid, todo, final, intruded>>
  BY DEF Post, TypeOK, machine, callers, main, count, ending
<1>3. \/ /\ Return(t, "idle")
      \/ /\ Goto(t, "reap") /\ UNCHANGED at
  BY DEF Post
<1>4. CASE /\ Return(t, "idle")
  <2>1. OnlyOne(t) /\ pc'[t] = "idle" /\ at'[t] = NoAt
    BY <1>1, <1>4, Returns
  <2> QED BY <1>2, <1>4, <2>1 DEF PostDoes
<1>5. CASE /\ Goto(t, "reap") /\ UNCHANGED at
  <2>1. OnlyOne(t) /\ pc'[t] = "reap" /\ at'[t] = at[t]
    BY <1>1, <1>5, Goes
  <2> QED BY <1>2, <1>5, <2>1 DEF PostDoes
<1> QED BY <1>3, <1>4, <1>5

SpawnDoes(t) ==
  /\ OnlyOne(t) /\ pc[t] = "spawn"
  /\ UNCHANGED <<mode, restarts, raced, future, calls, abandoned, overtaken, mpc, mpid, todo, final, intruded>>
  /\ \/ /\ pc'[t] = "idle" /\ at'[t] = NoAt /\ UNCHANGED <<child, port, reader, proc>>
        /\ state' = (IF state = "Starting" THEN "Crashed" ELSE state)
     \/ \E p \in Pids :
          /\ pc'[t] = "health" /\ at'[t].port = p /\ at'[t].from = "Starting"
          /\ proc[p] = "none" /\ proc' = [proc EXCEPT ![p] = "booting"]
          /\ child' = p /\ port' = p /\ reader' = p /\ state' = state

LEMMA SpawnEffect == ASSUME TypeOK, NEW t \in Callers, Spawn(t) PROVE SpawnDoes(t)
<1>1. {"health", "idle"} \subseteq Driving \union Waiting
  BY DEF Driving, Waiting
<1>2. /\ pc[t] = "spawn"
      /\ UNCHANGED <<mode, restarts, raced, future, calls, abandoned, overtaken, mpc, mpid, todo, final, intruded>>
  BY DEF Spawn, main, count, ending
<1>3. CASE /\ Return(t, "idle") /\ Exchange("Starting", "Crashed")
           /\ UNCHANGED <<child, port, reader, proc>>
  <2>1. OnlyOne(t) /\ pc'[t] = "idle" /\ at'[t] = NoAt
    BY <1>1, <1>3, Returns
  <2> QED BY <1>2, <1>3, <2>1 DEF SpawnDoes, Exchange, Legal
<1>4. ASSUME NEW p \in Pids, proc[p] = "none", child' = p, port' = p, reader' = p,
             proc' = [proc EXCEPT ![p] = "booting"], Goto(t, "health"), state' = state,
             at' = [at EXCEPT ![t] = [NoAt EXCEPT !.port = p, !.from = "Starting"]]
      PROVE  SpawnDoes(t)
  <2> DEFINE a == [NoAt EXCEPT !.port = p, !.from = "Starting"]
  <2>1. a \in Asked /\ a.port = p /\ a.from = "Starting"
    BY SpawnedAt
  <2>2. at' = [at EXCEPT ![t] = a]
    BY <1>4
  <2> HIDE DEF a
  <2>3. OnlyOne(t) /\ pc'[t] = "health" /\ at'[t] = a
    BY <1>1, <1>4, <2>1, <2>2, Sets
  <2> QED BY <1>2, <1>4, <2>1, <2>3 DEF SpawnDoes
<1> QED BY <1>3, <1>4 DEF Spawn

-----------------------------------------------------------------------------
\* Four ways a step of a caller bears on the election.
Keeps(t)   == (Drives(t)' <=> Drives(t)) /\ UNCHANGED <<state, abandoned>>
Leaves(t)  == Drives(t) /\ ~Drives(t)' /\ (state' # "Starting" \/ abandoned')
Wins(t)    == /\ ~Drives(t) /\ Drives(t)' /\ UNCHANGED abandoned
              /\ state \in {"Cold", "Crashed"} /\ state' = "Starting"
Watches(t) == /\ ~Drives(t) /\ ~Drives(t)' /\ UNCHANGED abandoned
              /\ \/ state' \in {state, "Disabled"}
                 \/ state = "Running" /\ state' = "Crashed"

LEMMA OthersDrive ==
  ASSUME NEW t \in Callers, OnlyOne(t)
  PROVE  \A u \in Callers : u # t => (Drives(u)' <=> Drives(u))
BY DEF OnlyOne, Drives

LEMMA AtTypes ==
  ASSUME TypeOK
  PROVE  \A u \in Callers : /\ at[u].pid \in Pids \union {0} /\ at[u].port \in Pids \union {0}
                            /\ at[u].from \in {"Running", "Starting"} /\ at[u].tries \in Nat
BY DEF TypeOK, Asked

LEMMA Election ==
  ASSUME Elected, NEW t \in Callers, OnlyOne(t), UNCHANGED mode,
         mode = "tools" \/ (pc[t] # "idle" /\ UNCHANGED calls),
         Keeps(t) \/ Leaves(t) \/ Wins(t) \/ Watches(t)
  PROVE  Elected'
<1>1. \A u \in Callers : u # t => (Drives(u)' <=> Drives(u))
  BY OthersDrive
<1>2. mode = "prewarm" => \A u \in Callers : u # t => pc[u] = "idle" /\ pc'[u] = "idle"
  BY DEF Elected, OnlyOne
<1>3. mode = "prewarm" => calls' # 0
  BY DEF Elected
<1>4. \A u \in Callers : pc[u] = "idle" => ~Drives(u)
  BY DEF Drives, Driving
<1>5. ~Drives(t) /\ Drives(t)' => \A u \in Callers : ~Drives(u)
  BY <1>2, <1>4 DEF Elected, Keeps, Leaves, Wins, Watches
<1>6. \A u, v \in Callers : Drives(u)' /\ Drives(v)' => u = v
  BY <1>1, <1>5 DEF Elected
<1>7. ASSUME NEW u \in Callers, Drives(u)'
      PROVE  state' \in {"Starting", "Disabled"} \/ (state' = "Crashed" /\ mode' = "prewarm")
  <2>1. CASE Wins(t)
    BY <2>1 DEF Wins
  <2>2. CASE Keeps(t)
    BY <1>1, <1>7, <2>2 DEF Elected, Keeps
  <2>3. CASE Leaves(t)
    BY <1>1, <1>7, <2>3 DEF Elected, Leaves
  <2>4. CASE Watches(t)
    BY <1>1, <1>7, <2>4 DEF Elected, Watches
  <2> QED BY <2>1, <2>2, <2>3, <2>4
<1>8. state' = "Starting" /\ ~abandoned' => \E u \in Callers : Drives(u)'
  <2>1. CASE Wins(t)
    BY <2>1 DEF Wins
  <2>2. CASE Keeps(t)
    BY <1>1, <2>2 DEF Elected, Keeps
  <2>3. CASE Leaves(t)
    BY <2>3 DEF Leaves
  <2>4. CASE Watches(t)
    BY <1>1, <2>4 DEF Elected, Watches
  <2> QED BY <2>1, <2>2, <2>3, <2>4
<1> QED BY <1>2, <1>3, <1>6, <1>7, <1>8 DEF Elected

\* A step of another thread leaves the callers alone.
LEMMA Still ==
  ASSUME UNCHANGED <<pc, at>>
  PROVE  (\A u \in Callers : Drives(u)' <=> Drives(u)) /\ Racers' = Racers
BY DEF Drives, Racers

\* So does, as far as the race for a restart goes, one by a caller not in it.
LEMMA NotRacing ==
  ASSUME NEW t \in Callers, OnlyOne(t), pc[t] # "crashed", pc'[t] # "crashed"
  PROVE  Racers' = Racers
<1>1. \A u \in Callers : u # t => pc'[u] = pc[u] /\ at'[u] = at[u]
  BY DEF OnlyOne
<1>2. \A u \in Callers : (pc'[u] = "crashed" /\ at'[u].tries < MaxRestarts)
                         <=> (pc[u] = "crashed" /\ at[u].tries < MaxRestarts)
  BY <1>1
<1> QED BY <1>2 DEF Racers

LEMMA RacersFinite ==
  /\ IsFiniteSet(Racers) /\ Cardinality(Racers) \in Nat /\ Cardinality(Callers) \in Nat
  /\ Cardinality(Racers) <= Cardinality(Callers) /\ Cardinality(Racers') <= Cardinality(Callers)
  /\ Cardinality(Racers') \in Nat
<1>1. Racers \subseteq Callers /\ Racers' \subseteq Callers
  BY DEF Racers
<1> QED BY <1>1, SidecarAssumption, FS_Subset, FS_CardinalityType DEF SidecarAssumption

LEMMA CallInv == ASSUME ManagerInv, NEW t \in Callers, Call(t) PROVE ManagerInv'
<1>0. CallDoes(t)
  BY CallEffect DEF ManagerInv
<1> USE <1>0 DEF ManagerInv, CallDoes
<1>0a. \A u \in Callers : /\ at[u].pid \in Pids \union {0} /\ at[u].port \in Pids \union {0}
                         /\ at[u].from \in {"Running", "Starting"} /\ at[u].tries \in Nat
  BY AtTypes
<1>1. TypeOK'
  BY DEF TypeOK, OnlyOne
<1>2. Elected'
  <2>1. Keeps(t) \/ Leaves(t) \/ Wins(t) \/ Watches(t)
    BY <1>0a, NoAtIs DEF TypeOK, Remembers, Drives, Driving, Keeps, Leaves, Wins, Watches
  <2> QED BY <2>1, Election
<1>3. Remembers'
  BY <1>0a, NoAtIs DEF Remembers, OnlyOne
<1>4. Polled'
  BY <1>0a, OthersDrive, NoAtIs DEF TypeOK, Elected, Remembers, Polled, RunningAnswered, OnlyOne, Drives, Driving
<1>5. Cleared'
  BY <1>0a DEF TypeOK, Elected, Cleared, OnlyOne, Drives, Driving
<1>5a. ChildIsNamed'
  BY <1>0a DEF TypeOK, Cleared, ChildIsNamed, OnlyOne, Alive, Pids
<1>6. Final'
  BY DEF TypeOK, Final, OnlyOne
<1>7. Counted'
  BY NotRacing DEF Counted
<1>8. Capped'
  BY DEF Capped
<1> QED BY <1>1, <1>2, <1>3, <1>4, <1>5, <1>5a, <1>6, <1>7, <1>8

LEMMA EnsureInv == ASSUME ManagerInv, NEW t \in Callers, Ensure(t) PROVE ManagerInv'
<1>0. EnsureDoes(t)
  BY EnsureEffect DEF ManagerInv
<1> USE <1>0 DEF ManagerInv, EnsureDoes
<1>0a. \A u \in Callers : /\ at[u].pid \in Pids \union {0} /\ at[u].port \in Pids \union {0}
                         /\ at[u].from \in {"Running", "Starting"} /\ at[u].tries \in Nat
  BY AtTypes
<1>1. TypeOK'
  BY DEF TypeOK, OnlyOne
<1>2. Elected'
  <2>1. Keeps(t) \/ Leaves(t) \/ Wins(t) \/ Watches(t)
    BY <1>0a, NoAtIs DEF TypeOK, Remembers, Drives, Driving, Keeps, Leaves, Wins, Watches
  <2> QED BY <2>1, Election
<1>3. Remembers'
  BY <1>0a, NoAtIs DEF Remembers, OnlyOne
<1>4. Polled'
  BY <1>0a, OthersDrive, NoAtIs DEF TypeOK, Elected, Remembers, Polled, RunningAnswered, OnlyOne, Drives, Driving
<1>5. Cleared'
  BY <1>0a DEF TypeOK, Elected, Cleared, OnlyOne, Drives, Driving
<1>5a. ChildIsNamed'
  BY <1>0a DEF TypeOK, Cleared, ChildIsNamed, OnlyOne, Alive, Pids
<1>6. Final'
  BY DEF TypeOK, Final, OnlyOne
<1>7. Counted'
  <2>1. CASE pc'[t] # "crashed"
    BY <2>1, NotRacing DEF Counted
  <2>2. CASE pc'[t] = "crashed" /\ restarts < MaxRestarts
    <3>1. restarts \in Nat /\ restarts' = restarts /\ MaxRestarts \in Nat
      BY <2>2, SidecarAssumption DEF TypeOK, SidecarAssumption
    <3>2. Cardinality(Racers') \in Nat /\ Cardinality(Callers) \in Nat /\ Cardinality(Racers') <= Cardinality(Callers)
      BY RacersFinite
    <3> QED BY <2>2, <3>1, <3>2 DEF Counted
  <2>3. CASE pc'[t] = "crashed" /\ ~(restarts < MaxRestarts)
    <3>1. at'[t].tries = restarts
      BY <2>3
    <3>2. Racers' = Racers
      BY <2>3, <3>1 DEF Racers, OnlyOne
    <3> QED BY <3>2 DEF Counted
  <2> QED BY <2>1, <2>2, <2>3
<1>8. Capped'
  BY DEF Capped
<1> QED BY <1>1, <1>2, <1>3, <1>4, <1>5, <1>5a, <1>6, <1>7, <1>8

LEMMA CrashedInv == ASSUME ManagerInv, NEW t \in Callers, Crashed(t) PROVE ManagerInv'
<1>0. CrashedDoes(t)
  BY CrashedEffect DEF ManagerInv
<1> USE <1>0 DEF ManagerInv, CrashedDoes
<1>0a. \A u \in Callers : /\ at[u].pid \in Pids \union {0} /\ at[u].port \in Pids \union {0}
                         /\ at[u].from \in {"Running", "Starting"} /\ at[u].tries \in Nat
  BY AtTypes
<1>1. TypeOK'
  BY DEF TypeOK, OnlyOne
<1>2. Elected'
  <2>1. Keeps(t) \/ Leaves(t) \/ Wins(t) \/ Watches(t)
    BY <1>0a, NoAtIs DEF TypeOK, Remembers, Drives, Driving, Keeps, Leaves, Wins, Watches
  <2> QED BY <2>1, Election
<1>3. Remembers'
  BY <1>0a, NoAtIs DEF Remembers, OnlyOne
<1>4. Polled'
  BY <1>0a, OthersDrive, NoAtIs DEF TypeOK, Elected, Remembers, Polled, RunningAnswered, OnlyOne, Drives, Driving
<1>5. Cleared'
  BY <1>0a DEF TypeOK, Elected, Cleared, OnlyOne, Drives, Driving
<1>5a. ChildIsNamed'
  BY <1>0a DEF TypeOK, Cleared, ChildIsNamed, OnlyOne, Alive, Pids
<1>6. Final'
  BY DEF TypeOK, Final, OnlyOne
<1>7. Counted'
  <2>1. CASE at[t].tries >= MaxRestarts
    <3>1. restarts' = restarts /\ pc'[t] # "crashed" /\ ~(at[t].tries < MaxRestarts)
      BY <1>0a, <2>1, SidecarAssumption DEF SidecarAssumption
    <3>2. Racers' = Racers
      BY <3>1 DEF Racers, OnlyOne
    <3> QED BY <3>1, <3>2 DEF Counted
  <2>2. CASE ~(at[t].tries >= MaxRestarts)
    <3>1. restarts' \in {restarts, restarts + 1} /\ pc'[t] # "crashed" /\ at[t].tries < MaxRestarts
      BY <1>0a, <2>2, SidecarAssumption DEF SidecarAssumption
    <3>2. Racers' = Racers \ {t} /\ t \in Racers
      BY <3>1 DEF Racers, OnlyOne
    <3>3. Cardinality(Racers') = Cardinality(Racers) - 1
      BY <3>2, RacersFinite, FS_RemoveElement
    <3> QED BY SMTT(60), <3>1, <3>3, RacersFinite, SidecarAssumption DEF Counted, TypeOK, SidecarAssumption
  <2> QED BY <2>1, <2>2
<1>8. Capped'
  BY <1>0a, SidecarAssumption DEF TypeOK, Capped, SidecarAssumption
<1> QED BY <1>1, <1>2, <1>3, <1>4, <1>5, <1>5a, <1>6, <1>7, <1>8

LEMMA KillInv == ASSUME ManagerInv, NEW t \in Callers, Kill(t) PROVE ManagerInv'
<1>0. KillDoes(t)
  BY KillEffect DEF ManagerInv
<1> USE <1>0 DEF ManagerInv, KillDoes
<1>0a. \A u \in Callers : /\ at[u].pid \in Pids \union {0} /\ at[u].port \in Pids \union {0}
                         /\ at[u].from \in {"Running", "Starting"} /\ at[u].tries \in Nat
  BY AtTypes
<1>1. TypeOK'
  BY DEF TypeOK, OnlyOne
<1>2. Elected'
  <2>1. Keeps(t) \/ Leaves(t) \/ Wins(t) \/ Watches(t)
    BY <1>0a, NoAtIs DEF TypeOK, Remembers, Drives, Driving, Keeps, Leaves, Wins, Watches
  <2> QED BY <2>1, Election
<1>3. Remembers'
  BY <1>0a, NoAtIs DEF Remembers, OnlyOne
<1>4. Polled'
  BY <1>0a, OthersDrive, NoAtIs DEF TypeOK, Elected, Remembers, Polled, RunningAnswered, OnlyOne, Drives, Driving
<1>5. Cleared'
  BY <1>0a DEF TypeOK, Elected, Cleared, OnlyOne, Drives, Driving
<1>5a. ChildIsNamed'
  BY <1>0a DEF TypeOK, Cleared, ChildIsNamed, OnlyOne, Alive, Pids
<1>6. Final'
  BY DEF TypeOK, Final, OnlyOne
<1>7. Counted'
  BY NotRacing DEF Counted
<1>8. Capped'
  BY DEF Capped
<1> QED BY <1>1, <1>2, <1>3, <1>4, <1>5, <1>5a, <1>6, <1>7, <1>8

LEMMA JoinInv == ASSUME ManagerInv, NEW t \in Callers, Join(t) PROVE ManagerInv'
<1>0. JoinDoes(t)
  BY JoinEffect DEF ManagerInv
<1> USE <1>0 DEF ManagerInv, JoinDoes
<1>0a. \A u \in Callers : /\ at[u].pid \in Pids \union {0} /\ at[u].port \in Pids \union {0}
                         /\ at[u].from \in {"Running", "Starting"} /\ at[u].tries \in Nat
  BY AtTypes
<1>1. TypeOK'
  BY DEF TypeOK, OnlyOne
<1>2. Elected'
  <2>1. Keeps(t) \/ Leaves(t) \/ Wins(t) \/ Watches(t)
    BY <1>0a, NoAtIs DEF TypeOK, Remembers, Drives, Driving, Keeps, Leaves, Wins, Watches
  <2> QED BY <2>1, Election
<1>3. Remembers'
  BY <1>0a, NoAtIs DEF Remembers, OnlyOne
<1>4. Polled'
  BY <1>0a, OthersDrive, NoAtIs DEF TypeOK, Elected, Remembers, Polled, RunningAnswered, OnlyOne, Drives, Driving
<1>5. Cleared'
  BY <1>0a DEF TypeOK, Elected, Cleared, OnlyOne, Drives, Driving
<1>5a. ChildIsNamed'
  BY <1>0a DEF TypeOK, Cleared, ChildIsNamed, OnlyOne, Alive, Pids
<1>6. Final'
  BY DEF TypeOK, Final, OnlyOne
<1>7. Counted'
  BY NotRacing DEF Counted
<1>8. Capped'
  BY DEF Capped
<1> QED BY <1>1, <1>2, <1>3, <1>4, <1>5, <1>5a, <1>6, <1>7, <1>8

LEMMA SpawnInv == ASSUME ManagerInv, NEW t \in Callers, Spawn(t) PROVE ManagerInv'
<1>0. SpawnDoes(t)
  BY SpawnEffect DEF ManagerInv
<1> USE <1>0 DEF ManagerInv, SpawnDoes
<1>0a. \A u \in Callers : /\ at[u].pid \in Pids \union {0} /\ at[u].port \in Pids \union {0}
                         /\ at[u].from \in {"Running", "Starting"} /\ at[u].tries \in Nat
  BY AtTypes
<1>1. TypeOK'
  BY SMTT(60) DEF TypeOK, OnlyOne
<1>2. Elected'
  <2>1. Keeps(t) \/ Leaves(t) \/ Wins(t) \/ Watches(t)
    BY <1>0a, NoAtIs DEF TypeOK, Remembers, Drives, Driving, Keeps, Leaves, Wins, Watches
  <2> QED BY <2>1, Election
<1>3. Remembers'
  BY <1>0a, NoAtIs DEF Remembers, OnlyOne
<1>4. Polled'
  <2>1. Drives(t)
    BY DEF Drives, Driving
  <2>2. state # "Running" /\ state' # "Running"
    BY <2>1 DEF Elected
  <2>3. \A u \in Callers : Drives(u)' => u = t
    BY <2>1, OthersDrive DEF Elected
  <2>4. pc'[t] = "idle" => ~Drives(t)'
    BY DEF Drives, Driving
  <2>5. pc'[t] # "idle" => at'[t].port = port' /\ port' # 0
    BY DEF Pids
  <2> QED BY <2>2, <2>3, <2>4, <2>5 DEF Polled, RunningAnswered
<1>5. Cleared'
  BY SMTT(60), <1>0a DEF TypeOK, Elected, Cleared, OnlyOne, Drives, Driving
<1>5a. ChildIsNamed'
  <2>1. CASE UNCHANGED <<child, proc>>
    BY <2>1 DEF ChildIsNamed, Alive
  <2>2. ASSUME NEW p \in Pids, child' = p, proc' = [proc EXCEPT ![p] = "booting"]
        PROVE  ChildIsNamed'
    <3>1. ~overtaken => Alive = {}
      BY DEF Cleared, ChildIsNamed, Alive, Pids
    <3>2. Alive' \subseteq Alive \union {p}
      BY <2>2 DEF TypeOK, Alive
    <3> QED BY <2>2, <3>1, <3>2 DEF ChildIsNamed
  <2> QED BY <2>1, <2>2
<1>6. Final'
  BY DEF TypeOK, Final, OnlyOne
<1>7. Counted'
  BY NotRacing DEF Counted
<1>8. Capped'
  BY DEF Capped
<1> QED BY <1>1, <1>2, <1>3, <1>4, <1>5, <1>5a, <1>6, <1>7, <1>8

LEMMA HealthInv == ASSUME ManagerInv, NEW t \in Callers, Health(t) PROVE ManagerInv'
<1>0. HealthDoes(t)
  BY HealthEffect DEF ManagerInv
<1> USE <1>0 DEF ManagerInv, HealthDoes
<1>0a. \A u \in Callers : /\ at[u].pid \in Pids \union {0} /\ at[u].port \in Pids \union {0}
                         /\ at[u].from \in {"Running", "Starting"} /\ at[u].tries \in Nat
  BY AtTypes
<1>1. TypeOK'
  BY DEF TypeOK, OnlyOne
<1>2. Elected'
  <2>1. Keeps(t) \/ Leaves(t) \/ Wins(t) \/ Watches(t)
    BY <1>0a, NoAtIs DEF TypeOK, Remembers, Drives, Driving, Keeps, Leaves, Wins, Watches
  <2> QED BY <2>1, Election
<1>3. Remembers'
  BY <1>0a, NoAtIs DEF Remembers, OnlyOne
<1>4. Polled'
  BY <1>0a, OthersDrive, NoAtIs DEF TypeOK, Elected, Remembers, Polled, RunningAnswered, OnlyOne, Drives, Driving
<1>5. Cleared'
  BY <1>0a DEF TypeOK, Elected, Cleared, OnlyOne, Drives, Driving
<1>5a. ChildIsNamed'
  BY <1>0a DEF TypeOK, Cleared, ChildIsNamed, OnlyOne, Alive, Pids
<1>6. Final'
  BY DEF TypeOK, Final, OnlyOne
<1>7. Counted'
  BY NotRacing DEF Counted
<1>8. Capped'
  BY DEF Capped
<1> QED BY <1>1, <1>2, <1>3, <1>4, <1>5, <1>5a, <1>6, <1>7, <1>8

LEMMA LoadPidInv == ASSUME ManagerInv, NEW t \in Callers, LoadPid(t) PROVE ManagerInv'
<1>0. LoadPidDoes(t)
  BY LoadPidEffect DEF ManagerInv
<1> USE <1>0 DEF ManagerInv, LoadPidDoes
<1>0a. \A u \in Callers : /\ at[u].pid \in Pids \union {0} /\ at[u].port \in Pids \union {0}
                         /\ at[u].from \in {"Running", "Starting"} /\ at[u].tries \in Nat
  BY AtTypes
<1>1. TypeOK'
  BY DEF TypeOK, OnlyOne
<1>2. Elected'
  <2>1. Keeps(t) \/ Leaves(t) \/ Wins(t) \/ Watches(t)
    BY <1>0a, NoAtIs DEF TypeOK, Remembers, Drives, Driving, Keeps, Leaves, Wins, Watches
  <2> QED BY <2>1, Election
<1>3. Remembers'
  BY <1>0a, NoAtIs DEF Remembers, OnlyOne
<1>4. Polled'
  BY <1>0a, OthersDrive, NoAtIs DEF TypeOK, Elected, Remembers, Polled, RunningAnswered, OnlyOne, Drives, Driving
<1>5. Cleared'
  BY <1>0a DEF TypeOK, Elected, Cleared, OnlyOne, Drives, Driving
<1>5a. ChildIsNamed'
  BY <1>0a DEF TypeOK, Cleared, ChildIsNamed, OnlyOne, Alive, Pids
<1>6. Final'
  BY DEF TypeOK, Final, OnlyOne
<1>7. Counted'
  BY NotRacing DEF Counted
<1>8. Capped'
  BY DEF Capped
<1> QED BY <1>1, <1>2, <1>3, <1>4, <1>5, <1>5a, <1>6, <1>7, <1>8

LEMMA WaitPidInv == ASSUME ManagerInv, NEW t \in Callers, WaitPid(t) PROVE ManagerInv'
<1>0. WaitPidDoes(t)
  BY WaitPidEffect DEF ManagerInv
<1> USE <1>0 DEF ManagerInv, WaitPidDoes
<1>0a. \A u \in Callers : /\ at[u].pid \in Pids \union {0} /\ at[u].port \in Pids \union {0}
                         /\ at[u].from \in {"Running", "Starting"} /\ at[u].tries \in Nat
  BY AtTypes
<1>1. TypeOK'
  BY DEF TypeOK, OnlyOne
<1>2. Elected'
  <2>1. Keeps(t) \/ Leaves(t) \/ Wins(t) \/ Watches(t)
    BY <1>0a, NoAtIs DEF TypeOK, Remembers, Drives, Driving, Keeps, Leaves, Wins, Watches
  <2> QED BY <2>1, Election
<1>3. Remembers'
  BY <1>0a, NoAtIs DEF Remembers, OnlyOne
<1>4. Polled'
  BY <1>0a, OthersDrive, NoAtIs DEF TypeOK, Elected, Remembers, Polled, RunningAnswered, OnlyOne, Drives, Driving
<1>5. Cleared'
  BY <1>0a DEF TypeOK, Elected, Cleared, OnlyOne, Drives, Driving
<1>5a. ChildIsNamed'
  BY <1>0a DEF TypeOK, Cleared, ChildIsNamed, OnlyOne, Alive, Pids
<1>6. Final'
  BY DEF TypeOK, Final, OnlyOne
<1>7. Counted'
  BY NotRacing DEF Counted
<1>8. Capped'
  BY DEF Capped
<1> QED BY <1>1, <1>2, <1>3, <1>4, <1>5, <1>5a, <1>6, <1>7, <1>8

LEMMA StorePidInv == ASSUME ManagerInv, NEW t \in Callers, StorePid(t) PROVE ManagerInv'
<1>0. StorePidDoes(t)
  BY StorePidEffect DEF ManagerInv
<1> USE <1>0 DEF ManagerInv, StorePidDoes
<1>0a. \A u \in Callers : /\ at[u].pid \in Pids \union {0} /\ at[u].port \in Pids \union {0}
                         /\ at[u].from \in {"Running", "Starting"} /\ at[u].tries \in Nat
  BY AtTypes
<1>1. TypeOK'
  BY DEF TypeOK, OnlyOne
<1>2. Elected'
  <2>1. Keeps(t) \/ Leaves(t) \/ Wins(t) \/ Watches(t)
    BY <1>0a, NoAtIs DEF TypeOK, Remembers, Drives, Driving, Keeps, Leaves, Wins, Watches
  <2> QED BY <2>1, Election
<1>3. Remembers'
  BY <1>0a, NoAtIs DEF Remembers, OnlyOne
<1>4. Polled'
  BY <1>0a, OthersDrive, NoAtIs DEF TypeOK, Elected, Remembers, Polled, RunningAnswered, OnlyOne, Drives, Driving
<1>5. Cleared'
  BY <1>0a DEF TypeOK, Elected, Cleared, OnlyOne, Drives, Driving
<1>5a. ChildIsNamed'
  BY <1>0a DEF TypeOK, Cleared, ChildIsNamed, OnlyOne, Alive, Pids
<1>6. Final'
  BY DEF TypeOK, Final, OnlyOne
<1>7. Counted'
  BY NotRacing DEF Counted
<1>8. Capped'
  BY DEF Capped
<1> QED BY <1>1, <1>2, <1>3, <1>4, <1>5, <1>5a, <1>6, <1>7, <1>8

LEMMA CrashInv == ASSUME ManagerInv, NEW t \in Callers, Crash(t) PROVE ManagerInv'
<1>0. CrashDoes(t)
  BY CrashEffect DEF ManagerInv
<1> USE <1>0 DEF ManagerInv, CrashDoes
<1>0a. \A u \in Callers : /\ at[u].pid \in Pids \union {0} /\ at[u].port \in Pids \union {0}
                         /\ at[u].from \in {"Running", "Starting"} /\ at[u].tries \in Nat
  BY AtTypes
<1>1. TypeOK'
  BY DEF TypeOK, OnlyOne
<1>2. Elected'
  <2>1. Keeps(t) \/ Leaves(t) \/ Wins(t) \/ Watches(t)
    BY <1>0a, NoAtIs DEF TypeOK, Remembers, Drives, Driving, Keeps, Leaves, Wins, Watches
  <2> QED BY <2>1, Election
<1>3. Remembers'
  BY <1>0a, NoAtIs DEF Remembers, OnlyOne
<1>4. Polled'
  BY <1>0a, OthersDrive, NoAtIs DEF TypeOK, Elected, Remembers, Polled, RunningAnswered, OnlyOne, Drives, Driving
<1>5. Cleared'
  BY SMTT(60), <1>0a DEF TypeOK, Elected, Cleared, OnlyOne, Drives, Driving
<1>5a. ChildIsNamed'
  BY <1>0a DEF TypeOK, Cleared, ChildIsNamed, OnlyOne, Alive, Pids
<1>6. Final'
  BY DEF TypeOK, Final, OnlyOne
<1>7. Counted'
  BY NotRacing DEF Counted
<1>8. Capped'
  BY DEF Capped
<1> QED BY <1>1, <1>2, <1>3, <1>4, <1>5, <1>5a, <1>6, <1>7, <1>8

LEMMA AnotherRoundInv == ASSUME ManagerInv, NEW t \in Callers, AnotherRound(t) PROVE ManagerInv'
<1>0. AnotherRoundDoes(t)
  BY AnotherRoundEffect DEF ManagerInv
<1> USE <1>0 DEF ManagerInv, AnotherRoundDoes
<1>0a. \A u \in Callers : /\ at[u].pid \in Pids \union {0} /\ at[u].port \in Pids \union {0}
                         /\ at[u].from \in {"Running", "Starting"} /\ at[u].tries \in Nat
  BY AtTypes
<1>1. TypeOK'
  BY DEF TypeOK, OnlyOne
<1>2. Elected'
  <2>1. Keeps(t) \/ Leaves(t) \/ Wins(t) \/ Watches(t)
    BY <1>0a, NoAtIs DEF TypeOK, Remembers, Drives, Driving, Keeps, Leaves, Wins, Watches
  <2> QED BY <2>1, Election
<1>3. Remembers'
  BY <1>0a, NoAtIs DEF Remembers, OnlyOne
<1>4. Polled'
  BY <1>0a, OthersDrive, NoAtIs DEF TypeOK, Elected, Remembers, Polled, RunningAnswered, OnlyOne, Drives, Driving
<1>5. Cleared'
  BY DEF Cleared, OnlyOne
<1>5a. ChildIsNamed'
  BY <1>0a DEF TypeOK, Cleared, ChildIsNamed, OnlyOne, Alive, Pids
<1>6. Final'
  BY DEF TypeOK, Final, OnlyOne
<1>7. Counted'
  BY NotRacing DEF Counted
<1>8. Capped'
  BY DEF Capped
<1> QED BY <1>1, <1>2, <1>3, <1>4, <1>5, <1>5a, <1>6, <1>7, <1>8

LEMMA PollInv == ASSUME ManagerInv, NEW t \in Callers, Poll(t) PROVE ManagerInv'
<1>0. PollDoes(t)
  BY PollEffect DEF ManagerInv
<1> USE <1>0 DEF ManagerInv, PollDoes
<1>0a. \A u \in Callers : /\ at[u].pid \in Pids \union {0} /\ at[u].port \in Pids \union {0}
                         /\ at[u].from \in {"Running", "Starting"} /\ at[u].tries \in Nat
  BY AtTypes
<1>1. TypeOK'
  BY DEF TypeOK, OnlyOne
<1>2. Elected'
  <2>1. Keeps(t) \/ Leaves(t) \/ Wins(t) \/ Watches(t)
    BY <1>0a, NoAtIs DEF TypeOK, Remembers, Drives, Driving, Keeps, Leaves, Wins, Watches
  <2> QED BY <2>1, Election
<1>3. Remembers'
  BY <1>0a, NoAtIs DEF Remembers, OnlyOne
<1>4. Polled'
  BY <1>0a, OthersDrive, NoAtIs DEF TypeOK, Elected, Remembers, Polled, RunningAnswered, OnlyOne, Drives, Driving
<1>5. Cleared'
  BY <1>0a DEF TypeOK, Elected, Cleared, OnlyOne, Drives, Driving
<1>5a. ChildIsNamed'
  BY <1>0a DEF TypeOK, Cleared, ChildIsNamed, OnlyOne, Alive, Pids
<1>6. Final'
  BY DEF TypeOK, Final, OnlyOne
<1>7. Counted'
  BY NotRacing DEF Counted
<1>8. Capped'
  BY DEF Capped
<1> QED BY <1>1, <1>2, <1>3, <1>4, <1>5, <1>5a, <1>6, <1>7, <1>8

LEMMA PostInv == ASSUME ManagerInv, NEW t \in Callers, Post(t) PROVE ManagerInv'
<1>0. PostDoes(t)
  BY PostEffect DEF ManagerInv
<1> USE <1>0 DEF ManagerInv, PostDoes
<1>0a. \A u \in Callers : /\ at[u].pid \in Pids \union {0} /\ at[u].port \in Pids \union {0}
                         /\ at[u].from \in {"Running", "Starting"} /\ at[u].tries \in Nat
  BY AtTypes
<1>1. TypeOK'
  BY DEF TypeOK, OnlyOne
<1>2. Elected'
  <2>1. Keeps(t) \/ Leaves(t) \/ Wins(t) \/ Watches(t)
    BY <1>0a, NoAtIs DEF TypeOK, Remembers, Drives, Driving, Keeps, Leaves, Wins, Watches
  <2> QED BY <2>1, Election
<1>3. Remembers'
  BY <1>0a, NoAtIs DEF Remembers, OnlyOne
<1>4. Polled'
  BY <1>0a, OthersDrive, NoAtIs DEF TypeOK, Elected, Remembers, Polled, RunningAnswered, OnlyOne, Drives, Driving
<1>5. Cleared'
  BY SMTT(60), <1>0a DEF TypeOK, Elected, Cleared, OnlyOne, Drives, Driving
<1>5a. ChildIsNamed'
  BY <1>0a DEF TypeOK, Cleared, ChildIsNamed, OnlyOne, Alive, Pids
<1>6. Final'
  BY DEF TypeOK, Final, OnlyOne
<1>7. Counted'
  BY NotRacing DEF Counted
<1>8. Capped'
  BY DEF Capped
<1> QED BY <1>1, <1>2, <1>3, <1>4, <1>5, <1>5a, <1>6, <1>7, <1>8

LEMMA LaunchInv == ASSUME ManagerInv, NEW t \in Callers, Launch(t) PROVE ManagerInv'
<1>0. LaunchDoes(t) /\ \A u \in Callers : pc[u] = "idle"
  BY LaunchEffect DEF ManagerInv, Elected, LaunchDoes
<1> USE <1>0 DEF ManagerInv, LaunchDoes
<1>0a. \A u \in Callers : ~Drives(u) /\ ~Drives(u)'
  BY OthersDrive DEF Drives, Driving
<1>1. TypeOK'
  BY DEF TypeOK, OnlyOne
<1>2. Elected'
  BY <1>0a DEF Elected, OnlyOne
<1>3. Remembers'
  BY DEF Remembers, OnlyOne
<1>4. Polled'
  BY <1>0a DEF Polled, RunningAnswered
<1>5. Cleared' /\ Final'
  BY DEF TypeOK, Cleared, Final, OnlyOne
<1>6. ChildIsNamed'
  BY DEF ChildIsNamed, Alive
<1>7. Counted'
  BY NotRacing DEF Counted
<1>8. Capped'
  BY DEF Capped
<1> QED BY <1>1, <1>2, <1>3, <1>4, <1>5, <1>6, <1>7, <1>8

LEMMA AssignInv == ASSUME ManagerInv, Assign PROVE ManagerInv'
<1>0. UNCHANGED <<pc, at>>
  BY DEF Assign, callers, main
<1> USE DEF ManagerInv, Assign, machine, callers, main, count, ending
<1>1. TypeOK'
  BY DEF TypeOK
<1>2. Elected'
  BY <1>0, Still DEF TypeOK, Elected
<1>3. Remembers'
  BY <1>0 DEF Remembers
<1>4. Polled'
  BY <1>0, Still DEF TypeOK, Elected, Polled, RunningAnswered, Alive
<1>5. Cleared'
  BY <1>0, AtTypes DEF TypeOK, Cleared
<1>5a. ChildIsNamed'
  BY <1>0 DEF TypeOK, Cleared, ChildIsNamed, Alive, Pids
<1>6. Final'
  BY <1>0 DEF TypeOK, Final
<1>7. Counted'
  BY <1>0, Still DEF Counted
<1>8. Capped'
  BY DEF Capped
<1> QED BY <1>1, <1>2, <1>3, <1>4, <1>5, <1>5a, <1>6, <1>7, <1>8

LEMMA AbortInv == ASSUME ManagerInv, Abort PROVE ManagerInv'
<1>0. UNCHANGED <<pc, at>>
  BY DEF Abort, callers, main
<1> USE DEF ManagerInv, Abort, machine, callers, main, count, ending
<1>1. TypeOK'
  BY DEF TypeOK
<1>2. Elected'
  BY <1>0, Still DEF TypeOK, Elected
<1>3. Remembers'
  BY <1>0 DEF Remembers
<1>4. Polled'
  BY <1>0, Still DEF TypeOK, Elected, Polled, RunningAnswered, Alive
<1>5. Cleared'
  BY <1>0, AtTypes DEF TypeOK, Cleared
<1>5a. ChildIsNamed'
  BY <1>0 DEF TypeOK, Cleared, ChildIsNamed, Alive, Pids
<1>6. Final'
  BY <1>0 DEF TypeOK, Final
<1>7. Counted'
  BY <1>0, Still DEF Counted
<1>8. Capped'
  BY DEF Capped
<1> QED BY <1>1, <1>2, <1>3, <1>4, <1>5, <1>5a, <1>6, <1>7, <1>8

LEMMA ShutdownInv == ASSUME ManagerInv, Shutdown PROVE ManagerInv'
<1>0. UNCHANGED <<pc, at>>
  BY DEF Shutdown, callers, main
<1> USE DEF ManagerInv, Shutdown, machine, callers, main, count, ending, NothingLeft
<1>1. TypeOK'
  BY DEF TypeOK
<1>2. Elected'
  BY <1>0, Still DEF TypeOK, Elected
<1>3. Remembers'
  BY <1>0 DEF Remembers
<1>4. Polled'
  BY <1>0, Still DEF TypeOK, Elected, Polled, RunningAnswered, Alive
<1>5. Cleared'
  BY <1>0, AtTypes DEF TypeOK, Cleared
<1>5a. ChildIsNamed'
  BY <1>0 DEF TypeOK, Cleared, ChildIsNamed, Alive, Pids
<1>6. Final'
  BY <1>0 DEF TypeOK, Final
<1>7. Counted'
  BY <1>0, Still DEF Counted
<1>8. Capped'
  BY DEF Capped
<1> QED BY <1>1, <1>2, <1>3, <1>4, <1>5, <1>5a, <1>6, <1>7, <1>8

LEMMA DestroyInv == ASSUME ManagerInv, Destroy PROVE ManagerInv'
<1>0. UNCHANGED <<pc, at>>
  BY DEF Destroy, callers, main
<1> USE DEF ManagerInv, Destroy, Inside, machine, callers, main, count, ending
<1>1. TypeOK'
  BY DEF TypeOK
<1>2. Elected'
  BY <1>0, Still DEF TypeOK, Elected
<1>3. Remembers'
  BY <1>0 DEF Remembers
<1>4. Polled'
  BY <1>0, Still DEF TypeOK, Elected, Polled, RunningAnswered, Alive
<1>5. Cleared'
  BY <1>0, AtTypes DEF TypeOK, Cleared
<1>5a. ChildIsNamed'
  BY <1>0 DEF TypeOK, Cleared, ChildIsNamed, Alive, Pids
<1>6. Final'
  BY <1>0 DEF TypeOK, Final
<1>7. Counted'
  BY <1>0, Still DEF Counted
<1>8. Capped'
  BY DEF Capped
<1> QED BY <1>1, <1>2, <1>3, <1>4, <1>5, <1>5a, <1>6, <1>7, <1>8

LEMMA FindInv == ASSUME ManagerInv, Find PROVE ManagerInv'
<1>0. UNCHANGED <<pc, at>>
  BY DEF Find, callers, main
<1> USE DEF ManagerInv, Find, machine, callers, main, count, ending, Down, NothingLeft
<1>1. TypeOK'
  BY DEF TypeOK
<1>2. Elected'
  BY <1>0, Still DEF TypeOK, Elected
<1>3. Remembers'
  BY <1>0 DEF Remembers
<1>4. Polled'
  BY <1>0, Still DEF TypeOK, Elected, Polled, RunningAnswered, Alive
<1>5. Cleared'
  BY <1>0, AtTypes DEF TypeOK, Cleared
<1>5a. ChildIsNamed'
  BY <1>0 DEF TypeOK, Cleared, ChildIsNamed, Alive, Pids
<1>6. Final'
  BY <1>0 DEF TypeOK, Final
<1>7. Counted'
  BY <1>0, Still DEF Counted
<1>8. Capped'
  BY DEF Capped
<1> QED BY <1>1, <1>2, <1>3, <1>4, <1>5, <1>5a, <1>6, <1>7, <1>8

LEMMA ReapInv == ASSUME ManagerInv, Reap PROVE ManagerInv'
<1>0. UNCHANGED <<pc, at>>
  BY DEF Reap, callers, main
<1> USE DEF ManagerInv, Reap, machine, callers, main, count, ending
<1>1. TypeOK'
  BY ZenonT(60) DEF TypeOK
<1>2. Elected'
  BY <1>0, Still DEF TypeOK, Elected
<1>3. Remembers'
  BY <1>0 DEF Remembers
<1>4. Polled'
  BY <1>0, Still DEF TypeOK, Elected, Polled, RunningAnswered, Alive
<1>5. Cleared'
  BY <1>0, AtTypes DEF TypeOK, Cleared
<1>5a. ChildIsNamed'
  BY <1>0 DEF TypeOK, Cleared, ChildIsNamed, Alive, Pids
<1>6. Final'
  BY <1>0 DEF TypeOK, Final
<1>7. Counted'
  BY <1>0, Still DEF Counted
<1>8. Capped'
  BY DEF Capped
<1> QED BY <1>1, <1>2, <1>3, <1>4, <1>5, <1>5a, <1>6, <1>7, <1>8

LEMMA ClearInv == ASSUME ManagerInv, Clear PROVE ManagerInv'
<1>0. UNCHANGED <<pc, at>>
  BY DEF Clear, callers, main
<1> USE DEF ManagerInv, Clear, machine, callers, main, count, ending
<1>1. TypeOK'
  BY DEF TypeOK
<1>2. Elected'
  BY <1>0, Still DEF TypeOK, Elected
<1>3. Remembers'
  BY <1>0 DEF Remembers
<1>4. Polled'
  BY <1>0, Still DEF TypeOK, Elected, Polled, RunningAnswered, Alive
<1>5. Cleared'
  BY <1>0, AtTypes DEF TypeOK, Cleared
<1>5a. ChildIsNamed'
  BY <1>0 DEF TypeOK, Cleared, ChildIsNamed, Alive, Pids
<1>6. Final'
  BY <1>0 DEF TypeOK, Final
<1>7. Counted'
  BY <1>0, Still DEF Counted
<1>8. Capped'
  BY DEF Capped
<1> QED BY <1>1, <1>2, <1>3, <1>4, <1>5, <1>5a, <1>6, <1>7, <1>8

LEMMA JoinReaderInv == ASSUME ManagerInv, JoinReader PROVE ManagerInv'
<1>0. UNCHANGED <<pc, at>>
  BY DEF JoinReader, callers, main
<1> USE DEF ManagerInv, JoinReader, machine, callers, main, count, ending
<1>1. TypeOK'
  BY DEF TypeOK
<1>2. Elected'
  BY <1>0, Still DEF TypeOK, Elected
<1>3. Remembers'
  BY <1>0 DEF Remembers
<1>4. Polled'
  BY <1>0, Still DEF TypeOK, Elected, Polled, RunningAnswered, Alive
<1>5. Cleared'
  BY <1>0, AtTypes DEF TypeOK, Cleared
<1>5a. ChildIsNamed'
  BY <1>0 DEF TypeOK, Cleared, ChildIsNamed, Alive, Pids
<1>6. Final'
  BY <1>0 DEF TypeOK, Final
<1>7. Counted'
  BY <1>0, Still DEF Counted
<1>8. Capped'
  BY DEF Capped
<1> QED BY <1>1, <1>2, <1>3, <1>4, <1>5, <1>5a, <1>6, <1>7, <1>8

LEMMA DisableInv == ASSUME ManagerInv, Disable PROVE ManagerInv'
<1>0. UNCHANGED <<pc, at>>
  BY DEF Disable, callers, main
<1> USE DEF ManagerInv, Disable, machine, callers, main, count, ending, Down, Exchange, Legal
<1>1. TypeOK'
  BY DEF TypeOK
<1>2. Elected'
  BY <1>0, Still DEF TypeOK, Elected
<1>3. Remembers'
  BY <1>0 DEF Remembers
<1>4. Polled'
  BY <1>0, Still DEF TypeOK, Elected, Polled, RunningAnswered, Alive
<1>5. Cleared'
  BY <1>0, AtTypes DEF TypeOK, Cleared
<1>5a. ChildIsNamed'
  BY <1>0 DEF TypeOK, Cleared, ChildIsNamed, Alive, Pids
<1>6. Final'
  BY <1>0 DEF TypeOK, Final
<1>7. Counted'
  BY <1>0, Still DEF Counted
<1>8. Capped'
  BY DEF Capped
<1> QED BY <1>1, <1>2, <1>3, <1>4, <1>5, <1>5a, <1>6, <1>7, <1>8

LEMMA ProcessInv == ASSUME ManagerInv, NEW p \in Pids, Process(p) PROVE ManagerInv'
<1>0. UNCHANGED <<pc, at>>
  BY DEF Process, callers, main
<1> USE DEF ManagerInv, Process, machine, callers, main, count, ending
<1>1. TypeOK'
  BY DEF TypeOK
<1>2. Elected'
  BY <1>0, Still DEF TypeOK, Elected
<1>3. Remembers'
  BY <1>0 DEF Remembers
<1>4. Polled'
  BY <1>0, Still DEF TypeOK, Elected, Polled, RunningAnswered, Alive
<1>5. Cleared'
  <2>1. \A q \in Pids : proc[q] = "gone" => proc'[q] = "gone"
    BY DEF TypeOK, Alive
  <2> QED BY <1>0, <2>1, AtTypes DEF TypeOK, Cleared
<1>5a. ChildIsNamed'
  BY <1>0 DEF TypeOK, Cleared, ChildIsNamed, Alive, Pids
<1>6. Final'
  BY <1>0 DEF TypeOK, Final
<1>7. Counted'
  BY <1>0, Still DEF Counted
<1>8. Capped'
  BY DEF Capped
<1> QED BY <1>1, <1>2, <1>3, <1>4, <1>5, <1>5a, <1>6, <1>7, <1>8

LEMMA InitManager == Init => ManagerInv
<1> SUFFICES ASSUME Init PROVE ManagerInv
  OBVIOUS
<1> USE DEF Init
<1>1. TypeOK
  <2>1. mode \in Modes /\ Modes \subseteq {"tools", "prewarm"}
    BY SidecarAssumption DEF SidecarAssumption
  <2>2. proc \in [Pids -> {"none", "booting", "serving", "zombie", "gone"}]
    OBVIOUS
  <2>3. pc \in [Callers -> Driving \union Waiting]
    BY DEF Waiting
  <2>4. at \in [Callers -> Asked]
    BY NoAtIs
  <2>5. todo \in Seq({"Running", "Starting", "Crashed", "Cold"})
    OBVIOUS
  <2> QED BY <2>1, <2>2, <2>3, <2>4, <2>5 DEF TypeOK
<1>2. Elected /\ Remembers /\ Polled /\ Cleared /\ Final
  BY NoAtIs DEF Elected, Remembers, Polled, RunningAnswered, Cleared, Final, Drives, Driving
<1>3. ChildIsNamed
  BY DEF ChildIsNamed, Alive
<1>5. Capped
  BY SidecarAssumption DEF Capped, SidecarAssumption
<1>4. Counted
  <2>1. Racers = {}
    BY DEF Racers
  <2>2. Cardinality(Callers) \in Nat \ {0}
    BY SidecarAssumption, FS_CardinalityType, FS_EmptySet DEF SidecarAssumption
  <2> QED BY <2>1, <2>2, FS_EmptySet, SidecarAssumption DEF Counted, SidecarAssumption
<1> QED BY <1>1, <1>2, <1>3, <1>4, <1>5 DEF ManagerInv

LEMMA NextManager == ASSUME ManagerInv, [Next]_vars PROVE ManagerInv'
<1>1. CASE UNCHANGED vars
  <2> USE <1>1 DEF vars, machine, callers, main, count, ending
  <2>1. TypeOK' /\ Remembers' /\ Cleared' /\ Final'
    BY DEF ManagerInv, TypeOK, Remembers, Cleared, Final
  <2>2. (\A u \in Callers : Drives(u)' <=> Drives(u)) /\ Racers' = Racers
    BY Still
  <2>3. Elected' /\ Polled'
    BY <2>2 DEF ManagerInv, Elected, Polled, RunningAnswered
  <2>4. ChildIsNamed' /\ Counted' /\ Capped'
    BY <2>2 DEF ManagerInv, ChildIsNamed, Alive, Counted, Capped
  <2> QED BY <2>1, <2>3, <2>4 DEF ManagerInv
<1>2. CASE \E t \in Callers : Call(t) \/ Caller(t) \/ Launch(t)
  BY <1>2, CallInv, LaunchInv, EnsureInv, CrashedInv, KillInv, JoinInv, SpawnInv, HealthInv, LoadPidInv,
     WaitPidInv, StorePidInv, CrashInv, AnotherRoundInv, PollInv, PostInv DEF Caller
<1>3. CASE Assign \/ Abort \/ Shutdown \/ Destroy \/ Closing
  BY <1>3, AssignInv, AbortInv, ShutdownInv, DestroyInv, FindInv, ReapInv, ClearInv, JoinReaderInv,
     DisableInv DEF Closing
<1>4. CASE \E p \in Pids : Process(p)
  BY <1>4, ProcessInv
<1> QED BY <1>1, <1>2, <1>3, <1>4 DEF Next

-----------------------------------------------------------------------------
\* The invariant holds: types, the election, the poll, the pids and the cap.
THEOREM ManagerInvariant == Spec => []ManagerInv
BY InitManager, NextManager, PTL DEF Spec

\* One caller at a time starts the child, without a lock, and a manager that is
\* Running has a child that answered (ensure_started(), wait_for_healthy()).
THEOREM OneCallerStarts == Spec => []StateIsTrue
<1>1. ASSUME ManagerInv PROVE StateIsTrue
  <2> DEFINE drivers == {t \in Callers : Drives(t)}
  <2>1. Cardinality(drivers) <= 1
    <3>1. CASE drivers = {}
      BY <3>1, FS_EmptySet
    <3>2. ASSUME NEW t \in drivers PROVE Cardinality(drivers) <= 1
      <4>1. drivers = {t}
        BY <1>1 DEF ManagerInv, Elected
      <4> QED BY <4>1, FS_Singleton
    <3> QED BY <3>1, <3>2
  <2>2. state = "Starting" /\ ~abandoned => drivers # {}
    BY <1>1 DEF ManagerInv, Elected
  <2>3. RunningAnswered
    BY <1>1 DEF ManagerInv, Polled
  <2> QED BY <2>1, <2>2, <2>3 DEF StateIsTrue, OneDriver
<1> QED BY <1>1, ManagerInvariant, PTL

\* The restart cap is kept until an outdated count wins, and then up to the
\* callers that race for the last restart.
THEOREM RestartsAreBounded == Spec => []RestartsBounded
<1>1. ASSUME ManagerInv PROVE RestartsBounded
  BY <1>1, RacersFinite, SidecarAssumption DEF ManagerInv, Counted, Capped, RestartsBounded, TypeOK, SidecarAssumption
<1> QED BY <1>1, ManagerInvariant, PTL

\* No process escapes: child_pid_ names the one that lives, and the destructor
\* leaves none unless a tool was inside while it ran; in both cases unless a
\* thread has cleared the pid of another's child.
THEOREM NoProcessEscapes == Spec => []NothingEscapes
<1>1. ASSUME ManagerInv PROVE NothingEscapes
  <2>1. ASSUME mpc = "destroyed", mode = "tools", ~overtaken, ~intruded PROVE Alive = {} /\ reader = 0
    <3>1. final
      BY <1>1, <2>1 DEF ManagerInv, Final
    <3>2. child = 0 /\ reader = 0
      BY <1>1, <2>1, <3>1 DEF ManagerInv, Final
    <3> QED BY <1>1, <2>1, <3>2 DEF ManagerInv, ChildIsNamed, Alive, Pids
  <2> QED BY <1>1, <2>1 DEF ManagerInv, NothingEscapes, NothingIsLeft
<1> QED BY <1>1, ManagerInvariant, PTL
=============================================================================
