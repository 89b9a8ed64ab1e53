--------------------------- MODULE AgentSupervisor ---------------------------
(***************************************************************************)
(* src/agents/AgentSupervisor.cpp: the permits, the pending queue, the     *)
(* standing (LRU) pool and the registry of sub-agents, one action per      *)
(* critical section.  The locks are agents_mutex (shared/exclusive),       *)
(* pending_mutex and standing_mutex; a step that takes one and leaves it   *)
(* before the next is one action, so every interleaving the locks allow is *)
(* a behaviour.  A worker's thread is its program counter pc; what a turn  *)
(* says, the mailbox (StandingChannel) and the journal (AgentRecovery) are *)
(* modelled apart.                                                         *)
(***************************************************************************)
EXTENDS Integers, Sequences, FiniteSets

CONSTANTS Agents,          \* agent ids
          Continuous,      \* the ids of managed (continuous, pinned) workers
          Promotable,      \* the ids callers may make standing
          Restorable,      \* the ids whose journal asks for recovery
          Limit,           \* max_concurrent, permits of the semaphore
          InitMaxStanding, \* DEFAULT_STANDING_LIMIT
          StandingBounds,  \* arguments of set_max_standing_subagents
          Retained,        \* completed agents prune_completed keeps
          None             \* no agent

ASSUME AgentsAssumption == IsFiniteSet(Agents) /\ None \notin Agents
ASSUME KindsAssumption == Continuous \subseteq Agents /\ Promotable \union Restorable \subseteq Agents
ASSUME LimitAssumption == Limit \in Nat \ {0}
ASSUME BoundsAssumption == InitMaxStanding \in Nat /\ StandingBounds \subseteq Nat /\ Retained \in Nat

VARIABLES permits,      \* slots
          pending,      \* pending_ids
          active,       \* active_count
          pc,           \* where each agent's launch, thread and exit are
          carry,        \* the popped agent a thread still has to start
          registered,   \* keys of the agents map
          standing,     \* SubAgent::standing_
          cancelled,    \* agents whose child token has fired
          lru,          \* standing_lru, most recently used first
          pinned,       \* pinned_standing
          released,     \* slot_released
          exited,       \* exited
          maxStanding,  \* max_standing
          promo,        \* the promote() call in flight for an agent
          victims,      \* agents chosen for eviction, not yet evicted
          retiring,     \* pruned agents a launch still has to join
          latePc,       \* the exit of an old generation whose id was relaunched
          lateCarry,    \* the popped agent that exit still has to start
          lateBy,       \* the launch that has pruned it and will join it
          overtaken,    \* history: ids relaunched before their on_exit() was done
          maintaining,  \* the id restored under durable_maintenance_mutex
          shutdown      \* shutting_down, and whether the map was emptied

slotVars == <<permits, pending, active, pc, carry>>
poolVars == <<lru, pinned, maxStanding, victims>>
lateVars == <<latePc, lateCarry, lateBy, overtaken>>
vars == <<slotVars, registered, standing, cancelled, poolVars, released,
          exited, promo, retiring, lateVars, maintaining, shutdown>>

-----------------------------------------------------------------------------
(* Program counters.                                                       *)

\* A launch that is not admitted yet; "reviving" and "cleared" precede the
\* launch of a restored agent, "registering" holds agents_mutex exclusively.
LaunchPc == {"reviving", "cleared", "joining", "registering"}
\* The thread runs, or will, and status() answers queued or running.
\* "closing" has read standing_ = false at quiescence; "parking" has entered
\* slot_released and not yet passed its permit; "acquired" has a permit again
\* and has not yet left slot_released.
LivePc == {"queued", "handed", "running", "closing", "parking", "parkPassing",
           "parked", "resuming", "acquired"}
\* run() has set a terminal status; on_exit is still to run or running.
ExitPc == {"ending", "endingParked", "exitHolding", "exitPassing", "leaving"}

PcValues == {"new", "gone"} \union LaunchPc \union LivePc \union ExitPc

\* Where an agent owns a permit.  A popped agent owns the permit of the
\* thread that popped it from that moment on ("handed").
HoldPc == {"handed", "running", "closing", "parking", "acquired", "ending",
           "exitHolding"}
Holders == {a \in Agents : pc[a] \in HoldPc}

Live(a) == pc[a] \in LivePc
Terminal(a) == pc[a] \in ExitPc \union {"gone"}

MoveTo(a, to) == pc' = [pc EXCEPT ![a] = to]

-----------------------------------------------------------------------------
(* agents_mutex: registration holds it exclusively across two steps, a     *)
(* promote() holds it shared across two steps.                             *)

CanRead == \A a \in Agents : pc[a] # "registering"
CanWrite == CanRead /\ \A a \in Agents : promo[a] # "checked"

-----------------------------------------------------------------------------
(* The standing pool.                                                      *)

\* The positions of s that S leaves; erasing S from s keeps those, in order.
Outside(s, S) == {k \in 1..Len(s) : s[k] \notin S}

Without(s, S) ==
  LET keep == Outside(s, S)
  IN  [n \in 1..Cardinality(keep) |->
         s[CHOOSE k \in keep : Cardinality({j \in keep : j <= k}) = n]]

InPool(a) == \E i \in 1..Len(lru) : lru[i] = a

\* standing_victim_locked, n times: the n least recently used that are not
\* pinned (all of them when there are fewer).
Coldest(s, pins, n) ==
  LET open == Outside(s, pins)
  IN  {s[k] : k \in {i \in open : Cardinality({j \in open : j >= i}) <= n}}

\* The bound pushes at most one agent out per registration.
Overflow(s, pins, bound) ==
  IF Len(s) > bound THEN Coldest(s, pins, 1) ELSE {}

AtLeast(n, m) == IF n >= m THEN n ELSE m

-----------------------------------------------------------------------------
Init == /\ permits = Limit
        /\ pending = << >>
        /\ active = 0
        /\ pc = [a \in Agents |-> "new"]
        /\ carry = [a \in Agents |-> None]
        /\ registered = {}
        /\ standing = {}
        /\ cancelled = {}
        /\ lru = << >>
        /\ pinned = {}
        /\ released = {}
        /\ exited = {}
        /\ maxStanding = InitMaxStanding
        /\ promo = [a \in Agents |-> "idle"]
        /\ victims = {}
        /\ retiring = [a \in Agents |-> {}]
        /\ latePc = [a \in Agents |-> "none"]
        /\ lateCarry = [a \in Agents |-> None]
        /\ lateBy = [a \in Agents |-> None]
        /\ overtaken = {}
        /\ maintaining = None
        /\ shutdown = "no"

-----------------------------------------------------------------------------
(* launch(), from spawn() or from restore_durable_agents_locked().         *)

\* restore_durable_agents_locked takes a finished worker out of the map and
\* joins its thread; durable_maintenance_mutex lets one restore run at a time,
\* through the launch at its end.
Revive(a) ==
  /\ a \in Restorable
  /\ shutdown = "no"
  /\ CanWrite
  /\ maintaining = None
  /\ maintaining' = a
  /\ registered' = registered \ {a}
  /\ MoveTo(a, "reviving")
  /\ UNCHANGED <<permits, pending, active, standing, cancelled, poolVars,
                 released, exited, promo, shutdown>>

\* The restore of a, if its launch is one, is over.
Maintained(a) == maintaining' = IF maintaining = a THEN None ELSE maintaining

Restore(a) ==
  /\ pc[a] = "gone"
  /\ \A b \in Agents : a \notin retiring[b]
  /\ Revive(a)
  /\ UNCHANGED <<carry, retiring, lateVars>>

\* A worker that a launch has pruned is in the map no longer: nothing is
\* joined here, and what its thread and the launch still have to do for the
\* old generation comes on top of the new one.  Bound: one old generation of
\* an id at a time.
RestorePruned(a, b) ==
  /\ a \in retiring[b]
  /\ pc[a] \in ExitPc \union {"gone"}
  /\ latePc[a] = "none"
  /\ Revive(a)
  /\ latePc' = [latePc EXCEPT ![a] = pc[a]]
  /\ lateCarry' = [lateCarry EXCEPT ![a] = carry[a]]
  /\ lateBy' = [lateBy EXCEPT ![a] = b]
  /\ overtaken' = IF pc[a] = "gone" THEN overtaken ELSE overtaken \union {a}
  /\ carry' = [carry EXCEPT ![a] = None]
  /\ retiring' = [retiring EXCEPT ![b] = @ \ {a}]

\* The journal no longer asks for recovery, or not yet again (retry_at), or
\* the transcript cannot be loaded.
RestoreDefer(a) ==
  /\ pc[a] \in {"reviving", "cleared"}
  /\ MoveTo(a, "gone")
  /\ Maintained(a)
  /\ UNCHANGED <<permits, pending, active, carry, registered, standing, cancelled,
                 poolVars, released, exited, promo, retiring, lateVars, shutdown>>

\* Mutant: the old generation's exit marker is kept.
BugRestoreClear(a) ==
  /\ pc[a] = "reviving"
  /\ cancelled' = cancelled \ {a}
  /\ MoveTo(a, "cleared")
  /\ UNCHANGED <<permits, pending, active, carry, registered, standing, poolVars,
                 released, exited, promo, retiring, lateVars, maintaining, shutdown>>

\* ... and then forgets the old generation's exit marker; the new generation
\* has a fresh cancel token.
RestoreClear(a) ==
  /\ pc[a] = "reviving"
  /\ exited' = exited \ {a}
  /\ cancelled' = cancelled \ {a}
  /\ MoveTo(a, "cleared")
  /\ UNCHANGED <<permits, pending, active, carry, registered, standing, poolVars,
                 released, promo, retiring, lateVars, maintaining, shutdown>>

\* The head of launch(): refuse after shutdown, else prune_completed() takes
\* the completed agents beyond Retained out of the map (which of them are the
\* oldest is left open).
Launch(a, stand) ==
  /\ pc[a] \in {"new", "cleared"}
  /\ pc[a] = "cleared" => stand = (a \in standing)
  /\ a \in Continuous => stand
  /\ a \notin Promotable \union Continuous => ~stand
  /\ shutdown = "no"
  /\ CanWrite
  /\ \E old \in SUBSET {b \in registered : Terminal(b)} :
       /\ Cardinality(old) =
            AtLeast(Cardinality({b \in registered : Terminal(b)}) - Retained, 0)
       /\ retiring' = [retiring EXCEPT ![a] = old]
       /\ registered' = registered \ old
  /\ standing' = IF stand THEN standing \union {a} ELSE standing
  /\ MoveTo(a, "joining")
  /\ UNCHANGED <<permits, pending, active, carry, cancelled, poolVars,
                 released, exited, promo, lateVars, maintaining, shutdown>>

\* prune_completed joins each pruned agent and only then drops its marker.
LaunchJoin(a, old) ==
  /\ pc[a] = "joining"
  /\ old \in retiring[a]
  /\ pc[old] \notin ExitPc
  /\ retiring' = [retiring EXCEPT ![a] = @ \ {old}]
  /\ exited' = exited \ {old}
  /\ UNCHANGED <<slotVars, registered, standing, cancelled, poolVars,
                 released, promo, lateVars, maintaining, shutdown>>

\* ... also when the id has been relaunched meanwhile.
LateJoin(a, old) ==
  /\ pc[a] = "joining"
  /\ lateBy[old] = a
  /\ latePc[old] = "gone"
  /\ latePc' = [latePc EXCEPT ![old] = "none"]
  /\ lateBy' = [lateBy EXCEPT ![old] = None]
  /\ exited' = exited \ {old}
  /\ UNCHANGED <<slotVars, registered, standing, cancelled, poolVars, released,
                 promo, retiring, lateCarry, overtaken, maintaining, shutdown>>

Joined(a) == retiring[a] = {} /\ \A old \in Agents : lateBy[old] # a

\* A launch that meets shutting_down throws before it registers anything.
LaunchRefused(a) ==
  /\ pc[a] \in {"cleared", "joining"}
  /\ Joined(a)
  /\ shutdown # "no"
  /\ CanWrite
  /\ MoveTo(a, "gone")
  /\ Maintained(a)
  /\ UNCHANGED <<permits, pending, active, carry, registered, standing,
                 cancelled, poolVars, released, exited, promo, retiring, lateVars, shutdown>>

\* Under agents_mutex: into the map and, when standing, into the pool.
LaunchRegister(a) ==
  LET pins == IF a \in Continuous THEN pinned \union {a} ELSE pinned
      bound == AtLeast(maxStanding, Cardinality(pins))
      over == Overflow(<<a>> \o lru, pins, bound)
  IN  /\ pc[a] = "joining"
      /\ Joined(a)
      /\ shutdown = "no"
      /\ CanWrite
      /\ registered' = registered \union {a}
      /\ IF a \in standing
           THEN /\ lru' = Without(<<a>> \o lru, over)
                /\ pinned' = pins
                /\ maxStanding' = bound
                /\ victims' = victims \union over
           ELSE UNCHANGED poolVars
      /\ MoveTo(a, "registering")
      /\ UNCHANGED <<permits, pending, active, carry, standing, cancelled,
                     released, exited, promo, retiring, lateVars, maintaining, shutdown>>

\* Mutant: an agent that has to wait for a permit is not counted.
BugLaunchAdmit(a) ==
  /\ pc[a] = "registering"
  /\ IF permits > 0
       THEN /\ permits' = permits - 1
            /\ active' = active + 1
            /\ MoveTo(a, "running")
            /\ UNCHANGED pending
       ELSE /\ pending' = Append(pending, a)
            /\ MoveTo(a, "queued")
            /\ UNCHANGED <<permits, active>>
  /\ Maintained(a)
  /\ UNCHANGED <<carry, registered, standing, cancelled, poolVars, released,
                 exited, promo, retiring, lateVars, shutdown>>

\* Still under agents_mutex: count it, then under pending_mutex take a permit
\* and start, or join the queue.
LaunchAdmit(a) ==
  /\ pc[a] = "registering"
  /\ active' = active + 1
  /\ IF permits > 0
       THEN /\ permits' = permits - 1
            /\ MoveTo(a, "running")
            /\ UNCHANGED pending
       ELSE /\ pending' = Append(pending, a)
            /\ MoveTo(a, "queued")
            /\ UNCHANGED permits
  /\ Maintained(a)
  /\ UNCHANGED <<carry, registered, standing, cancelled, poolVars, released,
                 exited, promo, retiring, lateVars, shutdown>>

-----------------------------------------------------------------------------
(* The worker's thread (SubAgent::run), as far as it meets the supervisor. *)

restUnchanged == UNCHANGED <<registered, standing, cancelled, poolVars, exited,
                             promo, retiring, lateVars, maintaining, shutdown>>

\* A thread step that touches nothing of the supervisor.
ThreadMove(a, from, to) ==
  /\ pc[a] = from
  /\ MoveTo(a, to)
  /\ UNCHANGED <<permits, pending, active, carry, released>>
  /\ restUnchanged

\* Quiescence of an agent that reads standing_ = false ...
Quiesce(a) == a \notin cancelled \union standing /\ ThreadMove(a, "running", "closing")

\* ... ends it, unless a message came first, which gets its own turn.
Close(a) == ThreadMove(a, "closing", "ending")
Reopen(a) == ThreadMove(a, "closing", "running")

\* Cancellation is noticed before the start, at the loop top or in a turn.
StopRun(a) == a \in cancelled /\ ThreadMove(a, "running", "ending")
\* An exception, or the cycle cap of a worker that is not continuous.
FailRun(a) == ThreadMove(a, "running", "ending")

\* park(): a standing agent's quiescence marks its permit as released ...
Park(a) ==
  /\ pc[a] = "running"
  /\ a \in standing
  /\ a \notin cancelled
  /\ IF a \in exited \union released
       THEN MoveTo(a, "parked") /\ UNCHANGED released
       ELSE MoveTo(a, "parking") /\ released' = released \union {a}
  /\ UNCHANGED <<permits, pending, active, carry>>
  /\ restUnchanged

\* What a thread does once it has given its permit away.
AfterPass(a) == IF pc[a] \in {"parking", "parkPassing"} THEN "parked" ELSE "leaving"

\* Mutant: the permit always goes back to the semaphore.
BugPassPermit(a) ==
  /\ pc[a] \in {"parking", "exitHolding"}
  /\ permits' = permits + 1
  /\ MoveTo(a, AfterPass(a))
  /\ UNCHANGED <<pending, carry, active, released>>
  /\ restUnchanged

\* Mutant: the queue is served from the back.
BugPassToLast(a) ==
  LET last == pending[Len(pending)]
  IN  /\ pc[a] \in {"parking", "exitHolding"}
      /\ IF pending = << >>
           THEN /\ permits' = permits + 1
                /\ MoveTo(a, AfterPass(a))
                /\ UNCHANGED <<pending, carry>>
           ELSE /\ pending' = SubSeq(pending, 1, Len(pending) - 1)
                /\ carry' = [carry EXCEPT ![a] = last]
                /\ pc' = [pc EXCEPT ![a] = IF @ = "parking" THEN "parkPassing" ELSE "exitPassing",
                                    ![last] = "handed"]
                /\ UNCHANGED permits
      /\ UNCHANGED <<active, released>>
      /\ restUnchanged

\* start_pending_or_release(), pending_mutex part: the permit goes to the
\* head of the queue or, when nobody waits, back to the semaphore.
PassPermit(a) ==
  /\ pc[a] \in {"parking", "exitHolding"}
  /\ IF pending = << >>
       THEN /\ permits' = permits + 1
            /\ MoveTo(a, AfterPass(a))
            /\ UNCHANGED <<pending, carry>>
       ELSE /\ pending' = Tail(pending)
            /\ carry' = [carry EXCEPT ![a] = Head(pending)]
            /\ pc' = [pc EXCEPT ![a] = IF @ = "parking" THEN "parkPassing" ELSE "exitPassing",
                                ![Head(pending)] = "handed"]
            /\ UNCHANGED permits
  /\ UNCHANGED <<active, released>>
  /\ restUnchanged

\* decrement_active() never goes below zero.
OneLess(n) == IF n > 0 THEN n - 1 ELSE 0

\* ... agents_mutex part: start the popped agent; when shutdown has taken it
\* out of the map, put the permit back and stop counting it.
StartCarried(a) ==
  /\ pc[a] \in {"parkPassing", "exitPassing"}
  /\ CanRead
  /\ IF carry[a] \in registered
       THEN /\ pc' = [pc EXCEPT ![a] = AfterPass(a), ![carry[a]] = "running"]
            /\ UNCHANGED <<permits, active>>
       ELSE /\ pc' = [pc EXCEPT ![a] = AfterPass(a), ![carry[a]] = "gone"]
            /\ permits' = permits + 1
            /\ active' = OneLess(active)
  /\ carry' = [carry EXCEPT ![a] = None]
  /\ UNCHANGED <<pending, released>>
  /\ restUnchanged

\* The parked thread wakes: cancelled, it ends without its permit; for a
\* message, a question or (continuous) the two-second timer, it resumes.
WakeCancelled(a) == a \in cancelled /\ ThreadMove(a, "parked", "endingParked")
WakeForWork(a) == a \notin cancelled /\ ThreadMove(a, "parked", "resuming")

\* Mutant: a resuming agent watches shutdown but not its own token.
BugResumeAbort(a) == /\ shutdown # "no"
                     /\ ThreadMove(a, "resuming", "endingParked")

\* resume_work(): give up when cancelled or shutting down ...
ResumeAbort(a) == /\ a \in cancelled \/ shutdown # "no"
                  /\ ThreadMove(a, "resuming", "endingParked")

\* ... else take a permit, past the queue if it is quicker ...
ResumeAcquire(a) ==
  /\ pc[a] = "resuming"
  /\ permits > 0
  /\ permits' = permits - 1
  /\ MoveTo(a, "acquired")
  /\ UNCHANGED <<pending, active, carry, released>>
  /\ restUnchanged

\* ... and only then leave slot_released.
ResumeDone(a) ==
  /\ pc[a] = "acquired"
  /\ released' = released \ {a}
  /\ MoveTo(a, "running")
  /\ UNCHANGED <<permits, pending, active, carry>>
  /\ restUnchanged

\* on_exit(): publish the exit marker and leave the pool; an agent whose
\* permit was given away while it was parked has none to pass on.
ExitMark(a) ==
  /\ pc[a] \in {"ending", "endingParked"}
  /\ exited' = exited \union {a}
  /\ released' = released \ {a}
  /\ lru' = Without(lru, {a})
  /\ pinned' = pinned \ {a}
  /\ MoveTo(a, IF a \in released THEN "leaving" ELSE "exitHolding")
  /\ UNCHANGED <<permits, pending, active, carry, registered, standing, cancelled,
                 maxStanding, victims, promo, retiring, lateVars, maintaining, shutdown>>

\* on_exit()'s last act.
Leave(a) ==
  /\ pc[a] = "leaving"
  /\ active' = OneLess(active)
  /\ MoveTo(a, "gone")
  /\ UNCHANGED <<permits, pending, carry, released>>
  /\ restUnchanged

\* on_exit() of an old generation, under the id of the new one: it marks the
\* id as exited and takes it out of the pool and of slot_released ...
LateMark(a) ==
  /\ latePc[a] \in {"ending", "endingParked"}
  /\ exited' = exited \union {a}
  /\ released' = released \ {a}
  /\ lru' = Without(lru, {a})
  /\ pinned' = pinned \ {a}
  /\ latePc' = [latePc EXCEPT ![a] = IF a \in released THEN "leaving" ELSE "exitHolding"]
  /\ UNCHANGED <<slotVars, registered, standing, cancelled, maxStanding, victims,
                 promo, retiring, lateCarry, lateBy, overtaken, maintaining, shutdown>>

\* ... passes a permit on ...
LatePass(a) ==
  /\ latePc[a] = "exitHolding"
  /\ IF pending = << >>
       THEN /\ permits' = permits + 1
            /\ latePc' = [latePc EXCEPT ![a] = "leaving"]
            /\ UNCHANGED <<pending, pc, lateCarry>>
       ELSE /\ pending' = Tail(pending)
            /\ lateCarry' = [lateCarry EXCEPT ![a] = Head(pending)]
            /\ latePc' = [latePc EXCEPT ![a] = "exitPassing"]
            /\ pc' = [pc EXCEPT ![Head(pending)] = "handed"]
            /\ UNCHANGED permits
  /\ UNCHANGED <<active, carry, released, registered, standing, cancelled, poolVars,
                 exited, promo, retiring, lateBy, overtaken, maintaining, shutdown>>

LateStart(a) ==
  /\ latePc[a] = "exitPassing"
  /\ CanRead
  /\ IF lateCarry[a] \in registered
       THEN /\ pc' = [pc EXCEPT ![lateCarry[a]] = "running"]
            /\ UNCHANGED <<permits, active>>
       ELSE /\ pc' = [pc EXCEPT ![lateCarry[a]] = "gone"]
            /\ permits' = permits + 1
            /\ active' = OneLess(active)
  /\ latePc' = [latePc EXCEPT ![a] = "leaving"]
  /\ lateCarry' = [lateCarry EXCEPT ![a] = None]
  /\ UNCHANGED <<pending, carry, released, registered, standing, cancelled, poolVars,
                 exited, promo, retiring, lateBy, overtaken, maintaining, shutdown>>

\* ... and stops counting its agent.
LateLeave(a) ==
  /\ latePc[a] = "leaving"
  /\ active' = OneLess(active)
  /\ latePc' = [latePc EXCEPT ![a] = "gone"]
  /\ UNCHANGED <<permits, pending, pc, carry, released, registered, standing, cancelled,
                 poolVars, exited, promo, retiring, lateCarry, lateBy, overtaken, maintaining, shutdown>>

-----------------------------------------------------------------------------
(* The standing registry and the other calls of the supervisor's clients.  *)

\* promote() step 1: an unknown or finished agent is left alone ...
PromoteCheck(a) ==
  /\ promo[a] = "idle"
  /\ a \in Promotable \cap registered
  /\ Live(a)
  /\ CanRead
  /\ promo' = [promo EXCEPT ![a] = "checked"]
  /\ UNCHANGED <<slotVars, registered, standing, cancelled, poolVars,
                 released, exited, retiring, lateVars, maintaining, shutdown>>

\* ... any other is marked standing, whatever it has become since.
PromoteMark(a) ==
  /\ promo[a] = "checked"
  /\ promo' = [promo EXCEPT ![a] = "marked"]
  /\ standing' = standing \union {a}
  /\ UNCHANGED <<slotVars, registered, cancelled, poolVars, released, exited,
                 retiring, lateVars, maintaining, shutdown>>

\* Mutant: step 2 without the DIS-1001 guard.
BugPromoteRegister(a) ==
  LET over == Overflow(<<a>> \o lru, pinned, maxStanding)
  IN  /\ promo[a] = "marked"
      /\ promo' = [promo EXCEPT ![a] = "idle"]
      /\ \/ /\ InPool(a)
            /\ lru' = <<a>> \o Without(lru, {a})
            /\ UNCHANGED victims
         \/ /\ ~InPool(a)
            /\ lru' = Without(<<a>> \o lru, over)
            /\ victims' = victims \union over
      /\ UNCHANGED <<slotVars, registered, standing, cancelled, pinned,
                     maxStanding, released, exited, retiring, lateVars, maintaining, shutdown>>

\* promote() step 2, under standing_mutex: refuse one that has exited,
\* refresh one that is in the pool, else register it and enforce the bound.
PromoteRegister(a) ==
  LET over == Overflow(<<a>> \o lru, pinned, maxStanding)
  IN  /\ promo[a] = "marked"
      /\ promo' = [promo EXCEPT ![a] = "idle"]
      /\ \/ /\ a \in exited
            /\ UNCHANGED <<lru, victims>>
         \/ /\ a \notin exited
            /\ InPool(a)
            /\ lru' = <<a>> \o Without(lru, {a})
            /\ UNCHANGED victims
         \/ /\ a \notin exited
            /\ ~InPool(a)
            /\ lru' = Without(<<a>> \o lru, over)
            /\ victims' = victims \union over
      /\ UNCHANGED <<slotVars, registered, standing, cancelled, pinned,
                     maxStanding, released, exited, retiring, lateVars, maintaining, shutdown>>

\* interrogate() moves the agent to the front of the pool.
Interrogate(a) ==
  /\ InPool(a)
  /\ lru' = <<a>> \o Without(lru, {a})
  /\ UNCHANGED <<slotVars, registered, standing, cancelled, pinned, maxStanding,
                 victims, released, exited, promo, retiring, lateVars, maintaining, shutdown>>

\* set_max_standing_subagents(): never below the pinned workers.
SetMaxStanding(n) ==
  LET bound == AtLeast(n, Cardinality(pinned))
      over == Coldest(lru, pinned, Len(lru) - bound)
  IN  /\ maxStanding' = bound
      /\ lru' = Without(lru, over)
      /\ victims' = victims \union over
      /\ UNCHANGED <<slotVars, registered, standing, cancelled, pinned,
                     released, exited, promo, retiring, lateVars, maintaining, shutdown>>

\* evict_standing(), after the lock that chose the victim was left.
Evict(a) ==
  /\ a \in victims
  /\ CanRead
  /\ victims' = victims \ {a}
  /\ cancelled' = IF a \in registered THEN cancelled \union {a} ELSE cancelled
  /\ UNCHANGED <<slotVars, registered, standing, lru, pinned, maxStanding,
                 released, exited, promo, retiring, lateVars, maintaining, shutdown>>

\* cancel(id), or the parent's token fires.
Cancel(a) ==
  /\ a \in registered \ cancelled
  /\ CanRead
  /\ cancelled' = cancelled \union {a}
  /\ UNCHANGED <<slotVars, registered, standing, poolVars, released, exited,
                 promo, retiring, lateVars, maintaining, shutdown>>

\* shutdown(): first the flag, then, under agents_mutex, cancel every agent
\* and empty the map; queued agents are destroyed without ever running.
ShutdownBegin ==
  /\ shutdown = "no"
  /\ shutdown' = "flagged"
  /\ UNCHANGED <<slotVars, registered, standing, cancelled, poolVars, released,
                 exited, promo, retiring, lateVars, maintaining>>

ShutdownClear ==
  /\ shutdown = "flagged"
  /\ CanWrite
  /\ shutdown' = "cleared"
  /\ cancelled' = cancelled \union registered
  /\ registered' = {}
  /\ UNCHANGED <<slotVars, standing, poolVars, released, exited, promo, retiring, lateVars, maintaining>>

\* After shutdown there is nothing left to do: not a deadlock.
Finished ==
  /\ shutdown = "cleared"
  /\ \A a \in Agents : /\ pc[a] \in {"new", "gone", "queued"}
                        /\ latePc[a] = "none"
  /\ UNCHANGED vars

-----------------------------------------------------------------------------
LaunchStep(a) == \/ RestoreClear(a) \/ RestoreDefer(a)
                 \/ pc[a] = "cleared" /\ Launch(a, a \in standing)
                 \/ \E old \in Agents : LaunchJoin(a, old) \/ LateJoin(a, old)
                 \/ LaunchRefused(a) \/ LaunchRegister(a) \/ LaunchAdmit(a)

TurnStep(a) == Quiesce(a) \/ Park(a) \/ StopRun(a) \/ FailRun(a)

ThreadStep(a) == \/ TurnStep(a) \/ Close(a) \/ Reopen(a)
                 \/ PassPermit(a) \/ StartCarried(a)
                 \/ WakeCancelled(a) \/ WakeForWork(a)
                 \/ ResumeAbort(a) \/ ResumeAcquire(a) \/ ResumeDone(a)
                 \/ ExitMark(a) \/ Leave(a)

LateStep(a) == LateMark(a) \/ LatePass(a) \/ LateStart(a) \/ LateLeave(a)

ClientStep(a) == \/ pc[a] = "new" /\ \E stand \in BOOLEAN : Launch(a, stand)
                 \/ Restore(a) \/ \E b \in Agents : RestorePruned(a, b)
                 \/ PromoteCheck(a) \/ PromoteMark(a) \/ PromoteRegister(a)
                 \/ Interrogate(a) \/ Evict(a) \/ Cancel(a)

Next == \/ \E a \in Agents : LaunchStep(a) \/ ThreadStep(a) \/ LateStep(a) \/ ClientStep(a)
        \/ \E n \in StandingBounds : SetMaxStanding(n)
        \/ ShutdownBegin \/ ShutdownClear \/ Finished

Spec == Init /\ [][Next]_vars

(***************************************************************************)
(* Fairness.  A thread that can move does; a turn ends (the client bounds  *)
(* every request with a timeout and run_turn its rounds); an agent that is *)
(* not standing is not kept from closing for ever by new messages, because *)
(* max_subagent_turn_cycles ends it.  Callers owe nothing, and a parked    *)
(* agent need never be woken for work.  A parked continuous worker looks   *)
(* at its token every two seconds; any other one waits for a notification  *)
(* that can be lost (SubAgent's CancelEnds), so nothing wakes it for sure. *)
(***************************************************************************)
OwnStep(a) == \/ PassPermit(a)
              \/ a \in Continuous /\ WakeCancelled(a)
              \/ ResumeAbort(a) \/ ResumeDone(a) \/ ExitMark(a) \/ Leave(a)

Fairness == \A a \in Agents : /\ WF_vars(OwnStep(a))
                              /\ WF_vars(TurnStep(a))
                              /\ SF_vars(Close(a))
                              /\ WF_vars(StartCarried(a))
                              /\ WF_vars(LaunchAdmit(a))
                              /\ WF_vars(LateStep(a))

FairSpec == Spec /\ Fairness

-----------------------------------------------------------------------------
(* Properties.                                                             *)

\* Every variable has its type: the slots and the registry ...
SlotTypeOK ==
  /\ permits \in Nat
  /\ pending \in Seq(Agents)
  /\ active \in Nat
  /\ pc \in [Agents -> PcValues]
  /\ carry \in [Agents -> Agents \union {None}]
  /\ registered \in SUBSET Agents
  /\ standing \in SUBSET Agents
  /\ cancelled \in SUBSET Agents
  /\ released \in SUBSET Agents
  /\ exited \in SUBSET Agents
  /\ promo \in [Agents -> {"idle", "checked", "marked"}]
  /\ retiring \in [Agents -> SUBSET Agents]
  /\ latePc \in [Agents -> ExitPc \union {"none", "gone"}]
  /\ lateCarry \in [Agents -> Agents \union {None}]
  /\ lateBy \in [Agents -> Agents \union {None}]
  /\ overtaken \in SUBSET Restorable
  /\ maintaining \in Agents \union {None}
  /\ shutdown \in {"no", "flagged", "cleared"}

\* ... and the standing pool.
TypeOK == /\ SlotTypeOK
          /\ lru \in Seq(Agents)
          /\ pinned \subseteq Agents
          /\ maxStanding \in Nat
          /\ victims \subseteq Agents

\* The permits the supervisor hands around are the pool of SlotPool: nothing
\* it does with parking, resuming, promoting, closing races or shutdown is
\* more than taking, passing on or returning a permit, in queue order.  This
\* holds until a pruned worker is relaunched ahead of its old on_exit(), which
\* then passes on, or keeps, a permit in the name of the new one.
Pool == INSTANCE SlotPool WITH Workers <- Agents, free <- permits, holders <- Holders,
                               line <- pending, stopped <- (shutdown # "no")
PermitsArePool == Pool!PoolInit /\ [][overtaken' = {} => [Pool!PoolNext]_Pool!poolVars]_vars

\* Permits are neither lost nor made, whatever races with an exit (DIS-1001).
SlotConservation == overtaken = {} => Pool!Conservation

\* max_concurrent holds: never more than Limit agents work at once.
BoundedParallelism ==
  overtaken = {} => Cardinality({a \in Agents : pc[a] \in {"running", "closing"}}) <= Limit

\* A permit is marked as given away exactly while its owner is parked or on
\* its way there or back, so on_exit neither loses nor duplicates it.
ReleasedIsParked ==
  \A a \in Agents \ overtaken :
    a \in released <=> pc[a] \in {"parking", "parkPassing", "parked", "resuming",
                                  "acquired", "endingParked"}

\* The queue holds exactly-once agents that still wait.
QueueOk == /\ \A i \in 1..Len(pending) : pc[pending[i]] = "queued"
           /\ \A i, j \in 1..Len(pending) : pending[i] = pending[j] => i = j

\* A popped agent is carried by one thread, which still has to start it.
Passing(a) == pc[a] \in {"parkPassing", "exitPassing"}
LatePassing(a) == latePc[a] = "exitPassing"
CarryOk ==
  /\ \A a \in Agents : Passing(a) => carry[a] \in Agents /\ pc[carry[a]] = "handed"
  /\ \A a \in Agents : LatePassing(a) => lateCarry[a] \in Agents /\ pc[lateCarry[a]] = "handed"
  /\ \A a, b \in Agents :
       /\ Passing(a) /\ Passing(b) /\ carry[a] = carry[b] => a = b
       /\ LatePassing(a) /\ LatePassing(b) /\ lateCarry[a] = lateCarry[b] => a = b
       /\ Passing(a) /\ LatePassing(b) => carry[a] # lateCarry[b]

\* No agent that may still exit is marked as exited already.
MarkerFresh ==
  \A a \in Agents \ overtaken :
     pc[a] \in {"new", "cleared", "joining", "registering", "ending", "endingParked"}
                 \union LivePc => a \notin exited

\* Until shutdown empties the map, every live agent can be found in it.
LiveIsRegistered ==
  \A a \in Agents : shutdown # "cleared" /\ pc[a] \in LivePc \union {"registering"}
                     => a \in registered

\* An exit that is still to come when its id is relaunched is on record.
LateIsOvertaken == \A a \in Agents : latePc[a] \in ExitPc => a \in overtaken

\* Why the permits stay a pool whatever the interleaving: the facts about
\* queue, hand-over, markers and map that each step relies on.  The release
\* and exit markers say so of every id that was not relaunched ahead of its
\* own on_exit().
SlotInv == /\ SlotTypeOK
           /\ QueueOk
           /\ CarryOk
           /\ ReleasedIsParked
           /\ MarkerFresh
           /\ LiveIsRegistered
           /\ LateIsOvertaken

\* wait_all() returns only when no admitted agent is left to run: the count
\* is zero only when every thread is past its last step, that of an overtaken
\* generation included.
WaitAllSound == active = 0 => \A a \in Agents : /\ pc[a] \notin LivePc \union ExitPc
                                                /\ latePc[a] \notin ExitPc

\* No stale entry: the standing pool lists only agents whose exit callback
\* has not run (the comment in promote() on the TOCTOU with on_exit).
PoolIsAlive == shutdown # "cleared" =>
  \A i \in 1..Len(lru) : pc[lru[i]] \in LivePc \union
                            {"registering", "ending", "endingParked"}

\* The pool never exceeds its bound and lists nobody twice.
PoolBounded == /\ Len(lru) <= maxStanding
               /\ \A i, j \in 1..Len(lru) : lru[i] = lru[j] => i = j

\* LRU pressure never picks a managed worker, not even when callers promote
\* more agents than the bound leaves room for.
PinnedStay == victims \cap Continuous = {}

\* What LRU pressure, promotions, exits and a new bound leave is a pool of live
\* agents, bounded, from which no managed worker was evicted.
PoolSound == PoolIsAlive /\ PoolBounded /\ PinnedStay

\* A queued agent gets its turn, past any number of parked agents resuming.
QueuedStarts ==
  \A a \in Agents : pc[a] = "queued" ~> (pc[a] # "queued" \/ shutdown # "no")

\* Cancelling, evicting or cascading to a live agent ends it, queued, working
\* or resuming as it may be; parked, too, if it is continuous, while any other
\* parked agent may sleep through it (SubAgent's CancelEnds).
Asleep(a) == pc[a] = "parked" /\ a \notin Continuous
CancelledEnds ==
  \A a \in Agents : (a \in cancelled \cap registered /\ Live(a)) ~>
                    (~Live(a) \/ Asleep(a) \/ shutdown # "no")
=============================================================================
