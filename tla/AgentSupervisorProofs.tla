------------------------ MODULE AgentSupervisorProofs ------------------------
(***************************************************************************)
(* For every set of agents, every limit and every mix of managed,          *)
(* promotable and restorable agents: wait_all() never returns early, and,  *)
(* until a pruned worker is relaunched ahead of its old on_exit()          *)
(* (overtaken), the supervisor's permits implement SlotPool and the        *)
(* standing pool is sound.  SlotInv is the inductive invariant; the        *)
(* simulation of each step relies on it (a popped agent is still queued,   *)
(* an agent marked as exited never parks, a released permit is not passed  *)
(* on again).                                                              *)
(***************************************************************************)
EXTENDS AgentSupervisor, FiniteSetTheorems, TLAPS

USE AgentsAssumption, KindsAssumption, LimitAssumption, BoundsAssumption
    DEF PcValues, LaunchPc, LivePc, ExitPc, Live, Terminal, MoveTo, lateVars

\* What joining and leaving the queue do to it.
LEMMA AppendFacts ==
  ASSUME NEW S, NEW s \in Seq(S), NEW x \in S
  PROVE  /\ Append(s, x) \in Seq(S)
         /\ Len(Append(s, x)) = Len(s) + 1
         /\ \A i \in 1..Len(s) : Append(s, x)[i] = s[i]
         /\ Append(s, x)[Len(s) + 1] = x
OBVIOUS

LEMMA TailFacts ==
  ASSUME NEW S, NEW s \in Seq(S), s # << >>
  PROVE  /\ Head(s) \in S
         /\ Head(s) = s[1]
         /\ 1 \in 1..Len(s)
         /\ Tail(s) \in Seq(S)
         /\ Len(Tail(s)) = Len(s) - 1
         /\ \A i \in 1..Len(Tail(s)) : Tail(s)[i] = s[i + 1]
OBVIOUS

LEMMA SlotInit == Init => SlotInv
<1> SUFFICES ASSUME Init PROVE SlotInv
  OBVIOUS
<1>1. SlotTypeOK
  BY DEF Init, SlotTypeOK
<1>2. pending \in Seq(Agents) /\ Len(pending) = 0
  BY DEF Init
<1>3. QueueOk
  BY <1>2 DEF QueueOk
<1>4. CarryOk /\ ReleasedIsParked /\ MarkerFresh /\ LiveIsRegistered
  BY DEF Init, CarryOk, Passing, LatePassing, ReleasedIsParked, MarkerFresh, LiveIsRegistered
<1>5. LateIsOvertaken
  BY DEF Init, LateIsOvertaken
<1> QED BY <1>1, <1>3, <1>4, <1>5 DEF SlotInv

\* A step of a launch: it moves one agent that holds no permit and waits in
\* no queue, or admits it.
LEMMA LaunchKeepsInv ==
  ASSUME SlotInv, NEW a \in Agents,
         \/ Restore(a) \/ (\E b \in Agents : RestorePruned(a, b))
         \/ RestoreClear(a) \/ RestoreDefer(a) \/ (\E s \in BOOLEAN : Launch(a, s))
         \/ (\E old \in Agents : LaunchJoin(a, old) \/ LateJoin(a, old)) \/ LaunchRefused(a)
         \/ LaunchRegister(a) \/ LaunchAdmit(a)
  PROVE  SlotInv'
<1> USE DEF SlotInv, SlotTypeOK, QueueOk, CarryOk, Passing, LatePassing, ReleasedIsParked,
            MarkerFresh, LiveIsRegistered, LateIsOvertaken
<1>1. CASE Restore(a)
  BY SMTT(60), <1>1 DEF Restore, Revive
<1>11. CASE RestoreDefer(a)
  BY SMTT(60), <1>11 DEF RestoreDefer, Maintained
<1>2. CASE RestoreClear(a)
  BY SMTT(60), <1>2 DEF RestoreClear
<1>9. ASSUME NEW b \in Agents, RestorePruned(a, b) PROVE SlotInv'
  <2>1. /\ pc[a] \in ExitPc \union {"gone"} /\ a \in Restorable /\ shutdown = "no"
        /\ pc' = [pc EXCEPT ![a] = "reviving"]
        /\ latePc' = [latePc EXCEPT ![a] = pc[a]]
        /\ lateCarry' = [lateCarry EXCEPT ![a] = carry[a]]
        /\ carry' = [carry EXCEPT ![a] = None]
        /\ overtaken' = IF pc[a] = "gone" THEN overtaken ELSE overtaken \union {a}
        /\ latePc[a] = "none"
    BY SMTT(60), <1>9 DEF RestorePruned, Revive
  <2>2. /\ registered' = registered \ {a}
        /\ UNCHANGED <<permits, pending, active, released, exited, shutdown>>
    BY SMTT(60), <1>9 DEF RestorePruned, Revive
  <2>3. SlotTypeOK'
    BY SMTT(60), <1>9 DEF RestorePruned, Revive
  <2>4. QueueOk'
    BY SMTT(60), <2>1, <2>2
  <2>5. CarryOk'
    BY SMTT(60), <2>1, <2>2
  <2>6. ReleasedIsParked' /\ MarkerFresh'
    BY SMTT(60), <2>1, <2>2
  <2>7. LiveIsRegistered' /\ LateIsOvertaken'
    BY SMTT(60), <2>1, <2>2
  <2> QED BY <2>3, <2>4, <2>5, <2>6, <2>7
<1>10. ASSUME NEW old \in Agents, LateJoin(a, old) PROVE SlotInv'
  BY SMTT(60), <1>10 DEF LateJoin, slotVars
<1>3. ASSUME NEW s \in BOOLEAN, Launch(a, s) PROVE SlotInv'
  <2>1. SlotTypeOK'
    BY SMTT(60), <1>3 DEF Launch
  <2>2. QueueOk' /\ CarryOk'
    BY SMTT(60), <1>3 DEF Launch
  <2>3. /\ pc[a] \in {"new", "cleared"} /\ pc' = [pc EXCEPT ![a] = "joining"]
        /\ UNCHANGED <<released, exited, latePc, overtaken, shutdown>>
    BY SMTT(60), <1>3 DEF Launch
  <2>4. \A b \in registered : pc[b] \in LivePc => b \in registered'
    BY SMTT(60), <1>3 DEF Launch
  <2>5. \A b \in Agents : pc[b] # "registering"
    BY SMTT(60), <1>3 DEF Launch, CanWrite, CanRead
  <2>6. LiveIsRegistered'
    BY <2>3, <2>4, <2>5
  <2>7. (ReleasedIsParked /\ MarkerFresh /\ LateIsOvertaken)'
    BY <2>3
  <2> QED BY <2>1, <2>2, <2>6, <2>7
<1>4. ASSUME NEW old \in Agents, LaunchJoin(a, old) PROVE SlotInv'
  <2>1. SlotTypeOK'
    BY SMTT(60), <1>4 DEF LaunchJoin, slotVars
  <2>2. QueueOk' /\ CarryOk'
    BY SMTT(60), <1>4 DEF LaunchJoin, slotVars
  <2>3. (ReleasedIsParked /\ MarkerFresh /\ LiveIsRegistered /\ LateIsOvertaken)'
    BY SMTT(60), <1>4 DEF LaunchJoin, slotVars
  <2> QED BY <2>1, <2>2, <2>3
<1>5. CASE LaunchRefused(a)
  BY SMTT(60), <1>5 DEF LaunchRefused, Maintained
<1>6. CASE LaunchRegister(a)
  BY SMTT(60), <1>6 DEF LaunchRegister
<1>7. CASE LaunchAdmit(a) /\ permits > 0
  BY SMTT(60), <1>7 DEF LaunchAdmit, Maintained
<1>8. CASE LaunchAdmit(a) /\ ~(permits > 0)
  <2>1. /\ pending' = Append(pending, a)
        /\ pending \in Seq(Agents)
        /\ pc[a] = "registering"
        /\ pc' = [pc EXCEPT ![a] = "queued"]
        /\ pc \in [Agents -> PcValues]
        /\ active' \in Nat /\ maintaining' \in Agents \union {None}
        /\ UNCHANGED <<permits, carry, registered, standing, cancelled, released,
                       exited, promo, retiring, lateVars, shutdown>>
    BY SMTT(60), <1>8 DEF LaunchAdmit, Maintained
  <2>2. /\ pending' \in Seq(Agents)
        /\ Len(pending) \in Nat
        /\ Len(pending') = Len(pending) + 1
        /\ \A i \in 1..Len(pending) : pending'[i] = pending[i]
        /\ pending'[Len(pending) + 1] = a
    BY <2>1, AppendFacts
  <2>3. QueueOk'
    <3>1. QueueOk
      OBVIOUS
    <3> HIDE DEF SlotInv, SlotTypeOK, CarryOk, ReleasedIsParked, MarkerFresh,
                LiveIsRegistered, LateIsOvertaken
    <3>2. \A i \in 1..Len(pending') : i \in 1..Len(pending) \/ i = Len(pending) + 1
      BY <2>2
    <3>3. \A i \in 1..Len(pending) : pending[i] \in Agents /\ pending[i] # a
      BY <2>1, <3>1
    <3> QED BY <2>1, <2>2, <3>1, <3>2, <3>3
  <2>4. SlotTypeOK'
    BY SMTT(60), <2>1, <2>2
  <2>5. CarryOk'
    BY <2>1
  <2>6. (ReleasedIsParked /\ MarkerFresh /\ LiveIsRegistered /\ LateIsOvertaken)'
    BY <2>1
  <2> QED BY <2>3, <2>4, <2>5, <2>6
<1> QED BY <1>1, <1>2, <1>3, <1>4, <1>5, <1>6, <1>7, <1>8, <1>9, <1>10, <1>11 DEF LaunchAdmit

\* A step of a worker's own thread.
LEMMA ThreadKeepsInv ==
  ASSUME SlotInv, NEW a \in Agents, ThreadStep(a)
  PROVE  SlotInv'
<1> USE DEF SlotInv, SlotTypeOK, QueueOk, CarryOk, Passing, LatePassing, ReleasedIsParked,
            MarkerFresh, LiveIsRegistered, LateIsOvertaken, restUnchanged
<1>1. CASE \/ Quiesce(a) \/ Close(a) \/ Reopen(a) \/ StopRun(a) \/ FailRun(a)
           \/ WakeCancelled(a) \/ WakeForWork(a) \/ ResumeAbort(a)
  BY SMTT(60), <1>1 DEF Quiesce, Close, Reopen, StopRun, FailRun, WakeCancelled, WakeForWork,
              ResumeAbort, ThreadMove
<1>2. CASE Park(a)
  BY SMTT(60), <1>2 DEF Park
<1>3. CASE PassPermit(a) /\ pending = << >>
  BY SMTT(60), <1>3 DEF PassPermit, AfterPass
<1>4. CASE PassPermit(a) /\ pending # << >>
  <2>0. pending' = Tail(pending) /\ pending \in Seq(Agents)
    BY SMTT(60), <1>4 DEF PassPermit
  <2>1. /\ Head(pending) \in Agents
        /\ Head(pending) = pending[1]
        /\ 1 \in 1..Len(pending)
        /\ Len(pending) \in Nat
        /\ pending' \in Seq(Agents)
        /\ Len(pending') = Len(pending) - 1
        /\ \A i \in 1..Len(pending') : pending'[i] = pending[i + 1]
    BY <1>4, <2>0, TailFacts
  <2>2. pc[Head(pending)] = "queued"
    BY <2>1
  <2>3. /\ carry' = [carry EXCEPT ![a] = Head(pending)]
        /\ pc' = [pc EXCEPT ![a] = IF @ = "parking" THEN "parkPassing" ELSE "exitPassing",
                            ![Head(pending)] = "handed"]
        /\ pc[a] \in {"parking", "exitHolding"}
        /\ UNCHANGED <<permits, active, released, registered, standing, cancelled,
                       exited, promo, retiring, lateVars, maintaining, shutdown>>
    BY SMTT(60), <1>4 DEF PassPermit
  <2>4. QueueOk'
    <3>1. QueueOk /\ pc \in [Agents -> PcValues] /\ pending \in Seq(Agents)
      OBVIOUS
    <3> HIDE DEF SlotInv, SlotTypeOK, CarryOk, ReleasedIsParked, MarkerFresh,
                LiveIsRegistered, LateIsOvertaken
    <3>2. \A i \in 1..Len(pending') : i \in 1..Len(pending) /\ i + 1 \in 1..Len(pending)
      BY <2>1
    <3>3. ASSUME NEW i \in 1..Len(pending')
          PROVE  pending[i + 1] \in Agents \ {Head(pending), a}
      <4>1. i + 1 \in 1..Len(pending) /\ i + 1 # 1 /\ 1 \in 1..Len(pending)
        BY <2>1, <3>2
      <4>2. pending[i + 1] # pending[1] /\ pc[pending[i + 1]] = "queued"
        BY SMTT(60), <3>1, <4>1 DEF QueueOk
      <4>3. pending[i + 1] \in Agents
        BY <3>1, <4>1
      <4> QED BY <2>1, <2>3, <4>2, <4>3
    <3>4. ASSUME NEW i \in 1..Len(pending') PROVE pc'[pending'[i]] = "queued"
      <4>1. pending'[i] \in Agents \ {Head(pending), a} /\ pending'[i] = pending[i + 1]
        BY <2>1, <3>3
      <4>2. pc[pending'[i]] = "queued"
        BY <3>1, <3>2, <4>1
      <4> QED BY <2>3, <3>1, <4>1, <4>2
    <3>5. ASSUME NEW i \in 1..Len(pending'), NEW j \in 1..Len(pending'),
                 pending'[i] = pending'[j]
          PROVE  i = j
      BY <2>1, <3>1, <3>2, <3>5
    <3> QED BY <3>4, <3>5
  <2>5. SlotTypeOK'
    BY <2>1, <2>2, <2>3
  <2>6. PICK h \in Agents : h = Head(pending) /\ pc[h] = "queued" /\ h # a
    BY <2>1, <2>2, <2>3
  <2>7. /\ carry' = [carry EXCEPT ![a] = h] /\ pc'[h] = "handed"
        /\ \/ pc[a] = "parking" /\ pc'[a] = "parkPassing"
           \/ pc[a] = "exitHolding" /\ pc'[a] = "exitPassing"
        /\ \A x \in Agents \ {a, h} : pc'[x] = pc[x]
    <3>1. /\ pc \in [Agents -> PcValues] /\ pc[a] \in {"parking", "exitHolding"}
          /\ carry' = [carry EXCEPT ![a] = Head(pending)]
          /\ pc' = [pc EXCEPT ![a] = IF @ = "parking" THEN "parkPassing" ELSE "exitPassing",
                              ![Head(pending)] = "handed"]
      BY <2>3
    <3> HIDE DEF SlotInv, SlotTypeOK, QueueOk, CarryOk, ReleasedIsParked, MarkerFresh,
                LiveIsRegistered, LateIsOvertaken
    <3> QED BY <2>6, <3>1
  <2>8. UNCHANGED <<released, exited, registered, lateVars, shutdown>>
    BY <2>3
  <2>9. CarryOk'
    <3>1. CarryOk /\ carry \in [Agents -> Agents \union {None}]
      OBVIOUS
    <3> HIDE DEF SlotInv, SlotTypeOK, QueueOk, ReleasedIsParked, MarkerFresh,
                LiveIsRegistered, LateIsOvertaken
    <3> QED BY SMTT(30), <2>6, <2>7, <2>8, <3>1
  <2>10. ReleasedIsParked' /\ MarkerFresh'
    <3>1. ReleasedIsParked /\ MarkerFresh
      OBVIOUS
    <3> HIDE DEF SlotInv, SlotTypeOK, QueueOk, CarryOk, LiveIsRegistered, LateIsOvertaken
    <3> QED BY SMTT(30), <2>6, <2>7, <2>8, <3>1
  <2>11. LiveIsRegistered' /\ LateIsOvertaken'
    <3>1. LiveIsRegistered /\ LateIsOvertaken
      OBVIOUS
    <3> HIDE DEF SlotInv, SlotTypeOK, QueueOk, CarryOk, ReleasedIsParked, MarkerFresh
    <3> QED BY SMTT(30), <2>6, <2>7, <2>8, <3>1
  <2> QED BY <2>4, <2>5, <2>9, <2>10, <2>11
<1>5. CASE StartCarried(a)
  <2>1. carry[a] \in Agents /\ pc[carry[a]] = "handed" /\ carry[a] # a
    BY SMTT(60), <1>5 DEF StartCarried
  <2>2. SlotTypeOK'
    BY SMTT(60), <1>5, <2>1 DEF StartCarried, AfterPass, OneLess
  <2>3. QueueOk'
    BY SMTT(60), <1>5, <2>1 DEF StartCarried, AfterPass
  <2>4. CarryOk'
    BY SMTT(60), <1>5, <2>1 DEF StartCarried, AfterPass
  <2>5. (ReleasedIsParked /\ MarkerFresh)'
    BY SMTT(60), <1>5, <2>1 DEF StartCarried, AfterPass
  <2>6. LiveIsRegistered' /\ LateIsOvertaken'
    BY SMTT(60), <1>5, <2>1 DEF StartCarried, AfterPass
  <2> QED BY <2>2, <2>3, <2>4, <2>5, <2>6
<1>6. CASE ResumeAcquire(a)
  BY SMTT(60), <1>6 DEF ResumeAcquire
<1>7. CASE ResumeDone(a)
  BY SMTT(60), <1>7 DEF ResumeDone
<1>8. CASE ExitMark(a)
  BY SMTT(60), <1>8 DEF ExitMark
<1>9. CASE Leave(a)
  BY SMTT(60), <1>9 DEF Leave, OneLess
<1> QED BY <1>1, <1>2, <1>3, <1>4, <1>5, <1>6, <1>7, <1>8, <1>9
        DEF ThreadStep, TurnStep

\* The exit of an overtaken generation: what it may spoil is the markers and
\* the permit of an id on record, never the queue or a hand-over.
LEMMA LateKeepsInv ==
  ASSUME SlotInv, NEW a \in Agents, LateStep(a)
  PROVE  SlotInv'
<1> USE DEF SlotInv, SlotTypeOK, QueueOk, CarryOk, Passing, LatePassing, ReleasedIsParked,
            MarkerFresh, LiveIsRegistered, LateIsOvertaken, slotVars
<1>0. a \in overtaken
  BY DEF LateStep, LateMark, LatePass, LateStart, LateLeave
<1>1. CASE LateMark(a)
  BY SMTT(60), <1>0, <1>1 DEF LateMark
<1>2. CASE LatePass(a) /\ pending = << >>
  BY SMTT(60), <1>2 DEF LatePass
<1>3. CASE LatePass(a) /\ pending # << >>
  <2>0. pending' = Tail(pending) /\ pending \in Seq(Agents)
    BY SMTT(60), <1>3 DEF LatePass
  <2>1. /\ Head(pending) \in Agents
        /\ Head(pending) = pending[1]
        /\ 1 \in 1..Len(pending)
        /\ Len(pending) \in Nat
        /\ pending' \in Seq(Agents)
        /\ Len(pending') = Len(pending) - 1
        /\ \A i \in 1..Len(pending') : pending'[i] = pending[i + 1]
    BY <1>3, <2>0, TailFacts
  <2>2. pc[Head(pending)] = "queued"
    BY <2>1
  <2>3. /\ lateCarry' = [lateCarry EXCEPT ![a] = Head(pending)]
        /\ latePc' = [latePc EXCEPT ![a] = "exitPassing"]
        /\ pc' = [pc EXCEPT ![Head(pending)] = "handed"]
        /\ latePc[a] = "exitHolding"
        /\ UNCHANGED <<permits, active, carry, released, registered, standing, cancelled,
                       exited, promo, retiring, lateBy, overtaken, maintaining, shutdown>>
    BY SMTT(60), <1>3 DEF LatePass
  <2>4. QueueOk'
    <3>1. QueueOk /\ pc \in [Agents -> PcValues] /\ pending \in Seq(Agents)
      OBVIOUS
    <3> HIDE DEF SlotInv, SlotTypeOK, CarryOk, ReleasedIsParked, MarkerFresh,
                LiveIsRegistered, LateIsOvertaken
    <3>2. \A i \in 1..Len(pending') : i \in 1..Len(pending) /\ i + 1 \in 1..Len(pending)
      BY <2>1
    <3>3. ASSUME NEW i \in 1..Len(pending')
          PROVE  pending[i + 1] \in Agents \ {Head(pending)}
      <4>1. i + 1 \in 1..Len(pending) /\ i + 1 # 1 /\ 1 \in 1..Len(pending)
        BY <2>1, <3>2
      <4>2. pending[i + 1] # pending[1] /\ pending[i + 1] \in Agents
        BY SMTT(60), <3>1, <4>1 DEF QueueOk
      <4> QED BY <2>1, <4>2
    <3>4. ASSUME NEW i \in 1..Len(pending') PROVE pc'[pending'[i]] = "queued"
      <4>1. pending'[i] \in Agents \ {Head(pending)} /\ pending'[i] = pending[i + 1]
        BY <2>1, <3>3
      <4>2. pc[pending'[i]] = "queued"
        BY <3>1, <3>2, <4>1
      <4> QED BY <2>3, <3>1, <4>1, <4>2
    <3>5. ASSUME NEW i \in 1..Len(pending'), NEW j \in 1..Len(pending'),
                 pending'[i] = pending'[j]
          PROVE  i = j
      BY <2>1, <3>1, <3>2, <3>5
    <3> QED BY <3>4, <3>5
  <2>5. SlotTypeOK'
    BY SMTT(60), <2>1, <2>2, <2>3
  <2>6. CarryOk'
    BY SMTT(60), <2>1, <2>2, <2>3
  <2>7. (ReleasedIsParked /\ MarkerFresh /\ LiveIsRegistered /\ LateIsOvertaken)'
    BY SMTT(60), <1>0, <2>1, <2>2, <2>3
  <2> QED BY <2>4, <2>5, <2>6, <2>7
<1>4. CASE LateStart(a)
  <2>1. lateCarry[a] \in Agents /\ pc[lateCarry[a]] = "handed"
    BY SMTT(60), <1>4 DEF LateStart
  <2>2. SlotTypeOK'
    BY SMTT(60), <1>4, <2>1 DEF LateStart, OneLess
  <2>3. QueueOk'
    BY SMTT(60), <1>4, <2>1 DEF LateStart
  <2>4. CarryOk'
    BY SMTT(60), <1>4, <2>1 DEF LateStart
  <2>5. (ReleasedIsParked /\ MarkerFresh)'
    BY SMTT(60), <1>4, <2>1 DEF LateStart
  <2>6. LiveIsRegistered' /\ LateIsOvertaken'
    BY SMTT(60), <1>0, <1>4, <2>1 DEF LateStart
  <2> QED BY <2>2, <2>3, <2>4, <2>5, <2>6
<1>5. CASE LateLeave(a)
  BY SMTT(60), <1>5 DEF LateLeave, OneLess
<1> QED BY <1>1, <1>2, <1>3, <1>4, <1>5 DEF LateStep

\* A call of a client, or shutdown: it changes no permit, queue or thread.
LEMMA ClientKeepsInv ==
  ASSUME SlotInv,
         \/ \E a \in Agents : \/ PromoteCheck(a) \/ PromoteMark(a) \/ PromoteRegister(a)
                             \/ Interrogate(a) \/ Evict(a) \/ Cancel(a)
         \/ (\E n \in StandingBounds : SetMaxStanding(n))
         \/ ShutdownBegin \/ ShutdownClear \/ UNCHANGED vars
  PROVE  SlotInv'
<1> USE DEF SlotInv, SlotTypeOK, QueueOk, CarryOk, Passing, LatePassing, ReleasedIsParked,
            MarkerFresh, LiveIsRegistered, LateIsOvertaken, slotVars
<1>1. ASSUME NEW a \in Agents, PromoteCheck(a) \/ PromoteMark(a) PROVE SlotInv'
  BY SMTT(60), <1>1 DEF PromoteCheck, PromoteMark
<1>2. ASSUME NEW a \in Agents, PromoteRegister(a) PROVE SlotInv'
  BY SMTT(60), <1>2 DEF PromoteRegister
<1>3. ASSUME NEW a \in Agents, Interrogate(a) \/ Evict(a) \/ Cancel(a) PROVE SlotInv'
  BY SMTT(60), <1>3 DEF Interrogate, Evict, Cancel
<1>4. ASSUME NEW n \in StandingBounds, SetMaxStanding(n) PROVE SlotInv'
  BY SMTT(60), <1>4 DEF SetMaxStanding
<1>5. CASE ShutdownBegin \/ ShutdownClear
  BY SMTT(60), <1>5 DEF ShutdownBegin, ShutdownClear
<1>6. CASE UNCHANGED vars
  BY SMTT(60), <1>6 DEF vars
<1> QED BY <1>1, <1>2, <1>3, <1>4, <1>5, <1>6

\* Every step of the supervisor is one of the four kinds.
LEMMA NextCases ==
  ASSUME [Next]_vars
  PROVE  \/ \E a \in Agents :
               \/ Restore(a) \/ (\E b \in Agents : RestorePruned(a, b))
               \/ RestoreClear(a) \/ RestoreDefer(a) \/ (\E s \in BOOLEAN : Launch(a, s))
               \/ (\E old \in Agents : LaunchJoin(a, old) \/ LateJoin(a, old)) \/ LaunchRefused(a)
               \/ LaunchRegister(a) \/ LaunchAdmit(a)
         \/ \E a \in Agents : ThreadStep(a)
         \/ \E a \in Agents : LateStep(a)
         \/ \E a \in Agents : \/ PromoteCheck(a) \/ PromoteMark(a) \/ PromoteRegister(a)
                             \/ Interrogate(a) \/ Evict(a) \/ Cancel(a)
         \/ (\E n \in StandingBounds : SetMaxStanding(n))
         \/ ShutdownBegin \/ ShutdownClear \/ UNCHANGED vars
<1>1. \A a \in Agents : (a \in standing) \in BOOLEAN
  OBVIOUS
<1> QED BY <1>1 DEF Next, LaunchStep, ClientStep, Finished

\* The facts the permits rest on hold in every reachable state.
THEOREM SlotInvariant == Spec => []SlotInv
<1>1. SlotInv /\ [Next]_vars => SlotInv'
  BY NextCases, LaunchKeepsInv, ThreadKeepsInv, LateKeepsInv, ClientKeepsInv
<1> QED BY SlotInit, <1>1, PTL DEF Spec

\* While no id has been relaunched ahead of its old on_exit(), none was before,
\* no such exit is under way and a restore meets only threads that are gone.
LEMMA Undisturbed ==
  ASSUME SlotInv, [Next]_vars, overtaken' = {}
  PROVE  /\ overtaken = {}
         /\ \A a \in Agents : ~LateStep(a)
         /\ \A a, b \in Agents : RestorePruned(a, b) => pc[a] = "gone"
<1>1. ASSUME NEW a \in Agents, LateStep(a) PROVE FALSE
  <2>1. a \in overtaken
    BY <1>1 DEF SlotInv, LateIsOvertaken, LateStep, LateMark, LatePass, LateStart, LateLeave
  <2>2. overtaken' = overtaken
    BY <1>1 DEF LateStep, LateMark, LatePass, LateStart, LateLeave
  <2> QED BY <2>1, <2>2
<1>2. ASSUME NEW a \in Agents, NEW b \in Agents, RestorePruned(a, b)
      PROVE  pc[a] = "gone" /\ overtaken = {}
  BY <1>2 DEF RestorePruned
<1>3. ASSUME NEW a \in Agents,
             \/ Restore(a) \/ RestoreClear(a) \/ RestoreDefer(a)
             \/ (\E s \in BOOLEAN : Launch(a, s))
             \/ (\E old \in Agents : LaunchJoin(a, old) \/ LateJoin(a, old))
             \/ LaunchRefused(a) \/ LaunchRegister(a) \/ LaunchAdmit(a)
      PROVE  overtaken = {}
  BY <1>3 DEF Restore, RestoreClear, RestoreDefer, Launch, LaunchJoin, LateJoin,
              LaunchRefused, LaunchRegister, LaunchAdmit
<1>4. ASSUME NEW a \in Agents, ThreadStep(a) PROVE overtaken = {}
  BY <1>4 DEF ThreadStep, TurnStep, Quiesce, Close, Reopen, StopRun, FailRun,
     WakeCancelled, WakeForWork, ResumeAbort, ThreadMove, Park, ResumeAcquire,
     ResumeDone, Leave, PassPermit, StartCarried, ExitMark, restUnchanged
<1>5. ASSUME \/ \E a \in Agents : \/ PromoteCheck(a) \/ PromoteMark(a)
                                   \/ PromoteRegister(a) \/ Interrogate(a)
                                   \/ Evict(a) \/ Cancel(a)
             \/ (\E n \in StandingBounds : SetMaxStanding(n))
             \/ ShutdownBegin \/ ShutdownClear \/ UNCHANGED vars
      PROVE  overtaken = {}
  BY <1>5 DEF PromoteCheck, PromoteMark, PromoteRegister, Interrogate, Evict, Cancel,
              SetMaxStanding, ShutdownBegin, ShutdownClear, vars
<1> QED BY NextCases, <1>1, <1>2, <1>3, <1>4, <1>5

-----------------------------------------------------------------------------
(* The refinement.                                                         *)

\* Initially every permit is free, and nobody holds one or waits.
LEMMA InitMaps == Init => Pool!PoolInit
BY DEF Init, Pool!PoolInit, Holders, HoldPc

\* A step that moves no permit and no queue is a stutter of the pool, and one
\* that only begins shutdown is its Stop.
LEMMA QuietMaps ==
  ASSUME UNCHANGED <<permits, pending>>, Holders' = Holders,
         (shutdown # "no")' = (shutdown # "no") \/ (shutdown # "no")' = TRUE
  PROVE  [Pool!PoolNext]_<<permits, Holders, pending, shutdown # "no">>
BY DEF Pool!PoolNext, Pool!Stop

\* Whatever the interleaving, a step of the supervisor takes, passes on or
\* returns one permit, joins the line, stops the pool, or does nothing to it.
LEMMA StepMaps ==
  ASSUME SlotInv, [Next]_vars, overtaken' = {}
  PROVE  [Pool!PoolNext]_<<permits, Holders, pending, shutdown # "no">>
<1> USE DEF Holders, HoldPc
<1>d. /\ overtaken = {} /\ \A a \in Agents : ~LateStep(a)
      /\ \A a, b \in Agents : RestorePruned(a, b) => pc[a] = "gone"
  BY Undisturbed
<1>t. pc \in [Agents -> PcValues] /\ permits \in Nat /\ pending \in Seq(Agents)
  BY DEF SlotInv, SlotTypeOK
<1>q. /\ \A i \in 1..Len(pending) : pc[pending[i]] = "queued"
      /\ \A i, j \in 1..Len(pending) : pending[i] = pending[j] => i = j
  BY DEF SlotInv, QueueOk
<1>1. ASSUME NEW a \in Agents,
             \/ Restore(a) \/ (\E b \in Agents : RestorePruned(a, b))
             \/ RestoreClear(a) \/ RestoreDefer(a) \/ (\E s \in BOOLEAN : Launch(a, s))
             \/ (\E old \in Agents : LaunchJoin(a, old) \/ LateJoin(a, old)) \/ LaunchRefused(a)
             \/ LaunchRegister(a)
      PROVE  UNCHANGED <<permits, pending, shutdown>> /\ Holders' = Holders
  BY <1>1, <1>t, <1>d DEF Restore, Revive, RestorePruned, RestoreClear, RestoreDefer, Maintained,
      LateJoin, Launch, LaunchJoin, LaunchRefused,
                    LaunchRegister, slotVars
<1>2. ASSUME NEW a \in Agents, LaunchAdmit(a)
      PROVE  Pool!Take(a) \/ Pool!Join(a)
  <2>1. a \notin Holders /\ ~Pool!InLine(a) /\ shutdown' = shutdown
    BY <1>2, <1>t, <1>q DEF LaunchAdmit, Pool!InLine
  <2>2. CASE permits > 0
    BY <1>2, <1>t, <2>1, <2>2 DEF LaunchAdmit, Pool!Take
  <2>3. CASE ~(permits > 0)
    BY <1>2, <1>t, <2>1, <2>3 DEF LaunchAdmit, Pool!Join
  <2> QED BY <2>2, <2>3
<1>3. ASSUME NEW a \in Agents, PassPermit(a)
      PROVE  Pool!Pass(a) \/ Pool!Return(a)
  <2>1. a \in Holders /\ shutdown' = shutdown
    BY <1>3, <1>t DEF PassPermit, restUnchanged
  <2>2. CASE pending = << >>
    <3>1. permits' = permits + 1 /\ pending' = pending
      BY <1>3, <2>2 DEF PassPermit
    <3>2. Holders' = Holders \ {a}
      BY <1>3, <1>t, <2>2 DEF PassPermit, AfterPass
    <3> QED BY <2>1, <2>2, <3>1, <3>2 DEF Pool!Return
  <2>3. CASE pending # << >>
    <3>1. Head(pending) \in Agents /\ pc[Head(pending)] = "queued"
      BY <1>t, <1>q, <2>3, TailFacts
    <3>2. permits' = permits /\ pending' = Tail(pending)
      BY <1>3, <2>3 DEF PassPermit
    <3>3. Holders' = (Holders \ {a}) \union {Head(pending)}
      BY <1>3, <1>t, <2>3, <3>1 DEF PassPermit
    <3> QED BY <2>1, <2>3, <3>2, <3>3 DEF Pool!Pass
  <2> QED BY <2>2, <2>3
<1>4. ASSUME NEW a \in Agents, StartCarried(a)
      PROVE  \/ UNCHANGED <<permits, pending, shutdown>> /\ Holders' = Holders
             \/ Pool!Return(carry[a])
  <2>1. carry[a] \in Agents /\ pc[carry[a]] = "handed" /\ carry[a] # a
    BY <1>4 DEF StartCarried, SlotInv, CarryOk, Passing
  <2>2. CASE carry[a] \in registered
    BY <1>4, <1>t, <2>1, <2>2 DEF StartCarried, AfterPass, restUnchanged
  <2>3. CASE carry[a] \notin registered
    <3>1. shutdown # "no" /\ shutdown' = shutdown
      BY <1>4, <2>1, <2>3 DEF StartCarried, restUnchanged, SlotInv, LiveIsRegistered
    <3>2. Holders' = Holders \ {carry[a]} /\ carry[a] \in Holders
      BY <1>4, <1>t, <2>1, <2>3 DEF StartCarried, AfterPass
    <3> QED BY <1>4, <2>3, <3>1, <3>2 DEF StartCarried, Pool!Return
  <2> QED BY <2>2, <2>3
<1>5. ASSUME NEW a \in Agents, ResumeAcquire(a)
      PROVE  Pool!Take(a)
  <2>1. a \notin Holders /\ ~Pool!InLine(a) /\ shutdown' = shutdown
    BY <1>5, <1>t, <1>q DEF ResumeAcquire, Pool!InLine, restUnchanged
  <2> QED BY <1>5, <1>t, <2>1 DEF ResumeAcquire, Pool!Take
<1>6. ASSUME NEW a \in Agents, ThreadStep(a),
             ~(PassPermit(a) \/ StartCarried(a) \/ ResumeAcquire(a))
      PROVE  UNCHANGED <<permits, pending, shutdown>> /\ Holders' = Holders
  <2>1. CASE \/ Quiesce(a) \/ Close(a) \/ Reopen(a) \/ StopRun(a) \/ FailRun(a)
             \/ WakeCancelled(a) \/ WakeForWork(a) \/ ResumeAbort(a)
    BY <2>1, <1>t DEF Quiesce, Close, Reopen, StopRun, FailRun, WakeCancelled,
                      WakeForWork, ResumeAbort, ThreadMove, restUnchanged
  <2>2. CASE Park(a)
    BY <2>2, <1>t, <1>d DEF Park, restUnchanged, SlotInv, MarkerFresh, ReleasedIsParked
  <2>3. CASE ResumeDone(a) \/ Leave(a)
    BY <2>3, <1>t DEF ResumeDone, Leave, restUnchanged
  <2>4. CASE ExitMark(a)
    BY <2>4, <1>t, <1>d DEF ExitMark, SlotInv, ReleasedIsParked
  <2> QED BY <1>6, <2>1, <2>2, <2>3, <2>4 DEF ThreadStep, TurnStep
<1>7. ASSUME \/ \E a \in Agents : \/ PromoteCheck(a) \/ PromoteMark(a)
                                   \/ PromoteRegister(a) \/ Interrogate(a)
                                   \/ Evict(a) \/ Cancel(a)
             \/ (\E n \in StandingBounds : SetMaxStanding(n))
             \/ ShutdownBegin \/ ShutdownClear \/ UNCHANGED vars
      PROVE  /\ UNCHANGED <<permits, pending>> /\ Holders' = Holders
             /\ (shutdown # "no")' = (shutdown # "no") \/ (shutdown # "no")' = TRUE
  BY <1>7 DEF PromoteCheck, PromoteMark, PromoteRegister, Interrogate, Evict, Cancel,
              SetMaxStanding, ShutdownBegin, ShutdownClear, vars, slotVars
<1> HIDE DEF Holders
<1>8. ASSUME UNCHANGED <<permits, pending, shutdown>>, Holders' = Holders
      PROVE  [Pool!PoolNext]_<<permits, Holders, pending, shutdown # "no">>
  BY <1>8
<1>9. CASE \E a \in Agents :
             \/ Restore(a) \/ (\E b \in Agents : RestorePruned(a, b))
             \/ RestoreClear(a) \/ RestoreDefer(a) \/ (\E s \in BOOLEAN : Launch(a, s))
             \/ (\E old \in Agents : LaunchJoin(a, old) \/ LateJoin(a, old)) \/ LaunchRefused(a)
             \/ LaunchRegister(a) \/ LaunchAdmit(a)
  BY <1>9, <1>1, <1>2, <1>8 DEF Pool!PoolNext
<1>10. CASE \E a \in Agents : ThreadStep(a)
  <2> PICK a \in Agents : ThreadStep(a)
    BY <1>10
  <2>1. CASE StartCarried(a)
    <3>1. carry[a] \in Agents
      BY <2>1 DEF StartCarried, SlotInv, CarryOk, Passing
    <3> QED BY <2>1, <3>1, <1>4, <1>8 DEF Pool!PoolNext
  <2> QED BY <2>1, <1>3, <1>5, <1>6, <1>8 DEF Pool!PoolNext
<1> QED BY NextCases, <1>d, <1>7, <1>9, <1>10, QuietMaps

\* The supervisor's permits are the pool of SlotPool, for every number of
\* agents and every limit, up to the first relaunch of a pruned worker ahead of
\* its old on_exit(): the run supervisor_recovery on all instances.
THEOREM ImplementsPool == Spec => PermitsArePool
<1>1. Init => Pool!PoolInit
  BY InitMaps
<1>2. SlotInv /\ [Next]_vars => [overtaken' = {} => [Pool!PoolNext]_Pool!poolVars]_vars
  BY StepMaps DEF Pool!poolVars
<1> QED BY <1>1, <1>2, SlotInvariant, PTL DEF Spec, PermitsArePool

-----------------------------------------------------------------------------
(* The pool never loses, makes or hoards a permit.  PoolInv is inductive:   *)
(* conservation needs LineOk, or a Pass to a worker that already holds      *)
(* would lose a permit, and the type of free follows from conservation.     *)

\* An instance has its own names for the operators of FiniteSets.
LEMMA PoolCounts == \A S : Pool!Cardinality(S) = Cardinality(S)
BY DEF Pool!Cardinality, Cardinality, Pool!IsFiniteSet, IsFiniteSet

\* Holder sets are finite, so their cardinalities can be compared.
LEMMA HoldersFinite == ASSUME Pool!PoolTypeOK
                       PROVE  IsFiniteSet(Holders) /\ Cardinality(Holders) \in Nat
BY FS_Subset, FS_CardinalityType DEF Pool!PoolTypeOK, Pool!PoolConstants

LEMMA PoolInitOk == Pool!PoolInit => Pool!PoolInv
<1> SUFFICES ASSUME Pool!PoolInit PROVE Pool!PoolInv
  OBVIOUS
<1>0. pending \in Seq(Agents) /\ Len(pending) = 0
  BY DEF Pool!PoolInit
<1>a. permits \in 0..Limit
  BY DEF Pool!PoolConstants, Pool!PoolInit
<1>b. Pool!LineOk
  BY <1>0 DEF Pool!LineOk
<1>1. Pool!PoolTypeOK /\ Pool!WorkConserving /\ Pool!LineOk
  BY <1>0, <1>a, <1>b DEF Pool!PoolInit, Pool!PoolTypeOK, Pool!WorkConserving
<1>2. Cardinality(Holders) = 0
  BY FS_EmptySet DEF Pool!PoolInit
<1> QED BY PoolCounts, <1>1, <1>2 DEF Pool!PoolConstants, Pool!PoolInit, Pool!PoolInv,
    Pool!Conservation

\* Every step of the pool preserves the invariant.
LEMMA PoolStepOk == Pool!PoolInv /\ [Pool!PoolNext]_Pool!poolVars => Pool!PoolInv'
<1> SUFFICES ASSUME Pool!PoolInv, [Pool!PoolNext]_Pool!poolVars PROVE Pool!PoolInv'
  OBVIOUS
<1> USE DEF Pool!PoolConstants, Pool!PoolInv, Pool!PoolTypeOK, Pool!WorkConserving,
            Pool!LineOk, Pool!InLine
<1>0. IsFiniteSet(Holders) /\ Cardinality(Holders) \in Nat
  BY HoldersFinite
<1>1. ASSUME NEW w \in Agents, Pool!Take(w) PROVE Pool!PoolInv'
  <2>1. Cardinality(Holders') = Cardinality(Holders) + 1
    BY <1>0, <1>1, FS_AddElement DEF Pool!Take
  <2>2. Pool!Conservation'
    BY PoolCounts, <1>1, <1>0, <2>1 DEF Pool!Take, Pool!Conservation
  <2> QED BY <1>1, <2>2 DEF Pool!Take
<1>2. ASSUME NEW w \in Agents, Pool!Join(w) PROVE Pool!PoolInv'
  <2>1. Pool!Conservation'
    BY PoolCounts, <1>2 DEF Pool!Join, Pool!Conservation
  <2>2. Pool!LineOk'
    BY <1>2 DEF Pool!Join
  <2> QED BY <1>2, <2>1, <2>2 DEF Pool!Join
<1>3. ASSUME NEW w \in Agents, Pool!Pass(w) PROVE Pool!PoolInv'
  <2>1. /\ Head(pending) \in Agents
        /\ Head(pending) = pending[1]
        /\ pending' \in Seq(Agents)
        /\ Len(pending') = Len(pending) - 1
        /\ \A i \in 1..Len(pending') : pending'[i] = pending[i + 1]
    BY <1>3 DEF Pool!Pass
  <2>2. Head(pending) \notin Holders
    BY <1>3, <2>1 DEF Pool!Pass
  <2>3. Cardinality(Holders \ {w}) = Cardinality(Holders) - 1
    BY <1>0, <1>3, FS_RemoveElement DEF Pool!Pass
  <2>4. Cardinality(Holders') = Cardinality(Holders \ {w}) + 1
    BY <1>0, <1>3, <2>2, FS_AddElement, FS_RemoveElement DEF Pool!Pass
  <2>5. Pool!Conservation'
    BY PoolCounts, <1>0, <1>3, <2>3, <2>4 DEF Pool!Pass, Pool!Conservation
  <2>6. Pool!LineOk'
    BY <1>3, <2>1 DEF Pool!Pass
  <2>7. Pool!PoolTypeOK'
    BY <1>3, <2>1 DEF Pool!Pass
  <2>8. Pool!WorkConserving'
    BY <1>3, <2>1 DEF Pool!Pass
  <2> QED BY <2>5, <2>6, <2>7, <2>8
<1>4. ASSUME NEW w \in Agents, Pool!Return(w) PROVE Pool!PoolInv'
  <2>1. Cardinality(Holders') = Cardinality(Holders) - 1
    BY <1>0, <1>4, FS_RemoveElement DEF Pool!Return
  <2>2. Cardinality(Holders) # 0
    BY <1>0, <1>4, FS_EmptySet DEF Pool!Return
  <2>3. Pool!Conservation' /\ permits' \in 0..Limit
    BY PoolCounts, <1>0, <1>4, <2>1, <2>2 DEF Pool!Return, Pool!Conservation
  <2> QED BY <1>4, <2>3 DEF Pool!Return
<1>5. CASE Pool!Stop
  BY PoolCounts, <1>5 DEF Pool!Stop, Pool!Conservation
<1>6. CASE UNCHANGED Pool!poolVars
  BY PoolCounts, <1>6 DEF Pool!poolVars, Pool!Conservation
<1> QED BY <1>1, <1>2, <1>3, <1>4, <1>5, <1>6 DEF Pool!PoolNext

\* The pool's invariant, with the supervisor's permits, holders and queue.
THEOREM PoolSafe == Pool!PoolSpec => []Pool!PoolInv
BY PoolInitOk, PoolStepOk, PTL DEF Pool!PoolSpec

\* ... which the supervisor keeps as far as it is the pool.
LEMMA PoolKept == Spec => [](overtaken = {} => Pool!PoolInv)
<1>1. Init => Pool!PoolInv
  BY InitMaps, PoolInitOk
<1>2. ASSUME SlotInv, overtaken = {} => Pool!PoolInv, [Next]_vars
      PROVE  (overtaken = {} => Pool!PoolInv)'
  <2> SUFFICES ASSUME overtaken' = {} PROVE Pool!PoolInv'
    OBVIOUS
  <2>1. Pool!PoolInv
    BY <1>2, Undisturbed
  <2>2. [Pool!PoolNext]_Pool!poolVars
    BY <1>2, StepMaps DEF Pool!poolVars
  <2> QED BY <2>1, <2>2, PoolStepOk
<1> QED BY <1>1, <1>2, SlotInvariant, PTL DEF Spec

\* DIS-1001 for every instance: no interleaving of promote, park, resume, exit
\* and shutdown loses a permit or makes one, unless a pruned worker has been
\* relaunched ahead of its old on_exit().
THEOREM PermitsConserved == Spec => []SlotConservation
<1>1. (overtaken = {} => Pool!PoolInv) => SlotConservation
  BY DEF Pool!PoolInv, SlotConservation
<1> QED BY <1>1, PoolKept, PTL

\* A released permit goes to the queue first (start_pending_or_release): until
\* shutdown nobody waits while a permit is free.
THEOREM QueueIsServed == Spec => [](overtaken = {} => Pool!WorkConserving)
<1>1. (overtaken = {} => Pool!PoolInv) => (overtaken = {} => Pool!WorkConserving)
  BY DEF Pool!PoolInv
<1> QED BY <1>1, PoolKept, PTL

\* max_concurrent is a bound on the agents at work in every instance.
THEOREM ParallelismBounded == Spec => []BoundedParallelism
<1>1. SlotInv /\ SlotConservation => BoundedParallelism
  <2> SUFFICES ASSUME SlotInv, SlotConservation, overtaken = {}
               PROVE  Cardinality({a \in Agents : pc[a] \in {"running", "closing"}}) <= Limit
    BY DEF BoundedParallelism
  <2> DEFINE Working == {a \in Agents : pc[a] \in {"running", "closing"}}
  <2>1. Working \subseteq Holders /\ IsFiniteSet(Holders)
    BY FS_Subset DEF Holders, HoldPc
  <2>2. Cardinality(Working) <= Cardinality(Holders) /\ Cardinality(Holders) \in Nat
    BY <2>1, FS_Subset, FS_CardinalityType
  <2>3. permits + Cardinality(Holders) = Limit /\ permits \in Nat
    BY DEF SlotConservation, Pool!Conservation, Pool!Cardinality, Cardinality,
           SlotInv, SlotTypeOK
  <2>4. Cardinality(Working) \in Nat
    BY <2>1, FS_Subset, FS_CardinalityType
  <2> QED BY <2>2, <2>3, <2>4
<1> QED BY <1>1, SlotInvariant, PermitsConserved, PTL

-----------------------------------------------------------------------------
(* The count of wait_all(): active is exactly the number of agents that     *)
(* have been admitted and have not left yet, whoever counts them off.       *)

Counted == {a \in Agents : pc[a] \in LivePc \union ExitPc}
Late == {a \in Agents : latePc[a] \in ExitPc}

CountOk == active = Cardinality(Counted) + Cardinality(Late)

LEMMA CountedFinite ==
  /\ IsFiniteSet(Counted) /\ IsFiniteSet(Late)
  /\ Cardinality(Counted) \in Nat /\ Cardinality(Late) \in Nat
  /\ Cardinality(Counted) = 0 <=> Counted = {}
  /\ Cardinality(Late) = 0 <=> Late = {}
BY FS_Subset, FS_CardinalityType, FS_EmptySet DEF Counted, Late

\* A step that neither admits an agent nor sees one out leaves the count alone.
LEMMA CountUnmoved ==
  ASSUME CountOk, Counted' = Counted, Late' = Late, active' = active
  PROVE  CountOk'
BY DEF CountOk

\* One more on both sides, and one less on both sides.
LEMMA CountMore ==
  ASSUME CountOk, NEW a \in Agents, a \notin Counted, Late' = Late,
         Counted' = Counted \union {a}, active' = active + 1
  PROVE  CountOk'
<1>1. Cardinality(Counted \union {a}) = Cardinality(Counted) + 1
  BY CountedFinite, FS_AddElement
<1> QED BY <1>1, CountedFinite DEF CountOk

LEMMA CountLess ==
  ASSUME CountOk, NEW a \in Counted, Late' = Late,
         Counted' = Counted \ {a}, active' = OneLess(active)
  PROVE  CountOk'
<1>1. Cardinality(Counted \ {a}) = Cardinality(Counted) - 1
  BY CountedFinite, FS_RemoveElement
<1>2. active > 0 /\ active \in Nat
  BY CountedFinite DEF CountOk
<1> QED BY <1>1, <1>2, CountedFinite DEF CountOk, OneLess

LEMMA CountLateLess ==
  ASSUME CountOk, NEW a \in Late, Counted' = Counted,
         Late' = Late \ {a}, active' = OneLess(active)
  PROVE  CountOk'
<1>1. Cardinality(Late \ {a}) = Cardinality(Late) - 1
  BY CountedFinite, FS_RemoveElement
<1>2. active > 0 /\ active \in Nat
  BY CountedFinite DEF CountOk
<1> QED BY <1>1, <1>2, CountedFinite DEF CountOk, OneLess

\* An agent relaunched ahead of its on_exit() is counted among the late ones.
LEMMA CountShift ==
  ASSUME CountOk, NEW a \in Counted, a \notin Late, Counted' = Counted \ {a},
         Late' = Late \union {a}, active' = active
  PROVE  CountOk'
<1>1. Cardinality(Counted \ {a}) = Cardinality(Counted) - 1
  BY CountedFinite, FS_RemoveElement
<1>2. Cardinality(Late \union {a}) = Cardinality(Late) + 1
  BY CountedFinite, FS_AddElement
<1> QED BY <1>1, <1>2, CountedFinite DEF CountOk

\* An agent is counted in its own registration, and counted off in its own
\* on_exit() or by the thread that finds it gone from the map.
LEMMA CountStep ==
  ASSUME SlotInv, CountOk, [Next]_vars
  PROVE  CountOk'
<1>t. pc \in [Agents -> PcValues] /\ latePc \in [Agents -> ExitPc \union {"none", "gone"}]
  BY DEF SlotInv, SlotTypeOK
<1>1. ASSUME NEW a \in Agents,
             \/ Restore(a) \/ RestoreClear(a) \/ RestoreDefer(a) \/ (\E s \in BOOLEAN : Launch(a, s))
             \/ (\E old \in Agents : LaunchJoin(a, old) \/ LateJoin(a, old)) \/ LaunchRefused(a)
             \/ LaunchRegister(a)
      PROVE  Counted' = Counted /\ Late' = Late /\ active' = active
  BY <1>1, <1>t DEF Counted, Late, restUnchanged, Restore, Revive, RestorePruned, RestoreClear,
      RestoreDefer, Maintained, LateJoin, Launch, LaunchJoin, LaunchRefused,
                    LaunchRegister, slotVars
<1>r. ASSUME NEW a \in Agents, NEW b \in Agents, RestorePruned(a, b)
      PROVE  \/ Counted' = Counted /\ Late' = Late /\ active' = active
             \/ /\ a \in Counted /\ a \notin Late /\ Counted' = Counted \ {a}
                /\ Late' = Late \union {a} /\ active' = active
  <2>1. /\ pc[a] \in ExitPc \union {"gone"} /\ latePc[a] = "none" /\ active' = active
        /\ pc' = [pc EXCEPT ![a] = "reviving"] /\ latePc' = [latePc EXCEPT ![a] = pc[a]]
    BY <1>r DEF RestorePruned, Revive
  <2>2. CASE pc[a] = "gone"
    BY <1>t, <2>1, <2>2 DEF Counted, Late
  <2>3. CASE pc[a] # "gone"
    BY <1>t, <2>1, <2>3 DEF Counted, Late
  <2> QED BY <2>2, <2>3
<1>2. ASSUME NEW a \in Agents, LaunchAdmit(a)
      PROVE  /\ a \notin Counted /\ Counted' = Counted \union {a}
             /\ Late' = Late /\ active' = active + 1
  BY <1>2, <1>t DEF Counted, Late, restUnchanged, LaunchAdmit
<1>3. ASSUME NEW a \in Agents, PassPermit(a)
      PROVE  Counted' = Counted /\ Late' = Late /\ active' = active
  <2>1. CASE pending = << >>
    BY <1>3, <1>t, <2>1 DEF Counted, Late, restUnchanged, PassPermit, AfterPass
  <2>2. CASE pending # << >>
    <3>1. Head(pending) \in Agents /\ pc[Head(pending)] = "queued"
      BY <2>2, TailFacts DEF SlotInv, SlotTypeOK, QueueOk
    <3> QED BY <1>3, <1>t, <2>2, <3>1 DEF Counted, Late, restUnchanged, PassPermit
  <2> QED BY <2>1, <2>2
<1>4. ASSUME NEW a \in Agents, StartCarried(a)
      PROVE  \/ Counted' = Counted /\ Late' = Late /\ active' = active
             \/ /\ carry[a] \in Counted /\ Late' = Late
                /\ Counted' = Counted \ {carry[a]}
                /\ active' = OneLess(active)
  <2>1. carry[a] \in Agents /\ pc[carry[a]] = "handed" /\ carry[a] # a
    BY <1>4 DEF StartCarried, SlotInv, CarryOk, Passing
  <2>2. CASE carry[a] \in registered
    BY <1>4, <1>t, <2>1, <2>2 DEF Counted, Late, restUnchanged, StartCarried, AfterPass
  <2>3. CASE carry[a] \notin registered
    BY <1>4, <1>t, <2>1, <2>3 DEF Counted, Late, restUnchanged, StartCarried, AfterPass
  <2> QED BY <2>2, <2>3
<1>5. ASSUME NEW a \in Agents, Leave(a)
      PROVE  /\ a \in Counted /\ Counted' = Counted \ {a}
             /\ Late' = Late /\ active' = OneLess(active)
  BY <1>5, <1>t DEF Counted, Late, restUnchanged, Leave
<1>6. ASSUME NEW a \in Agents, ThreadStep(a),
             ~(PassPermit(a) \/ StartCarried(a) \/ Leave(a))
      PROVE  Counted' = Counted /\ Late' = Late /\ active' = active
  <2>1. CASE \/ Quiesce(a) \/ Close(a) \/ Reopen(a) \/ StopRun(a) \/ FailRun(a)
             \/ WakeCancelled(a) \/ WakeForWork(a) \/ ResumeAbort(a)
    BY <2>1, <1>t DEF Counted, Late, restUnchanged, Quiesce, Close, Reopen, StopRun, FailRun,
        WakeCancelled,
                      WakeForWork, ResumeAbort, ThreadMove
  <2>2. CASE Park(a) \/ ResumeAcquire(a) \/ ResumeDone(a)
    BY <2>2, <1>t DEF Counted, Late, restUnchanged, Park, ResumeAcquire, ResumeDone
  <2>3. CASE ExitMark(a)
    BY <2>3, <1>t DEF Counted, Late, restUnchanged, ExitMark
  <2> QED BY <1>6, <2>1, <2>2, <2>3 DEF ThreadStep, TurnStep
<1>7. ASSUME \/ \E a \in Agents : \/ PromoteCheck(a) \/ PromoteMark(a)
                                   \/ PromoteRegister(a) \/ Interrogate(a)
                                   \/ Evict(a) \/ Cancel(a)
             \/ (\E n \in StandingBounds : SetMaxStanding(n))
             \/ ShutdownBegin \/ ShutdownClear \/ UNCHANGED vars
      PROVE  Counted' = Counted /\ Late' = Late /\ active' = active
  BY <1>7 DEF Counted, Late, restUnchanged, PromoteCheck, PromoteMark, PromoteRegister,
      Interrogate, Evict,
              Cancel, SetMaxStanding, ShutdownBegin, ShutdownClear, vars, slotVars
<1>8. CASE \E a \in Agents :
             \/ Restore(a) \/ (\E b \in Agents : RestorePruned(a, b))
             \/ RestoreClear(a) \/ RestoreDefer(a) \/ (\E s \in BOOLEAN : Launch(a, s))
             \/ (\E old \in Agents : LaunchJoin(a, old) \/ LateJoin(a, old)) \/ LaunchRefused(a)
             \/ LaunchRegister(a) \/ LaunchAdmit(a)
  BY <1>8, <1>1, <1>2, <1>r, CountMore, CountShift, CountUnmoved
<1>9. CASE \E a \in Agents : ThreadStep(a)
  <2> PICK a \in Agents : ThreadStep(a)
    BY <1>9
  <2>1. CASE StartCarried(a)
    BY <2>1, <1>4, CountLess, CountUnmoved
  <2>2. CASE Leave(a)
    BY <2>2, <1>5, CountLess
  <2>3. CASE ~(StartCarried(a) \/ Leave(a))
    BY <2>3, <1>3, <1>6, CountUnmoved
  <2> QED BY <2>1, <2>2, <2>3
<1>10. ASSUME NEW a \in Agents, LateStep(a) PROVE CountOk'
  <2>1. CASE LateMark(a)
    BY <1>t, <2>1, CountUnmoved DEF Counted, Late, LateMark, slotVars
  <2>2. CASE LatePass(a) /\ pending = << >>
    BY <1>t, <2>2, CountUnmoved DEF Counted, Late, LatePass
  <2>3. CASE LatePass(a) /\ pending # << >>
    <3>1. Head(pending) \in Agents /\ pc[Head(pending)] = "queued"
      BY <2>3, TailFacts DEF SlotInv, SlotTypeOK, QueueOk
    <3> QED BY <1>t, <2>3, <3>1, CountUnmoved DEF Counted, Late, LatePass
  <2>4. CASE LateStart(a)
    <3>1. lateCarry[a] \in Agents /\ pc[lateCarry[a]] = "handed"
      BY <2>4 DEF LateStart, SlotInv, CarryOk, LatePassing
    <3>2. Late' = Late
      BY <1>t, <2>4 DEF Late, LateStart
    <3>3. CASE lateCarry[a] \in registered
      BY <1>t, <2>4, <3>1, <3>2, <3>3, CountUnmoved DEF Counted, LateStart
    <3>4. CASE lateCarry[a] \notin registered
      <4>1. lateCarry[a] \in Counted /\ Counted' = Counted \ {lateCarry[a]}
        BY <1>t, <2>4, <3>1, <3>4 DEF Counted, LateStart
      <4>2. active' = OneLess(active)
        BY <2>4, <3>4 DEF LateStart
      <4> QED BY <3>2, <4>1, <4>2, CountLess
    <3> QED BY <3>3, <3>4
  <2>5. CASE LateLeave(a)
    <3>1. a \in Late /\ Late' = Late \ {a} /\ Counted' = Counted /\ active' = OneLess(active)
      BY <1>t, <2>5 DEF Counted, Late, LateLeave
    <3> QED BY <3>1, CountLateLess
  <2> QED BY <1>10, <2>1, <2>2, <2>3, <2>4, <2>5 DEF LateStep
<1> QED BY NextCases, <1>7, <1>8, <1>9, <1>10, CountUnmoved

\* wait_all() in every instance: while active is zero no thread of an agent
\* is before its last step, whatever shutdown and the restores do.
THEOREM WaitAllReturnsLast == Spec => []WaitAllSound
<1>1. Init => CountOk
  <2> SUFFICES ASSUME Init PROVE CountOk
    OBVIOUS
  <2>1. Counted = {} /\ Late = {} /\ active = 0
    BY DEF Init, Counted, Late
  <2> QED BY <2>1, FS_EmptySet DEF CountOk
<1>2. SlotInv /\ CountOk /\ [Next]_vars => CountOk'
  BY CountStep
<1>3. CountOk => WaitAllSound
  BY CountedFinite DEF CountOk, WaitAllSound, Counted, Late
<1> QED BY <1>1, <1>2, <1>3, SlotInvariant, PTL DEF Spec

-----------------------------------------------------------------------------
(* Positions of a sequence, counted from either end.                        *)

\* A part of a finite set that misses an element is smaller.
LEMMA PartIsSmaller ==
  ASSUME NEW S, IsFiniteSet(S), NEW T \in SUBSET S, NEW x \in S, x \notin T
  PROVE  /\ Cardinality(T) \in Nat /\ Cardinality(S) \in Nat
         /\ Cardinality(T) < Cardinality(S)
<1>1. IsFiniteSet(T) /\ Cardinality(T) <= Cardinality(S) /\ Cardinality(T) # Cardinality(S)
  BY FS_Subset
<1>2. Cardinality(T) \in Nat /\ Cardinality(S) \in Nat
  BY <1>1, FS_CardinalityType
<1> QED BY <1>1, <1>2

LEMMA IntervalSize ==
  ASSUME NEW n \in Nat
  PROVE  IsFiniteSet(1..n) /\ Cardinality(1..n) = n
<1>1. /\ IsFiniteSet(1..n)
      /\ Cardinality(1..n) = IF 1 > n THEN 0 ELSE n - 1 + 1
  BY FS_Interval
<1>2. (IF 1 > n THEN 0 ELSE n - 1 + 1) = n
  OBVIOUS
<1> QED BY <1>1, <1>2

\* Different ranks below the size of a set are all taken.
LEMMA RanksAreTaken ==
  ASSUME NEW K, IsFiniteSet(K), NEW rank \in [K -> 1..Cardinality(K)],
         \A k, l \in K : rank[k] = rank[l] => k = l
  PROVE  \A n \in 1..Cardinality(K) : \E k \in K : rank[k] = n
<1>1. Cardinality(K) \in Nat
  BY FS_CardinalityType
<1>2. IsFiniteSet(1..Cardinality(K)) /\ Cardinality(1..Cardinality(K)) = Cardinality(K)
  BY <1>1, IntervalSize
<1>3. rank \in Injection(K, 1..Cardinality(K))
  BY DEF Injection, IsInjective
<1>4. rank \in Surjection(K, 1..Cardinality(K))
  BY <1>2, <1>3, FS_Injection
<1> QED BY <1>4 DEF Surjection

\* How many elements of K come up to k, and from k on.
UpTo(K, k) == Cardinality({j \in K : j <= k})
From(K, k) == Cardinality({j \in K : j >= k})

LEMMA UpToRanks ==
  ASSUME NEW K \in SUBSET Int, IsFiniteSet(K)
  PROVE  /\ \A k \in K : UpTo(K, k) \in 1..Cardinality(K)
         /\ \A k, l \in K : UpTo(K, k) = UpTo(K, l) => k = l
         /\ \A n \in 1..Cardinality(K) : \E k \in K : UpTo(K, k) = n
<1>1. ASSUME NEW k \in K PROVE UpTo(K, k) \in 1..Cardinality(K)
  <2> DEFINE T == {j \in K : j <= k}
  <2>1. IsFiniteSet(T) /\ Cardinality(T) <= Cardinality(K) /\ k \in T
    BY FS_Subset
  <2>2. Cardinality(T) \in Nat /\ Cardinality(K) \in Nat /\ Cardinality(T) # 0
    BY <2>1, FS_CardinalityType, FS_EmptySet
  <2> QED BY <2>1, <2>2 DEF UpTo
<1>2. ASSUME NEW k \in K, NEW l \in K, k < l PROVE UpTo(K, k) < UpTo(K, l)
  <2> DEFINE S == {j \in K : j <= l}
             T == {j \in K : j <= k}
  <2>1. IsFiniteSet(S)
    BY FS_Subset
  <2>2. k \in Int /\ l \in Int /\ \A j \in K : j \in Int
    OBVIOUS
  <2>3. ASSUME NEW j \in K, j <= k PROVE j <= l
    <3>1. j \in Int
      BY <2>2
    <3> HIDE DEF S, T
    <3> QED BY <1>2, <2>2, <2>3, <3>1
  <2>4. l \in S /\ l \notin T
    BY <1>2, <2>2
  <2>t. T \in SUBSET S
    BY <2>3
  <2> HIDE DEF S, T
  <2>5. Cardinality(T) < Cardinality(S)
    BY <2>1, <2>4, <2>t, PartIsSmaller
  <2> QED BY <2>5 DEF UpTo, S, T
<1>3. ASSUME NEW k \in K, NEW l \in K, UpTo(K, k) = UpTo(K, l) PROVE k = l
  <2>1. Cardinality(K) \in Nat
    BY FS_CardinalityType
  <2> QED BY <1>1, <1>2, <1>3, <2>1
<1> DEFINE rank == [k \in K |-> UpTo(K, k)]
<1>4. rank \in [K -> 1..Cardinality(K)] /\ \A k, l \in K : rank[k] = rank[l] => k = l
  BY <1>1, <1>3
<1>5. \A k \in K : rank[k] = UpTo(K, k)
  OBVIOUS
<1> HIDE DEF rank
<1>6. \A n \in 1..Cardinality(K) : \E k \in K : rank[k] = n
  BY <1>4, RanksAreTaken
<1> QED BY <1>1, <1>3, <1>5, <1>6

LEMMA FromRanks ==
  ASSUME NEW K \in SUBSET Int, IsFiniteSet(K)
  PROVE  /\ \A k \in K : From(K, k) \in 1..Cardinality(K)
         /\ \A k, l \in K : From(K, k) = From(K, l) => k = l
         /\ \A n \in 1..Cardinality(K) : \E k \in K : From(K, k) = n
<1>1. ASSUME NEW k \in K PROVE From(K, k) \in 1..Cardinality(K)
  <2> DEFINE T == {j \in K : j >= k}
  <2>1. IsFiniteSet(T) /\ Cardinality(T) <= Cardinality(K) /\ k \in T
    BY FS_Subset
  <2>2. Cardinality(T) \in Nat /\ Cardinality(K) \in Nat /\ Cardinality(T) # 0
    BY <2>1, FS_CardinalityType, FS_EmptySet
  <2> QED BY <2>1, <2>2 DEF From
<1>2. ASSUME NEW k \in K, NEW l \in K, k < l PROVE From(K, l) < From(K, k)
  <2> DEFINE S == {j \in K : j >= k}
             T == {j \in K : j >= l}
  <2>1. IsFiniteSet(S)
    BY FS_Subset
  <2>2. k \in Int /\ l \in Int /\ \A j \in K : j \in Int
    OBVIOUS
  <2>3. ASSUME NEW j \in K, j >= l PROVE j >= k
    <3>1. j \in Int
      BY <2>2
    <3> HIDE DEF S, T
    <3> QED BY <1>2, <2>2, <2>3, <3>1
  <2>4. k \in S /\ k \notin T
    BY <1>2, <2>2
  <2>t. T \in SUBSET S
    BY <2>3
  <2> HIDE DEF S, T
  <2>5. Cardinality(T) < Cardinality(S)
    BY <2>1, <2>4, <2>t, PartIsSmaller
  <2> QED BY <2>5 DEF From, S, T
<1>3. ASSUME NEW k \in K, NEW l \in K, From(K, k) = From(K, l) PROVE k = l
  <2>1. Cardinality(K) \in Nat
    BY FS_CardinalityType
  <2> QED BY <1>1, <1>2, <1>3, <2>1
<1> DEFINE rank == [k \in K |-> From(K, k)]
<1>4. rank \in [K -> 1..Cardinality(K)] /\ \A k, l \in K : rank[k] = rank[l] => k = l
  BY <1>1, <1>3
<1>5. \A k \in K : rank[k] = From(K, k)
  OBVIOUS
<1> HIDE DEF rank
<1>6. \A n \in 1..Cardinality(K) : \E k \in K : rank[k] = n
  BY <1>4, RanksAreTaken
<1> QED BY <1>1, <1>3, <1>5, <1>6

\* The positions erasing S leaves.
LEMMA OutsideFinite ==
  ASSUME NEW A, NEW s \in Seq(A), NEW S
  PROVE  /\ Len(s) \in Nat
         /\ IsFiniteSet(1..Len(s)) /\ Cardinality(1..Len(s)) = Len(s)
         /\ Outside(s, S) \subseteq 1..Len(s)
         /\ Outside(s, S) \in SUBSET Int
         /\ IsFiniteSet(Outside(s, S))
         /\ Cardinality(Outside(s, S)) \in Nat
         /\ Cardinality(Outside(s, S)) <= Len(s)
<1>1. Len(s) \in Nat
  OBVIOUS
<1>2. IsFiniteSet(1..Len(s)) /\ Cardinality(1..Len(s)) = Len(s)
  BY <1>1, IntervalSize
<1>3. Outside(s, S) \subseteq 1..Len(s) /\ Outside(s, S) \in SUBSET Int
  BY DEF Outside
<1>4. IsFiniteSet(Outside(s, S)) /\ Cardinality(Outside(s, S)) <= Len(s)
  BY <1>2, <1>3, FS_Subset
<1> QED BY <1>1, <1>2, <1>3, <1>4, FS_CardinalityType

Distinct(s) == \A i, j \in 1..Len(s) : s[i] = s[j] => i = j

Lists(s, x) == \E i \in 1..Len(s) : s[i] = x

\* Erasing a set from a sequence leaves the other entries, each as often.
LEMMA WithoutFacts ==
  ASSUME NEW A, NEW s \in Seq(A), NEW S
  PROVE  /\ Without(s, S) \in Seq(A)
         /\ Len(Without(s, S)) = Cardinality(Outside(s, S))
         /\ \A x : Lists(Without(s, S), x) <=> Lists(s, x) /\ x \notin S
         /\ Distinct(s) => Distinct(Without(s, S))
<1> DEFINE keep == Outside(s, S)
           at(n) == CHOOSE k \in keep : UpTo(keep, k) = n
           t == Without(s, S)
<1>0. /\ keep \in SUBSET Int /\ IsFiniteSet(keep) /\ keep \subseteq 1..Len(s)
      /\ Cardinality(keep) \in Nat
      /\ \A k \in keep : s[k] \in A /\ s[k] \notin S
      /\ \A k \in 1..Len(s) : s[k] \notin S => k \in keep
  <2>1. \A k \in keep : s[k] \in A /\ s[k] \notin S
    BY DEF Outside
  <2>2. \A k \in 1..Len(s) : s[k] \notin S => k \in keep
    BY DEF Outside
  <2> QED BY <2>1, <2>2, OutsideFinite
<1>1. t = [n \in 1..Cardinality(keep) |-> s[at(n)]]
  BY DEF Without, UpTo
<1> HIDE DEF keep, t
<1>2. \A n \in 1..Cardinality(keep) : at(n) \in keep /\ UpTo(keep, at(n)) = n
  <2> SUFFICES ASSUME NEW n \in 1..Cardinality(keep)
               PROVE  at(n) \in keep /\ UpTo(keep, at(n)) = n
    OBVIOUS
  <2>1. \E k \in keep : UpTo(keep, k) = n
    BY <1>0, UpToRanks
  <2> QED BY <2>1
<1>3. \A k \in keep : UpTo(keep, k) \in 1..Cardinality(keep) /\ at(UpTo(keep, k)) = k
  <2> SUFFICES ASSUME NEW k \in keep
               PROVE  UpTo(keep, k) \in 1..Cardinality(keep) /\ at(UpTo(keep, k)) = k
    OBVIOUS
  <2>1. UpTo(keep, k) \in 1..Cardinality(keep)
    BY <1>0, UpToRanks
  <2>2. at(UpTo(keep, k)) \in keep /\ UpTo(keep, at(UpTo(keep, k))) = UpTo(keep, k)
    BY <1>2, <2>1
  <2> QED BY <1>0, <2>1, <2>2, UpToRanks
<1> HIDE DEF at
<1>4. /\ t \in Seq(A) /\ Len(t) = Cardinality(keep)
      /\ \A n \in 1..Cardinality(keep) : t[n] = s[at(n)]
  <2>1. \A n \in 1..Cardinality(keep) : s[at(n)] \in A
    BY <1>0, <1>2
  <2> QED BY <1>0, <1>1, <2>1
<1>5. ASSUME NEW x PROVE Lists(t, x) <=> Lists(s, x) /\ x \notin S
  <2>1. ASSUME Lists(t, x) PROVE Lists(s, x) /\ x \notin S
    BY <1>0, <1>2, <1>4, <2>1 DEF Lists
  <2>2. ASSUME Lists(s, x), x \notin S PROVE Lists(t, x)
    BY <1>0, <1>3, <1>4, <2>2 DEF Lists
  <2> QED BY <2>1, <2>2
<1>6. ASSUME Distinct(s) PROVE Distinct(t)
  <2> SUFFICES ASSUME NEW i \in 1..Len(t), NEW j \in 1..Len(t), t[i] = t[j]
               PROVE  i = j
    BY DEF Distinct
  <2>1. at(i) \in 1..Len(s) /\ at(j) \in 1..Len(s) /\ s[at(i)] = s[at(j)]
    BY <1>0, <1>2, <1>4
  <2>2. at(i) = at(j)
    BY <1>6, <2>1 DEF Distinct
  <2>3. UpTo(keep, at(i)) = i /\ UpTo(keep, at(j)) = j
    BY <1>2, <1>4
  <2> QED BY <2>2, <2>3
<1> QED BY <1>4, <1>5, <1>6 DEF keep, t

\* The coldest entries of a pool without repetition are the last ones that
\* are not pinned: taking out the overflow brings any such pool in bounds that
\* the pinned entries alone do not exceed.
LEMMA ColdestFits ==
  ASSUME NEW A, NEW s \in Seq(A), Distinct(s),
         NEW pins, IsFiniteSet(pins),
         NEW bound \in Nat, Cardinality(pins) <= bound,
         NEW n \in Int, Len(s) - bound <= n
  PROVE  Len(Without(s, Coldest(s, pins, n))) <= bound
<1> DEFINE open == Outside(s, pins)
           cold == {k \in open : From(open, k) <= n}
           rest == Outside(s, Coldest(s, pins, n))
           D == 1..Len(s)
<1>0. /\ Len(s) \in Nat /\ IsFiniteSet(D) /\ Cardinality(D) = Len(s)
      /\ open \subseteq D /\ open \in SUBSET Int /\ IsFiniteSet(open)
      /\ Cardinality(open) \in Nat
  BY OutsideFinite
<1>1. /\ rest \subseteq D /\ Cardinality(rest) \in Nat /\ Cardinality(rest) <= Len(s)
      /\ Len(Without(s, Coldest(s, pins, n))) = Cardinality(rest)
  BY OutsideFinite, WithoutFacts
<1>2. CASE Len(s) <= bound
  BY <1>0, <1>1, <1>2
<1>3. CASE Len(s) > bound
  <2> DEFINE m == Len(s) - bound
             pick == [i \in 1..m |-> CHOOSE k \in open : From(open, k) = i]
  <2>a. m \in Nat /\ m <= n /\ ~(1 > m)
    BY <1>0, <1>3
  <2>b. IsFiniteSet(1..m) /\ Cardinality(1..m) = m
    <3> HIDE DEF m
    <3> QED BY <2>a, IntervalSize
  <2>0. m \in Nat /\ m <= n /\ IsFiniteSet(1..m) /\ Cardinality(1..m) = m
    BY <2>a, <2>b
  <2>1. rest = D \ cold
    <3>1. Coldest(s, pins, n) = {s[k] : k \in cold}
      BY DEF Coldest, From
    <3>2. \A k \in D : s[k] \in {s[i] : i \in cold} <=> k \in cold
      BY <1>0 DEF Distinct
    <3> HIDE DEF cold
    <3> QED BY <3>1, <3>2 DEF Outside
  <2>2. Cardinality(open) >= m
    <3> DEFINE shut == D \ open
               f == [k \in shut |-> s[k]]
    <3>1. f \in Injection(shut, pins)
      <4>1. \A k \in shut : s[k] \in pins
        BY DEF Outside
      <4>2. f \in [shut -> pins]
        BY <4>1
      <4>3. \A k, l \in shut : f[k] = f[l] => k = l
        BY DEF Distinct
      <4> QED BY <4>2, <4>3 DEF Injection, IsInjective
    <3>2. IsFiniteSet(shut) /\ Cardinality(shut) <= Cardinality(pins)
      BY <3>1, FS_Injection
    <3>3. Cardinality(shut) \in Nat /\ Cardinality(pins) \in Nat
      BY <3>2, FS_CardinalityType
    <3>4. D \cap open = open
      BY <1>0
    <3> HIDE DEF D, open
    <3>5. Cardinality(D \ open) = Cardinality(D) - Cardinality(D \cap open)
      BY <1>0, FS_Difference
    <3>6. Cardinality(shut) = Cardinality(D) - Cardinality(open)
      BY <3>4, <3>5
    <3> HIDE DEF shut
    <3> QED BY <1>0, <3>2, <3>3, <3>6
  <2>3. \A i \in 1..m : pick[i] \in open /\ From(open, pick[i]) = i
    <3> SUFFICES ASSUME NEW i \in 1..m PROVE pick[i] \in open /\ From(open, pick[i]) = i
      OBVIOUS
    <3>1. i \in 1..Cardinality(open)
      BY <1>0, <2>0, <2>2
    <3>2. \E k \in open : From(open, k) = i
      BY <1>0, <3>1, FromRanks
    <3> QED BY <3>2
  <2>4. pick \in Injection(1..m, cold)
    <3>1. \A i \in 1..m : pick[i] \in cold
      BY <2>0, <2>3
    <3>2. \A i, j \in 1..m : pick[i] = pick[j] => i = j
      BY <2>3
    <3> QED BY <3>1, <3>2 DEF Injection, IsInjective
  <2>5. cold \subseteq D /\ IsFiniteSet(cold) /\ Cardinality(cold) \in Nat
    BY <1>0, FS_Subset, FS_CardinalityType
  <2> HIDE DEF cold, pick, D, rest
  <2>6. m <= Cardinality(cold)
    BY <2>0, <2>4, <2>5, FS_Injection
  <2>7. D \cap cold = cold
    BY <2>5
  <2>8. Cardinality(D \ cold) = Cardinality(D) - Cardinality(D \cap cold)
    BY <1>0, FS_Difference
  <2>9. Cardinality(rest) = Len(s) - Cardinality(cold)
    BY <1>0, <2>1, <2>7, <2>8
  <2> QED BY <1>0, <1>1, <2>5, <2>6, <2>9
<1> QED BY <1>0, <1>2, <1>3

-----------------------------------------------------------------------------
(* What each operation does to a pool without repetition.                   *)

LEMMA FrontFacts ==
  ASSUME NEW A, NEW s \in Seq(A), NEW a \in A
  PROVE  /\ <<a>> \o s \in Seq(A)
         /\ Len(<<a>> \o s) = Len(s) + 1
         /\ \A x : Lists(<<a>> \o s, x) <=> x = a \/ Lists(s, x)
         /\ Distinct(s) /\ ~Lists(s, a) => Distinct(<<a>> \o s)
<1> DEFINE t == <<a>> \o s
<1>1. /\ t \in Seq(A) /\ Len(s) \in Nat /\ Len(t) = Len(s) + 1
      /\ t[1] = a /\ \A i \in 1..Len(s) : t[i + 1] = s[i]
  OBVIOUS
<1> HIDE DEF t
<1>2. \A i \in 1..Len(t) : i = 1 \/ (i - 1 \in 1..Len(s) /\ t[i] = s[i - 1])
  <2> SUFFICES ASSUME NEW i \in 1..Len(t), i # 1
               PROVE  i - 1 \in 1..Len(s) /\ t[i] = s[i - 1]
    OBVIOUS
  <2>1. i - 1 \in 1..Len(s) /\ (i - 1) + 1 = i
    BY <1>1
  <2>2. t[(i - 1) + 1] = s[i - 1]
    BY <1>1, <2>1
  <2> QED BY <2>1, <2>2
<1>3. 1 \in 1..Len(t) /\ \A i \in 1..Len(s) : i + 1 \in 1..Len(t)
  BY <1>1
<1>4. ASSUME NEW x PROVE Lists(t, x) <=> x = a \/ Lists(s, x)
  <2>1. ASSUME Lists(t, x) PROVE x = a \/ Lists(s, x)
    BY <1>1, <1>2, <2>1 DEF Lists
  <2>2. ASSUME x = a PROVE Lists(t, x)
    BY <1>1, <1>3, <2>2 DEF Lists
  <2>3. ASSUME Lists(s, x) PROVE Lists(t, x)
    <3>1. PICK i \in 1..Len(s) : s[i] = x
      BY <2>3 DEF Lists
    <3>2. i + 1 \in 1..Len(t) /\ t[i + 1] = x
      BY <1>1, <1>3, <3>1
    <3> QED BY <3>2 DEF Lists
  <2> QED BY <2>1, <2>2, <2>3
<1>5. ASSUME Distinct(s), ~Lists(s, a) PROVE Distinct(t)
  <2> SUFFICES ASSUME NEW i \in 1..Len(t), NEW j \in 1..Len(t), t[i] = t[j]
               PROVE  i = j
    BY DEF Distinct
  <2>1. CASE i = 1 /\ j = 1
    BY <2>1
  <2>2. CASE i = 1 /\ j # 1
    BY <1>1, <1>2, <1>5, <2>2 DEF Lists
  <2>3. CASE i # 1 /\ j = 1
    BY <1>1, <1>2, <1>5, <2>3 DEF Lists
  <2>4. CASE i # 1 /\ j # 1
    <3>1. i - 1 = j - 1
      BY <1>2, <1>5, <2>4 DEF Distinct
    <3> QED BY <3>1
  <2> QED BY <2>1, <2>2, <2>3, <2>4
<1> QED BY <1>1, <1>4, <1>5 DEF t

\* Everybody chosen for eviction is in the pool and not pinned.
LEMMA ColdestFacts ==
  ASSUME NEW A, NEW s \in Seq(A), NEW pins, NEW n, NEW x \in Coldest(s, pins, n)
  PROVE  Lists(s, x) /\ x \notin pins /\ x \in A
<1>1. PICK k \in Outside(s, pins) : x = s[k]
  BY DEF Coldest
<1>2. k \in 1..Len(s) /\ s[k] \notin pins
  BY DEF Outside
<1>3. s[k] \in A
  BY <1>2
<1> QED BY <1>1, <1>2, <1>3 DEF Lists

\* Registering a newcomer and pushing the overflow out.
LEMMA PoolRegister ==
  ASSUME NEW s \in Seq(Agents), Distinct(s), NEW a \in Agents, ~Lists(s, a),
         NEW pins, IsFiniteSet(pins),
         NEW bound \in Nat, Cardinality(pins) <= bound, Len(s) <= bound,
         NEW over, over = Overflow(<<a>> \o s, pins, bound),
         NEW t, t = Without(<<a>> \o s, over)
  PROVE  /\ t \in Seq(Agents) /\ Distinct(t) /\ Len(t) <= bound
         /\ \A x : Lists(t, x) => x = a \/ Lists(s, x)
         /\ \A x \in over : x \in Agents \ pins /\ (x = a \/ Lists(s, x))
<1> DEFINE u == <<a>> \o s
<1>1. /\ u \in Seq(Agents) /\ Len(u) = Len(s) + 1 /\ Len(s) \in Nat /\ Distinct(u)
      /\ \A x : Lists(u, x) <=> x = a \/ Lists(s, x)
  BY FrontFacts
<1>t. t = Without(u, over) /\ over = Overflow(u, pins, bound)
  OBVIOUS
<1> HIDE DEF u
<1>2. /\ t \in Seq(Agents) /\ Distinct(t)
      /\ Len(t) = Cardinality(Outside(u, over))
      /\ \A x : Lists(t, x) <=> Lists(u, x) /\ x \notin over
  <2>1. /\ Without(u, over) \in Seq(Agents) /\ Distinct(Without(u, over))
        /\ Len(Without(u, over)) = Cardinality(Outside(u, over))
        /\ \A x : Lists(Without(u, over), x) <=> Lists(u, x) /\ x \notin over
    BY <1>1, WithoutFacts
  <2> QED BY <1>t, <2>1
<1>3. CASE Len(u) > bound
  <2>1. over = Coldest(u, pins, 1)
    BY <1>t, <1>3 DEF Overflow
  <2>2. Len(u) - bound <= 1 /\ 1 \in Int
    BY <1>1
  <2>3. Len(Without(u, Coldest(u, pins, 1))) <= bound
    BY <1>1, <2>2, ColdestFits
  <2>4. \A x \in over : x \in Agents \ pins /\ Lists(u, x)
    BY <1>1, <2>1, ColdestFacts
  <2> QED BY <1>t, <1>1, <1>2, <2>1, <2>3, <2>4
<1>4. CASE ~(Len(u) > bound)
  <2>1. over = {}
    BY <1>t, <1>4 DEF Overflow
  <2>2. Len(t) \in Nat /\ Len(t) <= Len(u)
    BY <1>1, <1>2, OutsideFinite
  <2> QED BY <1>1, <1>2, <1>4, <2>1, <2>2
<1> QED BY <1>3, <1>4

\* Taking agents out leaves the others and no more.
LEMMA PoolRemove ==
  ASSUME NEW s \in Seq(Agents), Distinct(s), NEW S,
         NEW t, t = Without(s, S)
  PROVE  /\ t \in Seq(Agents) /\ Distinct(t)
         /\ Len(t) <= Len(s) /\ Len(t) \in Nat /\ Len(s) \in Nat
         /\ \A x : Lists(t, x) <=> Lists(s, x) /\ x \notin S
BY WithoutFacts, OutsideFinite

\* A member moved to the front.
LEMMA PoolRefresh ==
  ASSUME NEW s \in Seq(Agents), Distinct(s), NEW a \in Agents, Lists(s, a),
         NEW t, t = <<a>> \o Without(s, {a})
  PROVE  /\ t \in Seq(Agents) /\ Distinct(t) /\ Len(t) <= Len(s)
         /\ \A x : Lists(t, x) => Lists(s, x)
<1> DEFINE u == Without(s, {a})
<1>1. /\ u \in Seq(Agents) /\ Distinct(u) /\ Len(u) \in Nat /\ Len(s) \in Nat
      /\ \A x : Lists(u, x) <=> Lists(s, x) /\ x # a
      /\ Len(u) = Cardinality(Outside(s, {a}))
  BY WithoutFacts, PoolRemove
<1>2. PICK i \in 1..Len(s) : s[i] = a
  BY DEF Lists
<1>3. i \notin Outside(s, {a})
  BY <1>2 DEF Outside
<1>4. /\ IsFiniteSet(1..Len(s)) /\ Cardinality(1..Len(s)) = Len(s)
      /\ Outside(s, {a}) \in SUBSET (1..Len(s))
  BY OutsideFinite
<1>5. Cardinality(Outside(s, {a})) < Cardinality(1..Len(s))
  BY <1>2, <1>3, <1>4, PartIsSmaller
<1>6. Len(u) < Len(s) /\ Len(u) \in Nat /\ Len(s) \in Nat
  BY <1>1, <1>4, <1>5
<1> HIDE DEF u
<1>7. /\ <<a>> \o u \in Seq(Agents) /\ Len(<<a>> \o u) = Len(u) + 1
      /\ Distinct(<<a>> \o u)
      /\ \A x : Lists(<<a>> \o u, x) <=> x = a \/ Lists(u, x)
  BY <1>1, FrontFacts
<1>8. Len(u) + 1 <= Len(s)
  BY <1>6
<1> QED BY <1>1, <1>7, <1>8 DEF u

-----------------------------------------------------------------------------
(* The standing pool.  A stale entry needs a promote() whose agent exits    *)
(* and whose exit marker is then forgotten, by a restore or by a prune:     *)
(* without promotions, or without restores, an id is in the pool at most    *)
(* once; without promotions, or when in addition nothing is pruned, only    *)
(* agents whose exit is still to come are in it.                            *)

OneWayIn == Promotable = {} \/ Restorable = {}
NeverForgotten == Promotable = {} \/ Retained >= Cardinality(Agents)

\* Before its registration, until its on_exit(), and from its admission on.
Before == {"new", "reviving", "cleared", "joining"}
Attended == LivePc \union {"registering", "ending", "endingParked"}
After == LivePc \union ExitPc \union {"gone"}

Revived(x) == Restore(x) \/ \E b \in Agents : RestorePruned(x, b)

\* A launch finds no trace of its agent in the pool or in a promote().
Unborn ==
  \A a \in Agents :
    /\ pc[a] \in {"reviving", "cleared"} => a \in Restorable
    /\ pc[a] \in Before => promo[a] = "idle" /\ ~Lists(lru, a)
    /\ promo[a] # "idle" => a \in Promotable /\ pc[a] \in After

\* The pool is within its bound, and so are the pinned workers alone.
Fits == /\ lru \in Seq(Agents) /\ pinned \subseteq Agents /\ maxStanding \in Nat
        /\ Cardinality(pinned) <= maxStanding
        /\ Distinct(lru) /\ Len(lru) <= maxStanding

\* While nothing is forgotten, a promote() in flight finds the exit marker of
\* an agent that is past on_exit(), and a managed worker that is or may come
\* to be in the pool is pinned.
NothingPruned == Promotable # {} =>
  \A a \in Agents : retiring[a] = {} /\ latePc[a] = "none"
Marked == \A a \in Agents :
  shutdown # "cleared" /\ promo[a] # "idle" /\ a \notin exited => pc[a] \in Attended
Pinned == \A a \in Continuous :
  /\ pc[a] = "joining" => a \in standing
  /\ \/ Lists(lru, a)
     \/ promo[a] # "idle" /\ a \notin exited
     \/ pc[a] \in Attended
     => a \in pinned
Listed == \A a \in Agents : shutdown # "cleared" /\ Lists(lru, a) => pc[a] \in Attended

Fresh == NothingPruned /\ Marked /\ Pinned /\ Listed /\ PinnedStay

StandingInv == Unborn /\ Fits /\ (NeverForgotten => Fresh)

\* How a step moves any one agent.
LEMMA PcMoves ==
  ASSUME SlotInv, [Next]_vars, overtaken' = {}, NEW x \in Agents
  PROVE  /\ pc[x] \in After => pc'[x] \in After \/ Revived(x)
         /\ pc'[x] \in Before => pc[x] \in Before \/ Revived(x)
         /\ pc'[x] \in {"reviving", "cleared"} =>
               pc[x] \in {"reviving", "cleared"} \/ Revived(x)
         /\ pc[x] \in Attended => \/ pc'[x] \in Attended \/ ExitMark(x)
                                  \/ shutdown = "cleared"
         /\ pc'[x] \in Attended => pc[x] \in Attended \/ LaunchRegister(x)
         /\ pc'[x] = "joining" => \/ pc[x] = "joining"
                                  \/ \E s \in BOOLEAN : Launch(x, s)
<1> DEFINE Moves ==
      /\ pc[x] \in After => pc'[x] \in After \/ Revived(x)
      /\ pc'[x] \in Before => pc[x] \in Before \/ Revived(x)
      /\ pc'[x] \in {"reviving", "cleared"} =>
            pc[x] \in {"reviving", "cleared"} \/ Revived(x)
      /\ pc[x] \in Attended => \/ pc'[x] \in Attended \/ ExitMark(x)
                               \/ shutdown = "cleared"
      /\ pc'[x] \in Attended => pc[x] \in Attended \/ LaunchRegister(x)
      /\ pc'[x] = "joining" => \/ pc[x] = "joining"
                               \/ \E s \in BOOLEAN : Launch(x, s)
<1>t. pc \in [Agents -> PcValues]
  BY DEF SlotInv, SlotTypeOK
<1> USE DEF After, Before, Attended
<1>0. ASSUME pc'[x] = pc[x] PROVE Moves
  BY <1>0
<1>1. ASSUME NEW a \in Agents, Revived(a) PROVE Moves
  <2>1. pc' = [pc EXCEPT ![a] = "reviving"] /\ pc[a] = "gone"
    BY <1>1, Undisturbed DEF Revived, Restore, RestorePruned, Revive
  <2>2. CASE a = x
    BY <1>1, <1>t, <2>1, <2>2
  <2>3. CASE a # x
    BY <1>0, <1>t, <2>1, <2>3
  <2> QED BY <2>2, <2>3
<1>2. ASSUME NEW a \in Agents, RestoreClear(a) \/ RestoreDefer(a) \/ LaunchRefused(a) \/ LaunchAdmit(a)
      PROVE  Moves
  BY <1>2, <1>t DEF RestoreClear, RestoreDefer, LaunchRefused, LaunchAdmit
<1>3. ASSUME NEW a \in Agents, NEW s \in BOOLEAN, Launch(a, s) PROVE Moves
  <2>1. pc' = [pc EXCEPT ![a] = "joining"] /\ pc[a] \in {"new", "cleared"}
    BY <1>3 DEF Launch
  <2>2. CASE a = x
    <3> HIDE DEF Launch
    <3> QED BY <1>3, <1>t, <2>1, <2>2
  <2>3. CASE a # x
    BY <1>0, <1>t, <2>1, <2>3
  <2> QED BY <2>2, <2>3
<1>4. ASSUME NEW a \in Agents, LaunchRegister(a) PROVE Moves
  <2>1. pc' = [pc EXCEPT ![a] = "registering"] /\ pc[a] = "joining"
    BY <1>4 DEF LaunchRegister
  <2>2. CASE a = x
    BY <1>4, <1>t, <2>1, <2>2
  <2>3. CASE a # x
    BY <1>0, <1>t, <2>1, <2>3
  <2> QED BY <2>2, <2>3
<1>5. ASSUME NEW a \in Agents, PassPermit(a) PROVE Moves
  <2>1. CASE pending = << >>
    BY <1>5, <1>t, <2>1 DEF PassPermit, AfterPass
  <2>2. CASE pending # << >>
    <3>1. Head(pending) \in Agents /\ pc[Head(pending)] = "queued"
      BY <2>2, TailFacts DEF SlotInv, SlotTypeOK, QueueOk
    <3> QED BY <1>5, <1>t, <2>2, <3>1 DEF PassPermit
  <2> QED BY <2>1, <2>2
<1>6. ASSUME NEW a \in Agents, StartCarried(a) PROVE Moves
  <2>1. carry[a] \in Agents /\ pc[carry[a]] = "handed" /\ carry[a] # a
    BY <1>6 DEF StartCarried, SlotInv, CarryOk, Passing
  <2>2. CASE carry[a] \in registered
    BY <1>6, <1>t, <2>1, <2>2 DEF StartCarried, AfterPass
  <2>3. CASE carry[a] \notin registered
    <3>1. shutdown = "cleared"
      BY <2>1, <2>3 DEF SlotInv, LiveIsRegistered
    <3> QED BY <1>6, <1>t, <2>1, <2>3, <3>1 DEF StartCarried, AfterPass
  <2> QED BY <2>2, <2>3
<1>7. ASSUME NEW a \in Agents, ExitMark(a) PROVE Moves
  <2>1. /\ pc' = [pc EXCEPT ![a] = IF a \in released THEN "leaving" ELSE "exitHolding"]
        /\ pc[a] \in {"ending", "endingParked"}
    BY <1>7 DEF ExitMark
  <2>2. CASE a = x
    BY <1>7, <1>t, <2>1, <2>2
  <2>3. CASE a # x
    BY <1>0, <1>t, <2>1, <2>3
  <2> QED BY <2>2, <2>3
<1>8. ASSUME NEW a \in Agents, ThreadStep(a),
             ~(PassPermit(a) \/ StartCarried(a) \/ ExitMark(a))
      PROVE  Moves
  <2>1. CASE \/ Quiesce(a) \/ Close(a) \/ Reopen(a) \/ StopRun(a) \/ FailRun(a)
             \/ WakeCancelled(a) \/ WakeForWork(a) \/ ResumeAbort(a)
    BY <2>1, <1>t DEF Quiesce, Close, Reopen, StopRun, FailRun, WakeCancelled,
                      WakeForWork, ResumeAbort, ThreadMove
  <2>2. CASE Park(a) \/ ResumeAcquire(a) \/ ResumeDone(a) \/ Leave(a)
    BY <2>2, <1>t DEF Park, ResumeAcquire, ResumeDone, Leave
  <2> QED BY <1>8, <2>1, <2>2 DEF ThreadStep, TurnStep
<1>9. ASSUME \/ \E a \in Agents : \/ PromoteCheck(a) \/ PromoteMark(a)
                                   \/ PromoteRegister(a) \/ Interrogate(a)
                                   \/ Evict(a) \/ Cancel(a)
                                   \/ (\E old \in Agents : LaunchJoin(a, old) \/ LateJoin(a, old))
             \/ (\E n \in StandingBounds : SetMaxStanding(n))
             \/ ShutdownBegin \/ ShutdownClear \/ UNCHANGED vars
      PROVE  Moves
  <2>1. pc' = pc
    BY <1>9 DEF PromoteCheck, PromoteMark, PromoteRegister, Interrogate, Evict, Cancel,
                LaunchJoin, LateJoin, SetMaxStanding, ShutdownBegin, ShutdownClear, vars, slotVars
  <2> QED BY <1>0, <2>1
<1> HIDE DEF Moves
<1> QED
  BY NextCases, Undisturbed, <1>1, <1>2, <1>3, <1>4, <1>5, <1>6, <1>7, <1>8, <1>9 DEF Moves, Revived

\* Who starts a promote(), who forgets an exit marker, who notes one.
LEMMA MarkerMoves ==
  ASSUME [Next]_vars, SlotInv, overtaken' = {}, NEW x \in Agents
  PROVE  /\ promo'[x] # "idle" => promo[x] # "idle" \/ PromoteCheck(x)
         /\ x \in exited => \/ x \in exited'
                            \/ RestoreClear(x)
                            \/ \E a \in Agents : LaunchJoin(a, x) \/ LateJoin(a, x)
         /\ ExitMark(x) => x \in exited'
         /\ shutdown = "cleared" => shutdown' = "cleared"
         /\ standing \subseteq standing'
<1> DEFINE Moves ==
         /\ promo'[x] # "idle" => promo[x] # "idle" \/ PromoteCheck(x)
         /\ x \in exited => \/ x \in exited'
                            \/ RestoreClear(x)
                            \/ \E a \in Agents : LaunchJoin(a, x) \/ LateJoin(a, x)
         /\ ExitMark(x) => x \in exited'
         /\ shutdown = "cleared" => shutdown' = "cleared"
         /\ standing \subseteq standing'
<1>t. promo \in [Agents -> {"idle", "checked", "marked"}]
  BY DEF SlotInv, SlotTypeOK
<1>m. ExitMark(x) => x \in exited'
  BY DEF ExitMark
<1>1. ASSUME NEW a \in Agents,
             \/ Restore(a) \/ (\E b \in Agents : RestorePruned(a, b)) \/ RestoreDefer(a)
             \/ LaunchRefused(a) \/ LaunchRegister(a) \/ LaunchAdmit(a)
      PROVE  Moves
  BY <1>1, <1>m DEF Restore, RestorePruned, Revive, RestoreDefer, LaunchRefused, LaunchRegister,
      LaunchAdmit
<1>2. ASSUME NEW a \in Agents, RestoreClear(a) PROVE Moves
  <2>1. /\ exited' = exited \ {a}
        /\ UNCHANGED <<promo, shutdown, standing>>
    BY <1>2 DEF RestoreClear
  <2>2. x \in exited => x \in exited' \/ RestoreClear(x)
    <3> HIDE DEF RestoreClear
    <3> QED BY <1>2, <2>1
  <2> QED BY <1>m, <2>1, <2>2
<1>3. ASSUME NEW a \in Agents, NEW s \in BOOLEAN, Launch(a, s) PROVE Moves
  BY <1>3, <1>m DEF Launch
<1>4. ASSUME NEW a \in Agents, NEW old \in Agents,
             LaunchJoin(a, old) \/ LateJoin(a, old)
      PROVE  Moves
  <2>1. /\ exited' = exited \ {old}
        /\ UNCHANGED <<promo, shutdown, standing>>
    BY <1>4 DEF LaunchJoin, LateJoin
  <2>2. x \in exited => x \in exited' \/ \E b \in Agents : LaunchJoin(b, x) \/ LateJoin(b, x)
    <3> HIDE DEF LaunchJoin, LateJoin
    <3> QED BY <1>4, <2>1
  <2> QED BY <1>m, <2>1, <2>2
<1>5. ASSUME NEW a \in Agents, ThreadStep(a) PROVE Moves
  <2>1. CASE ExitMark(a)
    BY <2>1, <1>m DEF ExitMark
  <2>2. CASE ~ExitMark(a)
    <3>1. UNCHANGED <<promo, exited, shutdown, standing>>
      BY <1>5, <2>2 DEF ThreadStep, TurnStep, Quiesce, Close, Reopen, StopRun, FailRun,
         WakeCancelled, WakeForWork, ResumeAbort, ThreadMove, Park, ResumeAcquire,
         ResumeDone, Leave, PassPermit, StartCarried, restUnchanged
    <3> QED BY <1>m, <3>1
  <2> QED BY <2>1, <2>2
<1>6. ASSUME NEW a \in Agents, PromoteCheck(a) PROVE Moves
  <2>1. /\ promo' = [promo EXCEPT ![a] = "checked"]
        /\ UNCHANGED <<exited, shutdown, standing>>
    BY <1>6 DEF PromoteCheck
  <2>2. promo'[x] # "idle" => promo[x] # "idle" \/ PromoteCheck(x)
    <3> HIDE DEF PromoteCheck
    <3> QED BY <1>6, <1>t, <2>1
  <2> QED BY <1>m, <2>1, <2>2
<1>7. ASSUME NEW a \in Agents, PromoteMark(a) \/ PromoteRegister(a) PROVE Moves
  <2>1. /\ \/ promo[a] # "idle" /\ promo' = [promo EXCEPT ![a] = "marked"]
           \/ promo' = [promo EXCEPT ![a] = "idle"]
        /\ exited' = exited /\ shutdown' = shutdown /\ standing \subseteq standing'
    BY <1>7 DEF PromoteMark, PromoteRegister
  <2> QED BY <1>m, <1>t, <2>1
<1>8. ASSUME NEW a \in Agents, Interrogate(a) \/ Evict(a) \/ Cancel(a) PROVE Moves
  BY <1>8, <1>m DEF Interrogate, Evict, Cancel
<1>9. ASSUME \/ \E n \in StandingBounds : SetMaxStanding(n)
             \/ ShutdownBegin \/ ShutdownClear \/ UNCHANGED vars
      PROVE  Moves
  BY <1>9, <1>m DEF SetMaxStanding, ShutdownBegin, ShutdownClear, vars
<1> HIDE DEF Moves
<1> QED BY NextCases, Undisturbed, <1>1, <1>2, <1>3, <1>4, <1>5, <1>6, <1>7, <1>8, <1>9 DEF Moves

\* An agent that a step may put into the pool.
Entering(x) == \/ LaunchRegister(x) /\ x \in standing
               \/ PromoteRegister(x) /\ x \notin exited

\* What a step does to the pool: nobody else enters it, only agents that are
\* in it or enter it and are not pinned are chosen for eviction, and only an
\* exit takes a pin away.
PoolStep ==
  /\ \A x \in Agents : Lists(lru', x) => Lists(lru, x) \/ Entering(x)
  /\ \A x \in victims' : \/ x \in victims
                         \/ /\ x \in Agents /\ x \notin pinned /\ x \notin pinned'
                            /\ Lists(lru, x) \/ Entering(x)
  /\ \A x \in pinned : x \in pinned' \/ ExitMark(x)

LEMMA PoolQuiet ==
  ASSUME Fits, UNCHANGED <<lru, pinned, maxStanding>>, victims' \subseteq victims
  PROVE  Fits' /\ PoolStep
<1>1. Fits'
  BY DEF Fits, Distinct
<1> QED BY <1>1 DEF PoolStep

LEMMA PinsFinite ==
  ASSUME NEW S, S \subseteq Agents
  PROVE  IsFiniteSet(S) /\ Cardinality(S) \in Nat
BY FS_Subset, FS_CardinalityType

LEMMA PoolByLaunch ==
  ASSUME SlotInv, Unborn, Fits, NEW a \in Agents, LaunchRegister(a)
  PROVE  Fits' /\ PoolStep
<1>1. CASE a \notin standing
  BY <1>1, PoolQuiet DEF LaunchRegister, poolVars
<1>2. CASE a \in standing
  <2> DEFINE pins == IF a \in Continuous THEN pinned \union {a} ELSE pinned
             bound == AtLeast(maxStanding, Cardinality(pins))
             over == Overflow(<<a>> \o lru, pins, bound)
  <2>1. /\ lru' = Without(<<a>> \o lru, over)
        /\ pinned' = pins /\ maxStanding' = bound
        /\ victims' = victims \union over
        /\ pc[a] = "joining"
    BY <1>2 DEF LaunchRegister
  <2>2. /\ lru \in Seq(Agents) /\ Distinct(lru) /\ Len(lru) <= maxStanding
        /\ Len(lru) \in Nat /\ maxStanding \in Nat /\ pinned \subseteq Agents
    BY DEF Fits
  <2>3. ~Lists(lru, a)
    BY <2>1 DEF Unborn, Before
  <2>4. pins \subseteq Agents /\ pinned \subseteq pins
    BY <2>2
  <2>5. IsFiniteSet(pins) /\ Cardinality(pins) \in Nat
    <3> HIDE DEF pins
    <3> QED BY <2>4, PinsFinite
  <2> HIDE DEF pins
  <2>6. bound \in Nat /\ Cardinality(pins) <= bound /\ Len(lru) <= bound
    BY <2>2, <2>5 DEF AtLeast
  <2> HIDE DEF bound
  <2> DEFINE t == Without(<<a>> \o lru, over)
  <2>7. /\ t \in Seq(Agents) /\ Distinct(t) /\ Len(t) <= bound
        /\ \A x : Lists(t, x) => x = a \/ Lists(lru, x)
        /\ \A x \in over : x \in Agents \ pins /\ (x = a \/ Lists(lru, x))
    <3> HIDE DEF t, over
    <3>1. over = Overflow(<<a>> \o lru, pins, bound) /\ t = Without(<<a>> \o lru, over)
      BY DEF over, t
    <3> QED BY <2>2, <2>3, <2>5, <2>6, <3>1, PoolRegister
  <2>8. lru' = t
    BY <2>1
  <2> HIDE DEF t, over
  <2>9. Fits'
    BY <2>1, <2>4, <2>6, <2>7, <2>8 DEF Fits, Distinct
  <2>10. PoolStep
    BY <1>2, <2>1, <2>4, <2>7, <2>8 DEF PoolStep, Entering
  <2> QED BY <2>9, <2>10
<1> QED BY <1>1, <1>2

\* interrogate(), or promote() of a member: it moves to the front.
LEMMA PoolByRefresh ==
  ASSUME Fits, NEW a \in Agents, Lists(lru, a),
         lru' = <<a>> \o Without(lru, {a}),
         UNCHANGED <<pinned, maxStanding, victims>>
  PROVE  Fits' /\ PoolStep
<1> DEFINE t == <<a>> \o Without(lru, {a})
<1>1. /\ lru \in Seq(Agents) /\ Distinct(lru) /\ Len(lru) \in Nat
      /\ Len(lru) <= maxStanding /\ maxStanding \in Nat
  BY DEF Fits
<1>2. t = <<a>> \o Without(lru, {a}) /\ lru' = t
  OBVIOUS
<1> HIDE DEF t
<1>3. /\ t \in Seq(Agents) /\ Distinct(t) /\ Len(t) <= Len(lru)
      /\ \A x : Lists(t, x) => Lists(lru, x)
  BY <1>1, <1>2, PoolRefresh
<1>4. Len(t) \in Nat
  BY <1>3
<1>5. Len(t) <= maxStanding
  BY <1>1, <1>3, <1>4
<1>6. Fits'
  BY <1>2, <1>3, <1>5 DEF Fits, Distinct
<1> QED BY <1>2, <1>3, <1>6 DEF PoolStep

LEMMA PoolByPromote ==
  ASSUME Fits, NEW a \in Agents, PromoteRegister(a)
  PROVE  Fits' /\ PoolStep
<1>0. /\ lru \in Seq(Agents) /\ Distinct(lru) /\ Len(lru) <= maxStanding
      /\ Len(lru) \in Nat /\ maxStanding \in Nat /\ pinned \subseteq Agents
      /\ Cardinality(pinned) <= maxStanding
  BY DEF Fits
<1>1. UNCHANGED <<pinned, maxStanding>>
  BY DEF PromoteRegister
<1>2. CASE UNCHANGED <<lru, victims>>
  BY <1>1, <1>2, PoolQuiet
<1>3. CASE InPool(a) /\ lru' = <<a>> \o Without(lru, {a}) /\ UNCHANGED victims
  <2>1. Lists(lru, a)
    BY <1>3 DEF InPool, Lists
  <2> QED BY <1>1, <1>3, <2>1, PoolByRefresh
<1>4. CASE /\ a \notin exited /\ ~InPool(a)
           /\ lru' = Without(<<a>> \o lru, Overflow(<<a>> \o lru, pinned, maxStanding))
           /\ victims' = victims \union Overflow(<<a>> \o lru, pinned, maxStanding)
  <2> DEFINE over == Overflow(<<a>> \o lru, pinned, maxStanding)
  <2>1. ~Lists(lru, a)
    BY <1>4 DEF InPool, Lists
  <2>2. IsFiniteSet(pinned)
    BY <1>0, PinsFinite
  <2>3. /\ lru' \in Seq(Agents) /\ Distinct(lru') /\ Len(lru') <= maxStanding
        /\ \A x : Lists(lru', x) => x = a \/ Lists(lru, x)
        /\ \A x \in over : x \in Agents \ pinned /\ (x = a \/ Lists(lru, x))
    <3>1. lru' = Without(<<a>> \o lru, over) /\ over = Overflow(<<a>> \o lru, pinned, maxStanding)
      BY <1>4
    <3> HIDE DEF over
    <3> QED BY <1>0, <2>1, <2>2, <3>1, PoolRegister
  <2>4. victims' = victims \union over
    BY <1>4
  <2> HIDE DEF over
  <2>5. Fits'
    BY <1>0, <1>1, <2>3 DEF Fits, Distinct
  <2>6. Entering(a)
    BY <1>4 DEF Entering
  <2>7. PoolStep
    BY <1>1, <2>3, <2>4, <2>6 DEF PoolStep
  <2> QED BY <2>5, <2>7
<1> QED BY <1>2, <1>3, <1>4 DEF PromoteRegister

LEMMA PoolByOthers ==
  ASSUME Fits, \/ \E a \in Agents : Interrogate(a) \/ ExitMark(a)
               \/ \E n \in StandingBounds : SetMaxStanding(n)
  PROVE  Fits' /\ PoolStep
<1>0. /\ lru \in Seq(Agents) /\ Distinct(lru) /\ Len(lru) <= maxStanding
      /\ Len(lru) \in Nat /\ maxStanding \in Nat /\ pinned \subseteq Agents
      /\ Cardinality(pinned) <= maxStanding
      /\ IsFiniteSet(pinned) /\ Cardinality(pinned) \in Nat
  BY PinsFinite DEF Fits
<1>1. ASSUME NEW a \in Agents, Interrogate(a) PROVE Fits' /\ PoolStep
  <2>1. /\ Lists(lru, a) /\ lru' = <<a>> \o Without(lru, {a})
        /\ UNCHANGED <<pinned, maxStanding, victims>>
    BY <1>1 DEF Interrogate, InPool, Lists
  <2> QED BY <2>1, PoolByRefresh
<1>2. ASSUME NEW a \in Agents, ExitMark(a) PROVE Fits' /\ PoolStep
  <2>1. /\ lru' = Without(lru, {a}) /\ pinned' = pinned \ {a}
        /\ UNCHANGED <<maxStanding, victims>>
    BY <1>2 DEF ExitMark
  <2>2. /\ lru' \in Seq(Agents) /\ Distinct(lru') /\ Len(lru') <= Len(lru)
        /\ Len(lru') \in Nat
        /\ \A x : Lists(lru', x) => Lists(lru, x)
    BY <1>0, <2>1, PoolRemove
  <2>3. Cardinality(pinned') <= Cardinality(pinned) /\ Cardinality(pinned') \in Nat
    <3>1. pinned' \in SUBSET pinned /\ pinned' \subseteq Agents
      BY <1>0, <2>1
    <3> QED BY <1>0, <3>1, FS_Subset, PinsFinite
  <2>4. Len(lru') <= maxStanding /\ Cardinality(pinned') <= maxStanding
    BY <1>0, <2>2, <2>3
  <2>5. pinned' \subseteq Agents /\ maxStanding' = maxStanding
    BY <1>0, <2>1
  <2>6. Fits'
    BY <1>0, <2>2, <2>4, <2>5 DEF Fits, Distinct
  <2>7. PoolStep
    BY <1>2, <2>1, <2>2 DEF PoolStep
  <2> QED BY <2>6, <2>7
<1>3. ASSUME NEW n \in StandingBounds, SetMaxStanding(n) PROVE Fits' /\ PoolStep
  <2> DEFINE bound == AtLeast(n, Cardinality(pinned))
             k == Len(lru) - bound
             over == Coldest(lru, pinned, k)
  <2>1. /\ maxStanding' = bound /\ lru' = Without(lru, over)
        /\ victims' = victims \union over /\ pinned' = pinned
    BY <1>3 DEF SetMaxStanding
  <2>2. bound \in Nat /\ Cardinality(pinned) <= bound
    BY <1>0 DEF AtLeast
  <2>3. k \in Int /\ Len(lru) - bound <= k
    BY <1>0, <2>2
  <2> HIDE DEF bound, k
  <2>4. Len(Without(lru, Coldest(lru, pinned, k))) <= bound
    BY <1>0, <2>2, <2>3, ColdestFits
  <2>5. \A x \in over : x \in Agents /\ x \notin pinned /\ Lists(lru, x)
    BY <1>0, ColdestFacts
  <2>6. lru' = Without(lru, Coldest(lru, pinned, k))
    BY <2>1
  <2> HIDE DEF over
  <2>7. /\ lru' \in Seq(Agents) /\ Distinct(lru')
        /\ \A x : Lists(lru', x) => Lists(lru, x)
    BY <1>0, <2>1, PoolRemove
  <2>8. Fits'
    BY <1>0, <2>1, <2>2, <2>4, <2>6, <2>7 DEF Fits, Distinct
  <2>9. PoolStep
    BY <2>1, <2>5, <2>7 DEF PoolStep
  <2> QED BY <2>8, <2>9
<1> QED BY <1>1, <1>2, <1>3

LEMMA PoolMoves ==
  ASSUME SlotInv, Unborn, Fits, [Next]_vars, overtaken' = {}
  PROVE  Fits' /\ PoolStep
<1>1. CASE \E a \in Agents : LaunchRegister(a)
  BY <1>1, PoolByLaunch
<1>2. CASE \E a \in Agents : PromoteRegister(a)
  BY <1>2, PoolByPromote
<1>3. CASE \/ \E a \in Agents : Interrogate(a) \/ ExitMark(a)
           \/ \E n \in StandingBounds : SetMaxStanding(n)
  BY <1>3, PoolByOthers
<1>4. ASSUME NEW a \in Agents,
             \/ Restore(a) \/ (\E b \in Agents : RestorePruned(a, b))
             \/ RestoreClear(a) \/ RestoreDefer(a) \/ (\E s \in BOOLEAN : Launch(a, s))
             \/ (\E old \in Agents : LaunchJoin(a, old) \/ LateJoin(a, old)) \/ LaunchRefused(a)
             \/ LaunchAdmit(a)
      PROVE  UNCHANGED poolVars
  BY <1>4 DEF Restore, Revive, RestorePruned, RestoreClear, RestoreDefer, Maintained, LateJoin,
      Launch, LaunchJoin, LaunchRefused, LaunchAdmit
<1>5. ASSUME NEW a \in Agents, ThreadStep(a), ~ExitMark(a)
      PROVE  UNCHANGED poolVars
  BY <1>5 DEF ThreadStep, TurnStep, Quiesce, Close, Reopen, StopRun, FailRun,
     WakeCancelled, WakeForWork, ResumeAbort, ThreadMove, Park, ResumeAcquire,
     ResumeDone, Leave, PassPermit, StartCarried, restUnchanged
<1>6. ASSUME \/ \E a \in Agents : PromoteCheck(a) \/ PromoteMark(a) \/ Evict(a) \/ Cancel(a)
             \/ ShutdownBegin \/ ShutdownClear \/ UNCHANGED vars
      PROVE  UNCHANGED <<lru, pinned, maxStanding>> /\ victims' \subseteq victims
  BY <1>6 DEF PromoteCheck, PromoteMark, Evict, Cancel, ShutdownBegin, ShutdownClear,
     vars, poolVars
<1>7. ASSUME UNCHANGED poolVars PROVE Fits' /\ PoolStep
  BY <1>7, PoolQuiet DEF poolVars
<1>8. CASE \E a \in Agents :
             \/ Restore(a) \/ (\E b \in Agents : RestorePruned(a, b))
             \/ RestoreClear(a) \/ RestoreDefer(a) \/ (\E s \in BOOLEAN : Launch(a, s))
             \/ (\E old \in Agents : LaunchJoin(a, old) \/ LateJoin(a, old)) \/ LaunchRefused(a)
             \/ LaunchAdmit(a)
  BY <1>4, <1>7, <1>8
<1>9. CASE \E a \in Agents : ThreadStep(a)
  BY <1>3, <1>5, <1>7, <1>9
<1>10. CASE \/ \E a \in Agents : PromoteCheck(a) \/ PromoteMark(a) \/ Evict(a) \/ Cancel(a)
            \/ ShutdownBegin \/ ShutdownClear \/ UNCHANGED vars
  BY <1>6, <1>10, PoolQuiet
<1> QED BY NextCases, Undisturbed, <1>1, <1>2, <1>3, <1>8, <1>9, <1>10

\* An exit takes the agent out, a registration pins a managed worker.
LEMMA ExitLeavesPool ==
  ASSUME Fits, NEW x \in Agents, ExitMark(x)
  PROVE  ~Lists(lru', x)
BY PoolRemove DEF ExitMark, Fits

LEMMA RegisteredIsPinned ==
  ASSUME NEW x \in Continuous, LaunchRegister(x), x \in standing
  PROVE  x \in pinned'
BY DEF LaunchRegister

\* Nothing of an agent's past is left when it is launched again: a restore
\* finds it out of the pool, because it has gone and no promote() is in flight.
LEMMA UnbornStep ==
  ASSUME OneWayIn, SlotInv, StandingInv, [Next]_vars, overtaken' = {}, PoolStep
  PROVE  Unborn'
<1>u. Unborn
  BY DEF StandingInv
<1>r. ASSUME NEW x \in Agents, Revived(x)
      PROVE  /\ x \in Restorable /\ Promotable = {}
             /\ promo[x] = "idle" /\ ~Lists(lru, x)
  <2>1. x \in Restorable /\ pc[x] = "gone" /\ shutdown = "no"
    BY <1>r, Undisturbed DEF Revived, Restore, RestorePruned, Revive
  <2>2. Promotable = {}
    BY <2>1 DEF OneWayIn
  <2>3. promo[x] = "idle"
    BY <1>u, <2>2 DEF Unborn
  <2>4. Listed
    BY <2>2 DEF StandingInv, NeverForgotten, Fresh
  <2>5. ~Lists(lru, x)
    BY <2>1, <2>4 DEF Listed, Attended
  <2> QED BY <2>1, <2>2, <2>3, <2>5
<1> SUFFICES ASSUME NEW x \in Agents
             PROVE  /\ pc'[x] \in {"reviving", "cleared"} => x \in Restorable
                    /\ pc'[x] \in Before => promo'[x] = "idle" /\ ~Lists(lru', x)
                    /\ promo'[x] # "idle" => x \in Promotable /\ pc'[x] \in After
  BY DEF Unborn
<1>1. pc'[x] \in {"reviving", "cleared"} => x \in Restorable
  BY <1>r, <1>u, PcMoves DEF Unborn
<1>2. ASSUME pc'[x] \in Before PROVE promo'[x] = "idle" /\ ~Lists(lru', x)
  <2>1. promo[x] = "idle" /\ ~Lists(lru, x)
    BY <1>2, <1>r, <1>u, PcMoves DEF Unborn
  <2>2. ~PromoteCheck(x)
    BY <1>2 DEF PromoteCheck, slotVars, Before
  <2>3. ~Entering(x)
    BY <1>2, <2>1 DEF Entering, LaunchRegister, PromoteRegister, Before, SlotInv, SlotTypeOK
  <2> QED BY <2>1, <2>2, <2>3, MarkerMoves DEF PoolStep
<1>3. ASSUME promo'[x] # "idle" PROVE x \in Promotable /\ pc'[x] \in After
  <2>1. CASE promo[x] # "idle"
    <3>1. x \in Promotable /\ pc[x] \in After
      BY <1>u, <2>1 DEF Unborn
    <3>2. ~Revived(x)
      BY <1>r, <2>1
    <3> QED BY <3>1, <3>2, PcMoves
  <2>2. CASE PromoteCheck(x)
    BY <2>2 DEF PromoteCheck, slotVars, After
  <2> QED BY <1>3, <2>1, <2>2, MarkerMoves
<1> QED BY <1>1, <1>2, <1>3

\* prune_completed() takes nobody out while Retained bounds all agents.
LEMMA NothingPrunedStep ==
  ASSUME SlotInv, NeverForgotten, NothingPruned, [Next]_vars, overtaken' = {}
  PROVE  NothingPruned'
<1> SUFFICES ASSUME Promotable # {}
             PROVE  \A x \in Agents : retiring'[x] = {} /\ latePc'[x] = "none"
  BY DEF NothingPruned
<1>t. /\ retiring \in [Agents -> SUBSET Agents]
      /\ \A x \in Agents : retiring[x] = {} /\ latePc[x] = "none"
  BY DEF SlotInv, SlotTypeOK, NothingPruned
<1>n. /\ \A a, b \in Agents : ~RestorePruned(a, b) /\ ~LateJoin(a, b)
      /\ \A a \in Agents : ~LateStep(a)
  BY <1>t, Undisturbed DEF RestorePruned, LateJoin
<1>1. ASSUME NEW a \in Agents, NEW s \in BOOLEAN, Launch(a, s)
      PROVE  retiring' = [retiring EXCEPT ![a] = {}] /\ latePc' = latePc
  <2> DEFINE done == {b \in registered : Terminal(b)}
  <2>1. PICK old \in SUBSET done :
           /\ Cardinality(old) = AtLeast(Cardinality(done) - Retained, 0)
           /\ retiring' = [retiring EXCEPT ![a] = old]
           /\ latePc' = latePc
    BY <1>1 DEF Launch
  <2>2. done \subseteq Agents
    BY DEF SlotInv, SlotTypeOK
  <2> HIDE DEF done
  <2>3. /\ IsFiniteSet(done) /\ Cardinality(done) \in Nat
        /\ Cardinality(done) <= Cardinality(Agents) /\ Cardinality(Agents) \in Nat
    BY <2>2, PinsFinite, FS_Subset, FS_CardinalityType
  <2>4. Retained >= Cardinality(Agents) /\ Retained \in Nat
    BY DEF NeverForgotten
  <2>5. Cardinality(old) = 0
    BY <2>1, <2>3, <2>4 DEF AtLeast
  <2>6. IsFiniteSet(old)
    BY <2>3, FS_Subset
  <2>7. old = {}
    BY <2>5, <2>6, FS_EmptySet
  <2> QED BY <2>1, <2>7
<1>2. ASSUME NEW a \in Agents, NEW old \in Agents, LaunchJoin(a, old)
      PROVE  retiring' = [retiring EXCEPT ![a] = @ \ {old}] /\ latePc' = latePc
  BY <1>2 DEF LaunchJoin
<1>3. ASSUME NEW a \in Agents,
             \/ Restore(a) \/ RestoreClear(a) \/ RestoreDefer(a) \/ LaunchRefused(a)
             \/ LaunchRegister(a) \/ LaunchAdmit(a)
      PROVE  retiring' = retiring /\ latePc' = latePc
  BY <1>3 DEF Restore, Revive, RestoreClear, RestoreDefer, LaunchRefused, LaunchRegister,
      LaunchAdmit
<1>4. ASSUME NEW a \in Agents, ThreadStep(a)
      PROVE  retiring' = retiring /\ latePc' = latePc
  BY <1>4 DEF ThreadStep, TurnStep, Quiesce, Close, Reopen, StopRun, FailRun,
     WakeCancelled, WakeForWork, ResumeAbort, ThreadMove, Park, ResumeAcquire,
     ResumeDone, Leave, PassPermit, StartCarried, ExitMark, restUnchanged
<1>5. ASSUME \/ \E a \in Agents : \/ PromoteCheck(a) \/ PromoteMark(a)
                                   \/ PromoteRegister(a) \/ Interrogate(a)
                                   \/ Evict(a) \/ Cancel(a)
             \/ (\E n \in StandingBounds : SetMaxStanding(n))
             \/ ShutdownBegin \/ ShutdownClear \/ UNCHANGED vars
      PROVE  retiring' = retiring /\ latePc' = latePc
  BY <1>5 DEF PromoteCheck, PromoteMark, PromoteRegister, Interrogate, Evict, Cancel,
              SetMaxStanding, ShutdownBegin, ShutdownClear, vars
<1>6. CASE \E a \in Agents, s \in BOOLEAN : Launch(a, s)
  BY <1>t, <1>1, <1>6
<1>7. CASE \E a, old \in Agents : LaunchJoin(a, old)
  BY <1>t, <1>2, <1>7
<1>8. CASE retiring' = retiring /\ latePc' = latePc
  BY <1>t, <1>8
<1> QED BY NextCases, <1>n, <1>3, <1>4, <1>5, <1>6, <1>7, <1>8

\* While nothing is forgotten only agents whose exit is to come are listed,
\* and managed workers are pinned from their registration to their exit.
LEMMA FreshStep ==
  ASSUME OneWayIn, SlotInv, StandingInv, NeverForgotten, [Next]_vars, overtaken' = {},
         PoolStep, Unborn'
  PROVE  Fresh'
<1>u. Unborn /\ Fits /\ NothingPruned /\ Marked /\ Pinned /\ Listed /\ PinnedStay
  BY DEF StandingInv, Fresh
<1>e. ASSUME NEW x \in Agents, promo[x] # "idle", x \notin exited'
      PROVE  x \notin exited
  <2>1. x \in Promotable /\ pc[x] \in After
    BY <1>e, <1>u DEF Unborn
  <2>2. ~RestoreClear(x)
    BY <2>1 DEF RestoreClear, After
  <2>3. \A a \in Agents : ~LaunchJoin(a, x) /\ ~LateJoin(a, x)
    BY <1>u, <2>1 DEF NothingPruned, LaunchJoin, LateJoin
  <2> QED BY <1>e, <2>2, <2>3, MarkerMoves
<1>p. ASSUME NEW x \in Agents, PromoteRegister(x), x \notin exited
      PROVE  promo[x] # "idle" /\ pc' = pc /\ shutdown' = shutdown /\ pinned' = pinned
  BY <1>p DEF PromoteRegister, slotVars
<1>1. NothingPruned'
  BY <1>u, NothingPrunedStep
<1>2. Marked'
  <2> SUFFICES ASSUME NEW x \in Agents, shutdown' # "cleared", promo'[x] # "idle",
                      x \notin exited'
               PROVE  pc'[x] \in Attended
    BY DEF Marked
  <2>1. CASE promo[x] # "idle"
    <3>1. shutdown # "cleared" /\ x \notin exited /\ ~ExitMark(x)
      BY <1>e, <2>1, MarkerMoves
    <3>2. pc[x] \in Attended
      BY <1>u, <2>1, <3>1 DEF Marked
    <3> QED BY <3>1, <3>2, PcMoves
  <2>2. CASE PromoteCheck(x)
    BY <2>2 DEF PromoteCheck, slotVars, Attended
  <2> QED BY <2>1, <2>2, MarkerMoves
<1>3. Pinned'
  <2> SUFFICES ASSUME NEW x \in Continuous
               PROVE  /\ pc'[x] = "joining" => x \in standing'
                      /\ \/ Lists(lru', x)
                         \/ promo'[x] # "idle" /\ x \notin exited'
                         \/ pc'[x] \in Attended
                         => x \in pinned'
    BY DEF Pinned
  <2>0. x \in Agents
    OBVIOUS
  <2>1. ASSUME pc'[x] = "joining" PROVE x \in standing'
    <3>1. CASE pc[x] = "joining"
      BY <1>u, <2>0, <3>1, MarkerMoves DEF Pinned
    <3>2. CASE \E s \in BOOLEAN : Launch(x, s)
      BY <3>2 DEF Launch
    <3> QED BY <2>0, <2>1, <3>1, <3>2, PcMoves
  <2>2. ASSUME x \in pinned, ~ExitMark(x) PROVE x \in pinned'
    BY <2>2 DEF PoolStep
  <2>3. ASSUME LaunchRegister(x) PROVE x \in pinned'
    <3>1. x \in standing
      BY <1>u, <2>3 DEF LaunchRegister, Pinned
    <3> QED BY <2>3, <3>1, RegisteredIsPinned
  <2>4. ASSUME Lists(lru', x) PROVE x \in pinned'
    <3>1. ~ExitMark(x)
      BY <1>u, <2>0, <2>4, ExitLeavesPool
    <3>2. CASE Lists(lru, x)
      BY <1>u, <2>2, <3>1, <3>2 DEF Pinned
    <3>3. CASE PromoteRegister(x) /\ x \notin exited
      BY <1>u, <1>p, <2>0, <3>3 DEF Pinned
    <3> QED BY <2>0, <2>3, <2>4, <3>2, <3>3 DEF PoolStep, Entering
  <2>5. ASSUME promo'[x] # "idle", x \notin exited' PROVE x \in pinned'
    <3>1. ~ExitMark(x)
      BY <2>0, <2>5, MarkerMoves
    <3>2. CASE promo[x] # "idle"
      BY <1>e, <1>u, <2>0, <2>2, <2>5, <3>1, <3>2 DEF Pinned
    <3>3. CASE PromoteCheck(x)
      <4>1. pc[x] \in Attended
        BY <3>3 DEF PromoteCheck, Attended
      <4> QED BY <1>u, <2>2, <3>1, <4>1 DEF Pinned
    <3> QED BY <2>0, <2>5, <3>2, <3>3, MarkerMoves
  <2>6. ASSUME pc'[x] \in Attended PROVE x \in pinned'
    <3>1. CASE pc[x] \in Attended
      <4>1. ~ExitMark(x)
        BY <2>0, <2>6 DEF ExitMark, Attended, SlotInv, SlotTypeOK
      <4> QED BY <1>u, <2>2, <3>1, <4>1 DEF Pinned
    <3> QED BY <2>0, <2>3, <2>6, <3>1, PcMoves
  <2> QED BY <2>1, <2>4, <2>5, <2>6
<1>4. Listed'
  <2> SUFFICES ASSUME NEW x \in Agents, shutdown' # "cleared", Lists(lru', x)
               PROVE  pc'[x] \in Attended
    BY DEF Listed
  <2>1. ~ExitMark(x) /\ shutdown # "cleared"
    BY <1>u, ExitLeavesPool, MarkerMoves
  <2>2. CASE Lists(lru, x)
    BY <1>u, <2>1, <2>2, PcMoves DEF Listed
  <2>3. CASE LaunchRegister(x)
    BY <2>3 DEF LaunchRegister, Attended, SlotInv, SlotTypeOK
  <2>4. CASE PromoteRegister(x) /\ x \notin exited
    BY <1>u, <1>p, <2>1, <2>4 DEF Marked
  <2> QED BY <2>2, <2>3, <2>4 DEF PoolStep, Entering
<1>5. PinnedStay'
  <2> SUFFICES ASSUME NEW x \in Continuous, x \in victims' PROVE FALSE
    BY DEF PinnedStay
  <2>1. /\ x \in Agents /\ x \notin pinned /\ x \notin pinned'
        /\ Lists(lru, x) \/ Entering(x)
    BY <1>u DEF PoolStep, PinnedStay
  <2>2. ~Lists(lru, x)
    BY <1>u, <2>1 DEF Pinned
  <2>3. ~(LaunchRegister(x) /\ x \in standing)
    BY <2>1, RegisteredIsPinned
  <2>4. ~(PromoteRegister(x) /\ x \notin exited)
    BY <1>u, <1>p, <2>1 DEF Pinned
  <2> QED BY <2>1, <2>2, <2>3, <2>4 DEF Entering
<1> QED BY <1>1, <1>2, <1>3, <1>4, <1>5 DEF Fresh

LEMMA StandingInit == Init => StandingInv
<1> SUFFICES ASSUME Init PROVE StandingInv
  OBVIOUS
<1>1. lru = << >> /\ Len(lru) = 0 /\ lru \in Seq(Agents)
  BY DEF Init
<1>2. \A x : ~Lists(lru, x)
  BY <1>1 DEF Lists
<1>3. Unborn
  BY <1>2 DEF Init, Unborn, Before
<1>4. Cardinality(pinned) = 0 /\ maxStanding \in Nat /\ pinned = {}
  BY FS_EmptySet DEF Init
<1>5. Fits
  BY <1>1, <1>4 DEF Fits, Distinct
<1>6. Fresh
  BY <1>2 DEF Init, Fresh, NothingPruned, Marked, Pinned, Listed, PinnedStay, Attended
<1> QED BY <1>3, <1>5, <1>6 DEF StandingInv

LEMMA StandingStep ==
  ASSUME OneWayIn, SlotInv, StandingInv, [Next]_vars, overtaken' = {}
  PROVE  StandingInv'
<1>1. Fits' /\ PoolStep
  BY PoolMoves DEF StandingInv
<1>2. Unborn'
  BY <1>1, UnbornStep
<1>3. NeverForgotten => Fresh'
  BY <1>1, <1>2, FreshStep
<1>4. NeverForgotten' = NeverForgotten
  BY DEF NeverForgotten
<1> QED BY <1>1, <1>2, <1>3, <1>4 DEF StandingInv

\* The pool never exceeds its bound and lists nobody twice, through every
\* race of launches, promotions, exits, interrogations and new bounds, as long
\* as callers do not promote in a system that also restores workers, and until
\* a pruned worker is relaunched ahead of its old on_exit().
THEOREM PoolStaysBounded ==
  ASSUME OneWayIn PROVE Spec => [](overtaken = {} => PoolBounded)
<1>1. (overtaken = {} => StandingInv) /\ SlotInv /\ [Next]_vars => (overtaken = {} => StandingInv)'
  BY StandingStep, Undisturbed
<1>2. (overtaken = {} => StandingInv) => (overtaken = {} => PoolBounded)
  BY DEF StandingInv, Fits, Distinct, PoolBounded
<1> QED BY StandingInit, SlotInvariant, <1>1, <1>2, PTL DEF Spec

\* Where in addition no exit marker is forgotten under a promote(), the pool
\* lists only agents whose on_exit() is to come, and the LRU pressure never
\* takes a managed worker: with managed workers alone, recovery included, or
\* with promotions while nothing is restored or pruned (DIS-1001).
THEOREM PoolStaysSound ==
  ASSUME OneWayIn, NeverForgotten PROVE Spec => [](overtaken = {} => PoolSound)
<1>1. (overtaken = {} => StandingInv) /\ SlotInv /\ [Next]_vars => (overtaken = {} => StandingInv)'
  BY StandingStep, Undisturbed
<1>2. (overtaken = {} => StandingInv) => (overtaken = {} => PoolSound)
  <2> SUFFICES ASSUME overtaken = {}, StandingInv PROVE PoolSound
    OBVIOUS
  <2>1. PoolBounded /\ PinnedStay
    BY DEF StandingInv, Fits, Distinct, PoolBounded, Fresh
  <2>2. PoolIsAlive
    <3> SUFFICES ASSUME shutdown # "cleared", NEW i \in 1..Len(lru)
                 PROVE  pc[lru[i]] \in Attended
      BY DEF PoolIsAlive, Attended
    <3>1. lru[i] \in Agents
      BY DEF StandingInv, Fits
    <3>2. Lists(lru, lru[i])
      BY DEF Lists
    <3> QED BY <3>1, <3>2 DEF StandingInv, Fresh, Listed
  <2> QED BY <2>1, <2>2 DEF PoolSound
<1> QED BY StandingInit, SlotInvariant, <1>1, <1>2, PTL DEF Spec
=============================================================================
