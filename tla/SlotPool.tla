------------------------------ MODULE SlotPool ------------------------------
(***************************************************************************)
(* What AgentSupervisor promises about its active-work permits             *)
(* (include/batbox/agents/AgentSupervisor.hpp: "semaphore-bounded          *)
(* parallelism; agents beyond the limit are queued and dispatched as slots *)
(* free"), without saying how: a permit is free or held by one worker, a   *)
(* worker that finds none waits in FIFO order, a released permit goes to   *)
(* the head of the line first, and only after shutdown may a permit become *)
(* free while somebody is still in line.                                   *)
(***************************************************************************)
EXTENDS Integers, Sequences, FiniteSets

CONSTANTS Workers,  \* the worker ids
          Limit     \* how many workers may do work at once

\* What the constants are: the hypothesis of the theorems about the pool.
PoolConstants == IsFiniteSet(Workers) /\ Limit \in Nat \ {0}

VARIABLES free,     \* permits nobody holds
          holders,  \* the workers that hold one
          line,     \* the workers waiting for their first permit
          stopped   \* shutdown has begun

poolVars == <<free, holders, line, stopped>>

InLine(w) == \E i \in 1..Len(line) : line[i] = w

PoolTypeOK == /\ free \in 0..Limit
              /\ holders \in SUBSET Workers
              /\ line \in Seq(Workers)
              /\ stopped \in BOOLEAN

PoolInit == /\ free = Limit
            /\ holders = {}
            /\ line = << >>
            /\ stopped = FALSE

\* A worker takes a free permit: a new one, or a parked one that resumes.
Take(w) == /\ free > 0
           /\ w \notin holders
           /\ ~InLine(w)
           /\ free' = free - 1
           /\ holders' = holders \union {w}
           /\ UNCHANGED <<line, stopped>>

\* A worker finds no permit and joins the line.
Join(w) == /\ free = 0
           /\ w \notin holders
           /\ ~InLine(w)
           /\ line' = Append(line, w)
           /\ UNCHANGED <<free, holders, stopped>>

\* A worker that parks or ends gives its permit to the head of the line.
Pass(w) == /\ w \in holders
           /\ line # << >>
           /\ holders' = (holders \ {w}) \union {Head(line)}
           /\ line' = Tail(line)
           /\ UNCHANGED <<free, stopped>>

\* With nobody in line, or once stopped, the permit becomes free.
Return(w) == /\ w \in holders
             /\ line = << >> \/ stopped
             /\ free' = free + 1
             /\ holders' = holders \ {w}
             /\ UNCHANGED <<line, stopped>>

Stop == /\ stopped' = TRUE
        /\ UNCHANGED <<free, holders, line>>

PoolNext == \/ \E w \in Workers : Take(w) \/ Join(w) \/ Pass(w) \/ Return(w)
            \/ Stop

PoolSpec == PoolInit /\ [][PoolNext]_poolVars

(***************************************************************************)
(* Properties.                                                             *)
(***************************************************************************)

\* No permit is lost and none is made: DIS-1001's "neither over- nor
\* under-released" (AgentSupervisor.hpp, available_slots_for_test).
Conservation == free + Cardinality(holders) = Limit

\* A worker waits only while every permit is taken: a freed permit is never
\* left on the table while somebody is in line (start_pending_or_release).
WorkConserving == line # << >> => free = 0 \/ stopped

\* Nobody waits twice, and nobody waits while holding a permit.
LineOk == /\ \A i \in 1..Len(line) : line[i] \notin holders
          /\ \A i, j \in 1..Len(line) : line[i] = line[j] => i = j

PoolInv == PoolTypeOK /\ Conservation /\ WorkConserving /\ LineOk
=============================================================================
