------------------------------ MODULE CancelTree ------------------------------
(***************************************************************************)
(* src/core/CancelToken.cpp.  A root token reads the stop state of its     *)
(* source.  A token made by child() or combine_tokens() has a relay: a     *)
(* stop source of its own that stop callbacks ("watchers") fire when an    *)
(* upstream token or the child's CancelSource is stopped.  Tokens are      *)
(* move-only, so each has one holder, and the watchers live as long as     *)
(* the token is held.  Callbacks run one by one in the thread that stops.  *)
(***************************************************************************)
EXTENDS Naturals, FiniteSets

CONSTANT Tokens
ASSUME TokensAssumption == IsFiniteSet(Tokens)

VARIABLES kind,     \* how a token was made, "none" before
          upstream, \* the tokens whose stop state its watchers are on
          held,     \* tokens that somebody still holds
          stopped,  \* tokens whose own CancelSource was asked to stop
          fired,    \* tokens whose primary stop state is stopped
          owed,     \* held tokens whose watcher has been called but not run
          callback, \* the on_cancel callback on a token
          above     \* history: what a token was derived from, itself included

vars == <<kind, upstream, held, stopped, fired, owed, callback, above>>

Downstream(t) == {d \in held : t \in upstream[d]} \ fired

Init == /\ kind = [t \in Tokens |-> "none"]
        /\ upstream = [t \in Tokens |-> {}]
        /\ held = {}
        /\ stopped = {}
        /\ fired = {}
        /\ owed = {}
        /\ callback = [t \in Tokens |-> "none"]
        /\ above = [t \in Tokens |-> {t}]

-----------------------------------------------------------------------------
\* make_root(): a source and the token on its stop state.
MakeRoot(t) ==
  /\ kind[t] = "none"
  /\ kind' = [kind EXCEPT ![t] = "root"]
  /\ held' = held \union {t}
  /\ UNCHANGED <<upstream, stopped, fired, owed, callback, above>>

\* Mutant: the parent's token is not watched when it has fired already.
BugChild(p, c) ==
  /\ p \in held /\ kind[c] = "none"
  /\ kind' = [kind EXCEPT ![c] = "child"]
  /\ upstream' = [upstream EXCEPT ![c] = {p}]
  /\ above' = [above EXCEPT ![c] = {c} \union above[p]]
  /\ held' = held \union {c}
  /\ UNCHANGED <<stopped, owed, callback, fired>>

\* child(): watches the parent's stop state and its own source's; a watcher
\* put on a stopped state runs at once.
Child(p, c) ==
  /\ p \in held /\ kind[c] = "none"
  /\ kind' = [kind EXCEPT ![c] = "child"]
  /\ upstream' = [upstream EXCEPT ![c] = {p}]
  /\ above' = [above EXCEPT ![c] = {c} \union above[p]]
  /\ held' = held \union {c}
  /\ fired' = IF p \in fired THEN fired \union {c} ELSE fired
  /\ UNCHANGED <<stopped, owed, callback>>

\* combine_tokens(a, b) takes its arguments by value: they are gone afterwards.
Combine(a, b, c) ==
  /\ a \in held /\ b \in held /\ a # b /\ kind[c] = "none"
  /\ kind' = [kind EXCEPT ![c] = "combined"]
  /\ upstream' = [upstream EXCEPT ![c] = {a, b}]
  /\ above' = [above EXCEPT ![c] = {c} \union above[a] \union above[b]]
  /\ held' = (held \union {c}) \ {a, b}
  /\ owed' = owed \ {a, b}
  /\ fired' = IF a \in fired \/ b \in fired THEN fired \union {c} ELSE fired
  /\ UNCHANGED <<stopped, callback>>

\* CancelSource::request_stop(), of a root or of a child.
RequestStop(t) ==
  /\ kind[t] \in {"root", "child"} /\ t \notin stopped
  /\ stopped' = stopped \union {t}
  /\ IF kind[t] = "root"
       THEN fired' = fired \union {t} /\ owed' = owed \union Downstream(t)
       ELSE owed' = owed \union (({t} \cap held) \ fired) /\ UNCHANGED fired
  /\ UNCHANGED <<kind, upstream, held, callback, above>>

\* Mutant: a relay that fires does not reach the tokens below it.
BugRelay(t) ==
  /\ t \in owed
  /\ fired' = fired \union {t}
  /\ owed' = owed \ {t}
  /\ UNCHANGED <<kind, upstream, held, stopped, callback, above>>

\* A watcher runs: the relay's stop state is stopped, its watchers are due.
Relay(t) ==
  /\ t \in owed
  /\ fired' = fired \union {t}
  /\ owed' = (owed \ {t}) \union Downstream(t)
  /\ UNCHANGED <<kind, upstream, held, stopped, callback, above>>

\* The holder lets go of a token; its watchers are deregistered.
Drop(t) ==
  /\ t \in held
  /\ held' = held \ {t}
  /\ owed' = owed \ {t}
  /\ UNCHANGED <<kind, upstream, stopped, fired, callback, above>>

\* on_cancel(): at once when the token has fired, else when it fires.
OnCancel(t) ==
  /\ t \in held /\ callback[t] = "none"
  /\ callback' = [callback EXCEPT ![t] = IF t \in fired THEN "ran" ELSE "armed"]
  /\ UNCHANGED <<kind, upstream, held, stopped, fired, owed, above>>

\* The callback of a fired token runs, unless its handle goes first.
RunCallback(t) ==
  /\ t \in fired /\ callback[t] = "armed"
  /\ callback' = [callback EXCEPT ![t] = "ran"]
  /\ UNCHANGED <<kind, upstream, held, stopped, fired, owed, above>>

DropHandle(t) ==
  /\ callback[t] = "armed"
  /\ callback' = [callback EXCEPT ![t] = "removed"]
  /\ UNCHANGED <<kind, upstream, held, stopped, fired, owed, above>>

Next == \/ \E t \in Tokens : \/ MakeRoot(t) \/ RequestStop(t) \/ Relay(t) \/ Drop(t)
                             \/ OnCancel(t) \/ RunCallback(t) \/ DropHandle(t)
        \/ \E p, c \in Tokens : Child(p, c)
        \/ \E a, b, c \in Tokens : Combine(a, b, c)

Spec == Init /\ [][Next]_vars

\* A request_stop() that has begun runs all the callbacks due.
FairSpec == Spec /\ \A t \in Tokens : WF_vars(Relay(t)) /\ WF_vars(RunCallback(t))

-----------------------------------------------------------------------------
(* Properties.                                                             *)

Asked(t) == above[t] \cap stopped # {}
ChainHeld(t) == \A u \in above[t] : u \in held \/ kind[u] = "root"

\* Every variable has its type.
TypeOK == /\ kind \in [Tokens -> {"none", "root", "child", "combined"}]
          /\ upstream \in [Tokens -> SUBSET Tokens]
          /\ above \in [Tokens -> SUBSET Tokens]
          /\ held \subseteq Tokens /\ stopped \subseteq Tokens
          /\ fired \subseteq Tokens /\ owed \subseteq held
          /\ callback \in [Tokens -> {"none", "armed", "ran", "removed"}]

\* No token fires that nobody asked to stop, whatever tokens are derived,
\* combined and dropped meanwhile (CancelToken.hpp, stop_requested).
FiredWasAsked == \A t \in fired : Asked(t)

\* One hop of the cascade is never missed, also when the token is derived while
\* the upstream is being stopped (the race child() leaves to stop_callback): a
\* held token below a fired one, or whose source was stopped, has fired or is due.
NoHopMissed == \A t \in held \ fired :
  (t \in stopped \/ upstream[t] \cap fired # {}) => t \in owed

\* While every relay between a stopped source and a token is held, the token
\* fires once the callbacks that are due have run.
HeldChainFires == owed = {} => \A t \in held : Asked(t) /\ ChainHeld(t) => t \in fired

\* A registered callback runs after a stop anywhere above the token, unless its
\* handle or a relay on the way is dropped (CancelToken.hpp, on_cancel).
CallbackRuns == \A t \in Tokens :
  (callback[t] = "armed" /\ Asked(t)) ~> (callback[t] # "armed" \/ ~ChainHeld(t))

\* "cancelling the parent cascades" (AgentSupervisor.hpp, spawn): a held token
\* fires when a token it was derived from by child(), still held or a root, is
\* stopped.
CancelCascades ==
  owed = {} => \A t \in held :
    ((\A u \in above[t] : kind[u] # "combined")
     /\ \E u \in above[t] \cap stopped : u \in held \/ kind[u] = "root") => t \in fired
=============================================================================
