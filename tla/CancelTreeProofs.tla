--------------------------- MODULE CancelTreeProofs ---------------------------
(***************************************************************************)
(* The cascade for any number of tokens: a stop state fires only below a   *)
(* source that was stopped, no held token misses the firing of a token it  *)
(* watches, however derivations, drops and stops interleave, and so a stop *)
(* comes down a chain of held relays of any length.                        *)
(***************************************************************************)
EXTENDS CancelTree, FiniteSetTheorems, WellFoundedInduction, TLAPS

\* A token that has not been made is nowhere.
FreshIsNowhere ==
  \A t \in Tokens : kind[t] = "none" =>
    /\ t \notin held /\ t \notin fired /\ t \notin stopped
    /\ upstream[t] = {}
    /\ \A d \in Tokens : t \notin upstream[d] /\ (t \in above[d] => t = d)

\* The tokens above are the token and those above its upstreams, which are
\* above fewer: there is no cycle.
AboveIsClosed ==
  \A t \in Tokens : /\ t \in above[t]
                    /\ \A u \in upstream[t] : above[u] \subseteq above[t] /\ t \notin above[u]
                    /\ \A a \in above[t] : a = t \/ \E u \in upstream[t] : a \in above[u]

\* What has fired or is due was asked to stop.
DueWasAsked == \A t \in fired \union owed : Asked(t)

\* A root watches nothing, and fires in the step that stops it.
RootsFire == \A t \in Tokens : kind[t] = "root" =>
  upstream[t] = {} /\ (t \in stopped => t \in fired)

TreeInv == TypeOK /\ FreshIsNowhere /\ AboveIsClosed /\ RootsFire /\ DueWasAsked /\ NoHopMissed

-----------------------------------------------------------------------------
LEMMA InitTree == Init => TreeInv
BY DEF Init, TreeInv, TypeOK, FreshIsNowhere, AboveIsClosed, RootsFire, DueWasAsked, NoHopMissed,
    Asked

LEMMA MakeRootTree == ASSUME TreeInv, NEW t \in Tokens, MakeRoot(t) PROVE TreeInv'
BY DEF MakeRoot, TreeInv, TypeOK, FreshIsNowhere, AboveIsClosed, RootsFire, DueWasAsked,
    NoHopMissed, Asked

\* A derived token fires with its upstream, and is above nothing yet.
LEMMA ChildTree == ASSUME TreeInv, NEW p \in Tokens, NEW c \in Tokens, Child(p, c) PROVE TreeInv'
<1> USE DEF Child
<1>0. p # c /\ above[p] \subseteq Tokens
  BY DEF TreeInv, TypeOK, FreshIsNowhere
<1>1. TypeOK'
  BY <1>0 DEF TreeInv, TypeOK
<1>2. FreshIsNowhere'
  BY <1>0 DEF TreeInv, TypeOK, FreshIsNowhere
<1>3. AboveIsClosed'
  BY <1>0 DEF TreeInv, TypeOK, FreshIsNowhere, AboveIsClosed
<1>4. DueWasAsked'
  BY <1>0 DEF TreeInv, TypeOK, FreshIsNowhere, DueWasAsked, Asked
<1>5. NoHopMissed'
  BY <1>0 DEF TreeInv, TypeOK, FreshIsNowhere, NoHopMissed
<1>6. RootsFire'
  BY DEF TreeInv, TypeOK, FreshIsNowhere, RootsFire
<1> QED BY <1>1, <1>2, <1>3, <1>4, <1>5, <1>6 DEF TreeInv

LEMMA CombineTree ==
  ASSUME TreeInv, NEW a \in Tokens, NEW b \in Tokens, NEW c \in Tokens, Combine(a, b, c)
  PROVE  TreeInv'
<1> USE DEF Combine
<1>0. a # c /\ b # c /\ above[a] \subseteq Tokens /\ above[b] \subseteq Tokens
  BY DEF TreeInv, TypeOK, FreshIsNowhere
<1>1. TypeOK'
  BY <1>0 DEF TreeInv, TypeOK
<1>2. FreshIsNowhere'
  BY <1>0 DEF TreeInv, TypeOK, FreshIsNowhere
<1>3. AboveIsClosed'
  BY <1>0 DEF TreeInv, TypeOK, FreshIsNowhere, AboveIsClosed
<1>4. DueWasAsked'
  BY <1>0 DEF TreeInv, TypeOK, FreshIsNowhere, DueWasAsked, Asked
<1>5. NoHopMissed'
  BY <1>0 DEF TreeInv, TypeOK, FreshIsNowhere, NoHopMissed
<1>6. RootsFire'
  BY DEF TreeInv, TypeOK, FreshIsNowhere, RootsFire
<1> QED BY <1>1, <1>2, <1>3, <1>4, <1>5, <1>6 DEF TreeInv

\* Those below a token are asked when it is.
LEMMA AskedBelow ==
  ASSUME TreeInv, NEW t \in Tokens, NEW d \in Downstream(t), NEW S, above[t] \cap S # {}
  PROVE  d \in Tokens /\ above[d] \cap S # {}
BY DEF TreeInv, TypeOK, AboveIsClosed, Downstream

LEMMA RequestStopTree == ASSUME TreeInv, NEW t \in Tokens, RequestStop(t) PROVE TreeInv'
<1> USE DEF RequestStop
<1>0. t \in above[t] \cap stopped' /\ Downstream(t) \subseteq held
  BY DEF TreeInv, AboveIsClosed, Downstream
<1>1. TypeOK'
  BY <1>0 DEF TreeInv, TypeOK
<1>2. FreshIsNowhere' /\ AboveIsClosed'
  BY DEF TreeInv, TypeOK, FreshIsNowhere, AboveIsClosed
<1>4. DueWasAsked'
  <2>1. \A d \in Downstream(t) : Asked(d)'
    BY <1>0, AskedBelow DEF Asked
  <2> QED BY <1>0, <2>1 DEF TreeInv, DueWasAsked, Asked
<1>5. NoHopMissed'
  BY DEF TreeInv, TypeOK, NoHopMissed, Downstream
<1>6. RootsFire'
  BY DEF TreeInv, TypeOK, FreshIsNowhere, RootsFire
<1> QED BY <1>1, <1>2, <1>4, <1>5, <1>6 DEF TreeInv

LEMMA RelayTree == ASSUME TreeInv, NEW t \in Tokens, Relay(t) PROVE TreeInv'
<1> USE DEF Relay
<1>0. Asked(t) /\ Downstream(t) \subseteq held
  BY DEF TreeInv, DueWasAsked, Downstream
<1>1. TypeOK'
  BY <1>0 DEF TreeInv, TypeOK
<1>2. FreshIsNowhere' /\ AboveIsClosed'
  BY DEF TreeInv, TypeOK, FreshIsNowhere, AboveIsClosed
<1>4. DueWasAsked'
  <2>1. \A d \in Downstream(t) : Asked(d)
    BY <1>0, AskedBelow DEF Asked
  <2> QED BY <1>0, <2>1 DEF TreeInv, DueWasAsked, Asked
<1>5. NoHopMissed'
  BY DEF TreeInv, TypeOK, NoHopMissed, Downstream
<1>6. RootsFire'
  BY DEF TreeInv, TypeOK, FreshIsNowhere, RootsFire
<1> QED BY <1>1, <1>2, <1>4, <1>5, <1>6 DEF TreeInv

LEMMA DropTree == ASSUME TreeInv, NEW t \in Tokens, Drop(t) PROVE TreeInv'
BY DEF Drop, TreeInv, TypeOK, FreshIsNowhere, AboveIsClosed, RootsFire, DueWasAsked, NoHopMissed,
    Asked

LEMMA CallbackTree ==
  ASSUME TreeInv, NEW t \in Tokens, OnCancel(t) \/ RunCallback(t) \/ DropHandle(t)
  PROVE  TreeInv'
<1>1. TypeOK'
  BY DEF OnCancel, RunCallback, DropHandle, TreeInv, TypeOK
<1>2. UNCHANGED <<kind, upstream, held, stopped, fired, owed, above>>
  BY DEF OnCancel, RunCallback, DropHandle
<1> QED BY <1>1, <1>2 DEF TreeInv, FreshIsNowhere, AboveIsClosed, RootsFire, DueWasAsked,
    NoHopMissed, Asked

LEMMA StepTree == TreeInv /\ [Next]_vars => TreeInv'
<1> SUFFICES ASSUME TreeInv, [Next]_vars PROVE TreeInv'
  OBVIOUS
<1>1. CASE UNCHANGED vars
  BY <1>1 DEF vars, TreeInv, TypeOK, FreshIsNowhere, AboveIsClosed, RootsFire, DueWasAsked,
      NoHopMissed, Asked
<1>2. ASSUME NEW t \in Tokens,
             \/ MakeRoot(t) \/ RequestStop(t) \/ Relay(t) \/ Drop(t)
             \/ OnCancel(t) \/ RunCallback(t) \/ DropHandle(t)
      PROVE  TreeInv'
  BY <1>2, MakeRootTree, RequestStopTree, RelayTree, DropTree, CallbackTree
<1>3. ASSUME NEW p \in Tokens, NEW c \in Tokens, Child(p, c) PROVE TreeInv'
  BY <1>3, ChildTree
<1>4. ASSUME NEW a \in Tokens, NEW b \in Tokens, NEW c \in Tokens, Combine(a, b, c) PROVE TreeInv'
  BY <1>4, CombineTree
<1> QED BY <1>1, <1>2, <1>3, <1>4 DEF Next

\* The invariant of the relay tree of CancelToken.cpp.
THEOREM TreeInvariant == Spec => []TreeInv
BY InitTree, StepTree, PTL DEF Spec

\* Every variable of the relay tree keeps its type.
THEOREM TreeTypes == Spec => []TypeOK
<1>1. TreeInv => TypeOK
  BY DEF TreeInv
<1> QED BY <1>1, TreeInvariant, PTL

\* A token fires only when it, or a token it was derived from, was asked to stop.
THEOREM NothingFiresUnasked == Spec => []FiredWasAsked
<1>1. TreeInv => FiredWasAsked
  BY DEF TreeInv, DueWasAsked, FiredWasAsked
<1> QED BY <1>1, TreeInvariant, PTL

\* A held token whose upstream has fired, or whose source was stopped, has fired
\* or its watcher is due, whenever it was derived.
THEOREM EveryHopIsTaken == Spec => []NoHopMissed
<1>1. TreeInv => NoHopMissed
  BY DEF TreeInv
<1> QED BY <1>1, TreeInvariant, PTL

\* A token that was asked to stop and has neither fired nor is due has the same
\* said of one above it, if its chain is held.
LEMMA StuckAbove ==
  ASSUME TreeInv, owed = {}, NEW t \in held, Asked(t), ChainHeld(t), t \notin fired
  PROVE  \E u \in held : /\ u # t /\ above[u] \subseteq above[t] \ {t}
                         /\ Asked(u) /\ ChainHeld(u) /\ u \notin fired
<1>0. TypeOK /\ t \in Tokens /\ upstream[t] \subseteq Tokens
  BY DEF TreeInv, TypeOK
<1>1. t \notin stopped /\ upstream[t] \cap fired = {}
  BY DEF TreeInv, NoHopMissed
<1>2. PICK a \in above[t] : a \in stopped
  BY DEF Asked
<1>3. PICK u \in upstream[t] : a \in above[u]
  BY <1>0, <1>1, <1>2 DEF TreeInv, AboveIsClosed
<1>4. u \in above[u] /\ above[u] \subseteq above[t] \ {t} /\ u # t
  BY <1>0, <1>3 DEF TreeInv, AboveIsClosed
<1>5. Asked(u) /\ ChainHeld(u) /\ u \notin fired
  BY <1>1, <1>2, <1>3, <1>4 DEF Asked, ChainHeld
<1>6. u \in held
  <2>1. SUFFICES ASSUME kind[u] = "root" PROVE FALSE
    BY <1>4 DEF ChainHeld
  <2>2. a = u
    BY <1>0, <1>3, <2>1 DEF TreeInv, AboveIsClosed, RootsFire
  <2> QED BY <1>0, <1>2, <1>3, <1>5, <2>1, <2>2 DEF TreeInv, RootsFire
<1> QED BY <1>4, <1>5, <1>6

\* Of the tokens that would be stuck, one is below the fewest; there is none.
LEMMA NobodyStuck == TreeInv => HeldChainFires
<1> SUFFICES ASSUME TreeInv, owed = {} PROVE \A t \in held : Asked(t) /\ ChainHeld(t) => t \in fired
  BY DEF HeldChainFires
<1> DEFINE Stuck == {t \in held : Asked(t) /\ ChainHeld(t) /\ t \notin fired}
           Sizes == {Cardinality(above[t]) : t \in Stuck}
<1>1. ASSUME NEW t \in held PROVE IsFiniteSet(above[t]) /\ Cardinality(above[t]) \in Nat /\ t \in above[t]
  <2>1. above[t] \subseteq Tokens /\ t \in above[t]
    BY DEF TreeInv, TypeOK, AboveIsClosed
  <2> QED BY <2>1, TokensAssumption, FS_Subset, FS_CardinalityType
<1>2. SUFFICES ASSUME Stuck # {} PROVE FALSE
  OBVIOUS
<1>3. Sizes \in SUBSET Nat /\ Sizes # {}
  BY <1>1, <1>2
<1>4. PICK m \in Sizes : \A n \in Sizes : ~ (<<n, m>> \in OpToRel(<, Nat))
  <2> HIDE DEF Sizes
  <2> QED BY <1>3, NatLessThanWellFounded, WFMin
<1>5. PICK t \in Stuck : m = Cardinality(above[t])
  OBVIOUS
<1>6. PICK u \in held : /\ u # t /\ above[u] \subseteq above[t] \ {t}
                        /\ Asked(u) /\ ChainHeld(u) /\ u \notin fired
  BY StuckAbove
<1>7. Cardinality(above[u]) < Cardinality(above[t])
  <2>1. t \in held /\ IsFiniteSet(above[t]) /\ t \in above[t] /\ above[u] \subseteq above[t] /\ above[u] # above[t]
    BY <1>1, <1>6
  <2>2. Cardinality(above[u]) <= Cardinality(above[t]) /\ Cardinality(above[u]) # Cardinality(above[t])
    BY <2>1, FS_Subset
  <2>3. Cardinality(above[u]) \in Nat /\ Cardinality(above[t]) \in Nat
    BY <1>1, <2>1
  <2> QED BY <2>2, <2>3
<1>8. Cardinality(above[u]) \in Sizes
  BY <1>6
<1>9. <<Cardinality(above[u]), m>> \in OpToRel(<, Nat)
  BY <1>3, <1>5, <1>7, <1>8 DEF OpToRel
<1> QED BY <1>4, <1>8, <1>9

\* A stop comes down a chain of relays of any length, as long as each of them is
\* held: once no callback is due, the token has fired.
THEOREM StopComesDown == Spec => []HeldChainFires
BY NobodyStuck, TreeInvariant, PTL
=============================================================================
