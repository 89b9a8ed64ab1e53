------------------------- MODULE McpTransportProofs -------------------------
(***************************************************************************)
(* For any number of threads and requests: the map of promises holds the   *)
(* requests that wait and nothing else, a request without a result is in   *)
(* it or in the hands of who tells it, and a future is fulfilled once.     *)
(***************************************************************************)
EXTENDS McpTransport, TLAPS

\* Two requests never share an id, and an id in use has been given out.
IdsAreDistinct ==
  \A c, d \in Callers : InRequest(c) /\ InRequest(d) =>
    id[c] \in Ids /\ id[c] < nextId /\ (id[c] = id[d] => c = d)

\* Whoever may still fulfil the entry finds it here.
Held(i) == i \in pending \/ i \in hand["reader"] \/ i \in hand["stop"]

\* An id that has not been given out is unknown.
FreshIsNowhere == \A i \in Ids : i >= nextId => result[i] = None /\ ~Held(i)

\* A stdio reader takes the entry out and fulfils the promise in one step.
EntryIsOpen ==
  kind = "stdio" => /\ \A i \in pending : result[i] = None
                    /\ hand["reader"] = {} /\ hand["stop"] = {}

\* PendingIsWaiting, caller by caller.
EntryHasCaller == \A i \in pending : \E c \in Callers : InRequest(c) /\ id[c] = i
CallerHasEntry == \A c \in Callers : InRequest(c) /\ result[id[c]] = None => Held(id[c])

MapInv ==
  TypeOK /\ IdsAreDistinct /\ FreshIsNowhere /\ EntryIsOpen /\ EntryHasCaller /\ CallerHasEntry

-----------------------------------------------------------------------------
\* What the ways to fulfil a promise do to it.
Told ==
  /\ pending' \subseteq pending /\ result' \in [Ids -> Results] /\ hand' \in [Hands -> SUBSET Ids]
  /\ kind = "stdio" => hand' = hand
  /\ \A i \in Ids : /\ Held(i) => Held(i)' \/ result'[i] # None
                    /\ ~Held(i) => ~Held(i)' /\ result'[i] = result[i]
                    /\ result'[i] # result[i] => result[i] = None
                    /\ kind = "stdio" /\ result'[i] # result[i] =>
                         i \in pending /\ i \notin pending'

LEMMA CancelAllTells == ASSUME TypeOK, NEW h \in Hands, CancelAll(h) PROVE Told
<1>1. CASE kind = "stdio"
  BY <1>1 DEF TypeOK, CancelAll, Told, Held, None, Results, Hands
<1>2. CASE kind = "sse"
  <2>1. hand' = [hand EXCEPT ![h] = @ \union pending] /\ result' = result /\ pending' = {}
    BY <1>2 DEF CancelAll
  <2>2. hand' \in [Hands -> SUBSET Ids]
    BY <2>1 DEF TypeOK
  <2>3. ASSUME NEW i \in Ids PROVE Held(i)' <=> Held(i)
    BY <2>1 DEF TypeOK, Held, Hands
  <2> QED BY <1>2, <2>1, <2>2, <2>3 DEF TypeOK, Told
<1> QED BY <1>1, <1>2 DEF CancelAll

LEMMA TellTells ==
  ASSUME TypeOK, EntryIsOpen, NEW h \in Hands, NEW r \in Results \ {None}, Tell(h, r),
         UNCHANGED pending
  PROVE  Told
<1>1. PICK i \in hand[h] : /\ hand' = [hand EXCEPT ![h] = @ \ {i}]
                          /\ result' = [result EXCEPT ![i] = IF @ = None THEN r ELSE @]
  BY DEF Tell
<1>2. i \in Ids /\ Held(i) /\ kind # "stdio"
  BY <1>1 DEF TypeOK, Held, Hands, EntryIsOpen
<1>3. result' \in [Ids -> Results] /\ hand' \in [Hands -> SUBSET Ids]
  BY <1>1, <1>2 DEF TypeOK
<1>4. ASSUME NEW j \in Ids
      PROVE  /\ Held(j) => Held(j)' \/ result'[j] # None
             /\ ~Held(j) => ~Held(j)' /\ result'[j] = result[j]
             /\ result'[j] # result[j] => result[j] = None
  BY <1>1, <1>2 DEF TypeOK, Held, Hands
<1> QED BY <1>2, <1>3, <1>4 DEF Told

LEMMA DeliverTells == ASSUME TypeOK, EntryIsOpen, Deliver PROVE Told
<1>1. PICK i \in stream :
        \/ i \notin pending /\ UNCHANGED <<pending, promises>>
        \/ /\ i \in pending /\ kind = "stdio" /\ UNCHANGED hand
           /\ result' = [result EXCEPT ![i] = "answer"] /\ pending' = pending \ {i}
        \/ /\ i \in pending /\ kind = "sse" /\ UNCHANGED <<pending, result>>
           /\ hand' = [hand EXCEPT !["reader"] = {i}]
  BY DEF Deliver
<1>2. i \in Ids
  BY DEF TypeOK
<1>3. CASE i \notin pending /\ UNCHANGED <<pending, promises>>
  BY <1>3 DEF TypeOK, Told, Held, promises
<1>4. CASE i \in pending /\ kind = "stdio"
  BY <1>1, <1>2, <1>4 DEF TypeOK, EntryIsOpen, Told, Held, Results, None
<1>5. CASE i \in pending /\ kind = "sse"
  <2>1. UNCHANGED <<pending, result>> /\ hand' = [hand EXCEPT !["reader"] = {i}]
    BY <1>1, <1>5
  <2>2. hand' \in [Hands -> SUBSET Ids]
    BY <1>2, <2>1 DEF TypeOK
  <2>3. hand["reader"] = {} /\ hand'["reader"] = {i} /\ hand'["stop"] = hand["stop"]
    BY <2>1 DEF Deliver, TypeOK, Hands
  <2>4. ASSUME NEW j \in Ids PROVE Held(j)' <=> Held(j)
    BY <1>5, <2>1, <2>3 DEF Held
  <2> QED BY <1>5, <2>1, <2>2, <2>4 DEF TypeOK, Told
<1> QED BY <1>1, <1>3, <1>4, <1>5

LEMMA NoneTold == ASSUME TypeOK, UNCHANGED <<pending, promises>> PROVE Told
BY DEF TypeOK, Told, Held, promises

LEMMA InitMap == Init => MapInv
<1> SUFFICES ASSUME Init PROVE MapInv
  OBVIOUS
<1>1. pc \in [Threads -> Places] /\ \A c \in Callers : pc[c] = "idle"
  BY McpAssumption DEF Init, Threads, Callers, Places
<1>2. /\ result \in [Ids -> Results] /\ hand \in [Hands -> SUBSET Ids]
      /\ id \in [Threads -> Ids \union {0}]
  BY DEF Init, Results
<1>2a. nextId \in 1..MaxRequests + 1
  BY McpAssumption DEF McpAssumption, Init
<1>2b. TypeOK
  BY <1>1, <1>2, <1>2a DEF Init, TypeOK
<1>2c. \A i : ~Held(i)
  BY DEF Init, Held, Hands
<1>2d. hand["reader"] = {} /\ hand["stop"] = {} /\ pending = {} /\ \A i \in Ids : result[i] = None
  BY DEF Init, Hands
<1>3. FreshIsNowhere /\ EntryIsOpen /\ EntryHasCaller
  BY <1>2c, <1>2d DEF FreshIsNowhere, EntryIsOpen, EntryHasCaller
<1>4. IdsAreDistinct /\ CallerHasEntry
  BY <1>1 DEF IdsAreDistinct, CallerHasEntry, InRequest
<1> QED BY <1>2b, <1>3, <1>4 DEF MapInv

LEMMA StartMap == ASSUME MapInv, Start PROVE MapInv'
<1> USE McpAssumption DEF MapInv, Start, transport, remote, threads, promises, child, Goto
<1>1. TypeOK'
  BY ZenonT(60) DEF TypeOK, Callers, Threads, Ids, Places, None
<1>2. IdsAreDistinct'
  BY DEF TypeOK, IdsAreDistinct, InRequest, Callers, Threads, Ids
<1>3. FreshIsNowhere'
  BY DEF TypeOK, FreshIsNowhere, Held, Ids
<1>4. EntryIsOpen'
  BY DEF TypeOK, FreshIsNowhere, EntryIsOpen, Held, Ids
<1>5. EntryHasCaller'
  BY DEF TypeOK, EntryHasCaller, EntryIsOpen, InRequest, Callers, Threads, Ids
<1>6. CallerHasEntry'
  BY DEF TypeOK, IdsAreDistinct, CallerHasEntry, FreshIsNowhere, Held, InRequest, Callers,
      Threads, Ids
<1> QED BY <1>1, <1>2, <1>3, <1>4, <1>5, <1>6

LEMMA CallMap == ASSUME MapInv, NEW c \in Callers, Call(c) PROVE MapInv'
<1> USE McpAssumption DEF MapInv, Call, transport, remote, threads, promises, child, Goto
<1>1. TypeOK'
  BY DEF TypeOK, Callers, Threads, Ids, Places, None
<1>2. IdsAreDistinct'
  BY DEF TypeOK, IdsAreDistinct, InRequest, Callers, Threads, Ids
<1>3. FreshIsNowhere'
  BY DEF TypeOK, FreshIsNowhere, Held, Ids
<1>4. EntryIsOpen'
  BY DEF TypeOK, FreshIsNowhere, EntryIsOpen, Held, Ids
<1>5. EntryHasCaller'
  BY DEF TypeOK, EntryHasCaller, EntryIsOpen, InRequest, Callers, Threads, Ids
<1>6. CallerHasEntry'
  BY DEF TypeOK, IdsAreDistinct, CallerHasEntry, FreshIsNowhere, Held, InRequest, Callers,
      Threads, Ids
<1> QED BY <1>1, <1>2, <1>3, <1>4, <1>5, <1>6

LEMMA RegisterMap == ASSUME MapInv, NEW c \in Callers, Register(c) PROVE MapInv'
<1> USE McpAssumption DEF MapInv, Register, transport, remote, threads, promises, child, Goto
<1>1. TypeOK'
  BY DEF TypeOK, Callers, Threads, Ids, Places, None
<1>2. IdsAreDistinct'
  BY DEF TypeOK, IdsAreDistinct, InRequest, Callers, Threads, Ids
<1>3. FreshIsNowhere'
  BY DEF TypeOK, FreshIsNowhere, Held, Ids
<1>4. EntryIsOpen'
  BY DEF TypeOK, FreshIsNowhere, EntryIsOpen, Held, Ids
<1>5. EntryHasCaller'
  BY DEF TypeOK, EntryHasCaller, EntryIsOpen, InRequest, Callers, Threads, Ids
<1>6. CallerHasEntry'
  BY DEF TypeOK, IdsAreDistinct, CallerHasEntry, FreshIsNowhere, Held, InRequest, Callers,
      Threads, Ids
<1> QED BY <1>1, <1>2, <1>3, <1>4, <1>5, <1>6

LEMMA LockMap == ASSUME MapInv, NEW t \in Threads, Lock(t) PROVE MapInv'
<1> USE McpAssumption DEF MapInv, Lock, transport, remote, threads, promises, child, Goto
<1>1. TypeOK'
  BY DEF TypeOK, Callers, Threads, Ids, Places, None
<1>2. IdsAreDistinct'
  BY DEF TypeOK, IdsAreDistinct, InRequest, Callers, Threads, Ids
<1>3. FreshIsNowhere'
  BY DEF TypeOK, FreshIsNowhere, Held, Ids
<1>4. EntryIsOpen'
  BY DEF TypeOK, FreshIsNowhere, EntryIsOpen, Held, Ids
<1>5. EntryHasCaller'
  BY DEF TypeOK, EntryHasCaller, EntryIsOpen, InRequest, Callers, Threads, Ids
<1>6. CallerHasEntry'
  BY DEF TypeOK, IdsAreDistinct, CallerHasEntry, FreshIsNowhere, Held, InRequest, Callers,
      Threads, Ids
<1> QED BY <1>1, <1>2, <1>3, <1>4, <1>5, <1>6

LEMMA WriteMap == ASSUME MapInv, NEW c \in Callers, Write(c) PROVE MapInv'
<1> USE McpAssumption DEF MapInv, Write, transport, remote, threads, promises, child, Goto, Unlock
<1>1. TypeOK'
  <2>1. id[c] \in Ids
    BY DEF IdsAreDistinct, InRequest
  <2> QED BY ZenonT(60), <2>1 DEF TypeOK, Callers, Threads, Ids, Places, None
<1>2. IdsAreDistinct'
  BY DEF TypeOK, IdsAreDistinct, InRequest, Callers, Threads, Ids
<1>3. FreshIsNowhere'
  BY DEF TypeOK, FreshIsNowhere, Held, Ids
<1>4. EntryIsOpen'
  BY DEF TypeOK, FreshIsNowhere, EntryIsOpen, Held, Ids
<1>5. EntryHasCaller'
  BY DEF TypeOK, EntryHasCaller, EntryIsOpen, InRequest, Callers, Threads, Ids
<1>6. CallerHasEntry'
  BY DEF TypeOK, IdsAreDistinct, CallerHasEntry, FreshIsNowhere, Held, InRequest, Callers,
      Threads, Ids
<1> QED BY <1>1, <1>2, <1>3, <1>4, <1>5, <1>6

LEMMA EraseMap == ASSUME MapInv, NEW c \in Callers, Erase(c) PROVE MapInv'
<1> USE McpAssumption DEF MapInv, Erase, transport, remote, threads, promises, child, Goto, Return
<1>1. TypeOK'
  <2>1. pc' \in [Threads -> Places] /\ id' \in [Threads -> Ids \union {0}]
    BY DEF TypeOK, Callers, Threads, Places
  <2>2. pending' \subseteq Ids /\ token' \subseteq Callers
    BY DEF TypeOK
  <2> QED BY <2>1, <2>2 DEF TypeOK
<1>2. IdsAreDistinct'
  BY DEF TypeOK, IdsAreDistinct, InRequest, Callers, Threads, Ids
<1>3. FreshIsNowhere'
  BY DEF TypeOK, FreshIsNowhere, Held, Ids
<1>4. EntryIsOpen'
  BY DEF TypeOK, FreshIsNowhere, EntryIsOpen, Held, Ids
<1>5. EntryHasCaller'
  BY DEF TypeOK, EntryHasCaller, EntryIsOpen, InRequest, Callers, Threads, Ids
<1>6. CallerHasEntry'
  BY DEF TypeOK, IdsAreDistinct, CallerHasEntry, FreshIsNowhere, Held, InRequest, Callers,
      Threads, Ids
<1> QED BY <1>1, <1>2, <1>3, <1>4, <1>5, <1>6

LEMMA AnsweredMap == ASSUME MapInv, NEW c \in Callers, Answered(c) PROVE MapInv'
<1> USE McpAssumption DEF MapInv, Answered, transport, remote, threads, promises, child,
        Goto, Return
<1>1. TypeOK'
  <2>1. pc' \in [Threads -> Places] /\ id' \in [Threads -> Ids \union {0}]
    BY DEF TypeOK, Callers, Threads, Places
  <2>2. pending' \subseteq Ids /\ token' \subseteq Callers
    BY DEF TypeOK
  <2> QED BY <2>1, <2>2 DEF TypeOK
<1>2. IdsAreDistinct'
  BY DEF TypeOK, IdsAreDistinct, InRequest, Callers, Threads, Ids
<1>3. FreshIsNowhere'
  BY DEF TypeOK, FreshIsNowhere, Held, Ids
<1>4. EntryIsOpen'
  BY DEF TypeOK, FreshIsNowhere, EntryIsOpen, Held, Ids
<1>5. EntryHasCaller'
  BY DEF TypeOK, EntryHasCaller, EntryIsOpen, InRequest, Callers, Threads, Ids
<1>6. CallerHasEntry'
  BY DEF TypeOK, IdsAreDistinct, CallerHasEntry, FreshIsNowhere, Held, InRequest, Callers,
      Threads, Ids
<1> QED BY <1>1, <1>2, <1>3, <1>4, <1>5, <1>6

LEMMA GiveUpMap == ASSUME MapInv, NEW c \in Callers, GiveUp(c) PROVE MapInv'
<1> USE McpAssumption DEF MapInv, GiveUp, transport, remote, threads, promises, child, Goto, Return
<1>1. TypeOK'
  <2>1. pc' \in [Threads -> Places] /\ id' \in [Threads -> Ids \union {0}]
    BY DEF TypeOK, Callers, Threads, Places
  <2>2. pending' \subseteq Ids /\ token' \subseteq Callers /\ result' \in [Ids -> Results]
    BY DEF TypeOK, Results
  <2> QED BY <2>1, <2>2 DEF TypeOK
<1>2. IdsAreDistinct'
  BY DEF TypeOK, IdsAreDistinct, InRequest, Callers, Threads, Ids
<1>0. id[c] \in Ids /\ id[c] < nextId
  BY DEF IdsAreDistinct, InRequest
<1>3. FreshIsNowhere'
  <2> SUFFICES ASSUME NEW i \in Ids, i >= nextId PROVE result'[i] = None /\ ~Held(i)'
    BY DEF FreshIsNowhere
  <2>1. i # id[c] /\ result[i] = None /\ ~Held(i)
    BY <1>0 DEF FreshIsNowhere, TypeOK, Ids
  <2> QED BY <2>1 DEF TypeOK, Held
<1>4. EntryIsOpen'
  BY DEF TypeOK, FreshIsNowhere, EntryIsOpen, Held, Ids
<1>5. EntryHasCaller'
  <2>1. CASE kind = "sse"
    <3>1. UNCHANGED <<pending, pc, id>>
      BY <2>1
    <3> QED BY <3>1 DEF EntryHasCaller, InRequest
  <2>2. CASE kind = "stdio"
    <3>1. /\ pending' = pending \ {id[c]}
          /\ \A d \in Callers : d # c => pc'[d] = pc[d] /\ id'[d] = id[d]
      BY <2>2 DEF TypeOK, Callers, Threads
    <3> QED BY <3>1 DEF EntryHasCaller, InRequest
  <2> QED BY <2>1, <2>2
<1>6. CallerHasEntry'
  BY DEF TypeOK, IdsAreDistinct, CallerHasEntry, FreshIsNowhere, Held, InRequest, Callers,
      Threads, Ids
<1> QED BY <1>1, <1>2, <1>3, <1>4, <1>5, <1>6

LEMMA NoticeMap == ASSUME MapInv, NEW c \in Callers, Notice(c) PROVE MapInv'
<1> USE McpAssumption DEF MapInv, Notice, transport, remote, threads, promises, child, Goto
<1>1. TypeOK'
  BY DEF TypeOK, Callers, Threads, Ids, Places, None
<1>2. IdsAreDistinct'
  BY DEF TypeOK, IdsAreDistinct, InRequest, Callers, Threads, Ids
<1>3. FreshIsNowhere'
  BY DEF TypeOK, FreshIsNowhere, Held, Ids
<1>4. EntryIsOpen'
  BY DEF TypeOK, FreshIsNowhere, EntryIsOpen, Held, Ids
<1>5. EntryHasCaller'
  BY DEF TypeOK, EntryHasCaller, EntryIsOpen, InRequest, Callers, Threads, Ids
<1>6. CallerHasEntry'
  BY DEF TypeOK, IdsAreDistinct, CallerHasEntry, FreshIsNowhere, Held, InRequest, Callers,
      Threads, Ids
<1> QED BY <1>1, <1>2, <1>3, <1>4, <1>5, <1>6

LEMMA FallbackMap == ASSUME MapInv, NEW c \in Callers, Fallback(c) PROVE MapInv'
<1> USE McpAssumption DEF MapInv, Fallback, transport, remote, threads, promises, child,
        Goto, Return
<1>1. TypeOK'
  <2>1. pc' \in [Threads -> Places] /\ id' \in [Threads -> Ids \union {0}]
    BY DEF TypeOK, Callers, Threads, Places
  <2>2. pending' \subseteq Ids /\ token' \subseteq Callers
    BY DEF TypeOK
  <2> QED BY <2>1, <2>2 DEF TypeOK
<1>2. IdsAreDistinct'
  BY DEF TypeOK, IdsAreDistinct, InRequest, Callers, Threads, Ids
<1>3. FreshIsNowhere'
  BY DEF TypeOK, FreshIsNowhere, Held, Ids
<1>4. EntryIsOpen'
  BY DEF TypeOK, FreshIsNowhere, EntryIsOpen, Held, Ids
<1>5. EntryHasCaller'
  BY DEF TypeOK, EntryHasCaller, EntryIsOpen, InRequest, Callers, Threads, Ids
<1>6. CallerHasEntry'
  BY DEF TypeOK, IdsAreDistinct, CallerHasEntry, FreshIsNowhere, Held, InRequest, Callers,
      Threads, Ids
<1> QED BY <1>1, <1>2, <1>3, <1>4, <1>5, <1>6

LEMMA DeliverMap == ASSUME MapInv, Deliver PROVE MapInv'
<1>0. Told
  BY DeliverTells DEF MapInv
<1> USE McpAssumption DEF MapInv, Deliver, transport, remote, threads, promises, child, Goto
<1>1. TypeOK'
  BY <1>0 DEF Told, TypeOK, Callers, Threads, Ids, Places, None
<1>2. IdsAreDistinct'
  BY <1>0 DEF Told, TypeOK, IdsAreDistinct, InRequest, Callers, Threads, Ids
<1>3. FreshIsNowhere'
  <2> SUFFICES ASSUME NEW i \in Ids, i >= nextId PROVE result'[i] = None /\ ~Held(i)'
    BY DEF FreshIsNowhere
  <2>1. result[i] = None /\ ~Held(i)
    BY DEF FreshIsNowhere
  <2> QED BY <1>0, <2>1 DEF Told
<1>4. EntryIsOpen'
  BY <1>0 DEF Told, TypeOK, EntryIsOpen
<1>5. EntryHasCaller'
  BY <1>0 DEF Told, TypeOK, EntryHasCaller, EntryIsOpen, InRequest, Callers, Threads, Ids
<1>6. CallerHasEntry'
  <2> SUFFICES ASSUME NEW c \in Callers, InRequest(c)', result'[id[c]] = None PROVE Held(id[c])'
    BY DEF CallerHasEntry, Held
  <2>1. InRequest(c) /\ id[c] \in Ids
    BY DEF TypeOK, InRequest, IdsAreDistinct, Callers, Threads
  <2>2. result[id[c]] = None => Held(id[c])
    BY <2>1 DEF CallerHasEntry
  <2> QED BY <1>0, <2>1, <2>2 DEF Told
<1> QED BY <1>1, <1>2, <1>3, <1>4, <1>5, <1>6

LEMMA FulfilMap == ASSUME MapInv, Fulfil PROVE MapInv'
<1>0. Told
  BY TellTells DEF MapInv, Fulfil, Hands, Results, None
<1> USE McpAssumption DEF MapInv, Fulfil, transport, remote, threads, promises, child, Goto
<1>1. TypeOK'
  BY <1>0 DEF Told, TypeOK, Callers, Threads, Ids, Places, None
<1>2. IdsAreDistinct'
  BY <1>0 DEF Told, TypeOK, IdsAreDistinct, InRequest, Callers, Threads, Ids
<1>3. FreshIsNowhere'
  <2> SUFFICES ASSUME NEW i \in Ids, i >= nextId PROVE result'[i] = None /\ ~Held(i)'
    BY DEF FreshIsNowhere
  <2>1. result[i] = None /\ ~Held(i)
    BY DEF FreshIsNowhere
  <2> QED BY <1>0, <2>1 DEF Told
<1>4. EntryIsOpen'
  BY <1>0 DEF Told, TypeOK, EntryIsOpen
<1>5. EntryHasCaller'
  BY <1>0 DEF Told, TypeOK, EntryHasCaller, EntryIsOpen, InRequest, Callers, Threads, Ids
<1>6. CallerHasEntry'
  <2> SUFFICES ASSUME NEW c \in Callers, InRequest(c)', result'[id[c]] = None PROVE Held(id[c])'
    BY DEF CallerHasEntry, Held
  <2>1. InRequest(c) /\ id[c] \in Ids
    BY DEF TypeOK, InRequest, IdsAreDistinct, Callers, Threads
  <2>2. result[id[c]] = None => Held(id[c])
    BY <2>1 DEF CallerHasEntry
  <2> QED BY <1>0, <2>1, <2>2 DEF Told
<1> QED BY <1>1, <1>2, <1>3, <1>4, <1>5, <1>6

LEMMA StreamEndsMap == ASSUME MapInv, StreamEnds PROVE MapInv'
<1> USE McpAssumption DEF MapInv, StreamEnds, transport, remote, threads, promises, child, Goto
<1>1. TypeOK'
  BY DEF TypeOK, Callers, Threads, Ids, Places, None
<1>2. IdsAreDistinct'
  BY DEF TypeOK, IdsAreDistinct, InRequest, Callers, Threads, Ids
<1>3. FreshIsNowhere'
  BY DEF TypeOK, FreshIsNowhere, Held, Ids
<1>4. EntryIsOpen'
  BY DEF TypeOK, FreshIsNowhere, EntryIsOpen, Held, Ids
<1>5. EntryHasCaller'
  BY DEF TypeOK, EntryHasCaller, EntryIsOpen, InRequest, Callers, Threads, Ids
<1>6. CallerHasEntry'
  BY DEF TypeOK, IdsAreDistinct, CallerHasEntry, FreshIsNowhere, Held, InRequest, Callers,
      Threads, Ids
<1> QED BY <1>1, <1>2, <1>3, <1>4, <1>5, <1>6

LEMMA ReaderEndsMap == ASSUME MapInv, ReaderEnds PROVE MapInv'
<1>0. Told
  BY CancelAllTells, NoneTold DEF MapInv, ReaderEnds, Hands
<1> USE McpAssumption DEF MapInv, ReaderEnds, transport, remote, threads, promises, child, Goto
<1>1. TypeOK'
  BY <1>0 DEF Told, TypeOK, Callers, Threads, Ids, Places, None
<1>2. IdsAreDistinct'
  BY <1>0 DEF Told, TypeOK, IdsAreDistinct, InRequest, Callers, Threads, Ids
<1>3. FreshIsNowhere'
  <2> SUFFICES ASSUME NEW i \in Ids, i >= nextId PROVE result'[i] = None /\ ~Held(i)'
    BY DEF FreshIsNowhere
  <2>1. result[i] = None /\ ~Held(i)
    BY DEF FreshIsNowhere
  <2> QED BY <1>0, <2>1 DEF Told
<1>4. EntryIsOpen'
  BY <1>0 DEF Told, TypeOK, EntryIsOpen
<1>5. EntryHasCaller'
  BY <1>0 DEF Told, TypeOK, EntryHasCaller, EntryIsOpen, InRequest, Callers, Threads, Ids
<1>6. CallerHasEntry'
  <2> SUFFICES ASSUME NEW c \in Callers, InRequest(c)', result'[id[c]] = None PROVE Held(id[c])'
    BY DEF CallerHasEntry, Held
  <2>1. InRequest(c) /\ id[c] \in Ids
    BY DEF TypeOK, InRequest, IdsAreDistinct, Callers, Threads
  <2>2. result[id[c]] = None => Held(id[c])
    BY <2>1 DEF CallerHasEntry
  <2> QED BY <1>0, <2>1, <2>2 DEF Told
<1> QED BY <1>1, <1>2, <1>3, <1>4, <1>5, <1>6

LEMMA QuitMap == ASSUME MapInv, Quit PROVE MapInv'
<1> USE McpAssumption DEF MapInv, Quit, transport, remote, threads, promises, child, Goto
<1>1. TypeOK'
  BY DEF TypeOK, Callers, Threads, Ids, Places, None
<1>2. IdsAreDistinct'
  BY DEF TypeOK, IdsAreDistinct, InRequest, Callers, Threads, Ids
<1>3. FreshIsNowhere'
  BY DEF TypeOK, FreshIsNowhere, Held, Ids
<1>4. EntryIsOpen'
  BY DEF TypeOK, FreshIsNowhere, EntryIsOpen, Held, Ids
<1>5. EntryHasCaller'
  BY DEF TypeOK, EntryHasCaller, EntryIsOpen, InRequest, Callers, Threads, Ids
<1>6. CallerHasEntry'
  BY DEF TypeOK, IdsAreDistinct, CallerHasEntry, FreshIsNowhere, Held, InRequest, Callers,
      Threads, Ids
<1> QED BY <1>1, <1>2, <1>3, <1>4, <1>5, <1>6

LEMMA StopMap == ASSUME MapInv, NEW t \in Threads, Stop(t) PROVE MapInv'
<1> USE McpAssumption DEF MapInv, Stop, transport, remote, threads, promises, child, Goto
<1>1. TypeOK'
  BY DEF TypeOK, Callers, Threads, Ids, Places, None
<1>2. IdsAreDistinct'
  BY DEF TypeOK, IdsAreDistinct, InRequest, Callers, Threads, Ids
<1>3. FreshIsNowhere'
  BY DEF TypeOK, FreshIsNowhere, Held, Ids
<1>4. EntryIsOpen'
  BY DEF TypeOK, FreshIsNowhere, EntryIsOpen, Held, Ids
<1>5. EntryHasCaller'
  BY DEF TypeOK, EntryHasCaller, EntryIsOpen, InRequest, Callers, Threads, Ids
<1>6. CallerHasEntry'
  BY DEF TypeOK, IdsAreDistinct, CallerHasEntry, FreshIsNowhere, Held, InRequest, Callers,
      Threads, Ids
<1> QED BY <1>1, <1>2, <1>3, <1>4, <1>5, <1>6

LEMMA CancelPendingMap == ASSUME MapInv, NEW t \in Threads, CancelPending(t) PROVE MapInv'
<1>0. Told
  BY CancelAllTells DEF MapInv, CancelPending, Hands
<1> USE McpAssumption DEF MapInv, CancelPending, transport, remote, threads, promises, child, Goto
<1>1. TypeOK'
  BY <1>0 DEF Told, TypeOK, Callers, Threads, Ids, Places, None
<1>2. IdsAreDistinct'
  BY <1>0 DEF Told, TypeOK, IdsAreDistinct, InRequest, Callers, Threads, Ids
<1>3. FreshIsNowhere'
  <2> SUFFICES ASSUME NEW i \in Ids, i >= nextId PROVE result'[i] = None /\ ~Held(i)'
    BY DEF FreshIsNowhere
  <2>1. result[i] = None /\ ~Held(i)
    BY DEF FreshIsNowhere
  <2> QED BY <1>0, <2>1 DEF Told
<1>4. EntryIsOpen'
  BY <1>0 DEF Told, TypeOK, EntryIsOpen
<1>5. EntryHasCaller'
  BY <1>0 DEF Told, TypeOK, EntryHasCaller, EntryIsOpen, InRequest, Callers, Threads, Ids
<1>6. CallerHasEntry'
  <2> SUFFICES ASSUME NEW c \in Callers, InRequest(c)', result'[id[c]] = None PROVE Held(id[c])'
    BY DEF CallerHasEntry, Held
  <2>1. InRequest(c) /\ id[c] \in Ids
    BY DEF TypeOK, InRequest, IdsAreDistinct, Callers, Threads
  <2>2. result[id[c]] = None => Held(id[c])
    BY <2>1 DEF CallerHasEntry
  <2> QED BY <1>0, <2>1, <2>2 DEF Told
<1> QED BY <1>1, <1>2, <1>3, <1>4, <1>5, <1>6

LEMMA ExitMap == ASSUME MapInv, NEW t \in Threads, Exit(t) PROVE MapInv'
<1> USE McpAssumption DEF MapInv, Exit, transport, remote, threads, promises, child, Goto, Unlock
<1>1. TypeOK'
  BY ZenonT(60) DEF TypeOK, Callers, Threads, Ids, Places, None
<1>2. IdsAreDistinct'
  BY DEF TypeOK, IdsAreDistinct, InRequest, Callers, Threads, Ids
<1>3. FreshIsNowhere'
  BY DEF TypeOK, FreshIsNowhere, Held, Ids
<1>4. EntryIsOpen'
  BY DEF TypeOK, FreshIsNowhere, EntryIsOpen, Held, Ids
<1>5. EntryHasCaller'
  BY DEF TypeOK, EntryHasCaller, EntryIsOpen, InRequest, Callers, Threads, Ids
<1>6. CallerHasEntry'
  BY DEF TypeOK, IdsAreDistinct, CallerHasEntry, FreshIsNowhere, Held, InRequest, Callers,
      Threads, Ids
<1> QED BY <1>1, <1>2, <1>3, <1>4, <1>5, <1>6

LEMMA CloseMap == ASSUME MapInv, NEW t \in Threads, Close(t) PROVE MapInv'
<1> USE McpAssumption DEF MapInv, Close, transport, remote, threads, promises, child, Goto
<1>1. TypeOK'
  BY DEF TypeOK, Callers, Threads, Ids, Places, None
<1>2. IdsAreDistinct'
  BY DEF TypeOK, IdsAreDistinct, InRequest, Callers, Threads, Ids
<1>3. FreshIsNowhere'
  BY DEF TypeOK, FreshIsNowhere, Held, Ids
<1>4. EntryIsOpen'
  BY DEF TypeOK, FreshIsNowhere, EntryIsOpen, Held, Ids
<1>5. EntryHasCaller'
  BY DEF TypeOK, EntryHasCaller, EntryIsOpen, InRequest, Callers, Threads, Ids
<1>6. CallerHasEntry'
  BY DEF TypeOK, IdsAreDistinct, CallerHasEntry, FreshIsNowhere, Held, InRequest, Callers,
      Threads, Ids
<1> QED BY <1>1, <1>2, <1>3, <1>4, <1>5, <1>6

LEMMA ReapMap == ASSUME MapInv, NEW t \in Threads, Reap(t) PROVE MapInv'
<1> USE McpAssumption DEF MapInv, Reap, transport, remote, threads, promises, child, Goto
<1>1. TypeOK'
  BY DEF TypeOK, Callers, Threads, Ids, Places, None
<1>2. IdsAreDistinct'
  BY DEF TypeOK, IdsAreDistinct, InRequest, Callers, Threads, Ids
<1>3. FreshIsNowhere'
  BY DEF TypeOK, FreshIsNowhere, Held, Ids
<1>4. EntryIsOpen'
  BY DEF TypeOK, FreshIsNowhere, EntryIsOpen, Held, Ids
<1>5. EntryHasCaller'
  BY DEF TypeOK, EntryHasCaller, EntryIsOpen, InRequest, Callers, Threads, Ids
<1>6. CallerHasEntry'
  BY DEF TypeOK, IdsAreDistinct, CallerHasEntry, FreshIsNowhere, Held, InRequest, Callers,
      Threads, Ids
<1> QED BY <1>1, <1>2, <1>3, <1>4, <1>5, <1>6

LEMMA TellAllMap == ASSUME MapInv, NEW t \in Threads, TellAll(t) PROVE MapInv'
<1>0. Told
  BY TellTells DEF MapInv, TellAll, Hands, Results, None
<1> USE McpAssumption DEF MapInv, TellAll, transport, remote, threads, promises, child, Goto
<1>1. TypeOK'
  BY <1>0 DEF Told, TypeOK, Callers, Threads, Ids, Places, None
<1>2. IdsAreDistinct'
  BY <1>0 DEF Told, TypeOK, IdsAreDistinct, InRequest, Callers, Threads, Ids
<1>3. FreshIsNowhere'
  <2> SUFFICES ASSUME NEW i \in Ids, i >= nextId PROVE result'[i] = None /\ ~Held(i)'
    BY DEF FreshIsNowhere
  <2>1. result[i] = None /\ ~Held(i)
    BY DEF FreshIsNowhere
  <2> QED BY <1>0, <2>1 DEF Told
<1>4. EntryIsOpen'
  BY <1>0 DEF Told, TypeOK, EntryIsOpen
<1>5. EntryHasCaller'
  BY <1>0 DEF Told, TypeOK, EntryHasCaller, EntryIsOpen, InRequest, Callers, Threads, Ids
<1>6. CallerHasEntry'
  <2> SUFFICES ASSUME NEW c \in Callers, InRequest(c)', result'[id[c]] = None PROVE Held(id[c])'
    BY DEF CallerHasEntry, Held
  <2>1. InRequest(c) /\ id[c] \in Ids
    BY DEF TypeOK, InRequest, IdsAreDistinct, Callers, Threads
  <2>2. result[id[c]] = None => Held(id[c])
    BY <2>1 DEF CallerHasEntry
  <2> QED BY <1>0, <2>1, <2>2 DEF Told
<1> QED BY <1>1, <1>2, <1>3, <1>4, <1>5, <1>6

LEMMA JoinMap == ASSUME MapInv, NEW t \in Threads, Join(t) PROVE MapInv'
<1> USE McpAssumption DEF MapInv, Join, transport, remote, threads, promises, child, Goto
<1>1. TypeOK'
  BY DEF TypeOK, Callers, Threads, Ids, Places, None
<1>2. IdsAreDistinct'
  BY DEF TypeOK, IdsAreDistinct, InRequest, Callers, Threads, Ids
<1>3. FreshIsNowhere'
  BY DEF TypeOK, FreshIsNowhere, Held, Ids
<1>4. EntryIsOpen'
  BY DEF TypeOK, FreshIsNowhere, EntryIsOpen, Held, Ids
<1>5. EntryHasCaller'
  BY DEF TypeOK, EntryHasCaller, EntryIsOpen, InRequest, Callers, Threads, Ids
<1>6. CallerHasEntry'
  BY DEF TypeOK, IdsAreDistinct, CallerHasEntry, FreshIsNowhere, Held, InRequest, Callers,
      Threads, Ids
<1> QED BY <1>1, <1>2, <1>3, <1>4, <1>5, <1>6

LEMMA AnswerMap == ASSUME MapInv, Answer PROVE MapInv'
<1> USE McpAssumption DEF MapInv, Answer, transport, remote, threads, promises, child, Goto
<1>1. TypeOK'
  BY DEF TypeOK, Callers, Threads, Ids, Places, None
<1>2. IdsAreDistinct'
  BY DEF TypeOK, IdsAreDistinct, InRequest, Callers, Threads, Ids
<1>3. FreshIsNowhere'
  BY DEF TypeOK, FreshIsNowhere, Held, Ids
<1>4. EntryIsOpen'
  BY DEF TypeOK, FreshIsNowhere, EntryIsOpen, Held, Ids
<1>5. EntryHasCaller'
  BY DEF TypeOK, EntryHasCaller, EntryIsOpen, InRequest, Callers, Threads, Ids
<1>6. CallerHasEntry'
  BY DEF TypeOK, IdsAreDistinct, CallerHasEntry, FreshIsNowhere, Held, InRequest, Callers,
      Threads, Ids
<1> QED BY <1>1, <1>2, <1>3, <1>4, <1>5, <1>6

LEMMA ServerMap == ASSUME MapInv, Server PROVE MapInv'
<1> USE McpAssumption DEF MapInv, Server, transport, remote, threads, promises, child, Goto
<1>1. TypeOK'
  BY DEF TypeOK, Callers, Threads, Ids, Places, None
<1>2. IdsAreDistinct'
  BY DEF TypeOK, IdsAreDistinct, InRequest, Callers, Threads, Ids
<1>3. FreshIsNowhere'
  BY DEF TypeOK, FreshIsNowhere, Held, Ids
<1>4. EntryIsOpen'
  BY DEF TypeOK, FreshIsNowhere, EntryIsOpen, Held, Ids
<1>5. EntryHasCaller'
  BY DEF TypeOK, EntryHasCaller, EntryIsOpen, InRequest, Callers, Threads, Ids
<1>6. CallerHasEntry'
  BY DEF TypeOK, IdsAreDistinct, CallerHasEntry, FreshIsNowhere, Held, InRequest, Callers,
      Threads, Ids
<1> QED BY <1>1, <1>2, <1>3, <1>4, <1>5, <1>6

LEMMA CancelMap == ASSUME MapInv, NEW c \in Callers, Cancel(c) PROVE MapInv'
<1> USE McpAssumption DEF MapInv, Cancel, transport, remote, threads, promises, child, Goto
<1>1. TypeOK'
  BY DEF TypeOK, Callers, Threads, Ids, Places, None
<1>2. IdsAreDistinct'
  BY DEF TypeOK, IdsAreDistinct, InRequest, Callers, Threads, Ids
<1>3. FreshIsNowhere'
  BY DEF TypeOK, FreshIsNowhere, Held, Ids
<1>4. EntryIsOpen'
  BY DEF TypeOK, FreshIsNowhere, EntryIsOpen, Held, Ids
<1>5. EntryHasCaller'
  BY DEF TypeOK, EntryHasCaller, EntryIsOpen, InRequest, Callers, Threads, Ids
<1>6. CallerHasEntry'
  BY DEF TypeOK, IdsAreDistinct, CallerHasEntry, FreshIsNowhere, Held, InRequest, Callers,
      Threads, Ids
<1> QED BY <1>1, <1>2, <1>3, <1>4, <1>5, <1>6

LEMMA NextMap == ASSUME MapInv, [Next]_vars PROVE MapInv'
<1>1. CASE UNCHANGED vars
  BY <1>1 DEF vars, transport, remote, threads, promises, child, MapInv, TypeOK, IdsAreDistinct,
     FreshIsNowhere, Held, EntryIsOpen, EntryHasCaller, CallerHasEntry, InRequest
<1>2. CASE Next
  <2>1. CASE \E c \in Callers : Call(c) \/ Cancel(c)
    BY <2>1, CallMap, CancelMap
  <2>2. CASE \E t \in Threads : Step(t)
    BY <2>2, RegisterMap, WriteMap, EraseMap, AnsweredMap, GiveUpMap, NoticeMap, FallbackMap,
        LockMap,
       StopMap, CancelPendingMap, ExitMap, CloseMap, ReapMap, TellAllMap, JoinMap DEF Step
  <2> QED BY <1>2, <2>1, <2>2, StartMap, QuitMap, DeliverMap, FulfilMap, StreamEndsMap,
      ReaderEndsMap,
             AnswerMap, ServerMap DEF Next, Reader
<1> QED BY <1>1, <1>2

-----------------------------------------------------------------------------
\* The invariant holds: type correctness and what is above.
THEOREM MapInvariant == Spec => []MapInv
BY InitMap, NextMap, PTL DEF Spec

\* Type correctness of the transport and its threads.
THEOREM TransportTypes == Spec => []TypeOK
<1>1. MapInv => TypeOK
  BY DEF MapInv
<1> QED BY <1>1, MapInvariant, PTL

\* No promise outlives its request and no waiting request is missing, whatever
\* order answers, cancellations, the end of the reader and stop() come in
\* (StdioTransport::request, cancel_all_pending; SseTransport::cancel_pending).
THEOREM MapHoldsTheWaiting == Spec => []PendingIsWaiting
<1>1. MapInv => PendingIsWaiting
  BY DEF MapInv, PendingIsWaiting, EntryIsOpen, EntryHasCaller, CallerHasEntry, Held
<1> QED BY <1>1, MapInvariant, PTL

\* A future is fulfilled once, by the reader, by its end, by stop() or by its
\* token, never by two of them; over stdio only while its request waits.
THEOREM FulfilledOnce == Spec => ResolvedOnce
<1> DEFINE Once == \A i \in Ids : result'[i] # result[i] =>
                     /\ result[i] = None
                     /\ kind = "stdio" => \E c \in Callers : InRequest(c) /\ id[c] = i
<1>1. ASSUME MapInv, Next PROVE Once
  <2>0. TypeOK /\ EntryIsOpen
    BY <1>1 DEF MapInv
  <2>1. CASE \E c \in Callers : GiveUp(c)
    <3>1. PICK c \in Callers : GiveUp(c)
      BY <2>1
    <3>2. \/ UNCHANGED result
          \/ /\ kind = "sse" /\ result[id[c]] = None
             /\ result' = [result EXCEPT ![id[c]] = "cancelled"]
      BY <3>1 DEF GiveUp
    <3> QED BY <2>0, <3>2 DEF TypeOK
  <2>2. CASE Told
    <3> SUFFICES ASSUME NEW i \in Ids, result'[i] # result[i]
                 PROVE  result[i] = None /\ (kind = "stdio" => i \in pending)
      BY <1>1 DEF MapInv, EntryHasCaller
    <3> QED BY <2>2 DEF Told
  <2>3. CASE UNCHANGED result
    BY <2>3
  <2>4. \/ UNCHANGED result \/ Deliver \/ Fulfil \/ ReaderEnds
        \/ \E c \in Callers : GiveUp(c)
        \/ \E t \in Threads : CancelPending(t) \/ TellAll(t)
    BY <1>1 DEF Next, Start, Quit, Reader, StreamEnds, Answer, Server, Call, Cancel, Step,
       Register, Lock, Write, Erase, Answered, Notice, Fallback, Stop, Exit,
       Close, Reap, Join, transport, promises
  <2>5. ASSUME Deliver \/ Fulfil PROVE Told
    BY <2>0, <2>5, DeliverTells, TellTells DEF Fulfil, Hands, Results, None
  <2>6. ASSUME ReaderEnds PROVE Told
    BY <2>0, <2>6, CancelAllTells, NoneTold DEF ReaderEnds, Hands
  <2>7. ASSUME \E t \in Threads : CancelPending(t) \/ TellAll(t) PROVE Told
    BY <2>0, <2>7, CancelAllTells, TellTells DEF CancelPending, TellAll, Hands, Results, None
  <2> QED BY <2>1, <2>2, <2>3, <2>4, <2>5, <2>6, <2>7
<1>2. MapInv /\ [Next]_vars => [Once]_vars
  BY <1>1
<1> QED BY <1>2, MapInvariant, PTL DEF Spec, ResolvedOnce
=============================================================================
