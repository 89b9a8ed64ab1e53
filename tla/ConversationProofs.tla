------------------------- MODULE ConversationProofs -------------------------
(***************************************************************************)
(* What holds of a conversation for every number of texts, calls, rounds,  *)
(* rejected answers, checkpoints, faults and processes.                    *)
(*                                                                         *)
(* Two arguments that do not need each other.  What was executed: a call   *)
(* is executed only while its group is open in memory, where no outcome of *)
(* it is on disk (OpenIsUntouched); so what the file says of it is true.   *)
(* What is in the context: at every place the process can die, the file    *)
(* gives back a context whose groups follow their calls (Grouped) and that *)
(* is the one in memory but for pruned bodies (Alike); a line is added     *)
(* after a group only when the group is closed (Grouped).                  *)
(***************************************************************************)
EXTENDS Conversation, FiniteSetTheorems, SequenceTheorems, WellFoundedInduction, TLAPS

\* The context a restart would give back.
Context == Active(disk)

\* Where a worker's context has no open group, and where a turn is on its way.
Settled == {"idle", "preflight", "request", "count", "stream", "blank"}
Turning == \/ pc \in {"preflight", "request", "count", "stream", "blank", "calls", "result"}
           \/ pc = "close" /\ job.after # "idle"

\* How far the rounds of a turn go.
Rounds ==
  /\ pc \in {"off", "idle"} => job = NoJob
  /\ pc \in {"preflight", "request", "count", "stream"} => job.turn <= MaxToolTurns
  /\ pc \in {"calls", "result"} => job.turn < MaxToolTurns
  /\ pc = "close" => job.turn <= MaxToolTurns /\ (job.after = "idle" => job = NoJob)

\* Nothing refers to a call that the model has not made.
Refers(m)        == m.role = "calls" \/ IsResult(m)
KnownCalls(s, n) == \A i \in DOMAIN s : Refers(s[i]) => s[i].refs \subseteq 1..n
CallsAreKnown ==
  /\ KnownCalls(mem, issued) /\ KnownCalls(disk, issued)
  /\ \A i \in DOMAIN disk : KnownCalls(disk[i].active, issued)
  /\ \A c \in 1..MaxCalls : c > issued => executed[c] = 0

\* A call that waits for its execution has an intent on disk and no outcome.
OpenIsUntouched ==
  /\ pc = "result" => Open(mem) # {}
  /\ pc \in {"calls", "result"} => \A c \in Open(mem) :
       /\ Recorded("calls", c)
       /\ \A o \in Outcomes : ~Recorded(o, c)
       /\ executed[c] = IF pc = "result" /\ c = Call THEN 1 ELSE 0

\* Line j is the result of call c in the group that begins with line g.
Answers(s, g, c, j) ==
  g < j /\ s[j].refs = {c} /\ \A k \in DOMAIN s : g < k /\ k <= j => IsResult(s[k])

\* A result stands in the group of its call, where no other result is for that
\* call, and a group that is not at the end is complete.
ResultsFollow(s) ==
  \A j \in DOMAIN s : IsResult(s[j]) =>
    \E g \in DOMAIN s : s[g].role = "calls" /\ \E c \in s[g].refs : Answers(s, g, c, j)
ResultsDiffer(s) ==
  \A i, j \in DOMAIN s : i < j /\ IsResult(s[i]) /\ IsResult(s[j]) /\ s[i].refs = s[j].refs =>
    \E k \in DOMAIN s : i < k /\ k < j /\ ~IsResult(s[k])
GroupsEnd(s) ==
  \A g \in DOMAIN s : s[g].role = "calls" => \A c \in s[g].refs :
    \/ \E j \in DOMAIN s : Answers(s, g, c, j)
    \/ \A k \in DOMAIN s : g < k => IsResult(s[k])
Grouped(s) == ResultsFollow(s) /\ ResultsDiffer(s) /\ GroupsEnd(s)

\* A worker's context, in memory and on disk, and what it was told.
ContextIsSound ==
  /\ Grouped(Context)
  /\ pc # "off" => Alike(Context, mem)
  /\ pc \in Settled => Open(mem) = {}
ToldIsSaid ==
  /\ told \subseteq Carried(Context)
  /\ Turning => Carried(mem) \subseteq told
SaidOnDisk ==
  /\ \A i \in DOMAIN disk : disk[i].role = "user" =>
       \E n \in Says : /\ disk[i] = Msg("user", {n})
                       /\ n \in told \/ \E k \in DOMAIN Context : Context[k] = disk[i]
  /\ \A i, j \in DOMAIN disk : disk[i].role = "user" /\ disk[i] = disk[j] => i = j
WorkerInv == driver = "worker" => ContextIsSound /\ ToldIsSaid /\ SaidOnDisk

ConversationInv == TypeOK /\ Rounds /\ CallsAreKnown /\ OpenIsUntouched /\ TranscriptIsTrue /\ WorkerInv

-----------------------------------------------------------------------------
(* Numbers and sequences.                                                  *)

\* A non-empty set of numbers has a smallest one.
LEMMA Smallest ==
  ASSUME NEW S \in SUBSET Nat, S # {}
  PROVE  Min(S) \in S /\ \A n \in S : Min(S) <= n
<1>1. PICK m \in S : \A n \in S : ~ (<<n, m>> \in OpToRel(<, Nat))
  BY NatLessThanWellFounded, WFMin
<1>2. ASSUME NEW n \in S PROVE m <= n
  <2>1. n \in Nat /\ m \in Nat
    OBVIOUS
  <2>2. n < m => <<n, m>> \in OpToRel(<, Nat)
    BY <2>1 DEF OpToRel
  <2>3. ~ (n < m)
    BY <1>1, <2>2, Zenon
  <2> QED BY <2>1, <2>3
<1> QED BY <1>2 DEF Min

\* One that has an upper bound has a largest one: the bound less the smallest distance.
LEMMA Largest ==
  ASSUME NEW b \in Nat, NEW S \in SUBSET (0..b), S # {}
  PROVE  Max(S) \in S /\ \A n \in S : n <= Max(S)
<1> DEFINE D == {b - n : n \in S}
<1>0. \A n \in S : n \in Int /\ n <= b /\ 0 <= n
  OBVIOUS
<1>1. D \in SUBSET Nat /\ D # {}
  <2>1. ASSUME NEW n \in S PROVE b - n \in Nat
    BY <1>0
  <2> QED BY <2>1
<1>2. Min(D) \in D /\ \A d \in D : Min(D) <= d
  BY <1>1, Smallest
<1> HIDE DEF D
<1>3. PICK m \in S : Min(D) = b - m
  BY <1>2 DEF D
<1>4. ASSUME NEW n \in S PROVE n <= m
  <2>1. b - n \in D
    BY DEF D
  <2>2. b - m <= b - n
    BY <1>2, <1>3, <2>1
  <2> QED BY <2>2
<1> QED BY <1>3, <1>4 DEF Max

\* What a message is.
LEMMA Messages ==
  ASSUME NEW r \in Roles, NEW refs \in SUBSET Nat
  PROVE  /\ Msg(r, refs) \in Entries /\ Msg(r, refs) \in Lines
         /\ Msg(r, refs).role = r /\ Msg(r, refs).refs = refs /\ Msg(r, refs).active = <<>>
         /\ IsResult(Msg(r, refs)) <=> r \in Outcomes
BY DEF Msg, Entries, Lines, IsResult

\* What lines there are.
LEMMA LinesAre ==
  ASSUME NEW m \in Lines
  PROVE  /\ m.refs \in SUBSET Nat /\ m.active \in Seq(Entries)
         /\ m \in Entries => m.role # "checkpoint" /\ m.active = <<>>
         /\ m.role # "checkpoint" => m \in Entries
<1>1. <<>> \in Seq(Entries) /\ "checkpoint" \notin Roles
  BY DEF Roles, Outcomes
<1>2. ASSUME m \in Entries
      PROVE  m.active = <<>> /\ m.role \in Roles /\ m.refs \in SUBSET Nat
  BY <1>2 DEF Entries
<1>3. CASE m \in [role : {"checkpoint"}, refs : SUBSET Nat, active : Seq(Entries)]
  <2>1. m.role = "checkpoint" /\ m.refs \in SUBSET Nat /\ m.active \in Seq(Entries)
    BY <1>3
  <2> QED BY <1>1, <1>2, <2>1
<1> QED BY <1>1, <1>2, <1>3 DEF Lines

\* What a line is in the context.
LEMMA InContextIs ==
  ASSUME NEW m \in Lines, m.role # "checkpoint"
  PROVE  /\ InContext(m) \in Entries
         /\ m.role # "rejected" => InContext(m) = m
         /\ m.role = "rejected" => InContext(m) = Msg("reminder", {})
         /\ IsResult(InContext(m)) <=> IsResult(m)
         /\ IsResult(m) \/ m.role \in {"calls", "user", "summary"} => InContext(m) = m
<1>1. "reminder" \in Roles /\ "reminder" \notin Outcomes /\ {} \in SUBSET Nat
      /\ "rejected" \notin Outcomes \union {"calls", "user", "summary"}
  BY DEF Roles, Outcomes
<1>2. m \in Entries
  BY LinesAre
<1> QED BY <1>1, <1>2, Messages DEF InContext, IsResult

\* What Append does.
LEMMA Appending ==
  ASSUME NEW S, NEW s \in Seq(S), NEW m \in S
  PROVE  /\ Append(s, m) \in Seq(S) /\ Len(Append(s, m)) = Len(s) + 1
         /\ DOMAIN s = 1..Len(s) /\ DOMAIN Append(s, m) = 1..Len(s) + 1
         /\ \A i \in DOMAIN s : Append(s, m)[i] = s[i] /\ i \in DOMAIN Append(s, m)
         /\ Append(s, m)[Len(s) + 1] = m /\ Len(s) \in Nat
OBVIOUS

-----------------------------------------------------------------------------
(* The group at the end of a context.                                      *)

\* A group begins where everything behind is a result.
LEMMA GroupStartIs ==
  ASSUME NEW S, NEW s \in Seq(S)
  PROVE  /\ GroupStart(s) \in 0..Len(s)
         /\ GroupStart(s) # 0 => ~IsResult(s[GroupStart(s)])
         /\ \A k \in DOMAIN s : GroupStart(s) < k => IsResult(s[k])
<1> DEFINE T == {0} \union {i \in DOMAIN s : ~IsResult(s[i])}
<1>1. T \in SUBSET (0..Len(s)) /\ T # {} /\ Len(s) \in Nat
  OBVIOUS
<1>2. Max(T) \in T /\ \A n \in T : n <= Max(T)
  BY <1>1, Largest
<1>3. GroupStart(s) = Max(T)
  BY DEF GroupStart
<1>4. ASSUME NEW k \in DOMAIN s, Max(T) < k PROVE IsResult(s[k])
  <2>1. k \in Nat /\ Max(T) \in Nat
    BY <1>1, <1>2
  <2>2. k \notin T
    BY <1>2, <1>4, <2>1
  <2> QED BY <2>2
<1> QED BY <1>1, <1>2, <1>3, <1>4

\* The calls that wait: everything behind their group is a result of another one.
Waits(s, g, c) ==
  /\ s[g].role = "calls" /\ c \in s[g].refs
  /\ \A k \in DOMAIN s : g < k => IsResult(s[k]) /\ c \notin s[k].refs

LEMMA OpenIs ==
  ASSUME NEW S, NEW s \in Seq(S), NEW c
  PROVE  c \in Open(s) <=> \E g \in DOMAIN s : Waits(s, g, c)
<1> DEFINE h == GroupStart(s)
<1>1. /\ h \in 0..Len(s) /\ DOMAIN s = 1..Len(s) /\ Len(s) \in Nat
      /\ h # 0 => ~IsResult(s[h])
      /\ \A k \in DOMAIN s : h < k => IsResult(s[k])
  BY GroupStartIs
<1> HIDE DEF h
<1>2. "calls" \notin Outcomes
  BY DEF Outcomes
<1>3. ASSUME NEW g \in DOMAIN s, Waits(s, g, c) PROVE g = h
  <2>1. ~IsResult(s[g])
    BY <1>2, <1>3 DEF Waits, IsResult
  <2>2. ~(h < g)
    BY <1>1, <2>1
  <2>3. h # 0 => ~(g < h)
    BY <1>1, <1>3 DEF Waits
  <2> QED BY <1>1, <2>2, <2>3
<1>4. c \in Open(s) <=> /\ h # 0 /\ s[h].role = "calls" /\ c \in s[h].refs
                        /\ \A i \in h + 1..Len(s) : c \notin s[i].refs
  BY DEF Open, h
<1>5. h # 0 => (Waits(s, h, c) <=> /\ s[h].role = "calls" /\ c \in s[h].refs
                                   /\ \A i \in h + 1..Len(s) : c \notin s[i].refs)
  BY <1>1 DEF Waits
<1> QED BY <1>1, <1>3, <1>4, <1>5

\* A result closes its call, anything else begins a group of its own.
LEMMA OpenAfterResult ==
  ASSUME NEW S, NEW s \in Seq(S), NEW m \in S, IsResult(m)
  PROVE  Open(Append(s, m)) = Open(s) \ m.refs
<1>1. /\ Append(s, m) \in Seq(S) /\ DOMAIN s = 1..Len(s) /\ DOMAIN Append(s, m) = 1..Len(s) + 1
      /\ \A i \in DOMAIN s : Append(s, m)[i] = s[i]
      /\ Append(s, m)[Len(s) + 1] = m /\ Len(s) \in Nat
  BY Appending
<1>2. "calls" \notin Outcomes
  BY DEF Outcomes
<1>3. ASSUME NEW c, NEW g \in DOMAIN Append(s, m)
      PROVE  Waits(Append(s, m), g, c) <=> g \in DOMAIN s /\ Waits(s, g, c) /\ c \notin m.refs
  <2> DEFINE t == Append(s, m)
  <2> HIDE DEF t
  <2>1. CASE g = Len(s) + 1
    BY <1>1, <1>2, <2>1 DEF Waits, IsResult, t
  <2>2. CASE g \in DOMAIN s
    <3>1. Waits(t, g, c) => Waits(s, g, c) /\ c \notin m.refs
      BY <1>1, <2>2 DEF Waits, t
    <3>2. Waits(s, g, c) /\ c \notin m.refs => Waits(t, g, c)
      BY <1>1, <2>2 DEF Waits, t
    <3> QED BY <2>2, <3>1, <3>2 DEF t
  <2> QED BY <1>1, <2>1, <2>2
<1>4. ASSUME NEW c PROVE c \in Open(Append(s, m)) <=> c \in Open(s) \ m.refs
  <2>1. c \in Open(Append(s, m)) <=> \E g \in DOMAIN Append(s, m) : Waits(Append(s, m), g, c)
    BY <1>1, OpenIs
  <2>2. c \in Open(s) <=> \E g \in DOMAIN s : Waits(s, g, c)
    BY OpenIs
  <2>3. DOMAIN s \subseteq DOMAIN Append(s, m)
    BY <1>1
  <2> QED BY <1>3, <2>1, <2>2, <2>3, Zenon
<1> QED BY <1>4

LEMMA OpenAfterOther ==
  ASSUME NEW S, NEW s \in Seq(S), NEW m \in S, ~IsResult(m)
  PROVE  Open(Append(s, m)) = IF m.role = "calls" THEN m.refs ELSE {}
<1> DEFINE t == Append(s, m)
<1>1. /\ t \in Seq(S) /\ DOMAIN s = 1..Len(s) /\ DOMAIN t = 1..Len(s) + 1
      /\ t[Len(s) + 1] = m /\ Len(s) \in Nat
  BY Appending
<1> HIDE DEF t
<1>2. ASSUME NEW c, NEW g \in DOMAIN t
      PROVE  Waits(t, g, c) <=> g = Len(s) + 1 /\ m.role = "calls" /\ c \in m.refs
  BY <1>1 DEF Waits
<1>3. ASSUME NEW c PROVE c \in Open(t) <=> m.role = "calls" /\ c \in m.refs
  BY <1>1, <1>2, OpenIs
<1> QED BY <1>3 DEF t

\* The call that is served next is one of those that wait.
LEMMA CallWaits ==
  ASSUME NEW s \in Seq(Entries), Open(s) # {}
  PROVE  /\ Min(Open(s)) \in Open(s) /\ {Min(Open(s))} \in SUBSET Nat
<1>1. ASSUME NEW c \in Open(s) PROVE c \in Nat
  <2>1. PICK g \in DOMAIN s : Waits(s, g, c)
    BY OpenIs
  <2>2. s[g] \in Entries
    OBVIOUS
  <2> QED BY <2>1, <2>2 DEF Waits, Entries
<1> QED BY <1>1, Smallest

-----------------------------------------------------------------------------
(* What restore() makes of a file.                                         *)

LEMMA CheckpointIs ==
  ASSUME NEW S, NEW d \in Seq(S)
  PROVE  /\ LastCheckpoint(d) \in 0..Len(d)
         /\ LastCheckpoint(d) # 0 => d[LastCheckpoint(d)].role = "checkpoint"
         /\ \A k \in DOMAIN d : d[k].role = "checkpoint" => k <= LastCheckpoint(d)
<1> DEFINE T == {0} \union {i \in DOMAIN d : d[i].role = "checkpoint"}
<1>1. T \in SUBSET (0..Len(d)) /\ T # {} /\ Len(d) \in Nat
  OBVIOUS
<1>2. Max(T) \in T /\ \A n \in T : n <= Max(T)
  BY <1>1, Largest
<1>3. LastCheckpoint(d) = Max(T)
  BY DEF LastCheckpoint
<1> QED BY <1>1, <1>2, <1>3

LEMMA ContextTypes ==
  ASSUME NEW d \in Seq(Lines)
  PROVE  Active(d) \in Seq(Entries)
<1> DEFINE c == LastCheckpoint(d)
           A == IF c = 0 THEN <<>> ELSE d[c].active
           B == [i \in 1..Len(d) - c |-> InContext(d[c + i])]
<1>1. c \in 0..Len(d) /\ Len(d) \in Nat /\ (c # 0 => c \in DOMAIN d) /\ DOMAIN d = 1..Len(d)
      /\ \A k \in DOMAIN d : d[k].role = "checkpoint" => k <= c
  BY CheckpointIs
<1> HIDE DEF c
<1>2. A \in Seq(Entries)
  <2>1. c # 0 => d[c] \in Lines
    BY <1>1
  <2> QED BY <2>1, LinesAre
<1>3. ASSUME NEW i \in 1..Len(d) - c PROVE InContext(d[c + i]) \in Entries
  <2>1. c + i \in DOMAIN d /\ ~(c + i <= c)
    BY <1>1
  <2>2. d[c + i] \in Lines /\ d[c + i].role # "checkpoint"
    BY <1>1, <2>1
  <2> QED BY <2>2, InContextIs
<1>4. B \in Seq(Entries)
  BY <1>1, <1>3
<1>5. Active(d) = A \o B
  BY DEF Active, c
<1> HIDE DEF A, B
<1> QED BY <1>2, <1>4, <1>5

\* A line that is appended is appended to the context, a checkpoint replaces it.
LEMMA ContextGrows ==
  ASSUME NEW d \in Seq(Lines), NEW m \in Lines
  PROVE  Active(Append(d, m)) = IF m.role = "checkpoint" THEN m.active
                                ELSE Append(Active(d), InContext(m))
<1> DEFINE e == Append(d, m)
           n == Len(d)
<1>1. /\ e \in Seq(Lines) /\ Len(e) = n + 1 /\ DOMAIN d = 1..n /\ DOMAIN e = 1..n + 1
      /\ \A i \in DOMAIN d : e[i] = d[i]
      /\ e[n + 1] = m /\ n \in Nat
  BY Appending
<1> HIDE DEF e, n
<1>2. /\ LastCheckpoint(e) \in 0..n + 1
      /\ LastCheckpoint(e) # 0 => e[LastCheckpoint(e)].role = "checkpoint"
      /\ \A k \in DOMAIN e : e[k].role = "checkpoint" => k <= LastCheckpoint(e)
  BY <1>1, CheckpointIs
<1>3. /\ LastCheckpoint(d) \in 0..n
      /\ LastCheckpoint(d) # 0 => d[LastCheckpoint(d)].role = "checkpoint"
      /\ \A k \in DOMAIN d : d[k].role = "checkpoint" => k <= LastCheckpoint(d)
  BY <1>1, CheckpointIs DEF n
<1>4. CASE m.role = "checkpoint"
  <2>1. LastCheckpoint(e) = n + 1
    BY <1>1, <1>2, <1>4
  <2>2. m.active \in Seq(Entries)
    BY LinesAre
  <2>3. [i \in 1..Len(e) - (n + 1) |-> InContext(e[(n + 1) + i])] = <<>>
    BY <1>1
  <2>4. Active(e) = m.active \o <<>>
    BY <1>1, <2>1, <2>3 DEF Active
  <2> QED BY <1>4, <2>2, <2>4 DEF e
<1>5. CASE m.role # "checkpoint"
  <2> DEFINE c == LastCheckpoint(d)
             A == IF c = 0 THEN <<>> ELSE d[c].active
             B == [i \in 1..n - c |-> InContext(d[c + i])]
             C == [i \in 1..(n + 1) - c |-> InContext(e[c + i])]
  <2>1. LastCheckpoint(e) = c
    BY <1>1, <1>2, <1>3, <1>5
  <2>2. Active(d) = A \o B
    BY DEF Active, n
  <2>3. Active(e) = A \o C
    <3>1. c # 0 => e[c] = d[c]
      BY <1>1, <1>3
    <3>2. Active(e) = (IF c = 0 THEN <<>> ELSE e[c].active) \o [i \in 1..Len(e) - c |-> InContext(e[c + i])]
      BY <2>1 DEF Active
    <3> QED BY <1>1, <3>1, <3>2
  <2>4. c \in 0..n
    BY <1>3
  <2>5. A \in Seq(Entries)
    <3>1. c # 0 => d[c] \in Lines
      BY <1>1, <1>3
    <3> QED BY <3>1, LinesAre
  <2> HIDE DEF A, c
  <2>6. \A i \in 1..n - c : c + i \in DOMAIN d /\ e[c + i] = d[c + i]
    BY <1>1, <2>4
  <2>7. \A i \in 1..n - c : C[i] = B[i]
    BY <1>1, <2>4, <2>6
  <2>8. C[(n + 1) - c] = InContext(m)
    BY <1>1, <2>4
  <2> DEFINE V == {InContext(x) : x \in Lines}
  <2>9. B \in Seq(V) /\ Len(B) = n - c /\ InContext(m) \in V
    <3>1. \A i \in 1..n - c : B[i] \in V
      BY <1>1, <2>6
    <3>2. n - c \in Nat
      BY <1>1, <2>4
    <3> QED BY <3>1, <3>2
  <2>10. C \in Seq(V) /\ Len(C) = (n - c) + 1
    <3>1. \A i \in 1..(n + 1) - c : C[i] \in V
      <4>1. ASSUME NEW i \in 1..(n + 1) - c PROVE c + i \in DOMAIN e /\ e[c + i] \in Lines
        BY <1>1, <2>4
      <4> QED BY <4>1
    <3>2. (n + 1) - c \in Nat /\ (n + 1) - c = (n - c) + 1
      BY <1>1, <2>4
    <3> QED BY <3>1, <3>2
  <2> HIDE DEF B, C, V
  <2>11. C = Append(B, InContext(m))
    BY <2>4, <2>7, <2>8, <2>9, <2>10, <1>1
  <2> DEFINE W == V \union Entries
  <2>12. A \in Seq(W) /\ B \in Seq(W) /\ InContext(m) \in W
    BY <2>5, <2>9
  <2>13. A \o Append(B, InContext(m)) = Append(A \o B, InContext(m))
    BY <2>12
  <2> QED BY <1>5, <2>2, <2>3, <2>11, <2>13 DEF e
<1> QED BY <1>4, <1>5

-----------------------------------------------------------------------------
(* Contexts that differ in pruned bodies only.                             *)

LEMMA CarriedIs ==
  ASSUME NEW s, NEW n
  PROVE  n \in Carried(s) <=> \E i \in DOMAIN s : s[i].role \in {"user", "summary"} /\ n \in s[i].refs
BY DEF Carried

\* What two such contexts have in common.
LEMMA AlikeIs ==
  ASSUME NEW s \in Seq(Entries), NEW t \in Seq(Entries), Alike(s, t)
  PROVE  /\ DOMAIN t = DOMAIN s /\ Len(t) = Len(s)
         /\ \A i \in DOMAIN s : /\ IsResult(t[i]) <=> IsResult(s[i])
                                /\ t[i].refs = s[i].refs
                                /\ ~IsResult(s[i]) => t[i] = s[i]
<1>1. "pruned" \in Roles /\ "pruned" \in Outcomes
  BY DEF Roles, Outcomes
<1>2. ASSUME NEW i \in DOMAIN s
      PROVE  /\ IsResult(t[i]) <=> IsResult(s[i])
             /\ t[i].refs = s[i].refs
             /\ ~IsResult(s[i]) => t[i] = s[i]
  <2>0. s[i] \in Entries
    OBVIOUS
  <2>1. s[i].refs \in SUBSET Nat
    BY <2>0 DEF Entries
  <2>2. s[i] = t[i] \/ (IsResult(s[i]) /\ t[i] = Msg("pruned", s[i].refs))
    BY DEF Alike
  <2> QED BY <1>1, <2>1, <2>2, Messages
<1> QED BY <1>2 DEF Alike

LEMMA AlikeKeeps ==
  ASSUME NEW s \in Seq(Entries), NEW t \in Seq(Entries), Alike(s, t)
  PROVE  /\ Open(t) = Open(s)
         /\ Carried(t) = Carried(s)
         /\ Grouped(s) => Grouped(t)
<1>1. /\ DOMAIN t = DOMAIN s
      /\ \A i \in DOMAIN s : /\ IsResult(t[i]) <=> IsResult(s[i])
                             /\ t[i].refs = s[i].refs
                             /\ ~IsResult(s[i]) => t[i] = s[i]
  BY AlikeIs
<1>2. Outcomes \intersect {"calls", "user", "summary"} = {}
  BY DEF Outcomes
<1>3. \A i \in DOMAIN s : \A r \in {"calls", "user", "summary"} : t[i].role = r <=> s[i].role = r
  <2>1. ASSUME NEW i \in DOMAIN s, IsResult(s[i]) PROVE IsResult(t[i])
    BY <1>1, <2>1
  <2> QED BY <1>1, <1>2, <2>1 DEF IsResult
<1>4. ASSUME NEW c PROVE c \in Open(t) <=> c \in Open(s)
  <2>1. \A g \in DOMAIN s : Waits(t, g, c) <=> Waits(s, g, c)
    BY <1>1, <1>3 DEF Waits
  <2>2. c \in Open(t) <=> \E g \in DOMAIN t : Waits(t, g, c)
    BY OpenIs
  <2>3. c \in Open(s) <=> \E g \in DOMAIN s : Waits(s, g, c)
    BY OpenIs
  <2> QED BY <1>1, <2>1, <2>2, <2>3
<1>5. ASSUME NEW n PROVE n \in Carried(t) <=> n \in Carried(s)
  BY <1>1, <1>3, CarriedIs
<1>6. \A g, j \in DOMAIN s : \A c : Answers(t, g, c, j) <=> Answers(s, g, c, j)
  BY <1>1 DEF Answers
<1>7. ASSUME Grouped(s) PROVE Grouped(t)
  <2>1. ResultsFollow(t)
    BY <1>1, <1>3, <1>6, <1>7 DEF Grouped, ResultsFollow
  <2>2. ResultsDiffer(t)
    BY <1>1, <1>7 DEF Grouped, ResultsDiffer
  <2>3. GroupsEnd(t)
    <3> SUFFICES ASSUME NEW g \in DOMAIN t, t[g].role = "calls", NEW c \in t[g].refs
                 PROVE  \/ \E j \in DOMAIN t : Answers(t, g, c, j)
                        \/ \A k \in DOMAIN t : g < k => IsResult(t[k])
      BY DEF GroupsEnd
    <3>1. s[g].role = "calls" /\ c \in s[g].refs
      BY <1>1, <1>3
    <3>2. \/ \E j \in DOMAIN s : Answers(s, g, c, j)
          \/ \A k \in DOMAIN s : g < k => IsResult(s[k])
      BY <1>1, <1>7, <3>1 DEF Grouped, GroupsEnd
    <3> QED BY <1>1, <1>6, <3>2
  <2> QED BY <2>1, <2>2, <2>3 DEF Grouped
<1> QED BY <1>4, <1>5, <1>7

\* Pruning and appending keep contexts alike.
LEMMA PrunedIs ==
  ASSUME NEW s \in Seq(Entries), NEW t \in Seq(Entries), Alike(s, t)
  PROVE  Pruned(t) \in Seq(Entries) /\ Alike(s, Pruned(t))
<1>1. /\ DOMAIN t = DOMAIN s /\ Len(t) = Len(s) /\ DOMAIN s = 1..Len(s) /\ Len(s) \in Nat
      /\ \A i \in DOMAIN s : /\ IsResult(t[i]) <=> IsResult(s[i])
                             /\ t[i].refs = s[i].refs
  BY AlikeIs
<1>2. "pruned" \in Roles /\ "pruned" \in Outcomes
  BY DEF Roles, Outcomes
<1>3. ASSUME NEW i \in DOMAIN t
      PROVE  /\ Pruned(t)[i] \in Entries
             /\ Pruned(t)[i] = t[i] \/ (IsResult(s[i]) /\ Pruned(t)[i] = Msg("pruned", s[i].refs))
  <2>0. t[i] \in Entries
    OBVIOUS
  <2>1. t[i] \in Entries /\ t[i].refs \in SUBSET Nat
    BY <2>0 DEF Entries
  <2>2. Msg("pruned", t[i].refs) \in Entries
    BY <1>2, <2>1, Messages
  <2> QED BY <1>1, <2>1, <2>2 DEF Pruned
<1>4. DOMAIN Pruned(t) = 1..Len(t)
  BY <1>1 DEF Pruned
<1>5. Pruned(t) \in Seq(Entries) /\ Len(Pruned(t)) = Len(t)
  <2>1. Pruned(t) = [i \in 1..Len(t) |-> Pruned(t)[i]]
    BY <1>1 DEF Pruned
  <2>2. [i \in 1..Len(t) |-> Pruned(t)[i]] \in Seq(Entries)
    BY <1>1, <1>3
  <2> QED BY <1>1, <1>4, <2>1, <2>2
<1>6. ASSUME NEW i \in DOMAIN s
      PROVE  s[i] = Pruned(t)[i] \/ (IsResult(s[i]) /\ Pruned(t)[i] = Msg("pruned", s[i].refs))
  BY <1>1, <1>3 DEF Alike
<1> QED BY <1>1, <1>5, <1>6 DEF Alike

LEMMA AlikeAppends ==
  ASSUME NEW s \in Seq(Entries), NEW t \in Seq(Entries), Alike(s, t), NEW m \in Entries
  PROVE  Alike(Append(s, m), Append(t, m))
<1>1. Len(s) = Len(t)
  BY DEF Alike
<1>2. /\ DOMAIN s = 1..Len(s) /\ DOMAIN Append(s, m) = 1..Len(s) + 1 /\ Len(s) \in Nat
      /\ \A i \in DOMAIN s : Append(s, m)[i] = s[i]
      /\ Append(s, m)[Len(s) + 1] = m /\ Len(Append(s, m)) = Len(s) + 1
  BY Appending
<1>3. /\ \A i \in DOMAIN s : Append(t, m)[i] = t[i]
      /\ Append(t, m)[Len(s) + 1] = m /\ Len(Append(t, m)) = Len(s) + 1
  BY <1>1, <1>2, Appending
<1>4. ASSUME NEW i \in DOMAIN Append(s, m)
      PROVE  \/ Append(s, m)[i] = Append(t, m)[i]
             \/ /\ IsResult(Append(s, m)[i])
                /\ Append(t, m)[i] = Msg("pruned", Append(s, m)[i].refs)
  <2>1. CASE i \in DOMAIN s
    BY <1>2, <1>3, <2>1 DEF Alike
  <2>2. CASE i = Len(s) + 1
    BY <1>2, <1>3, <2>2
  <2>3. i \in DOMAIN s \/ i = Len(s) + 1
    BY <1>2
  <2> QED BY <2>1, <2>2, <2>3
<1> QED BY <1>2, <1>3, <1>4 DEF Alike

LEMMA CarriedTypes ==
  ASSUME NEW s \in Seq(Entries)
  PROVE  Carried(s) \in SUBSET Nat
<1>1. ASSUME NEW n \in Carried(s) PROVE n \in Nat
  <2>1. PICK i \in DOMAIN s : n \in s[i].refs
    BY CarriedIs
  <2>2. s[i] \in Entries
    OBVIOUS
  <2> QED BY <2>1, <2>2 DEF Entries
<1> QED BY <1>1

\* A message says what it says.
LEMMA CarriedAppends ==
  ASSUME NEW s \in Seq(Entries), NEW m \in Entries
  PROVE  Carried(Append(s, m)) =
           IF m.role \in {"user", "summary"} THEN Carried(s) \union m.refs ELSE Carried(s)
<1> DEFINE t == Append(s, m)
<1>1. /\ DOMAIN s = 1..Len(s) /\ DOMAIN t = 1..Len(s) + 1 /\ Len(s) \in Nat
      /\ \A i \in DOMAIN s : t[i] = s[i] /\ i \in DOMAIN t
      /\ t[Len(s) + 1] = m
  BY Appending
<1> HIDE DEF t
<1>2. ASSUME NEW n
      PROVE  n \in Carried(t) <=> n \in Carried(s) \/ (m.role \in {"user", "summary"} /\ n \in m.refs)
  <2>1. \A i \in DOMAIN t : i \in DOMAIN s \/ i = Len(s) + 1
    BY <1>1
  <2>2. Len(s) + 1 \in DOMAIN t
    BY <1>1
  <2> QED BY <1>1, <2>1, <2>2, CarriedIs
<1> QED BY <1>2 DEF t

-----------------------------------------------------------------------------
(* Groups stay groups.                                                     *)

\* In a closed context every call of every group has its result.
LEMMA GroupsAreComplete ==
  ASSUME NEW s \in Seq(Entries), Grouped(s), Open(s) = {},
         NEW g \in DOMAIN s, s[g].role = "calls", NEW c \in s[g].refs
  PROVE  \E j \in DOMAIN s : Answers(s, g, c, j)
<1>1. CASE \A k \in DOMAIN s : g < k => IsResult(s[k])
  <2>1. ~Waits(s, g, c)
    BY OpenIs
  <2>2. PICK k \in DOMAIN s : g < k /\ c \in s[k].refs
    BY <1>1, <2>1 DEF Waits
  <2>3. IsResult(s[k])
    BY <1>1, <2>2
  <2>4. \E d : s[k].refs = {d}
    BY <2>3 DEF Grouped, ResultsFollow, Answers
  <2>5. s[k].refs = {c}
    BY <2>2, <2>4
  <2> QED BY <1>1, <2>2, <2>5 DEF Answers
<1> QED BY <1>1 DEF Grouped, GroupsEnd

\* What is appended does not change who answers whom.
LEMMA AnswersStay ==
  ASSUME NEW s \in Seq(Entries), NEW m \in Entries, NEW g, NEW c, NEW j \in DOMAIN s
  PROVE  Answers(Append(s, m), g, c, j) <=> Answers(s, g, c, j)
<1> DEFINE t == Append(s, m)
<1>1. /\ DOMAIN s = 1..Len(s) /\ DOMAIN t = 1..Len(s) + 1 /\ Len(s) \in Nat
      /\ \A i \in DOMAIN s : t[i] = s[i] /\ i \in DOMAIN t
  BY Appending
<1> HIDE DEF t
<1>2. \A k \in DOMAIN t : k <= j => k \in DOMAIN s
  BY <1>1
<1>3. Answers(t, g, c, j) <=> Answers(s, g, c, j)
  BY <1>1, <1>2 DEF Answers
<1> QED BY <1>3 DEF t

\* After a closed context, anything but a result begins anew.
LEMMA GroupedByOther ==
  ASSUME NEW s \in Seq(Entries), NEW m \in Entries, Grouped(s), Open(s) = {}, ~IsResult(m)
  PROVE  Grouped(Append(s, m))
<1> DEFINE t == Append(s, m)
           n == Len(s)
<1>1. /\ DOMAIN s = 1..n /\ DOMAIN t = 1..n + 1 /\ n \in Nat
      /\ \A i \in DOMAIN s : t[i] = s[i] /\ i \in DOMAIN t
      /\ t[n + 1] = m
  BY Appending
<1>2. \A j \in DOMAIN s : \A g, c : Answers(t, g, c, j) <=> Answers(s, g, c, j)
  BY AnswersStay
<1> HIDE DEF t, n
<1>3. \A j \in DOMAIN t : j \in DOMAIN s \/ j = n + 1
  BY <1>1
<1>4. ResultsFollow(t)
  BY <1>1, <1>2, <1>3 DEF Grouped, ResultsFollow
<1>5. ResultsDiffer(t)
  BY <1>1, <1>3 DEF Grouped, ResultsDiffer
<1>6. GroupsEnd(t)
  <2> SUFFICES ASSUME NEW g \in DOMAIN t, t[g].role = "calls", NEW c \in t[g].refs
               PROVE  \/ \E j \in DOMAIN t : Answers(t, g, c, j)
                      \/ \A k \in DOMAIN t : g < k => IsResult(t[k])
    BY DEF GroupsEnd
  <2>1. CASE g = n + 1
    BY <1>1, <2>1
  <2>2. CASE g \in DOMAIN s
    <3>1. PICK j \in DOMAIN s : Answers(s, g, c, j)
      BY <1>1, <2>2, GroupsAreComplete
    <3> QED BY <1>1, <1>2, <3>1
  <2> QED BY <1>3, <2>1, <2>2
<1> QED BY <1>4, <1>5, <1>6 DEF Grouped, t

\* The result of a call that waits joins its group.
LEMMA GroupedByResult ==
  ASSUME NEW s \in Seq(Entries), NEW m \in Entries, Grouped(s), IsResult(m),
         NEW w \in Open(s), m.refs = {w}
  PROVE  Grouped(Append(s, m))
<1> DEFINE t == Append(s, m)
           n == Len(s)
<1>1. /\ DOMAIN s = 1..n /\ DOMAIN t = 1..n + 1 /\ n \in Nat
      /\ \A i \in DOMAIN s : t[i] = s[i] /\ i \in DOMAIN t
      /\ t[n + 1] = m
  BY Appending
<1>2. \A j \in DOMAIN s : \A g, c : Answers(t, g, c, j) <=> Answers(s, g, c, j)
  BY AnswersStay
<1> HIDE DEF t, n
<1>3. \A j \in DOMAIN t : j \in DOMAIN s \/ j = n + 1
  BY <1>1
<1>4. PICK h \in DOMAIN s : Waits(s, h, w)
  BY OpenIs
<1>5. ~IsResult(s[h])
  BY <1>4 DEF Waits, IsResult, Outcomes
<1>6. ResultsFollow(t)
  <2>1. Answers(t, h, w, n + 1)
    BY <1>1, <1>3, <1>4 DEF Answers, Waits
  <2>2. t[h].role = "calls" /\ w \in t[h].refs /\ h \in DOMAIN t
    BY <1>1, <1>4 DEF Waits
  <2> QED BY <1>1, <1>2, <1>3, <2>1, <2>2 DEF Grouped, ResultsFollow
<1>7. ResultsDiffer(t)
  <2> SUFFICES ASSUME NEW i \in DOMAIN t, NEW j \in DOMAIN t, i < j, IsResult(t[i]), IsResult(t[j]),
                      t[i].refs = t[j].refs
               PROVE  \E k \in DOMAIN t : i < k /\ k < j /\ ~IsResult(t[k])
    BY DEF ResultsDiffer
  <2>1. CASE j \in DOMAIN s
    <3>1. i \in DOMAIN s
      BY <1>1, <2>1
    <3> QED BY <1>1, <2>1, <3>1 DEF Grouped, ResultsDiffer
  <2>2. CASE j = n + 1
    <3>1. i \in DOMAIN s /\ w \in s[i].refs /\ IsResult(s[i])
      BY <1>1, <2>2
    <3>2. ~(h < i)
      BY <1>4, <3>1 DEF Waits
    <3>3. i # h
      BY <1>5, <3>1
    <3>4. i < h /\ h < j
      BY <1>1, <2>2, <3>1, <3>2, <3>3
    <3> QED BY <1>1, <1>5, <3>4
  <2> QED BY <1>3, <2>1, <2>2
<1>8. GroupsEnd(t)
  <2> SUFFICES ASSUME NEW g \in DOMAIN t, t[g].role = "calls", NEW c \in t[g].refs
               PROVE  \/ \E j \in DOMAIN t : Answers(t, g, c, j)
                      \/ \A k \in DOMAIN t : g < k => IsResult(t[k])
    BY DEF GroupsEnd
  <2>1. g # n + 1
    BY <1>1 DEF IsResult, Outcomes
  <2>2. g \in DOMAIN s /\ s[g].role = "calls" /\ c \in s[g].refs
    BY <1>1, <1>3, <2>1
  <2>3. CASE \A k \in DOMAIN s : g < k => IsResult(s[k])
    BY <1>1, <1>3, <2>2, <2>3
  <2>4. CASE \E j \in DOMAIN s : Answers(s, g, c, j)
    BY <1>1, <1>2, <2>4
  <2> QED BY <2>2, <2>3, <2>4 DEF Grouped, GroupsEnd
<1> QED BY <1>6, <1>7, <1>8 DEF Grouped, t

-----------------------------------------------------------------------------
(* Compaction keeps groups whole.                                          *)

\* No group of s is cut in two before line t.
CutsNoGroup(s, t) ==
  \A g, j \in DOMAIN s : \A c \in s[g].refs :
    s[g].role = "calls" /\ Answers(s, g, c, j) /\ t <= j => t <= g

\* safe_tail_start(): the group of every result of the tail begins in the tail.
LEMMA TailKeepsGroups ==
  ASSUME NEW s \in Seq(Entries), NEW keep \in Nat
  PROVE  TailStart(s, keep) \in 1..Len(s) + 1 /\ CutsNoGroup(s, TailStart(s, keep))
<1> DEFINE cut == IF Len(s) > keep THEN Len(s) - keep + 1 ELSE 1
           H == {i \in DOMAIN s : i < cut /\ s[i].role = "calls" /\
                   \E j \in cut..Len(s) : IsResult(s[j]) /\ s[j].refs \subseteq s[i].refs}
           T == {cut} \union H
           t == TailStart(s, keep)
<1>1. Len(s) \in Nat /\ DOMAIN s = 1..Len(s) /\ cut \in 1..Len(s) + 1
  OBVIOUS
<1>2. t = Min(T)
  BY DEF TailStart
<1>3. T \in SUBSET Nat /\ T # {}
  BY <1>1
<1> HIDE DEF T, t
<1>4. t \in T /\ \A n \in T : t <= n
  BY <1>2, <1>3, Smallest
<1>5. t = cut \/ (t \in DOMAIN s /\ s[t].role = "calls")
  BY <1>4 DEF T
<1>6. \A i \in DOMAIN s :
        /\ i < cut /\ s[i].role = "calls"
        /\ \E j \in cut..Len(s) : IsResult(s[j]) /\ s[j].refs \subseteq s[i].refs
        => t <= i
  BY <1>4 DEF T
<1>7. t <= cut
  BY <1>4 DEF T
<1> HIDE DEF cut, H
<1>8. t \in 1..Len(s) + 1
  BY <1>1, <1>5
<1>9. ASSUME NEW g \in DOMAIN s, NEW j \in DOMAIN s, NEW c \in s[g].refs,
             s[g].role = "calls", Answers(s, g, c, j), t <= j
      PROVE  t <= g
  <2>1. /\ g < j /\ s[j].refs = {c} /\ IsResult(s[j])
        /\ \A k \in DOMAIN s : g < k /\ k <= j => IsResult(s[k])
    BY <1>1, <1>9 DEF Answers
  <2>2. CASE cut <= j
    <3>1. j \in cut..Len(s) /\ s[j].refs \subseteq s[g].refs
      BY <1>1, <1>9, <2>1, <2>2
    <3> QED BY <1>1, <1>6, <1>7, <1>8, <1>9, <2>1, <3>1
  <2>3. CASE j < cut
    <3>1. t # cut
      BY <1>1, <1>9, <2>3
    <3>2. t \in DOMAIN s /\ ~IsResult(s[t])
      BY <1>5, <3>1 DEF IsResult, Outcomes
    <3>3. ~(g < t)
      BY <1>9, <2>1, <3>2
    <3> QED BY <1>1, <3>2, <3>3
  <2> QED BY <1>1, <2>2, <2>3
<1>10. CutsNoGroup(s, t)
  BY <1>9 DEF CutsNoGroup
<1> QED BY <1>8, <1>10 DEF t

\* u is the message m and behind it what s has from line t on.
IsTail(u, m, s, t) ==
  /\ u \in Seq(Entries) /\ DOMAIN u = 1..(Len(s) - t) + 2 /\ u[1] = m
  /\ \A k \in DOMAIN u : k # 1 => /\ (t + k) - 2 \in DOMAIN s /\ t <= (t + k) - 2
                                  /\ u[k] = s[(t + k) - 2]
  /\ \A i \in DOMAIN s : t <= i => (i - t) + 2 \in DOMAIN u /\ u[(i - t) + 2] = s[i]

LEMMA TailIs ==
  ASSUME NEW s \in Seq(Entries), NEW t \in 2..Len(s) + 1, NEW m \in Entries
  PROVE  IsTail(<<m>> \o SubSeq(s, t, Len(s)), m, s, t)
<1> DEFINE v == SubSeq(s, t, Len(s))
           u == <<m>> \o v
<1>1. Len(s) \in Nat /\ DOMAIN s = 1..Len(s)
  OBVIOUS
<1>2. v \in Seq(Entries) /\ Len(v) = (Len(s) - t) + 1 /\ \A k \in 1..Len(v) : v[k] = s[(t + k) - 1]
  BY <1>1
<1> HIDE DEF v
<1> DEFINE w == <<m>>
<1>3. w \in Seq(Entries) /\ Len(w) = 1 /\ w[1] = m
  OBVIOUS
<1> HIDE DEF w
<1>4. u \in Seq(Entries) /\ Len(u) = (Len(s) - t) + 2
      /\ \A k \in 1..Len(u) : u[k] = IF k <= 1 THEN w[k] ELSE v[k - 1]
  <2>1. /\ w \o v \in Seq(Entries) /\ Len(w \o v) = Len(w) + Len(v)
        /\ \A k \in 1..Len(w) + Len(v) : (w \o v)[k] = IF k <= Len(w) THEN w[k] ELSE v[k - Len(w)]
    BY <1>2, <1>3, ConcatProperties
  <2>2. u = w \o v /\ Len(w) + Len(v) = (Len(s) - t) + 2
    BY <1>1, <1>2, <1>3 DEF w
  <2> HIDE DEF u
  <2> QED BY <1>3, <2>1, <2>2
<1> HIDE DEF u
<1>5. DOMAIN u = 1..(Len(s) - t) + 2
  BY <1>4
<1>6. ASSUME NEW k \in DOMAIN u, k # 1
      PROVE  /\ (t + k) - 2 \in DOMAIN s /\ t <= (t + k) - 2
             /\ u[k] = s[(t + k) - 2]
  <2>1. k \in 1..Len(u) /\ ~(k <= 1) /\ k - 1 \in 1..Len(v)
    BY <1>1, <1>2, <1>4, <1>5, <1>6
  <2>2. u[k] = v[k - 1]
    BY <1>4, <2>1
  <2>3. v[k - 1] = s[(t + (k - 1)) - 1]
    BY <1>2, <2>1
  <2>4. (t + (k - 1)) - 1 = (t + k) - 2
    BY <1>1, <1>5
  <2>5. (t + k) - 2 \in DOMAIN s /\ t <= (t + k) - 2
    BY <1>1, <1>5, <1>6
  <2> QED BY <2>2, <2>3, <2>4, <2>5
<1>7. ASSUME NEW i \in DOMAIN s, t <= i PROVE (i - t) + 2 \in DOMAIN u /\ u[(i - t) + 2] = s[i]
  <2>1. (i - t) + 2 \in DOMAIN u /\ (i - t) + 2 # 1
    BY <1>1, <1>5, <1>7
  <2>2. (t + ((i - t) + 2)) - 2 = i
    BY <1>1
  <2> QED BY <1>6, <2>1, <2>2
<1>8. u[1] = m
  BY <1>1, <1>3, <1>4
<1>9. IsTail(u, m, s, t)
  BY <1>4, <1>5, <1>6, <1>7, <1>8 DEF IsTail
<1> QED BY <1>9 DEF u, v

\* Who answers whom in a tail.
LEMMA TailAnswers ==
  ASSUME NEW s \in Seq(Entries), NEW t \in 2..Len(s) + 1, NEW m, NEW u, IsTail(u, m, s, t),
         NEW g \in DOMAIN s, NEW j \in DOMAIN s, t <= g, NEW c, Answers(s, g, c, j)
  PROVE  /\ (g - t) + 2 \in DOMAIN u /\ u[(g - t) + 2] = s[g]
         /\ (j - t) + 2 \in DOMAIN u /\ u[(j - t) + 2] = s[j]
         /\ Answers(u, (g - t) + 2, c, (j - t) + 2)
<1>1. /\ Len(s) \in Nat /\ t \in Nat /\ g \in Nat /\ j \in Nat /\ t <= j
      /\ g < j /\ s[j].refs = {c}
      /\ \A k \in DOMAIN s : g < k /\ k <= j => IsResult(s[k])
  BY DEF Answers
<1>2. /\ (g - t) + 2 \in DOMAIN u /\ u[(g - t) + 2] = s[g]
      /\ (j - t) + 2 \in DOMAIN u /\ u[(j - t) + 2] = s[j]
  BY <1>1 DEF IsTail
<1>3. ASSUME NEW k \in DOMAIN u, (g - t) + 2 < k, k <= (j - t) + 2 PROVE IsResult(u[k])
  <2>1. k \in Nat
    BY DEF IsTail
  <2>2. k # 1 /\ g < (t + k) - 2 /\ (t + k) - 2 <= j
    BY <1>1, <1>3, <2>1, SMTT(40)
  <2>3. (t + k) - 2 \in DOMAIN s /\ u[k] = s[(t + k) - 2]
    BY <2>2 DEF IsTail
  <2> QED BY <1>1, <2>2, <2>3
<1>4. (g - t) + 2 < (j - t) + 2
  BY <1>1
<1> QED BY <1>1, <1>2, <1>3, <1>4 DEF Answers

\* A tail of whole groups is grouped.
LEMMA TailIsGrouped ==
  ASSUME NEW s \in Seq(Entries), NEW t \in 2..Len(s) + 1, Grouped(s), Open(s) = {}, CutsNoGroup(s, t),
         NEW m \in Entries, ~IsResult(m), m.role # "calls", NEW u, IsTail(u, m, s, t)
  PROVE  Grouped(u) /\ Open(u) = {}
<1>1. \A k \in DOMAIN u : IsResult(u[k]) \/ u[k].role = "calls" =>
        /\ k # 1 /\ (t + k) - 2 \in DOMAIN s /\ t <= (t + k) - 2
        /\ u[k] = s[(t + k) - 2] /\ (((t + k) - 2) - t) + 2 = k
  BY DEF IsTail
<1>2. ASSUME NEW j \in DOMAIN u, IsResult(u[j])
      PROVE  \E g \in DOMAIN u : u[g].role = "calls" /\ \E c \in u[g].refs : Answers(u, g, c, j)
  <2> DEFINE i == (t + j) - 2
  <2>1. i \in DOMAIN s /\ t <= i /\ u[j] = s[i] /\ (i - t) + 2 = j
    BY <1>1, <1>2
  <2> HIDE DEF i
  <2>2. PICK g \in DOMAIN s : s[g].role = "calls" /\ \E c \in s[g].refs : Answers(s, g, c, i)
    BY <1>2, <2>1 DEF Grouped, ResultsFollow
  <2>0. PICK c \in s[g].refs : Answers(s, g, c, i)
    BY <2>2
  <2>3. t <= g
    BY <2>0, <2>1, <2>2 DEF CutsNoGroup
  <2>4. /\ (g - t) + 2 \in DOMAIN u /\ u[(g - t) + 2] = s[g]
        /\ Answers(u, (g - t) + 2, c, (i - t) + 2)
    BY <2>0, <2>1, <2>3, TailAnswers
  <2> QED BY <2>0, <2>1, <2>2, <2>4
<1>3. ASSUME NEW i \in DOMAIN u, NEW j \in DOMAIN u, i < j, IsResult(u[i]), IsResult(u[j]),
             u[i].refs = u[j].refs
      PROVE  \E k \in DOMAIN u : i < k /\ k < j /\ ~IsResult(u[k])
  <2>1. /\ (t + i) - 2 \in DOMAIN s /\ u[i] = s[(t + i) - 2] /\ t <= (t + i) - 2
        /\ (t + j) - 2 \in DOMAIN s /\ u[j] = s[(t + j) - 2]
    BY <1>1, <1>3
  <2>2. i \in Nat /\ j \in Nat /\ t \in Nat
    BY DEF IsTail
  <2>3. (t + i) - 2 < (t + j) - 2
    BY <1>3, <2>2
  <2>4. PICK k \in DOMAIN s : (t + i) - 2 < k /\ k < (t + j) - 2 /\ ~IsResult(s[k])
    BY <1>3, <2>1, <2>3 DEF Grouped, ResultsDiffer
  <2>5. k \in Nat /\ t <= k
    BY <2>1, <2>2, <2>4
  <2>6. (k - t) + 2 \in DOMAIN u /\ u[(k - t) + 2] = s[k]
    BY <2>5 DEF IsTail
  <2>7. i < (k - t) + 2 /\ (k - t) + 2 < j
    BY <2>2, <2>4, <2>5
  <2> QED BY <2>4, <2>6, <2>7
<1>4. ASSUME NEW g \in DOMAIN u, u[g].role = "calls", NEW c \in u[g].refs
      PROVE  \E j \in DOMAIN u : Answers(u, g, c, j)
  <2> DEFINE h == (t + g) - 2
  <2>1. h \in DOMAIN s /\ t <= h /\ u[g] = s[h] /\ (h - t) + 2 = g
    BY <1>1, <1>4
  <2> HIDE DEF h
  <2>2. PICK j \in DOMAIN s : Answers(s, h, c, j)
    BY <1>4, <2>1, GroupsAreComplete
  <2> QED BY <2>1, <2>2, TailAnswers
<1>5. Grouped(u)
  <2>1. ResultsFollow(u)
    BY <1>2 DEF ResultsFollow
  <2>2. ResultsDiffer(u)
    BY <1>3 DEF ResultsDiffer
  <2>3. GroupsEnd(u)
    BY <1>4 DEF GroupsEnd
  <2> QED BY <2>1, <2>2, <2>3 DEF Grouped
<1>6. ASSUME NEW c, NEW g \in DOMAIN u, Waits(u, g, c) PROVE FALSE
  <2>1. PICK j \in DOMAIN u : Answers(u, g, c, j)
    BY <1>4, <1>6 DEF Waits
  <2> QED BY <1>6, <2>1 DEF Waits, Answers
<1>7. u \in Seq(Entries)
  BY DEF IsTail
<1> QED BY <1>5, <1>6, <1>7, OpenIs

\* The summary carries what the head did.
LEMMA TailCarries ==
  ASSUME NEW s \in Seq(Entries), NEW t \in 2..Len(s) + 1,
         NEW m, m.role = "summary", m.refs = Carried(SubSeq(s, 1, t - 1)),
         NEW u, IsTail(u, m, s, t)
  PROVE  Carried(u) = Carried(s)
<1> DEFINE head == SubSeq(s, 1, t - 1)
<1>1. Len(s) \in Nat /\ DOMAIN s = 1..Len(s) /\ t \in Nat /\ t - 1 \in 1..Len(s) /\ t <= Len(s) + 1
  OBVIOUS
<1>2. DOMAIN head = 1..t - 1 /\ \A i \in 1..t - 1 : i \in DOMAIN s /\ head[i] = s[i]
  BY <1>1
<1> HIDE DEF head
<1>3. /\ 1 \in DOMAIN u /\ u[1] = m
      /\ \A k \in DOMAIN u : k # 1 => (t + k) - 2 \in DOMAIN s /\ u[k] = s[(t + k) - 2]
      /\ \A i \in DOMAIN s : t <= i => (i - t) + 2 \in DOMAIN u /\ u[(i - t) + 2] = s[i]
  BY <1>1 DEF IsTail
<1>4. ASSUME NEW n, n \in Carried(u) PROVE n \in Carried(s)
  <2>1. PICK k \in DOMAIN u : u[k].role \in {"user", "summary"} /\ n \in u[k].refs
    BY <1>4, CarriedIs
  <2>2. CASE k = 1
    <3>1. n \in Carried(head)
      BY <1>3, <2>1, <2>2 DEF head
    <3>2. PICK i \in DOMAIN head : head[i].role \in {"user", "summary"} /\ n \in head[i].refs
      BY <3>1, CarriedIs
    <3> QED BY <1>2, <3>2, CarriedIs
  <2>3. CASE k # 1
    BY <1>3, <2>1, <2>3, CarriedIs
  <2> QED BY <2>2, <2>3
<1>5. ASSUME NEW n, n \in Carried(s) PROVE n \in Carried(u)
  <2>1. PICK i \in DOMAIN s : s[i].role \in {"user", "summary"} /\ n \in s[i].refs
    BY <1>5, CarriedIs
  <2>2. CASE t <= i
    BY <1>3, <2>1, <2>2, CarriedIs
  <2>3. CASE i < t
    <3>1. i \in DOMAIN head /\ head[i] = s[i]
      BY <1>1, <1>2, <2>3
    <3>2. n \in Carried(head)
      BY <2>1, <3>1, CarriedIs
    <3>3. u[1].role \in {"user", "summary"} /\ n \in u[1].refs
      BY <1>3, <3>2 DEF head
    <3> QED BY <1>3, <3>3, CarriedIs
  <2> QED BY <1>1, <2>2, <2>3
<1> QED BY <1>4, <1>5

\* compact(): what there is when the head is not empty.
LEMMA CompactedTail ==
  ASSUME NEW s \in Seq(Entries), NEW keep \in Nat, TailStart(s, keep) # 1
  PROVE  /\ TailStart(s, keep) \in 2..Len(s) + 1
         /\ \E m \in Entries, u \in Seq(Entries) :
              /\ m.role = "summary" /\ m.refs = Carried(SubSeq(s, 1, TailStart(s, keep) - 1))
              /\ ~Refers(m) /\ IsTail(u, m, s, TailStart(s, keep))
              /\ Compacted(s, keep) = IF keep = 0 THEN Append(u, Msg("continue", {})) ELSE u
<1> DEFINE t == TailStart(s, keep)
           m == Msg("summary", Carried(SubSeq(s, 1, t - 1)))
           u == <<m>> \o SubSeq(s, t, Len(s))
           x == Msg("continue", {})
<1>1. t \in 2..Len(s) + 1
  <2>1. t \in 1..Len(s) + 1 /\ t # 1
    BY TailKeepsGroups
  <2> HIDE DEF t
  <2> QED BY <2>1
<1>2. Compacted(s, keep) = u \o (IF keep = 0 THEN <<x>> ELSE <<>>)
  BY DEF Compacted
<1> HIDE DEF t
<1>3. Carried(SubSeq(s, 1, t - 1)) \in SUBSET Nat
  <2>1. SubSeq(s, 1, t - 1) \in Seq(Entries)
    BY <1>1
  <2> QED BY <2>1, CarriedTypes
<1>4. m \in Entries /\ m.role = "summary" /\ m.refs = Carried(SubSeq(s, 1, t - 1)) /\ ~Refers(m)
  <2>1. "summary" \in Roles /\ "summary" \notin Outcomes
    BY DEF Roles, Outcomes
  <2> QED BY <1>3, <2>1, Messages DEF Refers
<1> HIDE DEF m
<1>5. IsTail(u, m, s, t)
  BY <1>1, <1>4, TailIs
<1> HIDE DEF u
<1>6. u \in Seq(Entries)
  BY <1>5 DEF IsTail
<1>7. x \in Entries
  <2>1. "continue" \in Roles /\ {} \in SUBSET Nat
    BY DEF Roles
  <2> QED BY <2>1, Messages
<1> HIDE DEF x
<1>8. Compacted(s, keep) = IF keep = 0 THEN Append(u, x) ELSE u
  BY <1>2, <1>6, <1>7
<1> QED BY <1>1, <1>4, <1>5, <1>6, <1>8 DEF t, x

LEMMA CompactedIs ==
  ASSUME NEW s \in Seq(Entries), NEW keep \in Nat, Grouped(s), Open(s) = {}
  PROVE  /\ Compacted(s, keep) \in Seq(Entries)
         /\ Grouped(Compacted(s, keep)) /\ Open(Compacted(s, keep)) = {}
         /\ Carried(Compacted(s, keep)) = Carried(s)
<1> DEFINE t == TailStart(s, keep)
           x == Msg("continue", {})
<1>1. CASE t = 1
  BY <1>1 DEF Compacted
<1>2. CASE t # 1
  <2>1. t \in 2..Len(s) + 1 /\ CutsNoGroup(s, t)
    BY <1>2, CompactedTail, TailKeepsGroups
  <2>2. PICK m \in Entries, u \in Seq(Entries) :
          /\ m.role = "summary" /\ m.refs = Carried(SubSeq(s, 1, t - 1))
          /\ ~Refers(m) /\ IsTail(u, m, s, t)
          /\ Compacted(s, keep) = IF keep = 0 THEN Append(u, x) ELSE u
    BY <1>2, CompactedTail
  <2> HIDE DEF t
  <2>3. ~IsResult(m) /\ m.role # "calls"
    BY <2>2 DEF Refers
  <2>4. Grouped(u) /\ Open(u) = {}
    BY <2>1, <2>2, <2>3, TailIsGrouped
  <2>5. Carried(u) = Carried(s)
    BY <2>1, <2>2, TailCarries
  <2>6. x \in Entries /\ ~IsResult(x) /\ x.role = "continue"
    <3>1. "continue" \in Roles /\ "continue" \notin Outcomes /\ {} \in SUBSET Nat
      BY DEF Roles, Outcomes
    <3> QED BY <3>1, Messages
  <2> HIDE DEF x
  <2>7. /\ Append(u, x) \in Seq(Entries)
        /\ Grouped(Append(u, x)) /\ Open(Append(u, x)) = {}
        /\ Carried(Append(u, x)) = Carried(u)
    <3>1. Grouped(Append(u, x))
      BY <2>4, <2>6, GroupedByOther
    <3>2. Open(Append(u, x)) = {}
      BY <2>6, OpenAfterOther
    <3>3. Carried(Append(u, x)) = Carried(u)
      BY <2>6, CarriedAppends
    <3> QED BY <2>6, <3>1, <3>2, <3>3
  <2> QED BY <2>2, <2>4, <2>5, <2>7
<1> QED BY <1>1, <1>2

-----------------------------------------------------------------------------
(* A closed and grouped context is well formed for an endpoint.            *)

\* Behind the calls of a group stand their results, as many as there are calls.
LEMMA GroupIs ==
  ASSUME NEW s \in Seq(Entries), Grouped(s), Open(s) = {},
         NEW g \in DOMAIN s, s[g].role = "calls"
  PROVE  LET n == Cardinality(s[g].refs)
         IN  /\ n \in Nat /\ g + n <= Len(s)
             /\ \A j \in g + 1..g + n : IsResult(s[j])
             /\ UNION {s[j].refs : j \in g + 1..g + n} = s[g].refs
             /\ \A j \in DOMAIN s : \A c \in s[g].refs : Answers(s, g, c, j) => j <= g + n
<1> DEFINE R == s[g].refs
           T == {g} \union {j \in DOMAIN s : g < j /\ \A k \in DOMAIN s : g < k /\ k <= j => IsResult(s[k])}
           m == Max(T)
           J == g + 1..m
<1>1. Len(s) \in Nat /\ DOMAIN s = 1..Len(s) /\ g \in Nat
  OBVIOUS
<1>2. T \in SUBSET (0..Len(s)) /\ T # {}
  BY <1>1
<1>3. m \in T /\ \A j \in T : j <= m
  BY <1>1, <1>2, Largest
<1>4. /\ m \in Nat /\ g <= m /\ m <= Len(s)
      /\ \A j \in J : j \in DOMAIN s /\ \A k \in DOMAIN s : g < k /\ k <= j => IsResult(s[k])
  <2>1. m = g \/ (m \in DOMAIN s /\ g < m /\ \A k \in DOMAIN s : g < k /\ k <= m => IsResult(s[k]))
    BY <1>3
  <2> HIDE DEF m
  <2> QED BY <1>1, <2>1
<1>5. ~IsResult(s[g])
  BY DEF IsResult, Outcomes
<1>6. ASSUME NEW j \in DOMAIN s, NEW c, Answers(s, g, c, j) PROVE j \in J
  <2>1. j \in T
    BY <1>6 DEF Answers
  <2> QED BY <1>1, <1>3, <1>6, <2>1 DEF Answers
<1> HIDE DEF T, m
<1>7. ASSUME NEW j \in J
      PROVE  IsResult(s[j]) /\ \E c \in R : s[j].refs = {c}
  <2>1. j \in DOMAIN s /\ g < j /\ IsResult(s[j])
    BY <1>1, <1>4
  <2>2. PICK h \in DOMAIN s : s[h].role = "calls" /\ \E c \in s[h].refs : Answers(s, h, c, j)
    BY <2>1 DEF Grouped, ResultsFollow
  <2>3. h < j /\ (\A k \in DOMAIN s : h < k /\ k <= j => IsResult(s[k])) /\ \E c \in s[h].refs : s[j].refs = {c}
    BY <2>2 DEF Answers
  <2>4. ~(h < g)
    BY <1>1, <1>5, <2>1, <2>3
  <2>5. ~IsResult(s[h])
    BY <2>2 DEF IsResult, Outcomes
  <2>6. ~(g < h)
    BY <1>1, <1>4, <2>3, <2>5
  <2>7. h = g
    BY <1>1, <2>4, <2>6
  <2> QED BY <2>1, <2>3, <2>7
<1> DEFINE f == [j \in J |-> CHOOSE c \in R : s[j].refs = {c}]
<1>8. \A j \in J : f[j] \in R /\ s[j].refs = {f[j]}
  BY <1>7
<1>9. f \in [J -> R]
  BY <1>8
<1>10. \A c \in R : \E j \in J : f[j] = c
  <2> SUFFICES ASSUME NEW c \in R PROVE \E j \in J : f[j] = c
    OBVIOUS
  <2>1. PICK j \in DOMAIN s : Answers(s, g, c, j)
    BY GroupsAreComplete
  <2>2. j \in J /\ s[j].refs = {c}
    BY <1>6, <2>1 DEF Answers
  <2> HIDE DEF f, J
  <2>3. f[j] = c
    BY <1>8, <2>2
  <2> QED BY <2>2, <2>3
<1>11. ASSUME NEW i \in J, NEW j \in J, f[i] = f[j] PROVE i = j
  <2>1. s[i].refs = s[j].refs
    BY <1>8, <1>11
  <2>2. ASSUME NEW a \in J, NEW b \in J, a < b, s[a].refs = s[b].refs PROVE FALSE
    <3>1. a \in DOMAIN s /\ b \in DOMAIN s /\ IsResult(s[a]) /\ IsResult(s[b])
      BY <1>4, <1>7
    <3>2. PICK k \in DOMAIN s : a < k /\ k < b /\ ~IsResult(s[k])
      BY <2>2, <3>1 DEF Grouped, ResultsDiffer
    <3>3. g < k /\ k <= b
      BY <1>1, <3>1, <3>2
    <3> QED BY <1>4, <3>2, <3>3
  <2>3. ~(i < j) /\ ~(j < i)
    BY <2>1, <2>2
  <2> QED BY <1>1, <1>4, <2>3
<1>12. f \in Surjection(J, R) /\ f \in Injection(J, R)
  <2> HIDE DEF f, J
  <2>1. f \in Surjection(J, R)
    BY <1>9, <1>10 DEF Surjection
  <2>2. f \in Injection(J, R)
    BY <1>9, <1>11 DEF Injection, IsInjective
  <2> QED BY <2>1, <2>2
<1>13. IsFiniteSet(J) /\ Cardinality(J) = m - g
  <2>1. g + 1 \in Int /\ m \in Int
    BY <1>1, <1>4
  <2>2. /\ IsFiniteSet(J)
        /\ Cardinality(J) = IF g + 1 > m THEN 0 ELSE m - (g + 1) + 1
    BY <2>1, FS_Interval
  <2> HIDE DEF J
  <2> QED BY <1>1, <1>4, <2>2
<1>14. Cardinality(R) = m - g
  <2> HIDE DEF f, J, R
  <2> QED BY <1>12, <1>13, FS_Surjection
<1>15. g + Cardinality(R) = m /\ Cardinality(R) \in Nat
  BY <1>1, <1>4, <1>14
<1>16. UNION {s[j].refs : j \in J} = R
  <2> HIDE DEF f, J
  <2>1. ASSUME NEW c PROVE c \in UNION {s[j].refs : j \in J} <=> c \in R
    BY <1>8, <1>10
  <2> QED BY <2>1
<1>17. \A j \in DOMAIN s : \A c \in R : Answers(s, g, c, j) => j <= m
  BY <1>1, <1>6
<1> QED BY <1>4, <1>7, <1>15, <1>16, <1>17

LEMMA GroupedIsPaired ==
  ASSUME NEW s \in Seq(Entries), Grouped(s), Open(s) = {}
  PROVE  Paired(s)
<1>1. Len(s) \in Nat /\ DOMAIN s = 1..Len(s)
  OBVIOUS
<1>2. ASSUME NEW i \in DOMAIN s, s[i].role = "calls"
      PROVE  LET n == Cardinality(s[i].refs)
             IN  /\ i + n <= Len(s) /\ \A j \in i + 1..i + n : IsResult(s[j])
                 /\ UNION {s[j].refs : j \in i + 1..i + n} = s[i].refs
  BY <1>2, GroupIs
<1>3. ASSUME NEW i \in DOMAIN s, IsResult(s[i])
      PROVE  \E g \in 1..i - 1 : s[g].role = "calls" /\ s[i].refs \subseteq s[g].refs
                                 /\ i - g <= Cardinality(s[g].refs)
  <2>1. PICK g \in DOMAIN s : s[g].role = "calls" /\ \E c \in s[g].refs : Answers(s, g, c, i)
    BY <1>3 DEF Grouped, ResultsFollow
  <2>2. g < i /\ s[i].refs \subseteq s[g].refs
    BY <2>1 DEF Answers
  <2>3. Cardinality(s[g].refs) \in Nat /\ i <= g + Cardinality(s[g].refs)
    BY <2>1, GroupIs
  <2> QED BY <1>1, <2>1, <2>2, <2>3
<1> QED BY <1>2, <1>3 DEF Paired

-----------------------------------------------------------------------------
(* Which calls are referred to.                                            *)

\* What u refers to, s refers to.
RefersAs(u, s) ==
  \A k \in DOMAIN u : Refers(u[k]) => \E i \in DOMAIN s : Refers(s[i]) /\ s[i].refs = u[k].refs

LEMMA KnownStay ==
  ASSUME NEW s, NEW u, RefersAs(u, s), NEW n \in Nat, NEW o \in Nat, n <= o, KnownCalls(s, n)
  PROVE  KnownCalls(u, o)
<1>1. 1..n \subseteq 1..o
  OBVIOUS
<1> QED BY <1>1 DEF RefersAs, KnownCalls

LEMMA KnownAppends ==
  ASSUME NEW S, NEW s \in Seq(S), NEW m \in S, NEW n, KnownCalls(s, n),
         Refers(m) => m.refs \subseteq 1..n
  PROVE  KnownCalls(Append(s, m), n)
<1> DEFINE t == Append(s, m)
<1>1. /\ DOMAIN t = 1..Len(s) + 1 /\ DOMAIN s = 1..Len(s) /\ Len(s) \in Nat
      /\ \A i \in DOMAIN s : t[i] = s[i]
      /\ t[Len(s) + 1] = m
  BY Appending
<1> HIDE DEF t
<1>2. \A i \in DOMAIN t : i \in DOMAIN s \/ i = Len(s) + 1
  BY <1>1
<1>3. KnownCalls(t, n)
  BY <1>1, <1>2 DEF KnownCalls
<1> QED BY <1>3 DEF t

LEMMA PrunedRefers ==
  ASSUME NEW s \in Seq(Entries)
  PROVE  Pruned(s) \in Seq(Entries) /\ RefersAs(Pruned(s), s)
<1>1. Alike(s, s)
  BY DEF Alike
<1>2. Pruned(s) \in Seq(Entries) /\ Alike(s, Pruned(s))
  BY <1>1, PrunedIs
<1>3. /\ DOMAIN Pruned(s) = DOMAIN s
      /\ \A i \in DOMAIN s : /\ IsResult(Pruned(s)[i]) <=> IsResult(s[i])
                             /\ Pruned(s)[i].refs = s[i].refs
                             /\ ~IsResult(s[i]) => Pruned(s)[i] = s[i]
  BY <1>2, AlikeIs
<1> QED BY <1>2, <1>3 DEF RefersAs, Refers

LEMMA CompactedRefers ==
  ASSUME NEW s \in Seq(Entries), NEW keep \in Nat
  PROVE  Compacted(s, keep) \in Seq(Entries) /\ RefersAs(Compacted(s, keep), s)
<1> DEFINE t == TailStart(s, keep)
<1>1. CASE t = 1
  <2>1. Compacted(s, keep) = s
    BY <1>1 DEF Compacted
  <2> QED BY <2>1 DEF RefersAs
<1>2. CASE t # 1
  <2> DEFINE x == Msg("continue", {})
  <2>1. PICK m \in Entries, u \in Seq(Entries) :
          /\ ~Refers(m) /\ IsTail(u, m, s, t)
          /\ Compacted(s, keep) = IF keep = 0 THEN Append(u, x) ELSE u
    BY <1>2, CompactedTail
  <2> HIDE DEF t
  <2>2. RefersAs(u, s)
    BY <2>1 DEF RefersAs, IsTail
  <2>3. x \in Entries /\ ~Refers(x)
    <3>1. "continue" \in Roles /\ "continue" \notin Outcomes /\ {} \in SUBSET Nat
      BY DEF Roles, Outcomes
    <3> QED BY <3>1, Messages DEF Refers
  <2> HIDE DEF x
  <2>4. RefersAs(Append(u, x), s)
    <3>1. /\ DOMAIN Append(u, x) = 1..Len(u) + 1 /\ DOMAIN u = 1..Len(u) /\ Len(u) \in Nat
          /\ \A i \in DOMAIN u : Append(u, x)[i] = u[i]
          /\ Append(u, x)[Len(u) + 1] = x
      BY <2>1, <2>3, Appending
    <3>2. \A k \in DOMAIN Append(u, x) : k \in DOMAIN u \/ k = Len(u) + 1
      BY <3>1
    <3> QED BY <2>2, <2>3, <3>1, <3>2 DEF RefersAs
  <2> QED BY <2>1, <2>2, <2>3, <2>4
<1> QED BY <1>1, <1>2

\* What a restored context refers to, the file or its last checkpoint refers to.
LEMMA ContextRefers ==
  ASSUME NEW d \in Seq(Lines), NEW n \in Nat, KnownCalls(d, n),
         \A i \in DOMAIN d : KnownCalls(d[i].active, n)
  PROVE  KnownCalls(Active(d), n)
<1> DEFINE c == LastCheckpoint(d)
           A == IF c = 0 THEN <<>> ELSE d[c].active
           B == [i \in 1..Len(d) - c |-> InContext(d[c + i])]
<1>1. c \in 0..Len(d) /\ Len(d) \in Nat /\ (c # 0 => c \in DOMAIN d) /\ DOMAIN d = 1..Len(d)
      /\ \A k \in DOMAIN d : d[k].role = "checkpoint" => k <= c
  BY CheckpointIs
<1> HIDE DEF c
<1>2. A \in Seq(Entries)
  <2>1. c # 0 => d[c] \in Lines
    BY <1>1
  <2> QED BY <2>1, LinesAre
<1>3. ASSUME NEW i \in 1..Len(d) - c
      PROVE  InContext(d[c + i]) \in Entries /\ (Refers(InContext(d[c + i])) => InContext(d[c + i]).refs \subseteq 1..n)
  <2>1. c + i \in DOMAIN d /\ ~(c + i <= c)
    BY <1>1
  <2>2. d[c + i] \in Lines /\ d[c + i].role # "checkpoint"
    BY <1>1, <2>1
  <2>3. Refers(InContext(d[c + i])) => InContext(d[c + i]) = d[c + i]
    <3>1. "reminder" \in Roles /\ {} \in SUBSET Nat /\ "reminder" # "calls" /\ "reminder" \notin Outcomes
      BY DEF Roles, Outcomes
    <3>2. ~Refers(Msg("reminder", {}))
      BY <3>1, Messages DEF Refers
    <3> QED BY <2>2, <3>2, InContextIs
  <2> QED BY <2>1, <2>2, <2>3, InContextIs DEF KnownCalls
<1>4. B \in Seq(Entries) /\ Len(B) = Len(d) - c /\ KnownCalls(B, n)
  <2>1. Len(d) - c \in Nat /\ DOMAIN B = 1..Len(d) - c /\ \A i \in 1..Len(d) - c : B[i] = InContext(d[c + i])
    BY <1>1
  <2>2. B \in Seq(Entries) /\ Len(B) = Len(d) - c
    BY <1>3, <2>1
  <2> HIDE DEF B
  <2>3. KnownCalls(B, n)
    BY <1>3, <2>1 DEF KnownCalls
  <2> QED BY <2>2, <2>3
<1>5. KnownCalls(A, n)
  BY <1>1 DEF KnownCalls
<1>6. Active(d) = A \o B
  BY DEF Active, c
<1> HIDE DEF A, B
<1>7. /\ DOMAIN (A \o B) = 1..Len(A) + Len(B)
      /\ \A k \in 1..Len(A) + Len(B) : (A \o B)[k] = IF k <= Len(A) THEN A[k] ELSE B[k - Len(A)]
  <2>1. A \o B \in Seq(Entries) /\ Len(A \o B) = Len(A) + Len(B)
    BY <1>2, <1>4, ConcatProperties
  <2>2. \A k \in 1..Len(A) + Len(B) : (A \o B)[k] = IF k <= Len(A) THEN A[k] ELSE B[k - Len(A)]
    BY <1>2, <1>4, ConcatProperties
  <2> QED BY <2>1, <2>2
<1>8. Len(A) \in Nat /\ Len(B) \in Nat /\ DOMAIN A = 1..Len(A) /\ DOMAIN B = 1..Len(B)
  BY <1>2, <1>4
<1>9. ASSUME NEW k \in DOMAIN (A \o B), Refers((A \o B)[k]) PROVE (A \o B)[k].refs \subseteq 1..n
  <2>1. CASE k <= Len(A)
    BY <1>5, <1>7, <1>8, <1>9, <2>1 DEF KnownCalls
  <2>2. CASE ~(k <= Len(A))
    <3>1. k - Len(A) \in DOMAIN B /\ (A \o B)[k] = B[k - Len(A)]
      BY <1>7, <1>8, <2>2
    <3> QED BY <1>4, <1>9, <3>1 DEF KnownCalls
  <2> QED BY <2>1, <2>2
<1> QED BY <1>6, <1>9 DEF KnownCalls

\* A call that waits is known.
LEMMA OpenIsKnown ==
  ASSUME NEW s \in Seq(Entries), NEW n, KnownCalls(s, n)
  PROVE  Open(s) \subseteq 1..n
<1>1. ASSUME NEW c \in Open(s) PROVE c \in 1..n
  <2>1. PICK g \in DOMAIN s : Waits(s, g, c)
    BY OpenIs
  <2> QED BY <2>1 DEF Waits, KnownCalls, Refers
<1> QED BY <1>1

\* The lines of a file to which one is appended; the line of a checkpoint.
LEMMA LastLine ==
  ASSUME NEW S, NEW s \in Seq(S), NEW m \in S, NEW i \in DOMAIN Append(s, m)
  PROVE  \/ i \in DOMAIN s /\ Append(s, m)[i] = s[i]
         \/ i = Len(s) + 1 /\ Append(s, m)[i] = m
BY Appending

LEMMA CheckpointLine ==
  ASSUME NEW x \in Seq(Entries), NEW m, m = [Msg("checkpoint", {}) EXCEPT !.active = x]
  PROVE  m \in Lines /\ m.active = x /\ m.role = "checkpoint" /\ ~Refers(m)
<1>1. m = [role |-> "checkpoint", refs |-> {}, active |-> x]
  BY DEF Msg
<1>2. "checkpoint" \notin Outcomes /\ {} \in SUBSET Nat
  BY DEF Outcomes
<1> QED BY <1>1, <1>2 DEF Lines, Refers, IsResult

-----------------------------------------------------------------------------
(* What a step writes.                                                     *)

WritesNothing == disk' = disk /\ issued' = issued /\ mem' \in {mem, Pruned(mem), <<>>}

WritesMessage(m) ==
  /\ m \in Entries /\ issued' \in issued..MaxCalls
  /\ IsResult(m) => Open(mem) # {} /\ m.refs = {Call}
  /\ m.role = "calls" => m.refs = issued + 1..issued'
  /\ m.role = "done" => pc = "result"
  /\ m.role = "error" => pc = "calls"
  /\ disk' \in {disk, Append(disk, m)}
  /\ mem' \in {mem, <<>>, Append(mem, m), Append(Pruned(mem), m)}

WritesCheckpoint(keep) ==
  LET context    == Compacted(mem, keep)
      checkpoint == [Msg("checkpoint", {}) EXCEPT !.active = context]
  IN  /\ issued' = issued
      /\ disk' \in {disk, Append(disk, checkpoint)} /\ mem' \in {mem, <<>>, context}

Begins == issued' = issued /\ mem' = Active(disk) /\ disk' \in {disk, <<>>}

\* Journal() and a failing append write their message or nothing.
LEMMA JournalWrites ==
  ASSUME NEW m, NEW next, Journal(m, next) \/ (AppendFails(m) /\ GiveUp)
  PROVE  disk' \in {disk, Append(disk, m)} /\ mem' \in {mem, <<>>, Append(mem, m)}
BY DEF Journal, AppendFails, GiveUp

LEMMA Steps ==
  ASSUME TypeOK, OpenIsUntouched, ConversationAssumption, [Next]_vars
  PROVE  \/ WritesNothing \/ \E m : WritesMessage(m)
         \/ \E keep \in Nat : WritesCheckpoint(keep) \/ Begins
<1>1. /\ mem \in Seq(Entries) /\ disk \in Seq(Lines) /\ issued \in 0..MaxCalls /\ issued \in issued..MaxCalls
      /\ Says \subseteq Nat /\ MaxCalls \in Nat /\ KeepLast \in Nat
  BY DEF TypeOK, ConversationAssumption
<1>2. /\ \A r \in {"user", "calls", "answer", "blank", "rejected"} : r \in Roles /\ r \notin Outcomes
      /\ \A r \in {"error", "unknown", "done"} : r \in Roles
  BY DEF Roles, Outcomes
<1>3. ASSUME NEW role \in {"user", "answer", "blank", "rejected"}, NEW refs \in SUBSET Nat, issued' = issued,
             disk' \in {disk, Append(disk, Msg(role, refs))},
             mem' \in {mem, <<>>, Append(mem, Msg(role, refs)), Append(Pruned(mem), Msg(role, refs))}
      PROVE  WritesMessage(Msg(role, refs))
  <2>0. role \in Roles /\ role \notin Outcomes
    BY <1>2
  <2>1. Msg(role, refs) \in Entries /\ Msg(role, refs).role = role /\ ~IsResult(Msg(role, refs))
    BY <2>0, Messages
  <2> QED BY <1>1, <1>3, <2>1 DEF WritesMessage
<1>4. ASSUME NEW role \in {"error", "unknown", "done"}, Open(mem) # {}, issued' = issued,
             role = "done" => pc = "result", role = "error" => pc = "calls",
             disk' \in {disk, Append(disk, Msg(role, {Call}))},
             mem' \in {mem, <<>>, Append(mem, Msg(role, {Call}))}
      PROVE  WritesMessage(Msg(role, {Call}))
  <2>1. {Call} \in SUBSET Nat
    BY <1>1, <1>4, CallWaits DEF Call
  <2>2. /\ Msg(role, {Call}) \in Entries /\ Msg(role, {Call}).role = role
        /\ Msg(role, {Call}).refs = {Call}
    BY <1>2, <2>1, Messages
  <2> QED BY <1>1, <1>4, <2>2 DEF WritesMessage
<1>5. CASE Start
  BY <1>5 DEF Start, Begins, ghosts
<1>6. CASE RunTurn \/ Preflight \/ Request \/ Fits \/ Fail \/ Overflow \/ Execute \/ Dispatched \/ Cancel \/ Crash
  BY <1>6 DEF RunTurn, Preflight, Request, Fits, Fail, Overflow, Execute, Dispatched, Cancel,
      Crash, GiveUp,
              WritesNothing, ghosts
<1>7. CASE Close
  <2>1. CASE Open(mem) = {}
    BY <1>7, <2>1 DEF Close, WritesNothing, ghosts
  <2>2. CASE Open(mem) # {}
    <3>1. Journal(Msg("unknown", {Call}), "close") /\ issued' = issued
      BY <1>7, <2>2 DEF Close, Call, ghosts
    <3>2. /\ disk' \in {disk, Append(disk, Msg("unknown", {Call}))}
          /\ mem' \in {mem, <<>>, Append(mem, Msg("unknown", {Call}))}
      BY <3>1, JournalWrites
    <3> QED BY <1>4, <2>2, <3>1, <3>2
  <2> QED BY <2>1, <2>2
<1>8. CASE Refuse
  <2>1. Journal(Msg("error", {Call}), "calls") /\ issued' = issued /\ pc = "calls" /\ Open(mem) # {}
    BY <1>8 DEF Refuse, ghosts
  <2>2. /\ disk' \in {disk, Append(disk, Msg("error", {Call}))}
        /\ mem' \in {mem, <<>>, Append(mem, Msg("error", {Call}))}
    BY <2>1, JournalWrites
  <2> QED BY <1>4, <2>1, <2>2
<1>9. CASE Result
  <2>1. Journal(Msg("done", {Call}), "calls") /\ issued' = issued /\ pc = "result" /\ Open(mem) # {}
    BY <1>9 DEF Result, OpenIsUntouched, ghosts
  <2>2. /\ disk' \in {disk, Append(disk, Msg("done", {Call}))}
        /\ mem' \in {mem, <<>>, Append(mem, Msg("done", {Call}))}
    BY <2>1, JournalWrites
  <2> QED BY <1>4, <2>1, <2>2
<1>10. CASE Compact
  <2>1. PICK keep \in {KeepLast, 1, 0} :
          LET context    == Compacted(mem, keep)
              checkpoint == [Msg("checkpoint", {}) EXCEPT !.active = context]
          IN  /\ context # mem
              /\ \/ disk' = Append(disk, checkpoint) /\ mem' = context /\ Goto("stream")
                    /\ UNCHANGED <<job, faults>>
                 \/ AppendFails(checkpoint) /\ GiveUp
    BY <1>10 DEF Compact
  <2>2. keep \in Nat
    BY <1>1
  <2>3. issued' = issued
    BY <1>10 DEF Compact, ghosts
  <2>4. WritesCheckpoint(keep)
    BY <2>1, <2>3 DEF WritesCheckpoint, AppendFails, GiveUp
  <2> QED BY <2>2, <2>4
<1>11. CASE ModelCalls
  <2>1. PICK n \in issued + 1..MaxCalls : Journal(Msg("calls", issued + 1..n), "calls") /\ issued' = n
    BY <1>11 DEF ModelCalls
  <2> DEFINE m == Msg("calls", issued + 1..n)
  <2>2. disk' \in {disk, Append(disk, m)} /\ mem' \in {mem, <<>>, Append(mem, m)}
    BY <2>1, JournalWrites
  <2>3. n \in issued..MaxCalls /\ issued + 1..n \in SUBSET Nat
    BY <1>1
  <2>4. m \in Entries /\ m.role = "calls" /\ m.refs = issued + 1..n /\ ~IsResult(m)
    <3>1. "calls" \in Roles /\ "calls" \notin Outcomes
      BY <1>2
    <3> QED BY <2>3, <3>1, Messages
  <2> HIDE DEF m
  <2>5. WritesMessage(m)
    BY <2>1, <2>2, <2>3, <2>4 DEF WritesMessage
  <2> QED BY <2>5
<1>12. CASE ModelAnswers
  <2> DEFINE role == IF pc = "stream" THEN "answer" ELSE "blank"
  <2>1. Journal(Msg(role, {}), "idle") /\ issued' = issued
    BY <1>12 DEF ModelAnswers, ghosts
  <2>2. disk' \in {disk, Append(disk, Msg(role, {}))} /\ mem' \in {mem, <<>>, Append(mem, Msg(role, {}))}
    BY <2>1, JournalWrites
  <2>3. role \in {"user", "answer", "blank", "rejected"}
    OBVIOUS
  <2> HIDE DEF role
  <2> QED BY <1>3, <2>1, <2>2, <2>3
<1>13. CASE Reject
  <2>1. /\ issued' = issued /\ disk' \in {disk, Append(disk, Msg("rejected", {}))}
        /\ mem' \in {mem, <<>>}
    BY <1>13 DEF Reject, AppendFails, GiveUp, ghosts
  <2> QED BY <1>3, <2>1
<1>14. ASSUME NEW n \in Says, Deliver(n) PROVE WritesNothing \/ \E m : WritesMessage(m)
  <2>1. PICK s \in {mem, Pruned(mem)} :
          \/ mem' = s /\ disk' = disk
          \/ disk' = Append(disk, Msg("user", {n})) /\ mem' = Append(s, Msg("user", {n}))
          \/ AppendFails(Msg("user", {n})) /\ GiveUp
    BY <1>14 DEF Deliver
  <2>2. issued' = issued /\ {n} \in SUBSET Nat
    BY <1>1, <1>14 DEF Deliver
  <2>3. CASE mem' = s /\ disk' = disk
    BY <2>2, <2>3 DEF WritesNothing
  <2>4. CASE disk' = Append(disk, Msg("user", {n})) /\ mem' = Append(s, Msg("user", {n}))
    BY <1>3, <2>2, <2>4
  <2>5. CASE AppendFails(Msg("user", {n})) /\ GiveUp
    <3>1. disk' \in {disk, Append(disk, Msg("user", {n}))} /\ mem' \in {mem, <<>>}
      BY <2>5 DEF AppendFails, GiveUp
    <3> QED BY <1>3, <2>2, <3>1
  <2> QED BY <2>1, <2>3, <2>4, <2>5
<1>15. ASSUME NEW n \in Says, UserMessage(n) PROVE \E m : WritesMessage(m)
  <2>1. /\ disk' \in {disk, Append(disk, Msg("user", {n}))} /\ mem' = Append(mem, Msg("user", {n}))
        /\ issued' = issued
    BY <1>15 DEF UserMessage, AppendFails
  <2>2. {n} \in SUBSET Nat
    BY <1>1
  <2> QED BY <1>3, <2>1, <2>2
<1>16. CASE UNCHANGED vars
  BY <1>16 DEF vars, ghosts, WritesNothing
<1> QED
  BY <1>5, <1>6, <1>7, <1>8, <1>9, <1>10, <1>11, <1>12, <1>13, <1>14, <1>15, <1>16 DEF Next, Thread

\* What a step executes.
LEMMA Executes ==
  ASSUME [Next]_vars
  PROVE  executed' = executed \/ Execute
BY DEF Next, Thread, vars, ghosts, Start, RunTurn, Close, Preflight, Request, Fits, Compact,
    Fail, Overflow,
       ModelCalls, ModelAnswers, Reject, Refuse, Result, Dispatched, Cancel, Crash, Deliver, UserMessage

-----------------------------------------------------------------------------
(* Types, rounds and known calls.                                          *)

LEMMA ContentsStep ==
  ASSUME TypeOK, CallsAreKnown, OpenIsUntouched, ConversationAssumption, [Next]_vars
  PROVE  /\ mem' \in Seq(Entries) /\ disk' \in Seq(Lines) /\ issued' \in issued..MaxCalls
         /\ KnownCalls(mem', issued') /\ KnownCalls(disk', issued')
         /\ \A i \in DOMAIN disk' : KnownCalls(disk'[i].active, issued')
<1>1. /\ mem \in Seq(Entries) /\ disk \in Seq(Lines) /\ issued \in 0..MaxCalls /\ issued \in issued..MaxCalls
      /\ MaxCalls \in Nat /\ issued \in Nat /\ <<>> \in Seq(Entries) /\ <<>> \in Seq(Lines)
      /\ KnownCalls(mem, issued) /\ KnownCalls(disk, issued)
      /\ \A i \in DOMAIN disk : KnownCalls(disk[i].active, issued)
  BY DEF TypeOK, ConversationAssumption, CallsAreKnown
<1>2. Pruned(mem) \in Seq(Entries) /\ RefersAs(Pruned(mem), mem)
  BY <1>1, PrunedRefers
<1>3. \A o \in issued..MaxCalls : /\ KnownCalls(mem, o) /\ KnownCalls(Pruned(mem), o) /\ KnownCalls(<<>>, o)
                                  /\ KnownCalls(disk, o)
                                  /\ \A i \in DOMAIN disk : KnownCalls(disk[i].active, o)
  <2> SUFFICES ASSUME NEW o \in issued..MaxCalls
               PROVE  /\ KnownCalls(mem, o) /\ KnownCalls(Pruned(mem), o) /\ KnownCalls(<<>>, o)
                      /\ KnownCalls(disk, o)
                      /\ \A i \in DOMAIN disk : KnownCalls(disk[i].active, o)
    OBVIOUS
  <2>1. o \in Nat /\ issued <= o
    BY <1>1
  <2>2. KnownCalls(Pruned(mem), o)
    BY <1>1, <1>2, <2>1, KnownStay
  <2>3. \A s : RefersAs(s, s)
    BY DEF RefersAs
  <2>4. \A s : KnownCalls(s, issued) => KnownCalls(s, o)
    BY <1>1, <2>1, <2>3, KnownStay
  <2>5. KnownCalls(<<>>, o)
    BY DEF KnownCalls
  <2> QED BY <1>1, <2>2, <2>4, <2>5
<1>4. CASE WritesNothing
  BY <1>1, <1>2, <1>3, <1>4 DEF WritesNothing
<1>5. ASSUME NEW m, WritesMessage(m)
      PROVE  /\ mem' \in Seq(Entries) /\ disk' \in Seq(Lines) /\ issued' \in issued..MaxCalls
             /\ KnownCalls(mem', issued') /\ KnownCalls(disk', issued')
             /\ \A i \in DOMAIN disk' : KnownCalls(disk'[i].active, issued')
  <2>1. m \in Entries /\ m \in Lines /\ issued' \in issued..MaxCalls
    BY <1>5 DEF WritesMessage, Lines
  <2>2. Refers(m) => m.refs \subseteq 1..issued'
    <3>1. CASE IsResult(m)
      <4>1. Call \in Open(mem) /\ m.refs = {Call}
        BY <1>1, <1>5, <3>1, CallWaits DEF WritesMessage, Call
      <4>2. Open(mem) \subseteq 1..issued'
        BY <1>1, <1>3, <2>1, OpenIsKnown
      <4> QED BY <4>1, <4>2
    <3>2. CASE m.role = "calls"
      BY <1>1, <1>5, <2>1, <3>2 DEF WritesMessage
    <3> QED BY <3>1, <3>2 DEF Refers
  <2>3. m.active = <<>>
    BY <2>1, LinesAre
  <2>4. /\ KnownCalls(mem, issued') /\ KnownCalls(Pruned(mem), issued') /\ KnownCalls(<<>>, issued')
        /\ KnownCalls(disk, issued') /\ \A i \in DOMAIN disk : KnownCalls(disk[i].active, issued')
    BY <1>3, <2>1
  <2>5. /\ KnownCalls(Append(mem, m), issued') /\ Append(mem, m) \in Seq(Entries)
        /\ KnownCalls(Append(Pruned(mem), m), issued') /\ Append(Pruned(mem), m) \in Seq(Entries)
    BY <1>1, <1>2, <2>1, <2>2, <2>4, KnownAppends, Appending
  <2>6. KnownCalls(Append(disk, m), issued') /\ Append(disk, m) \in Seq(Lines)
    BY <1>1, <2>1, <2>2, <2>4, KnownAppends, Appending
  <2>7. \A i \in DOMAIN Append(disk, m) : KnownCalls(Append(disk, m)[i].active, issued')
    BY <1>1, <2>1, <2>3, <2>4, LastLine
  <2> QED BY <1>1, <1>2, <1>5, <2>1, <2>4, <2>5, <2>6, <2>7 DEF WritesMessage
<1>6. ASSUME NEW keep \in Nat, WritesCheckpoint(keep)
      PROVE  /\ mem' \in Seq(Entries) /\ disk' \in Seq(Lines) /\ issued' \in issued..MaxCalls
             /\ KnownCalls(mem', issued') /\ KnownCalls(disk', issued')
             /\ \A i \in DOMAIN disk' : KnownCalls(disk'[i].active, issued')
  <2> DEFINE x == Compacted(mem, keep)
             m == [Msg("checkpoint", {}) EXCEPT !.active = x]
  <2>1. issued' = issued /\ disk' \in {disk, Append(disk, m)} /\ mem' \in {mem, <<>>, x}
    BY <1>6 DEF WritesCheckpoint
  <2>2. x \in Seq(Entries) /\ RefersAs(x, mem)
    BY <1>1, CompactedRefers
  <2>3. KnownCalls(x, issued)
    <3> HIDE DEF x
    <3> QED BY <1>1, <2>2, KnownStay
  <2>4. m \in Lines /\ m.active = x /\ ~Refers(m)
    <3> HIDE DEF x
    <3> QED BY <2>2, CheckpointLine
  <2> HIDE DEF m, x
  <2>5. KnownCalls(Append(disk, m), issued) /\ Append(disk, m) \in Seq(Lines)
    BY <1>1, <2>4, KnownAppends, Appending
  <2>6. \A i \in DOMAIN Append(disk, m) : KnownCalls(Append(disk, m)[i].active, issued)
    BY <1>1, <2>3, <2>4, LastLine
  <2> QED BY <1>1, <1>3, <2>1, <2>2, <2>3, <2>5, <2>6
<1>7. CASE Begins
  <2>1. Active(disk) \in Seq(Entries) /\ KnownCalls(Active(disk), issued)
    BY <1>1, ContextTypes, ContextRefers
  <2>2. KnownCalls(<<>>, issued) /\ \A i \in DOMAIN <<>> : KnownCalls(<<>>[i].active, issued)
    BY DEF KnownCalls
  <2> QED BY <1>1, <1>7, <2>1, <2>2 DEF Begins
<1> QED BY <1>4, <1>5, <1>6, <1>7, Steps

LEMMA RoundsStep ==
  ASSUME TypeOK, Rounds, ConversationAssumption, [Next]_vars
  PROVE  Rounds'
<1> USE DEF Rounds, NoJob
<1>1. /\ job \in [turn : 0..MaxToolTurns + 1, retried : BOOLEAN, cancelled : BOOLEAN,
                  after : {"idle", "preflight", "request"}]
      /\ MaxToolTurns \in Nat
  BY DEF TypeOK, ConversationAssumption
<1>2. GiveUp => Rounds'
  BY <1>1 DEF GiveUp, Goto
<1>3. ASSUME NEW m, NEW next \in {"idle", "close", "calls"}, Journal(m, next),
             next = "close" => job.turn <= MaxToolTurns /\ (job.after = "idle" => job = NoJob), next = "calls" => job.turn < MaxToolTurns
      PROVE  Rounds'
  BY <1>1, <1>2, <1>3 DEF Journal, Goto
<1>4. CASE Start
  BY <1>1, <1>4 DEF Start, Goto
<1>5. CASE RunTurn
  BY <1>1, <1>5 DEF RunTurn, Goto
<1>6. CASE Close
  <2>1. CASE Open(mem) = {}
    BY <1>1, <1>6, <2>1 DEF Close, Goto
  <2>2. CASE Open(mem) # {}
    BY <1>3, <1>6, <2>2 DEF Close
  <2> QED BY <2>1, <2>2
<1>7. CASE Preflight \/ Request \/ Fits \/ Fail
  BY <1>1, <1>2, <1>7 DEF Preflight, Request, Fits, Fail, Goto
<1>16. CASE Overflow
  BY <1>1, <1>16 DEF Overflow, Goto
<1>8. CASE Compact
  BY <1>1, <1>2, <1>8 DEF Compact, Goto
<1>9. CASE ModelCalls
  BY <1>1, <1>3, <1>9 DEF ModelCalls
<1>10. CASE ModelAnswers
  BY <1>1, <1>3, <1>10 DEF ModelAnswers
<1>11. CASE Reject
  BY <1>2, <1>11 DEF Reject
<1>12. CASE Refuse \/ Result
  BY <1>1, <1>3, <1>12 DEF Refuse, Result
<1>13. CASE Execute \/ Cancel \/ Crash
  BY <1>1, <1>13 DEF Execute, Cancel, Crash, Goto
<1>17. CASE Dispatched
  BY <1>1, <1>17 DEF Dispatched, Goto
<1>14. ASSUME NEW n \in Says, Deliver(n) \/ UserMessage(n) PROVE Rounds'
  BY <1>1, <1>2, <1>14 DEF Deliver, UserMessage
<1>15. CASE UNCHANGED vars
  BY <1>15 DEF vars
<1> QED
  BY <1>4, <1>5, <1>6, <1>7, <1>8, <1>9, <1>10, <1>11, <1>12, <1>13, <1>14, <1>15, <1>16,
      <1>17 DEF Next, Thread

LEMMA TypeStep ==
  ASSUME TypeOK, Rounds, CallsAreKnown, OpenIsUntouched, ConversationAssumption, [Next]_vars
  PROVE  TypeOK'
<1> DEFINE JobType == [turn : 0..MaxToolTurns + 1, retried : BOOLEAN, cancelled : BOOLEAN,
                       after : {"idle", "preflight", "request"}]
           JobOK == pc' \in Places /\ job' \in JobType
<1>1. /\ mem' \in Seq(Entries) /\ disk' \in Seq(Lines) /\ issued' \in issued..MaxCalls
  BY ContentsStep
<1>2. /\ job \in JobType /\ MaxToolTurns \in Nat \ {0} /\ NoJob \in JobType /\ pc \in Places
      /\ issued \in 0..MaxCalls /\ MaxCalls \in Nat /\ executed \in [1..MaxCalls -> Nat] /\ told \subseteq Says
  BY DEF TypeOK, ConversationAssumption, NoJob
<1>3. driver' \in Drivers /\ exact' \in BOOLEAN
  <2>1. UNCHANGED config
    BY DEF Next, Thread, vars, Start, RunTurn, Close, Preflight, Request, Fits, Compact, Fail,
        Overflow,
           ModelCalls, ModelAnswers, Reject, Refuse, Execute, Result, Dispatched, Cancel, Crash, Deliver, UserMessage
  <2> QED BY <2>1 DEF config, TypeOK
<1>4. executed' \in [1..MaxCalls -> Nat]
  <2>1. executed' = executed \/ executed' = [executed EXCEPT ![Call] = @ + 1]
    BY Executes DEF Execute
  <2> QED BY <1>2, <2>1, SMTT(40)
<1>5. told' \subseteq Says
  BY <1>2 DEF Next, Thread, vars, ghosts, Start, RunTurn, Close, Preflight, Request, Fits,
      Compact, Fail, Overflow,
              ModelCalls, ModelAnswers, Reject, Refuse, Execute, Result, Dispatched, Cancel, Crash, Deliver, UserMessage
<1>6. JobOK
  <2>1. GiveUp => JobOK
    BY <1>2 DEF GiveUp, Goto, Places
  <2>2. ASSUME NEW m, NEW next \in Places, Journal(m, next) PROVE JobOK
    BY <1>2, <2>1, <2>2 DEF Journal, Goto
  <2>3. CASE Start \/ RunTurn \/ Preflight \/ Fits
    BY <1>2, <2>3 DEF Start, RunTurn, Preflight, Fits, Goto, NoJob, Places
  <2>4. CASE Close
    BY <1>2, <2>2, <2>4 DEF Close, Goto, Places
  <2>5. CASE Request \/ Fail
    BY <1>2, <2>1, <2>5 DEF Request, Fail, Goto, Places
  <2>6. CASE Compact
    BY <1>2, <2>1, <2>6 DEF Compact, Goto, Places
  <2>7. CASE Overflow
    <3>1. job.turn \in 0..MaxToolTurns
      BY <1>2, <2>7 DEF Overflow, Rounds
    <3>2. job' = [job EXCEPT !.retried = TRUE, !.turn = job.turn + 1] /\ pc' \in Places
      BY <2>7 DEF Overflow, Goto, Places
    <3>3. job.turn + 1 \in 0..MaxToolTurns + 1
      BY <1>2, <3>1
    <3>4. job' \in JobType
      BY <1>2, <3>2, <3>3
    <3> QED BY <3>2, <3>4
  <2>8. CASE ModelCalls \/ ModelAnswers \/ Refuse \/ Result
    BY <1>2, <2>2, <2>8 DEF ModelCalls, ModelAnswers, Refuse, Result, Places
  <2>9. CASE Reject
    BY <2>1, <2>9 DEF Reject
  <2>10. CASE Execute \/ Cancel \/ Crash
    BY <1>2, <2>10 DEF Execute, Cancel, Crash, Goto, Places
  <2>11. CASE Dispatched
    <3>1. job.turn \in 0..MaxToolTurns
      BY <1>2, <2>11 DEF Dispatched, Rounds
    <3>2. job' = [job EXCEPT !.after = "request", !.turn = job.turn + 1] /\ pc' \in Places
      BY <2>11 DEF Dispatched, Goto, Places
    <3>3. job.turn + 1 \in 0..MaxToolTurns + 1
      BY <1>2, <3>1
    <3>4. job' \in JobType
      BY <1>2, <3>2, <3>3
    <3> QED BY <3>2, <3>4
  <2>12. ASSUME NEW n \in Says, Deliver(n) \/ UserMessage(n) PROVE JobOK
    BY <1>2, <2>1, <2>12 DEF Deliver, UserMessage
  <2>13. CASE UNCHANGED vars
    BY <1>2, <2>13 DEF vars
  <2> QED
    BY <2>3, <2>4, <2>5, <2>6, <2>7, <2>8, <2>9, <2>10, <2>11, <2>12, <2>13 DEF Next, Thread
<1>7. issued' \in 0..MaxCalls
  BY <1>1, <1>2
<1> QED BY <1>1, <1>3, <1>4, <1>5, <1>6, <1>7 DEF TypeOK

-----------------------------------------------------------------------------
(* What was executed and what the file says of it.                         *)

LEMMA RecordedAppends ==
  ASSUME disk \in Seq(Lines), NEW m \in Lines, disk' \in {disk, Append(disk, m)}, NEW role, NEW c
  PROVE  /\ Recorded(role, c) => Recorded(role, c)'
         /\ disk' = Append(disk, m) /\ m.role = role /\ c \in m.refs => Recorded(role, c)'
         /\ Recorded(role, c)' => Recorded(role, c) \/ (m.role = role /\ c \in m.refs)
<1>1. CASE disk' = disk
  <2>1. Recorded(role, c)' <=> Recorded(role, c)
    BY <1>1 DEF Recorded
  <2>2. Append(disk, m) # disk
    BY Appending
  <2> QED BY <1>1, <2>1, <2>2
<1>2. CASE disk' = Append(disk, m)
  <2> DEFINE e == Append(disk, m)
  <2>1. /\ \A i \in DOMAIN disk : e[i] = disk[i] /\ i \in DOMAIN e
        /\ Len(disk) + 1 \in DOMAIN e /\ e[Len(disk) + 1] = m
        /\ \A i \in DOMAIN e : i \in DOMAIN disk \/ i = Len(disk) + 1
    BY Appending
  <2>2. Recorded(role, c)' <=> \E i \in DOMAIN e : e[i].role = role /\ c \in e[i].refs
    BY <1>2 DEF Recorded
  <2> HIDE DEF e
  <2> QED BY <2>1, <2>2 DEF Recorded
<1> QED BY <1>1, <1>2

\* The call that is executed has no outcome and was not executed.
LEMMA ExecutedIs ==
  ASSUME TypeOK, CallsAreKnown, OpenIsUntouched, ConversationAssumption, Execute
  PROVE  /\ Call \in Open(mem) /\ Call \in 1..MaxCalls /\ executed[Call] = 0
         /\ executed' = [executed EXCEPT ![Call] = 1]
         /\ Recorded("calls", Call) /\ \A o \in Outcomes : ~Recorded(o, Call)
         /\ \A c \in Open(mem) : executed[c] = 0 /\ Recorded("calls", c) /\ \A o \in Outcomes : ~Recorded(o, c)
         /\ pc = "calls" /\ pc' = "result" /\ disk' = disk /\ mem' = mem /\ issued' = issued
<1>1. /\ pc = "calls" /\ pc' = "result" /\ disk' = disk /\ mem' = mem /\ issued' = issued /\ Open(mem) # {}
      /\ executed' = [executed EXCEPT ![Call] = @ + 1]
  BY DEF Execute, Goto
<1>2. mem \in Seq(Entries) /\ executed \in [1..MaxCalls -> Nat] /\ MaxCalls \in Nat /\ issued \in 0..MaxCalls
  BY DEF TypeOK, ConversationAssumption
<1>3. Call \in Open(mem)
  BY <1>1, <1>2, CallWaits DEF Call
<1>4. Open(mem) \subseteq 1..issued
  BY <1>2, OpenIsKnown DEF CallsAreKnown
<1>5. \A c \in Open(mem) : executed[c] = 0 /\ Recorded("calls", c) /\ \A o \in Outcomes : ~Recorded(o, c)
  BY <1>1 DEF OpenIsUntouched
<1>6. Call \in 1..MaxCalls
  BY <1>2, <1>3, <1>4
<1>7. executed' = [executed EXCEPT ![Call] = 1]
  <2>1. executed' = [executed EXCEPT ![Call] = executed[Call] + 1] /\ executed[Call] = 0
    BY <1>1, <1>3, <1>5
  <2> QED BY <2>1
<1> QED BY <1>1, <1>3, <1>5, <1>6, <1>7

LEMMA CallsAreKnownStep ==
  ASSUME TypeOK, CallsAreKnown, OpenIsUntouched, ConversationAssumption, [Next]_vars
  PROVE  CallsAreKnown'
<1>1. /\ issued' \in issued..MaxCalls
      /\ KnownCalls(mem', issued') /\ KnownCalls(disk', issued')
      /\ \A i \in DOMAIN disk' : KnownCalls(disk'[i].active, issued')
  BY ContentsStep
<1>2. MaxCalls \in Nat /\ issued \in 0..MaxCalls /\ executed \in [1..MaxCalls -> Nat]
      /\ \A c \in 1..MaxCalls : c > issued => executed[c] = 0
  BY DEF TypeOK, ConversationAssumption, CallsAreKnown
<1>3. ASSUME NEW c \in 1..MaxCalls, c > issued' PROVE executed'[c] = 0
  <2>1. executed[c] = 0
    BY <1>1, <1>2, <1>3
  <2>2. CASE Execute
    <3>1. Call \in Open(mem) /\ executed' = [executed EXCEPT ![Call] = 1] /\ issued' = issued
      BY <2>2, ExecutedIs
    <3>2. Open(mem) \subseteq 1..issued
      BY OpenIsKnown DEF CallsAreKnown, TypeOK
    <3>3. c # Call
      BY <1>2, <1>3, <3>1, <3>2
    <3> QED BY <1>2, <2>1, <3>1, <3>3
  <2> QED BY <2>1, <2>2, Executes
<1>4. KnownCalls(mem, issued)' /\ KnownCalls(disk, issued)'
      /\ (\A i \in DOMAIN disk : KnownCalls(disk[i].active, issued))'
  BY <1>1 DEF KnownCalls
<1> QED BY <1>3, <1>4 DEF CallsAreKnown

LEMMA OpenIsUntouchedStep ==
  ASSUME TypeOK, CallsAreKnown, OpenIsUntouched, ConversationAssumption, [Next]_vars
  PROVE  OpenIsUntouched'
<1>1. /\ mem \in Seq(Entries) /\ disk \in Seq(Lines) /\ executed \in [1..MaxCalls -> Nat]
      /\ MaxCalls \in Nat /\ issued \in 0..MaxCalls
  BY DEF TypeOK, ConversationAssumption
<1>2. CASE pc' \notin {"calls", "result"}
  BY <1>2 DEF OpenIsUntouched
<1>3. CASE UNCHANGED <<pc, mem, disk, executed>>
  BY <1>3 DEF OpenIsUntouched, Call, Recorded
<1>4. CASE Execute
  <2>1. /\ \A c \in Open(mem) : executed[c] = 0 /\ Recorded("calls", c) /\ \A o \in Outcomes : ~Recorded(o, c)
        /\ executed' = [executed EXCEPT ![Call] = 1] /\ Call \in Open(mem)
        /\ pc' = "result" /\ disk' = disk /\ mem' = mem
    BY <1>4, ExecutedIs
  <2>2. Open(mem) \subseteq 1..MaxCalls
    <3>1. Open(mem) \subseteq 1..issued
      BY <1>1, OpenIsKnown DEF CallsAreKnown
    <3> QED BY <1>1, <3>1
  <2>3. ASSUME NEW c \in Open(mem) PROVE executed'[c] = IF c = Call THEN 1 ELSE 0
    BY <1>1, <2>1, <2>2
  <2>4. /\ Open(mem)' = Open(mem) /\ Call' = Call
        /\ \A role, c : Recorded(role, c)' <=> Recorded(role, c)
    BY <2>1 DEF Call, Recorded
  <2> QED BY <2>1, <2>3, <2>4 DEF OpenIsUntouched
<1>5. ASSUME NEW m, IsResult(m), m \in Entries, m.refs = {Call}, Open(mem) # {},
             disk' = Append(disk, m), mem' = Append(mem, m), pc' = "calls", executed' = executed,
             pc \in {"calls", "result"}
      PROVE  OpenIsUntouched'
  <2>0. Open(Append(mem, m)) = Open(mem) \ m.refs
    <3>1. mem \in Seq(Entries) /\ m \in Entries /\ IsResult(m)
      BY <1>1, <1>5
    <3> QED BY <3>1, OpenAfterResult, ZenonT(40)
  <2>1. Open(mem') = Open(mem) \ {Call}
    BY <1>5, <2>0
  <2>2. ASSUME NEW c \in Open(mem') 
        PROVE  /\ Recorded("calls", c)' /\ \A o \in Outcomes : ~Recorded(o, c)'
               /\ executed'[c] = 0
    <3>1. c \in Open(mem) /\ c # Call
      BY <2>1
    <3>2. Recorded("calls", c) /\ (\A o \in Outcomes : ~Recorded(o, c)) /\ executed[c] = 0
      BY <1>5, <3>1 DEF OpenIsUntouched
    <3>3. m \in Lines /\ c \notin m.refs
      BY <1>5, <3>1 DEF Lines
    <3>4. Recorded("calls", c)'
      BY <1>1, <1>5, <3>2, <3>3, RecordedAppends
    <3>5. ASSUME NEW o \in Outcomes PROVE ~Recorded(o, c)'
      BY <1>1, <1>5, <3>2, <3>3, RecordedAppends
    <3> QED BY <1>5, <3>2, <3>4, <3>5
  <2> QED BY <1>5, <2>2 DEF OpenIsUntouched
<1>6. CASE Refuse
  <2>1. Journal(Msg("error", {Call}), "calls") /\ executed' = executed /\ pc = "calls" /\ Open(mem) # {}
    BY <1>6 DEF Refuse, ghosts
  <2>2. "error" \in Roles /\ "error" \in Outcomes /\ {Call} \in SUBSET Nat
    BY <1>1, <2>1, CallWaits DEF Roles, Outcomes, Call
  <2> DEFINE m == Msg("error", {Call})
  <2>3. m \in Entries /\ IsResult(m) /\ m.refs = {Call}
    BY <2>2, Messages
  <2> HIDE DEF m
  <2>4. CASE disk' = Append(disk, m) /\ mem' = Append(mem, m) /\ pc' = "calls"
    BY <1>5, <2>1, <2>3, <2>4
  <2>5. CASE GiveUp
    BY <1>2, <2>5 DEF GiveUp, Goto
  <2> QED BY <2>1, <2>4, <2>5 DEF Journal, Goto, m
<1>7. CASE Result
  <2>1. Journal(Msg("done", {Call}), "calls") /\ executed' = executed /\ pc = "result" /\ Open(mem) # {}
    BY <1>7 DEF Result, ghosts, OpenIsUntouched
  <2>2. "done" \in Roles /\ "done" \in Outcomes /\ {Call} \in SUBSET Nat
    BY <1>1, <2>1, CallWaits DEF Roles, Outcomes, Call
  <2> DEFINE m == Msg("done", {Call})
  <2>3. m \in Entries /\ IsResult(m) /\ m.refs = {Call}
    BY <2>2, Messages
  <2> HIDE DEF m
  <2>4. CASE disk' = Append(disk, m) /\ mem' = Append(mem, m) /\ pc' = "calls"
    BY <1>5, <2>1, <2>3, <2>4
  <2>5. CASE GiveUp
    BY <1>2, <2>5 DEF GiveUp, Goto
  <2> QED BY <2>1, <2>4, <2>5 DEF Journal, Goto, m
<1>8. CASE ModelCalls
  <2>1. PICK n \in issued + 1..MaxCalls : Journal(Msg("calls", issued + 1..n), "calls")
    BY <1>8 DEF ModelCalls
  <2>2. executed' = executed
    BY <1>8 DEF ModelCalls
  <2> DEFINE m == Msg("calls", issued + 1..n)
  <2>3. "calls" \in Roles /\ "calls" \notin Outcomes /\ issued + 1..n \in SUBSET Nat
    BY <1>1 DEF Roles, Outcomes
  <2>4. m \in Entries /\ m \in Lines /\ ~IsResult(m) /\ m.refs = issued + 1..n /\ m.role = "calls"
    BY <2>3, Messages
  <2> HIDE DEF m
  <2>5. CASE disk' = Append(disk, m) /\ mem' = Append(mem, m) /\ pc' = "calls"
    <3>1. Open(mem') = issued + 1..n
      BY <1>1, <2>4, <2>5, OpenAfterOther
    <3>2. ASSUME NEW c \in issued + 1..n
          PROVE  /\ Recorded("calls", c)' /\ \A o \in Outcomes : ~Recorded(o, c)'
                 /\ executed'[c] = 0
      <4>1. executed[c] = 0
        BY <1>1 DEF CallsAreKnown
      <4>2. Recorded("calls", c)'
        BY <1>1, <2>4, <2>5, RecordedAppends
      <4>3. ASSUME NEW o \in Outcomes PROVE ~Recorded(o, c)'
        <5>1. ~Recorded(o, c)
          <6>1. c \notin 1..issued
            BY <1>1
          <6> QED BY <6>1 DEF CallsAreKnown, KnownCalls, Recorded, Refers, IsResult
        <5>2. m.role # o
          BY <2>3, <2>4
        <5> QED BY <1>1, <2>4, <2>5, <5>1, <5>2, RecordedAppends
      <4> QED BY <2>2, <4>1, <4>2, <4>3
    <3> QED BY <2>5, <3>1, <3>2 DEF OpenIsUntouched
  <2>6. CASE GiveUp
    BY <1>2, <2>6 DEF GiveUp, Goto
  <2> QED BY <2>1, <2>5, <2>6 DEF Journal, Goto, m
<1>9. CASE Cancel \/ UNCHANGED vars
  BY <1>3, <1>9 DEF Cancel, vars, ghosts
<1>10. GiveUp => pc' \notin {"calls", "result"}
  BY DEF GiveUp, Goto
<1>11. ASSUME Start \/ RunTurn \/ Close \/ Preflight \/ Request \/ Fits \/ Compact \/ Fail \/ Overflow
              \/ ModelAnswers \/ Reject \/ Dispatched \/ Crash \/ \E n \in Says : Deliver(n) \/ UserMessage(n)
       PROVE  pc' \notin {"calls", "result"}
  <2>1. job.after \notin {"calls", "result"}
    BY DEF TypeOK
  <2>2. ASSUME NEW m, NEW next \in {"idle", "close"}, Journal(m, next) PROVE pc' \notin {"calls", "result"}
    BY <1>10, <2>2 DEF Journal, Goto
  <2>3. CASE Start \/ RunTurn \/ Preflight \/ Fits \/ Dispatched \/ Crash \/ Overflow
    BY <2>3 DEF Start, RunTurn, Preflight, Fits, Dispatched, Crash, Overflow, Goto
  <2>4. CASE Close
    BY <2>1, <2>2, <2>4 DEF Close, Goto
  <2>5. CASE Request \/ Compact \/ Fail \/ Reject
    BY <1>10, <2>5 DEF Request, Compact, Fail, Reject, Goto
  <2>6. CASE ModelAnswers
    BY <2>2, <2>6 DEF ModelAnswers
  <2>7. ASSUME NEW n \in Says, Deliver(n) \/ UserMessage(n) PROVE pc' \notin {"calls", "result"}
    BY <1>10, <2>7 DEF Deliver, UserMessage
  <2> QED BY <1>11, <2>3, <2>4, <2>5, <2>6, <2>7
<1> QED
  BY <1>2, <1>4, <1>6, <1>7, <1>8, <1>9, <1>11 DEF Next, Thread

LEMMA TranscriptStep ==
  ASSUME TypeOK, CallsAreKnown, OpenIsUntouched, TranscriptIsTrue, ConversationAssumption, [Next]_vars
  PROVE  TranscriptIsTrue'
<1>1. /\ mem \in Seq(Entries) /\ disk \in Seq(Lines) /\ executed \in [1..MaxCalls -> Nat]
  BY DEF TypeOK
<1> SUFFICES ASSUME NEW c \in 1..MaxCalls
             PROVE  /\ Recorded("done", c)' => executed'[c] = 1
                    /\ Recorded("error", c)' => executed'[c] = 0
  BY DEF TranscriptIsTrue
<1>2. /\ Recorded("done", c) => executed[c] = 1
      /\ Recorded("error", c) => executed[c] = 0
  BY DEF TranscriptIsTrue
<1>3. CASE Execute
  <2>1. /\ executed' = [executed EXCEPT ![Call] = 1] /\ disk' = disk
        /\ \A o \in Outcomes : ~Recorded(o, Call)
    BY <1>3, ExecutedIs
  <2>2. Recorded("done", c)' = Recorded("done", c) /\ Recorded("error", c)' = Recorded("error", c)
    BY <2>1 DEF Recorded
  <2>3. CASE c = Call
    BY <2>1, <2>2, <2>3 DEF Outcomes
  <2>4. CASE c # Call
    BY <1>1, <1>2, <2>1, <2>2, <2>4
  <2> QED BY <2>3, <2>4
<1>4. CASE executed' = executed
  <2>1. CASE disk' = disk
    BY <1>2, <1>4, <2>1 DEF Recorded
  <2>2. CASE disk' = <<>>
    BY <2>2 DEF Recorded
  <2>3. ASSUME NEW m, WritesMessage(m)
        PROVE  /\ Recorded("done", c)' => executed'[c] = 1
               /\ Recorded("error", c)' => executed'[c] = 0
    <3>1. m \in Lines /\ disk' \in {disk, Append(disk, m)}
      BY <2>3 DEF WritesMessage, Lines
    <3>2. ASSUME NEW role \in {"done", "error"}
          PROVE  Recorded(role, c)' => Recorded(role, c) \/ (m.role = role /\ c \in m.refs)
      BY <1>1, <3>1, RecordedAppends
    <3>3. ASSUME m.role \in {"done", "error"}, c \in m.refs
          PROVE  /\ c = Call /\ Call \in Open(mem) /\ pc \in {"calls", "result"}
                 /\ m.role = "done" => pc = "result"
                 /\ m.role = "error" => pc = "calls"
      <4>1. Open(mem) # {} /\ m.refs = {Call}
        BY <2>3, <3>3 DEF WritesMessage, IsResult, Outcomes
      <4> QED BY <1>1, <2>3, <3>3, <4>1, CallWaits DEF WritesMessage, Call
    <3>4. /\ m.role = "done" /\ c \in m.refs => executed[c] = 1
          /\ m.role = "error" /\ c \in m.refs => executed[c] = 0
      BY <3>3 DEF OpenIsUntouched
    <3> QED BY <1>2, <1>4, <3>2, <3>4
  <2>4. ASSUME NEW keep \in Nat, WritesCheckpoint(keep)
        PROVE  /\ Recorded("done", c)' => executed'[c] = 1
               /\ Recorded("error", c)' => executed'[c] = 0
    <3> DEFINE x == Compacted(mem, keep)
               m == [Msg("checkpoint", {}) EXCEPT !.active = x]
    <3>1. disk' \in {disk, Append(disk, m)}
      BY <2>4 DEF WritesCheckpoint
    <3>2. m \in Lines /\ m.role = "checkpoint"
      <4>1. x \in Seq(Entries)
        BY <1>1, CompactedRefers
      <4> HIDE DEF x
      <4> QED BY <4>1, CheckpointLine
    <3> HIDE DEF m
    <3>3. ASSUME NEW role \in {"done", "error"} PROVE Recorded(role, c)' => Recorded(role, c)
      BY <1>1, <3>1, <3>2, RecordedAppends
    <3> QED BY <1>2, <1>4, <3>3
  <2> QED BY <2>1, <2>2, <2>3, <2>4, Steps DEF WritesNothing, Begins
<1> QED BY <1>3, <1>4, Executes

-----------------------------------------------------------------------------
(* The context of a worker.                                                *)

WorkerParts == ContextIsSound /\ ToldIsSaid /\ SaidOnDisk

LEMMA WorkerFacts ==
  ASSUME TypeOK, ContextIsSound
  PROVE  /\ mem \in Seq(Entries) /\ disk \in Seq(Lines) /\ Context \in Seq(Entries) /\ Grouped(Context)
         /\ pc # "off" =>
              /\ Alike(Context, mem) /\ Open(mem) = Open(Context) /\ Carried(mem) = Carried(Context)
              /\ Grouped(mem)
              /\ Pruned(mem) \in Seq(Entries) /\ Alike(Context, Pruned(mem))
              /\ Open(Pruned(mem)) = Open(Context) /\ Carried(Pruned(mem)) = Carried(Context)
<1>1. mem \in Seq(Entries) /\ disk \in Seq(Lines) /\ Context \in Seq(Entries) /\ Grouped(Context)
  BY ContextTypes DEF TypeOK, ContextIsSound, Context
<1>2. ASSUME pc # "off"
      PROVE  /\ Alike(Context, mem) /\ Open(mem) = Open(Context) /\ Carried(mem) = Carried(Context)
             /\ Grouped(mem)
             /\ Pruned(mem) \in Seq(Entries) /\ Alike(Context, Pruned(mem))
             /\ Open(Pruned(mem)) = Open(Context) /\ Carried(Pruned(mem)) = Carried(Context)
  <2>1. Alike(Context, mem)
    BY <1>2 DEF ContextIsSound
  <2> HIDE DEF Context
  <2>2. Pruned(mem) \in Seq(Entries) /\ Alike(Context, Pruned(mem))
    BY <1>1, <2>1, PrunedIs
  <2> QED BY <1>1, <2>1, <2>2, AlikeKeeps
<1> QED BY <1>1, <1>2

\* The file stays, and memory but for pruned bodies.
LEMMA KeepsStep ==
  ASSUME TypeOK, WorkerParts, disk' = disk, told' = told,
         \/ pc' = "off"
         \/ pc # "off" /\ mem' \in {mem, Pruned(mem)} /\ (pc' \in Settled => pc \in Settled \/ Open(mem) = {}),
         Turning' => Turning \/ Carried(mem) \subseteq told
  PROVE  WorkerParts'
<1>1. Context' = Context
  BY DEF Context
<1>2. /\ Grouped(Context)
      /\ pc # "off" => /\ Alike(Context, mem) /\ Open(mem) = Open(Context) /\ Carried(mem) = Carried(Context)
                       /\ Alike(Context, Pruned(mem))
                       /\ Open(Pruned(mem)) = Open(Context) /\ Carried(Pruned(mem)) = Carried(Context)
  BY WorkerFacts DEF WorkerParts
<1>3. pc \in Settled => Open(mem) = {}
  BY DEF WorkerParts, ContextIsSound
<1>4. "off" \notin Settled /\ (Turning' => pc' # "off")
  BY DEF Settled, Turning
<1> HIDE DEF Context
<1>5. ContextIsSound'
  BY <1>1, <1>2, <1>3, <1>4 DEF ContextIsSound
<1>6. ToldIsSaid'
  BY <1>1, <1>2, <1>4 DEF ToldIsSaid, WorkerParts
<1>7. SaidOnDisk'
  BY <1>1 DEF SaidOnDisk, WorkerParts
<1> QED BY <1>5, <1>6, <1>7 DEF WorkerParts

\* A message that says nothing new is appended, or the worker gives up.
LEMMA WritesStep ==
  ASSUME TypeOK, WorkerParts, told' = told, pc # "off",
         NEW m \in Entries, m.role \notin {"user", "summary"}, disk' \in {disk, Append(disk, m)},
         \/ pc' = "off"
         \/ disk' = Append(disk, m) /\ mem' = Append(mem, m) /\ m.role # "rejected",
         \/ IsResult(m) /\ Open(mem) # {} /\ m.refs = {Call} /\ pc' \notin Settled
         \/ ~IsResult(m) /\ pc \in Settled /\ (pc' \in Settled => m.role # "calls"),
         Turning' => Turning
  PROVE  WorkerParts'
<1>1. /\ mem \in Seq(Entries) /\ disk \in Seq(Lines) /\ Context \in Seq(Entries) /\ Grouped(Context)
      /\ Alike(Context, mem) /\ Open(mem) = Open(Context) /\ Carried(mem) = Carried(Context)
  BY WorkerFacts DEF WorkerParts
<1>2. CASE disk' = disk
  <2>1. pc' = "off"
    BY <1>1, <1>2, Appending DEF Lines
  <2> QED BY <1>2, <2>1, KeepsStep
<1>3. CASE disk' = Append(disk, m)
  <2> DEFINE x == InContext(m)
  <2>1. m \in Lines /\ m.role # "checkpoint"
    BY LinesAre DEF Lines
  <2>2. /\ x \in Entries /\ (IsResult(x) <=> IsResult(m))
        /\ m.role # "rejected" => x = m
        /\ IsResult(m) => x = m
        /\ x.role \notin {"user", "summary"}
    <3>1. "reminder" \in Roles /\ {} \in SUBSET Nat
      BY DEF Roles
    <3>2. Msg("reminder", {}).role = "reminder"
      BY <3>1, Messages
    <3> QED BY <2>1, <3>2, InContextIs
  <2>3. Context' = Append(Context, x)
    BY <1>1, <1>3, <2>1, ContextGrows DEF Context
  <2> HIDE DEF x, Context
  <2>4. Carried(Context') = Carried(Context)
    BY <1>1, <2>2, <2>3, CarriedAppends
  <2>5. Grouped(Context')
    <3>1. CASE IsResult(m)
      <4>1. Call \in Open(Context) /\ m.refs = {Call} /\ x = m
        BY <1>1, <2>2, <3>1, CallWaits DEF Call
      <4> QED BY <1>1, <2>3, <3>1, <4>1, GroupedByResult
    <3>2. CASE ~IsResult(m)
      <4>1. Open(Context) = {}
        BY <1>1, <3>2 DEF WorkerParts, ContextIsSound
      <4> QED BY <1>1, <2>2, <2>3, <3>2, <4>1, GroupedByOther
    <3> QED BY <3>1, <3>2
  <2>6. pc' # "off" => Alike(Context', mem') /\ Carried(mem') = Carried(mem)
    <3> SUFFICES ASSUME pc' # "off" PROVE Alike(Context', mem') /\ Carried(mem') = Carried(mem)
      OBVIOUS
    <3>1. mem' = Append(mem, m) /\ x = m
      BY <2>2
    <3>2. Carried(Append(mem, m)) = Carried(mem)
      BY <1>1, CarriedAppends
    <3> QED BY <1>1, <2>3, <3>1, <3>2, AlikeAppends
  <2>7. pc' \in Settled => Open(mem') = {}
    <3> SUFFICES ASSUME pc' \in Settled PROVE Open(mem') = {}
      OBVIOUS
    <3>1. mem' = Append(mem, m) /\ ~IsResult(m) /\ m.role # "calls"
      BY DEF Settled
    <3> QED BY <1>1, <3>1, OpenAfterOther
  <2>8. ContextIsSound'
    BY <2>5, <2>6, <2>7 DEF ContextIsSound
  <2>9. ToldIsSaid'
    <3>1. Turning' => pc' # "off"
      BY DEF Turning
    <3> QED BY <2>4, <2>6, <3>1 DEF ToldIsSaid, WorkerParts
  <2>10. SaidOnDisk'
    <3>1. ASSUME NEW i \in DOMAIN disk', disk'[i].role = "user"
          PROVE  i \in DOMAIN disk /\ disk'[i] = disk[i]
      BY <1>1, <1>3, <2>1, <3>1, LastLine
    <3>2. \A k \in DOMAIN Context : k \in DOMAIN Context' /\ Context'[k] = Context[k]
      BY <1>1, <2>2, <2>3, Appending
    <3>3. SaidOnDisk
      BY DEF WorkerParts
    <3>4. ASSUME NEW i \in DOMAIN disk', disk'[i].role = "user"
          PROVE  \E n \in Says : /\ disk'[i] = Msg("user", {n})
                                 /\ n \in told' \/ \E k \in DOMAIN Context' : Context'[k] = disk'[i]
      BY <3>1, <3>2, <3>3, <3>4 DEF SaidOnDisk
    <3>5. ASSUME NEW i \in DOMAIN disk', NEW j \in DOMAIN disk', disk'[i].role = "user", disk'[i] = disk'[j]
          PROVE  i = j
      BY <3>1, <3>3, <3>5 DEF SaidOnDisk
    <3> QED BY <3>4, <3>5 DEF SaidOnDisk
  <2> QED BY <2>8, <2>9, <2>10 DEF WorkerParts
<1> QED BY <1>2, <1>3

LEMMA DeliverStep ==
  ASSUME TypeOK, WorkerParts, ConversationAssumption, driver = "worker", NEW n \in Says, Deliver(n)
  PROVE  WorkerParts'
<1> DEFINE x == Msg("user", {n})
<1>1. /\ mem \in Seq(Entries) /\ disk \in Seq(Lines) /\ Context \in Seq(Entries) /\ Grouped(Context)
      /\ Alike(Context, mem) /\ Open(mem) = Open(Context) /\ Carried(mem) = Carried(Context)
      /\ Pruned(mem) \in Seq(Entries) /\ Alike(Context, Pruned(mem))
      /\ Open(Pruned(mem)) = Open(Context) /\ Carried(Pruned(mem)) = Carried(Context)
      /\ pc = "idle" /\ n \notin told
  BY WorkerFacts DEF WorkerParts, Deliver
<1>2. Open(Context) = {} /\ SaidOnDisk /\ told \subseteq Carried(Context)
  BY <1>1 DEF WorkerParts, ContextIsSound, ToldIsSaid, Settled
<1>3. /\ x \in Entries /\ x \in Lines /\ x.role = "user" /\ x.refs = {n} /\ ~IsResult(x) /\ InContext(x) = x
      /\ x.role # "checkpoint"
  <2>1. "user" \in Roles /\ "user" \notin Outcomes /\ {n} \in SUBSET Nat
    BY DEF Roles, Outcomes, ConversationAssumption
  <2>2. x \in Entries /\ x \in Lines /\ x.role = "user" /\ x.refs = {n} /\ ~IsResult(x)
    BY <2>1, Messages
  <2> HIDE DEF x
  <2> QED BY <2>2 DEF InContext
<1>4. PICK s \in {mem, Pruned(mem)} :
        IF \E i \in DOMAIN s : s[i] = x
          THEN told' = told \union {n} /\ mem' = s /\ UNCHANGED <<pc, disk, job, faults>>
          ELSE \/ /\ disk' = Append(disk, x) /\ mem' = Append(s, x)
                  /\ told' = told \union {n} /\ UNCHANGED <<pc, job, faults>>
               \/ AppendFails(x) /\ GiveUp /\ UNCHANGED told
  BY DEF Deliver
<1>5. s \in Seq(Entries) /\ Alike(Context, s) /\ Open(s) = {} /\ Carried(s) = Carried(Context)
  BY <1>1, <1>2
<1>6. x = Msg("user", {n})
  OBVIOUS
<1> HIDE DEF x, Context
<1>7. CASE \E i \in DOMAIN s : s[i] = x
  <2>1. told' = told \union {n} /\ mem' = s /\ disk' = disk /\ pc' = "idle"
    BY <1>1, <1>4, <1>7
  <2>2. Context' = Context
    BY <2>1 DEF Context
  <2>3. n \in Carried(s)
    BY <1>3, <1>7, CarriedIs
  <2>4. ContextIsSound'
    BY <1>1, <1>5, <2>1, <2>2 DEF ContextIsSound
  <2>5. ToldIsSaid'
    <3>1. ~Turning'
      BY <2>1 DEF Turning
    <3> QED BY <1>2, <1>5, <2>1, <2>2, <2>3, <3>1 DEF ToldIsSaid
  <2>6. SaidOnDisk'
    BY <1>2, <2>1, <2>2 DEF SaidOnDisk
  <2> QED BY <2>4, <2>5, <2>6 DEF WorkerParts
<1>8. CASE ~ \E i \in DOMAIN s : s[i] = x
  <2>1. /\ disk' \in {disk, Append(disk, x)}
        /\ \/ pc' = "off" /\ told' = told
           \/ pc' = "idle" /\ disk' = Append(disk, x) /\ mem' = Append(s, x) /\ told' = told \union {n}
    BY <1>1, <1>4, <1>8 DEF AppendFails, GiveUp, Goto
  <2>2. CASE disk' = disk
    <3>1. pc' = "off" /\ told' = told
      BY <1>1, <1>3, <2>1, <2>2, Appending
    <3>2. Turning' => Turning
      BY <3>1 DEF Turning
    <3> QED BY <2>2, <3>1, <3>2, KeepsStep
  <2>3. CASE disk' = Append(disk, x)
    <3>1. Context' = Append(Context, x)
      BY <1>1, <1>3, <2>3, ContextGrows DEF Context
    <3>2. Grouped(Context')
      BY <1>1, <1>2, <1>3, <3>1, GroupedByOther
    <3>3. Carried(Context') = Carried(Context) \union {n}
      BY <1>1, <1>3, <3>1, CarriedAppends
    <3>4. Alike(Append(Context, x), Append(s, x)) /\ Open(Append(s, x)) = {}
      BY <1>1, <1>3, <1>5, AlikeAppends, OpenAfterOther
    <3>5. ContextIsSound'
      BY <2>1, <3>1, <3>2, <3>4 DEF ContextIsSound, Settled
    <3>6. ToldIsSaid'
      <4>1. ~Turning'
        BY <2>1 DEF Turning
      <4> QED BY <1>2, <2>1, <3>3, <4>1 DEF ToldIsSaid
    <3>7. ~ \E k \in DOMAIN Context : Context[k] = x
      <4>1. /\ DOMAIN s = DOMAIN Context
            /\ \A k \in DOMAIN Context : ~IsResult(Context[k]) => s[k] = Context[k]
        BY <1>1, <1>5, AlikeIs
      <4> QED BY <1>3, <1>8, <4>1
    <3>8. \A i \in DOMAIN disk : disk[i] # x
      <4> SUFFICES ASSUME NEW i \in DOMAIN disk, disk[i] = x PROVE FALSE
        OBVIOUS
      <4>1. PICK p \in Says : /\ disk[i] = Msg("user", {p})
                              /\ p \in told \/ \E k \in DOMAIN Context : Context[k] = disk[i]
        BY <1>2, <1>3 DEF SaidOnDisk
      <4>2. p = n
        <5>1. Msg("user", {p}).refs = {p}
          BY DEF Msg
        <5> QED BY <1>3, <4>1, <5>1
      <4> QED BY <1>1, <3>7, <4>1, <4>2
    <3>9. /\ \A i \in DOMAIN disk' : \/ i \in DOMAIN disk /\ disk'[i] = disk[i]
                                     \/ i = Len(disk) + 1 /\ disk'[i] = x
      BY <1>1, <1>3, <2>3, LastLine
    <3>10. /\ \A k \in DOMAIN Context : k \in DOMAIN Context' /\ Context'[k] = Context[k]
           /\ \E k \in DOMAIN Context' : Context'[k] = x
      BY <1>1, <1>3, <3>1, Appending, SMTT(40)
    <3>11. ASSUME NEW i \in DOMAIN disk', disk'[i].role = "user"
           PROVE  \E p \in Says : /\ disk'[i] = Msg("user", {p})
                                  /\ p \in told' \/ \E k \in DOMAIN Context' : Context'[k] = disk'[i]
      <4>1. CASE i \in DOMAIN disk /\ disk'[i] = disk[i]
        <5>1. told \subseteq told'
          BY <2>1
        <5> QED BY <1>2, <3>10, <3>11, <4>1, <5>1 DEF SaidOnDisk
      <4>2. CASE i = Len(disk) + 1 /\ disk'[i] = x
        BY <1>6, <3>10, <4>2
      <4> QED BY <3>9, <4>1, <4>2
    <3>12. ASSUME NEW i \in DOMAIN disk', NEW j \in DOMAIN disk', disk'[i].role = "user", disk'[i] = disk'[j]
           PROVE  i = j
      BY <1>2, <3>8, <3>9, <3>12 DEF SaidOnDisk
    <3>13. SaidOnDisk'
      BY <3>11, <3>12 DEF SaidOnDisk
    <3> QED BY <3>5, <3>6, <3>13 DEF WorkerParts
  <2> QED BY <2>1, <2>2, <2>3
<1> QED BY <1>7, <1>8

LEMMA CompactStep ==
  ASSUME TypeOK, WorkerParts, ConversationAssumption, driver = "worker", Compact
  PROVE  WorkerParts'
<1>1. PICK keep \in {KeepLast, 1, 0} :
        LET context    == Compacted(mem, keep)
            checkpoint == [Msg("checkpoint", {}) EXCEPT !.active = context]
        IN  /\ context # mem
            /\ \/ disk' = Append(disk, checkpoint) /\ mem' = context /\ Goto("stream")
                  /\ UNCHANGED <<job, faults>>
               \/ AppendFails(checkpoint) /\ GiveUp
  BY DEF Compact
<1> DEFINE x == Compacted(mem, keep)
           m == [Msg("checkpoint", {}) EXCEPT !.active = x]
<1>2. /\ pc = "count" /\ told' = told
      /\ \/ disk' = Append(disk, m) /\ mem' = x /\ pc' = "stream"
         \/ disk' \in {disk, Append(disk, m)} /\ pc' = "off"
  BY <1>1 DEF Compact, ghosts, AppendFails, GiveUp, Goto
<1>3. /\ mem \in Seq(Entries) /\ disk \in Seq(Lines) /\ Context \in Seq(Entries)
      /\ Grouped(mem) /\ Carried(mem) = Carried(Context)
  BY <1>2, WorkerFacts DEF WorkerParts
<1>4. /\ Open(mem) = {} /\ told \subseteq Carried(Context) /\ Carried(mem) \subseteq told /\ SaidOnDisk
  BY <1>2 DEF WorkerParts, ContextIsSound, ToldIsSaid, Settled, Turning
<1>5. keep \in Nat
  BY DEF ConversationAssumption
<1>6. x \in Seq(Entries) /\ Grouped(x) /\ Open(x) = {} /\ Carried(x) = Carried(mem)
  BY <1>3, <1>4, <1>5, CompactedIs
<1> HIDE DEF x
<1>7. m \in Lines /\ m.active = x /\ m.role = "checkpoint"
  BY <1>6, CheckpointLine
<1> HIDE DEF m, Context
<1>8. CASE disk' = disk
  <2>1. pc' = "off"
    BY <1>2, <1>3, <1>7, <1>8, Appending
  <2>2. Turning' => Turning
    BY <2>1 DEF Turning
  <2> QED BY <1>2, <1>8, <2>1, <2>2, KeepsStep
<1>9. CASE disk' = Append(disk, m)
  <2>1. Context' = x
    BY <1>3, <1>7, <1>9, ContextGrows DEF Context
  <2>2. ContextIsSound'
    <3>1. Alike(x, x)
      BY DEF Alike
    <3> QED BY <1>2, <1>6, <2>1, <3>1 DEF ContextIsSound, Settled
  <2>3. ToldIsSaid'
    <3>1. pc' = "off" => ~Turning'
      BY DEF Turning
    <3> QED BY <1>2, <1>3, <1>4, <1>6, <2>1, <3>1 DEF ToldIsSaid
  <2>4. \A i \in DOMAIN disk' : disk'[i].role = "user" => i \in DOMAIN disk /\ disk'[i] = disk[i]
    BY <1>3, <1>7, <1>9, LastLine
  <2>5. ASSUME NEW i \in DOMAIN disk, disk[i].role = "user"
        PROVE  \E n \in Says : disk[i] = Msg("user", {n}) /\ n \in told
    <3>1. PICK n \in Says : /\ disk[i] = Msg("user", {n})
                            /\ n \in told \/ \E k \in DOMAIN Context : Context[k] = disk[i]
      BY <1>4, <2>5 DEF SaidOnDisk
    <3>2. disk[i].refs = {n}
      BY <3>1 DEF Msg
    <3>3. ASSUME NEW k \in DOMAIN Context, Context[k] = disk[i] PROVE n \in told
      <4>1. n \in Carried(Context)
        BY <2>5, <3>2, <3>3, CarriedIs
      <4> QED BY <1>3, <1>4, <4>1
    <3> QED BY <3>1, <3>3
  <2>6. SaidOnDisk'
    <3>1. ASSUME NEW i \in DOMAIN disk', NEW j \in DOMAIN disk', disk'[i].role = "user", disk'[i] = disk'[j]
          PROVE  i = j
      BY <1>4, <2>4, <3>1 DEF SaidOnDisk
    <3> QED BY <1>2, <2>4, <2>5, <3>1 DEF SaidOnDisk
  <2> QED BY <2>2, <2>3, <2>6 DEF WorkerParts
<1> QED BY <1>2, <1>8, <1>9

LEMMA StartStep ==
  ASSUME TypeOK, Rounds, WorkerParts, driver = "worker", Start
  PROVE  WorkerParts'
<1>1. /\ pc = "off" /\ mem' = Context /\ disk' = disk /\ told' = told /\ pc' = "close" /\ job' = job
  BY DEF Start, Goto, ghosts, Context
<1>2. Context' = Context
  BY <1>1 DEF Context
<1>3. ~Turning'
  BY <1>1 DEF Turning, Rounds, NoJob
<1> HIDE DEF Context
<1>4. ContextIsSound'
  BY <1>1, <1>2 DEF ContextIsSound, WorkerParts, Alike, Settled
<1>5. ToldIsSaid'
  BY <1>1, <1>2, <1>3 DEF ToldIsSaid, WorkerParts
<1>6. SaidOnDisk'
  BY <1>1, <1>2 DEF SaidOnDisk, WorkerParts
<1> QED BY <1>4, <1>5, <1>6 DEF WorkerParts

LEMMA WorkerStep ==
  ASSUME TypeOK, Rounds, OpenIsUntouched, WorkerInv, ConversationAssumption, [Next]_vars
  PROVE  WorkerInv'
<1> SUFFICES ASSUME driver' = "worker" PROVE WorkerParts'
  BY DEF WorkerInv, WorkerParts
<1>1. driver = "worker"
  BY DEF Next, Thread, vars, config, Start, RunTurn, Close, Preflight, Request, Fits, Compact,
      Fail, Overflow,
         ModelCalls, ModelAnswers, Reject, Refuse, Execute, Result, Dispatched, Cancel, Crash, Deliver, UserMessage
<1>2. WorkerParts
  BY <1>1 DEF WorkerInv, WorkerParts
<1>3. mem \in Seq(Entries) /\ issued \in 0..MaxCalls
  BY DEF TypeOK
<1>4. \A m, next : Journal(m, next) =>
        /\ disk' \in {disk, Append(disk, m)}
        /\ \/ pc' = "off"
           \/ disk' = Append(disk, m) /\ mem' = Append(mem, m) /\ pc' = next /\ (next # "idle" => job' = job)
  BY <1>1 DEF Journal, AppendFails, GiveUp, Goto
<1>5. GiveUp => pc' = "off"
  BY <1>1 DEF GiveUp, Goto
<1>6. CASE Start
  BY <1>1, <1>2, <1>6, StartStep
<1>7. CASE RunTurn
  <2>1. /\ disk' = disk /\ told' = told /\ mem' = mem /\ pc = "idle" /\ pc' \notin Settled
        /\ Carried(mem) \subseteq told
    BY <1>1, <1>7 DEF RunTurn, Goto, Settled, ghosts
  <2> QED BY <1>2, <2>1, KeepsStep
<1>8. CASE Preflight \/ Fits \/ Overflow
  <2>1. /\ disk' = disk /\ told' = told /\ mem' \in {mem, Pruned(mem)} /\ pc # "off" /\ pc \in Settled /\ Turning
    BY <1>8 DEF Preflight, Fits, Overflow, ghosts, Settled, Turning
  <2> QED BY <1>2, <2>1, KeepsStep
<1>9. CASE Request \/ Fail
  <2>1. /\ disk' = disk /\ told' = told /\ pc # "off" /\ pc \in Settled /\ Turning
        /\ pc' = "off" \/ mem' = mem
    BY <1>5, <1>9 DEF Request, Fail, ghosts, Settled, Turning
  <2> QED BY <1>2, <2>1, KeepsStep
<1>10. CASE Execute \/ Dispatched \/ Cancel
  <2>1. /\ disk' = disk /\ told' = told /\ mem' = mem /\ pc # "off" /\ Turning
        /\ pc' \in Settled => pc \in Settled
    BY <1>10 DEF Execute, Dispatched, Cancel, Goto, ghosts, Settled, Turning
  <2> QED BY <1>2, <2>1, KeepsStep
<1>11. CASE Crash
  <2>1. disk' = disk /\ told' = told /\ pc' = "off" /\ ~Turning'
    BY <1>11 DEF Crash, Goto, ghosts, Turning
  <2> QED BY <1>2, <2>1, KeepsStep
<1>12. CASE UNCHANGED vars
  <2>1. disk' = disk /\ told' = told /\ mem' = mem /\ pc' = pc /\ job' = job
    BY <1>12 DEF vars, ghosts
  <2>2. Turning' => Turning
    BY <2>1 DEF Turning
  <2> QED BY <1>2, <2>1, <2>2, KeepsStep
<1>13. CASE Close
  <2>1. pc = "close" /\ told' = told
    BY <1>13 DEF Close, ghosts
  <2>2. CASE Open(mem) = {}
    <3>1. disk' = disk /\ mem' = mem /\ job' = job /\ pc' = job.after
      BY <1>13, <2>2 DEF Close, Goto
    <3>2. Turning' => Turning
      BY <2>1, <3>1 DEF Turning, TypeOK
    <3> QED BY <1>2, <2>1, <2>2, <3>1, <3>2, KeepsStep
  <2>3. CASE Open(mem) # {}
    <3> DEFINE m == Msg("unknown", {Call})
    <3>1. Journal(m, "close")
      BY <1>13, <2>3 DEF Close, Call
    <3>2. m \in Entries /\ m.role = "unknown" /\ IsResult(m) /\ m.refs = {Call}
      <4>1. "unknown" \in Roles /\ "unknown" \in Outcomes /\ {Call} \in SUBSET Nat
        BY <1>3, <2>3, CallWaits DEF Roles, Outcomes, Call
      <4> QED BY <4>1, Messages
    <3> HIDE DEF m
    <3>3. /\ disk' \in {disk, Append(disk, m)}
          /\ \/ pc' = "off"
             \/ disk' = Append(disk, m) /\ mem' = Append(mem, m) /\ pc' = "close" /\ job' = job
      BY <1>4, <3>1
    <3>4. (Turning' => Turning) /\ pc' \notin Settled
      BY <2>1, <3>3 DEF Turning, Settled
    <3> QED BY <1>2, <2>1, <2>3, <3>2, <3>3, <3>4, WritesStep
  <2> QED BY <2>2, <2>3
<1>14. ASSUME NEW role \in {"error", "done"}, Journal(Msg(role, {Call}), "calls"), told' = told,
              pc \in {"calls", "result"}, Open(mem) # {}
       PROVE  WorkerParts'
  <2> DEFINE m == Msg(role, {Call})
  <2>1. m \in Entries /\ m.role = role /\ IsResult(m) /\ m.refs = {Call}
    <3>1. role \in Roles /\ role \in Outcomes /\ {Call} \in SUBSET Nat
      BY <1>3, <1>14, CallWaits DEF Roles, Outcomes, Call
    <3> QED BY <3>1, Messages
  <2>2. /\ disk' \in {disk, Append(disk, m)}
        /\ \/ pc' = "off"
           \/ disk' = Append(disk, m) /\ mem' = Append(mem, m) /\ pc' = "calls"
    BY <1>4, <1>14
  <2> HIDE DEF m
  <2>3. Turning /\ pc' \notin Settled
    BY <1>14, <2>2 DEF Turning, Settled
  <2> QED BY <1>2, <1>14, <2>1, <2>2, <2>3, WritesStep
<1>15. CASE Refuse \/ Result
  <2>1. Result => Open(mem) # {}
    BY DEF Result, OpenIsUntouched
  <2> QED BY <1>14, <1>15, <2>1 DEF Refuse, Result, ghosts
<1>16. ASSUME NEW role \in {"calls", "answer", "blank", "rejected"}, NEW refs \in SUBSET Nat, told' = told,
              disk' \in {disk, Append(disk, Msg(role, refs))}, pc \in {"stream", "blank"},
              \/ pc' = "off"
              \/ disk' = Append(disk, Msg(role, refs)) /\ mem' = Append(mem, Msg(role, refs)) /\ role # "rejected",
              role = "calls" => pc' \notin Settled
       PROVE  WorkerParts'
  <2> DEFINE m == Msg(role, refs)
  <2>1. m \in Entries /\ m.role = role /\ ~IsResult(m)
    <3>1. role \in Roles /\ role \notin Outcomes
      BY DEF Roles, Outcomes
    <3> QED BY <3>1, Messages
  <2>2. /\ disk' \in {disk, Append(disk, m)}
        /\ \/ pc' = "off"
           \/ disk' = Append(disk, m) /\ mem' = Append(mem, m) /\ m.role # "rejected"
    BY <1>16, <2>1
  <2> HIDE DEF m
  <2>3. Turning /\ pc \in Settled /\ pc # "off"
    BY <1>16 DEF Turning, Settled
  <2> QED BY <1>2, <1>16, <2>1, <2>2, <2>3, WritesStep
<1>17. CASE ModelCalls
  <2>1. PICK n \in issued + 1..MaxCalls : Journal(Msg("calls", issued + 1..n), "calls")
    BY <1>17 DEF ModelCalls
  <2>2. pc = "stream" /\ told' = told /\ issued + 1..n \in SUBSET Nat
    BY <1>3, <1>17 DEF ModelCalls
  <2>3. pc' \in {"off", "calls"} /\ pc' \notin Settled
    BY <1>4, <2>1 DEF Settled
  <2> QED BY <1>4, <1>16, <2>1, <2>2, <2>3
<1>18. CASE ModelAnswers
  <2> DEFINE role == IF pc = "stream" THEN "answer" ELSE "blank"
  <2>1. Journal(Msg(role, {}), "idle") /\ pc \in {"stream", "blank"} /\ told' = told
    BY <1>18 DEF ModelAnswers, ghosts
  <2>2. role \in {"calls", "answer", "blank", "rejected"} /\ role \notin {"rejected", "calls"}
    OBVIOUS
  <2> HIDE DEF role
  <2> QED BY <1>4, <1>16, <2>1, <2>2
<1>19. CASE Reject
  <2>1. /\ pc = "stream" /\ told' = told /\ disk' \in {disk, Append(disk, Msg("rejected", {}))} /\ pc' = "off"
    BY <1>5, <1>19 DEF Reject, AppendFails, ghosts
  <2> QED BY <1>16, <2>1
<1>20. CASE Compact
  BY <1>1, <1>2, <1>20, CompactStep
<1>21. ASSUME NEW n \in Says, Deliver(n) PROVE WorkerParts'
  BY <1>1, <1>2, <1>21, DeliverStep
<1>22. ASSUME NEW n \in Says, UserMessage(n) PROVE FALSE
  BY <1>1, <1>22 DEF UserMessage
<1> QED
  BY <1>6, <1>7, <1>8, <1>9, <1>10, <1>11, <1>12, <1>13, <1>15, <1>17, <1>18, <1>19, <1>20,
      <1>21, <1>22
     DEF Next, Thread

-----------------------------------------------------------------------------
(* The theorems.                                                           *)

LEMMA InitInv ==
  ASSUME Init, ConversationAssumption
  PROVE  ConversationInv
<1>1. /\ pc = "off" /\ mem = <<>> /\ disk = <<>> /\ job = NoJob /\ told = {} /\ issued = 0
      /\ executed = [c \in 1..MaxCalls |-> 0] /\ driver \in Drivers /\ exact \in BOOLEAN
      /\ MaxCalls \in Nat /\ MaxToolTurns \in Nat
  BY DEF Init, ConversationAssumption
<1>2. TypeOK
  BY <1>1 DEF TypeOK, NoJob, Places
<1>3. Rounds
  BY <1>1 DEF Rounds, NoJob
<1>4. CallsAreKnown
  BY <1>1 DEF CallsAreKnown, KnownCalls
<1>5. OpenIsUntouched
  BY <1>1 DEF OpenIsUntouched
<1>6. TranscriptIsTrue
  BY <1>1 DEF TranscriptIsTrue, Recorded
<1>7. WorkerInv
  <2>1. Context = <<>>
    <3>1. LastCheckpoint(disk) = 0
      <4>1. disk \in Seq(Lines) /\ Len(disk) = 0
        BY <1>1
      <4>2. LastCheckpoint(disk) \in 0..Len(disk)
        BY <4>1, CheckpointIs
      <4> QED BY <4>1, <4>2
    <3>2. [i \in 1..Len(disk) - 0 |-> InContext(disk[0 + i])] = <<>>
      BY <1>1
    <3> QED BY <3>1, <3>2 DEF Context, Active
  <2>2. Grouped(Context)
    BY <2>1 DEF Grouped, ResultsFollow, ResultsDiffer, GroupsEnd
  <2>3. ContextIsSound
    BY <1>1, <2>2 DEF ContextIsSound, Settled
  <2>4. ToldIsSaid
    BY <1>1 DEF ToldIsSaid, Turning
  <2>5. SaidOnDisk
    BY <1>1 DEF SaidOnDisk
  <2> QED BY <2>3, <2>4, <2>5 DEF WorkerInv
<1> QED BY <1>2, <1>3, <1>4, <1>5, <1>6, <1>7 DEF ConversationInv

\* What always holds of a conversation.
THEOREM ConversationInvariant == Spec => []ConversationInv
<1>1. Init => ConversationInv
  BY InitInv, ConversationAssumption
<1>2. ConversationInv /\ [Next]_vars => ConversationInv'
  <2> SUFFICES ASSUME ConversationInv, [Next]_vars PROVE ConversationInv'
    OBVIOUS
  <2> USE ConversationAssumption DEF ConversationInv
  <2>1. TypeOK'
    BY TypeStep
  <2>2. Rounds'
    BY RoundsStep
  <2>3. CallsAreKnown'
    BY CallsAreKnownStep
  <2>4. OpenIsUntouched'
    BY OpenIsUntouchedStep
  <2>5. TranscriptIsTrue'
    BY TranscriptStep
  <2>6. WorkerInv'
    BY WorkerStep
  <2> QED BY <2>1, <2>2, <2>3, <2>4, <2>5, <2>6
<1> QED BY <1>1, <1>2, PTL DEF Spec

\* Every variable keeps its type (Conversation.hpp).
THEOREM ConversationTypes == Spec => []TypeOK
<1>1. ConversationInv => TypeOK
  BY DEF ConversationInv
<1> QED BY <1>1, ConversationInvariant, PTL

\* Every request of a worker is well formed, whatever was interrupted, failed,
\* restored, pruned or compacted before it (Conversation.cpp:1021-1022).
THEOREM RequestsAreWellFormed == Spec => []RequestIsPaired
<1>1. ConversationInv => RequestIsPaired
  <2> SUFFICES ASSUME ConversationInv, pc = "stream", driver = "worker" PROVE Paired(mem)
    BY DEF RequestIsPaired
  <2>1. TypeOK /\ ContextIsSound
    BY DEF ConversationInv, WorkerInv
  <2>2. mem \in Seq(Entries) /\ Grouped(mem)
    BY <2>1, WorkerFacts
  <2>3. Open(mem) = {}
    BY <2>1 DEF ContextIsSound, Settled
  <2> QED BY <2>2, <2>3, GroupedIsPaired
<1> QED BY <1>1, ConversationInvariant, PTL

\* What the transcript says of a call is what happened: a refused call was not
\* executed, one with a result was, once (Conversation.cpp:943-944).
THEOREM TranscriptTellsTheTruth == Spec => []TranscriptIsTrue
<1>1. ConversationInv => TranscriptIsTrue
  BY DEF ConversationInv
<1> QED BY <1>1, ConversationInvariant, PTL

\* A worker that dies between turns or while the model is asked finds what it
\* had in memory and all that it acknowledged (Conversation.cpp:1074-1075).
THEOREM RestartLosesNothing == Spec => []MemoryIsDurable
<1>1. ConversationInv => MemoryIsDurable
  <2> SUFFICES ASSUME ConversationInv PROVE MemoryIsDurable
    OBVIOUS
  <2>1. ASSUME driver = "worker", pc \in {"idle", "stream"} PROVE Alike(Active(disk), mem)
    BY <2>1 DEF ConversationInv, WorkerInv, ContextIsSound, Context
  <2>2. ASSUME driver = "worker", pc = "stream" PROVE told \subseteq Carried(mem)
    <3>1. TypeOK /\ ContextIsSound /\ told \subseteq Carried(Context)
      BY <2>2 DEF ConversationInv, WorkerInv, ToldIsSaid
    <3> QED BY <2>2, <3>1, WorkerFacts
  <2>3. ASSUME driver = "worker", NEW i \in DOMAIN disk, NEW j \in DOMAIN disk,
               disk[i].role = "user", disk[i] = disk[j]
        PROVE  i = j
    BY <2>3 DEF ConversationInv, WorkerInv, SaidOnDisk
  <2> QED BY <2>1, <2>2, <2>3 DEF MemoryIsDurable, RestoreIsMemory, ToldIsKept
<1> QED BY <1>1, ConversationInvariant, PTL

\* A call executes at most once, after its intent is on disk and before any
\* outcome of it is, in whatever process (Conversation.cpp:943-944).
THEOREM CallsActOnce == Spec => ActsOnce
<1>1. ConversationInv /\ [Next]_vars =>
        [\A c \in 1..MaxCalls : executed'[c] # executed[c] =>
           /\ executed[c] = 0 /\ Recorded("calls", c)
           /\ \A o \in Outcomes : ~Recorded(o, c)]_vars
  <2> SUFFICES ASSUME ConversationInv, [Next]_vars, NEW c \in 1..MaxCalls, executed'[c] # executed[c]
               PROVE  /\ executed[c] = 0 /\ Recorded("calls", c)
                      /\ \A o \in Outcomes : ~Recorded(o, c)
    OBVIOUS
  <2>1. Execute
    BY Executes
  <2>2. /\ executed' = [executed EXCEPT ![Call] = 1] /\ executed[Call] = 0 /\ Recorded("calls", Call)
        /\ \A o \in Outcomes : ~Recorded(o, Call)
    BY <2>1, ExecutedIs, ConversationAssumption DEF ConversationInv
  <2>3. executed \in [1..MaxCalls -> Nat]
    BY DEF ConversationInv, TypeOK
  <2>4. c = Call
    BY <2>2, <2>3
  <2> QED BY <2>2, <2>4
<1> QED BY <1>1, ConversationInvariant, PTL DEF Spec, ActsOnce
=============================================================================
