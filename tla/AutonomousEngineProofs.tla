----------------------- MODULE AutonomousEngineProofs -----------------------
(***************************************************************************)
(* What holds of the autonomous engine for every number of messages, wake  *)
(* commands, letters, crashes and faults.                                  *)
(*                                                                         *)
(* The argument: at every place where the process can die, the checkpoint  *)
(* fits the transcript (Fitting).  An idle state has all the prompts of    *)
(* the transcript behind it; a prepared one has its own prompt at the tail *)
(* or not yet said; a running one has its own prompt as the last of them.  *)
(* The process may know less than the file holds, but only by entries whose*)
(* append has failed (InView).  That makes each entry the code appends a   *)
(* legal one (LegalStep), and what the acknowledged entries promise follows*)
(* from the legality of each alone (TranscriptStep).  The rest is the order*)
(* of the writes: an answer is filed before it is committed, an observation*)
(* is written before the checkpoint that relies on it, the mark of a crash *)
(* outlives the report.                                                    *)
(***************************************************************************)
EXTENDS AutonomousEngine, WellFoundedInduction, TLAPS

USE DEF said

\* Where the phase, the checkpoint and the transcript stand at each place.
Working  == {"recognise", "report", "reported", "append", "appended", "turn", "model", "tools",
             "reply", "archive", "remember", "commit"}
Answered == {"reply", "archive", "remember", "commit"}
Turning  == {"turn", "model", "tools"} \union Answered
Places   == Working \union {"off", "starting", "cycle", "prepare", "letters", "wait", "failed",
                            "backoff", "stopping", "halting"}

\* Who spoke last, as the process has it and in the file.
RoleAt(i) == IF i = 0 THEN "nobody" ELSE log[i].role
Heard     == RoleAt(tail)
LastRole  == RoleAt(Len(log))

\* The process has the file in memory but for entries whose append failed; what
\* it says of the last entry it has is then true of the file as well.
InView ==
  /\ pc = "off" => tail = 0
  /\ pc # "off" =>
       /\ \A i \in DOMAIN log : i > tail => i \in unacked
       /\ mem.phase = "idle" => tail = Len(log)
       /\ mem.phase = "prepared" /\ tail # Len(log) => Heard # "user" /\ ~mem.crash
       /\ mem.phase = "running" /\ Heard = "assistant" => tail = Len(log)

InStep ==
  /\ pc \in Places
  /\ pc \in Working => disk = mem /\ mem.phase # "idle"
  /\ pc \in Turning => mem.phase = "running"
  /\ pc \in {"prepare", "letters", "wait"} => mem.phase = "idle"
  /\ pc \in {"cycle", "backoff"} /\ mem.phase # "idle" => disk = mem
  /\ pc = "halting" => disk = mem
  /\ pc = "reported" => mem.phase = "running" /\ Heard = "recovery"
  /\ pc = "appended" => mem.phase = "prepared" /\ Heard = "user"
  /\ pc \in {"report", "append"} /\ mem.phase = "prepared" => Heard # "user"
  /\ pc \in Answered => Heard = "assistant"
  /\ pc = "model" => Heard \notin {"assistant", "calls"}
  /\ pc = "tools" => Heard = "calls"
  /\ pc \in {"append", "appended", "turn"} /\ mem.crash => Heard = "assistant" /\ mem.phase = "running"
  /\ pc \in {"model", "tools"} => ~mem.crash

\* The prompt of s says what s says.
PromptIsOwn(s) ==
  LET p == s.prompt
  IN  s.phase # "idle" =>
        \/ p.kind = "message" /\ p.id = s.inbox /\ s.inbox # 0
        \/ p.kind = "wake" /\ p.id = s.wake /\ s.wake # 0 /\ s.inbox = 0
        \/ p.kind = "work" /\ p.id = s.cycle + 1 /\ s.inbox = 0

\* What an earlier cycle said will not be said again.
IsPast(p, s) ==
  /\ p.kind = "work" => p.id <= s.cycle
  /\ p.kind = "message" => p.id \in DOMAIN outbox
  /\ p.kind = "wake" => p.id # s.wake

IsUser(i) == log[i].role = "user"
LastUser(u) == u \in DOMAIN log /\ IsUser(u) /\ \A j \in DOMAIN log : j > u => ~IsUser(j)
Past(i, s) == IsUser(i) /\ i \notin unacked => IsPast(log[i].prompt, s)

\* How a checkpoint fits the transcript.
Fits(s) ==
  /\ s.phase = "idle" => LastRole # "user" /\ \A i \in DOMAIN log : Past(i, s)
  /\ s.phase = "prepared" =>
       /\ s.inbox \notin DOMAIN outbox
       /\ LastRole = "user" => log[Len(log)].prompt = s.prompt
       /\ \A i \in DOMAIN log : i # Len(log) => Past(i, s)
  /\ s.phase = "running" =>
       \E u \in DOMAIN log : /\ LastUser(u) /\ log[u].prompt = s.prompt
                             /\ \A i \in DOMAIN log : i # u => Past(i, s)

\* A wake command that may still be accepted has not been said.
WakesAreNew(s) ==
  /\ s.wake \in {0, s.lastWake} /\ s.lastWake <= offered
  /\ \A i \in DOMAIN log : IsUser(i) /\ log[i].prompt.kind = "wake" =>
       /\ log[i].prompt.id \in 1..offered
       /\ log[i].prompt.id = wakeFile.id => s.lastWake = wakeFile.id
WakesAreKnown == wakeFile.id \in {0, offered} /\ (wakeFile.id = 0 => wakeFile = NoWake)

Sound(s) == Fits(s) /\ PromptIsOwn(s) /\ WakesAreNew(s)

Fitting == /\ Sound(disk) /\ (pc # "off" => Sound(mem)) /\ WakesAreKnown
           /\ pc = "letters" => mem.inbox \notin DOMAIN outbox /\ mem.wake = 0

\* An answer ends its turn, a reply is one.
AnswersLast ==
  \A i \in Acked : log[i].role = "assistant" =>
    i = Len(log) \/ \E k \in DOMAIN log : k > i /\ IsUser(k)
AnswersApart ==
  \A i, j \in Acked : i < j /\ log[i].role = "assistant" /\ log[j].role = "assistant" =>
    \E k \in DOMAIN log : i < k /\ k < j /\ IsUser(k)
RepliesAreAnswers ==
  \A m \in DOMAIN outbox :
    /\ outbox[m] \in DOMAIN log /\ log[outbox[m]].role = "assistant"
    /\ \E u \in DOMAIN log : /\ u < outbox[m] /\ IsUser(u)
                             /\ log[u].prompt.kind = "message" /\ log[u].prompt.id = m
                             /\ \A k \in DOMAIN log : u < k /\ k < outbox[m] => ~IsUser(k)

OpenCallIsMine == pc # "off" /\ Heard = "calls" => ~mem.crash /\ mem.phase = "running"

\* Who knows of a crash the transcript does not tell of.
Knows(s) == s.crash \/ (s.phase = "prepared" /\ s.prompt.recovery /\ LastRole # "user")
CrashIsKnown ==
  /\ unreported => IF pc = "off" THEN running \/ Knows(disk) ELSE Knows(mem)
  /\ pc = "reported" => ~unreported
  /\ ~running /\ pc # "off" => /\ pc \in {"starting", "cycle", "failed", "backoff", "stopping", "halting"}
                               /\ mem.crash = disk.crash /\ mem.prompt = disk.prompt /\ mem.phase = disk.phase

\* The letters a checkpoint knows of.
LettersIn(s) ==
  faults = 0 /\ s.letter > 0 =>
    \/ s.phase # "idle" /\ s.prompt.letter = s.letter
    \/ \E i \in DOMAIN log : log[i].prompt.letter = s.letter
LettersAreSaid == LettersIn(disk) /\ (pc # "off" => LettersIn(mem))

\* The order of the writes that file an answer.
Observes(s) == /\ \A n \in 1..s.cycle : <<"cycle", n>> \in observed
               /\ s.phase = "running" /\ s.inbox # 0 => <<"input", s.inbox>> \in observed
Filed ==
  /\ Observes(disk) /\ (pc # "off" => Observes(mem))
  /\ \A m \in DOMAIN outbox : <<"input", m>> \in observed
  /\ pc \in {"archive", "remember", "commit"} => mem.inbox = 0 \/ mem.inbox \in DOMAIN outbox
  /\ pc = "commit" => <<"cycle", mem.cycle + 1>> \in observed

EngineInv == TypeOK /\ InView /\ InStep /\ Fitting /\ AnswersLast /\ AnswersApart /\ RepliesAreAnswers
             /\ CallsAreClosed /\ OpenCallIsMine /\ CrashIsKnown /\ LettersAreSaid /\ Filed /\ NoMessageLost
             /\ PromptOnce

-----------------------------------------------------------------------------
Entries == [role : Roles, prompt : Prompts]

\* What the names of nothing stand for.
LEMMA NothingSaid ==
  /\ NoPrompt \in Prompts /\ NoState \in States
  /\ NoWake \in [id : Nat, fresh : BOOLEAN] /\ NoWake.id = 0
  /\ NoPrompt.kind = "none" /\ NoPrompt.letter = 0 /\ ~NoPrompt.recovery
  /\ NoState.phase = "idle" /\ NoState.inbox = 0 /\ NoState.wake = 0 /\ NoState.lastWake = 0
  /\ NoState.letter = 0 /\ NoState.cycle = 0 /\ ~NoState.crash
BY DEF NoPrompt, NoState, NoWake, Prompts, States, Kinds, Phases

\* A prompt without letters and without evidence.
LEMMA WhatIsSaid ==
  ASSUME NEW k \in Kinds, NEW n \in Nat
  PROVE  /\ Said(k, n) \in Prompts /\ Said(k, n).kind = k /\ Said(k, n).id = n
         /\ Said(k, n).letter = 0 /\ ~Said(k, n).recovery
BY DEF Said, NoPrompt, Prompts, Kinds

\* An entry of the transcript has its role and its prompt.
LEMMA WhatIsEntered ==
  ASSUME NEW r \in Roles, NEW p \in Prompts
  PROVE  Entry(r, p) \in Entries /\ Entry(r, p).role = r /\ Entry(r, p).prompt = p
BY DEF Entry, Entries

\* What the transcript consists of.
LEMMA EntryTypes == ASSUME TypeOK PROVE \A i \in DOMAIN log : log[i] \in Entries
<1>1. log \in Seq(Entries)
  BY DEF TypeOK, Entries
<1> QED BY <1>1

\* The transcript gets a last entry.
Adds(e) ==
  /\ Len(log') = Len(log) + 1 /\ log'[Len(log) + 1] = e /\ DOMAIN log' = 1..Len(log) + 1
  /\ Len(log) \in Nat /\ DOMAIN log = 1..Len(log)
  /\ \A i \in DOMAIN log : log'[i] = log[i] /\ i \in DOMAIN log'

\* What Append does to it.
LEMMA Appending ==
  ASSUME TypeOK, NEW e \in Entries, log' = Append(log, e)
  PROVE  Adds(e) /\ log' \in Seq(Entries)
<1>1. log \in Seq(Entries)
  BY DEF TypeOK, Entries
<1> QED BY <1>1 DEF Adds

\* A non-empty set of numbers has a smallest one.
LEMMA Smallest ==
  ASSUME NEW S \in SUBSET Nat, S # {}
  PROVE  Min(S) \in S /\ \A n \in S : Min(S) <= n
<1>1. PICK m \in S : \A n \in S : ~ (<<n, m>> \in OpToRel(<, Nat))
  BY NatLessThanWellFounded, WFMin
<1>2. \A n \in S : m <= n
  <2>1. ASSUME NEW n \in S PROVE m <= n
    <3>1. n \in Nat /\ m \in Nat
      OBVIOUS
    <3>2. n < m => <<n, m>> \in OpToRel(<, Nat)
      BY <3>1 DEF OpToRel
    <3>3. ~ (n < m)
      BY <1>1, <3>2, Zenon
    <3> QED BY <3>1, <3>3
  <2> QED BY <2>1
<1> QED BY <1>2 DEF Min

\* An upper bound that is a member is the maximum.
LEMMA Largest ==
  ASSUME NEW S \in SUBSET Nat, NEW m \in S, \A n \in S : n <= m
  PROVE  Max(S) = m
<1>1. \A x \in S : (\A n \in S : n <= x) => x = m
  OBVIOUS
<1> QED BY <1>1 DEF Max

\* The guards of the code, which look at the last entry the process knows of,
\* and at a start at the last one of the file, in terms of roles.
LEMMA HeardIs ==
  ASSUME TypeOK
  PROVE  /\ \A r \in Roles : TailIs(r) <=> Heard = r
         /\ Completed <=> Heard = "assistant"
         /\ TailIsPrompt => Heard = "user"
         /\ Repaired = IF LastRole = "calls" THEN Append(log, Entry("result", NoPrompt)) ELSE log
<1>1. "nobody" \notin Roles /\ {"user", "calls", "assistant"} \subseteq Roles
  BY DEF Roles
<1>2. \A r \in Roles : TailIs(r) <=> Heard = r
  BY <1>1 DEF TailIs, Heard, RoleAt
<1>3. Len(log) = 0 <=> log = <<>>
  BY DEF TypeOK
<1>4. Repaired = IF LastRole = "calls" THEN Append(log, Entry("result", NoPrompt)) ELSE log
  BY <1>1, <1>3 DEF Repaired, LastRole, RoleAt
<1> QED BY <1>1, <1>2, <1>4 DEF Completed, TailIsPrompt

\* An entry is in the file, and its append may report that it is not.
Writes(e) == /\ log' = Append(log, e)
             /\ unacked' = unacked \/ unacked' = unacked \union {Len(log) + 1}

\* What is said is known to be said, or the attempt has failed.
Told(r, n) == /\ pc' = n /\ tail' = Len(log') /\ Len(log') = Len(log) + 1
              /\ unacked' = unacked /\ Heard' = r /\ LastRole' = r
Untold == /\ pc' = "failed" /\ tail' = tail /\ Heard' = Heard
          /\ \/ UNCHANGED <<log, unacked>> /\ LastRole' = LastRole
             \/ Len(log') = Len(log) + 1 /\ unacked' = unacked \union {Len(log) + 1}

LEMMA Telling ==
  ASSUME TypeOK, NEW r \in Roles, NEW p \in Prompts, NEW n, Say(Entry(r, p), n)
  PROVE  /\ Told(r, n) \/ Untold
         /\ Writes(Entry(r, p)) \/ UNCHANGED <<log, unacked>>
         /\ tail' \in {tail, Len(log')}
<1> DEFINE e == Entry(r, p)
<1>0. e \in Entries /\ e.role = r
  BY WhatIsEntered
<1>a. Len(log) \in Nat /\ tail \in 0..Len(log) /\ DOMAIN log = 1..Len(log)
  BY DEF TypeOK
<1>1. CASE log' = Append(log, e) /\ tail' = Len(log) + 1 /\ pc' = n /\ unacked' = unacked
  <2>1. Adds(e)
    BY <1>0, <1>1, Appending
  <2>2. Heard' = r /\ LastRole' = r /\ tail' = Len(log')
    BY <1>0, <1>a, <1>1, <2>1 DEF Adds, Heard, LastRole, RoleAt
  <2> QED BY <1>1, <2>1, <2>2 DEF Told, Writes, Adds
<1>2. CASE /\ log' = Append(log, e) /\ tail' = tail /\ pc' = "failed"
           /\ unacked' = unacked \union {Len(log) + 1}
  <2>1. Adds(e)
    BY <1>0, <1>2, Appending
  <2>2. Heard' = Heard
    <3>1. tail # 0 => tail \in DOMAIN log
      BY <1>a
    <3> QED BY <1>2, <2>1, <3>1 DEF Adds, Heard, RoleAt
  <2> QED BY <1>2, <2>1, <2>2 DEF Untold, Writes, Adds
<1>3. CASE pc' = "failed" /\ UNCHANGED <<log, tail, unacked>>
  BY <1>3 DEF Untold, Heard, LastRole, RoleAt
<1> HIDE DEF e
<1> QED BY <1>1, <1>2, <1>3 DEF Say, Goto, Fail, e

\* Nothing is said.
LEMMA Unspoken ==
  /\ UNCHANGED <<log, tail>> => Heard' = Heard
  /\ UNCHANGED log => LastRole' = LastRole
BY DEF Heard, LastRole, RoleAt

\* A start closes the calls the file ends in, and knows the whole file.
LEMMA Repairing ==
  ASSUME TypeOK, log' = Repaired, tail' = Len(log'), unacked' = unacked
  PROVE  /\ Heard' = LastRole' /\ LastRole' = IF LastRole = "calls" THEN "result" ELSE LastRole
         /\ LastRole = "calls" => Writes(Entry("result", NoPrompt))
         /\ LastRole # "calls" => log' = log
<1>1. "result" \in Roles /\ NoPrompt \in Prompts
  BY NothingSaid DEF Roles
<1>2. Heard' = LastRole'
  BY DEF Heard, LastRole
<1>3. CASE LastRole = "calls"
  <2>1. log' = Append(log, Entry("result", NoPrompt))
    BY <1>3, HeardIs
  <2>2. Adds(Entry("result", NoPrompt)) /\ Entry("result", NoPrompt).role = "result"
    BY <1>1, <2>1, Appending, WhatIsEntered
  <2>3. LastRole' = "result"
    BY <2>2 DEF Adds, LastRole, RoleAt
  <2> QED BY <1>2, <1>3, <2>1, <2>3 DEF Writes
<1>4. CASE LastRole # "calls"
  BY <1>2, <1>4, HeardIs, Unspoken
<1> QED BY <1>3, <1>4

\* Every action leaves the transcript or adds one entry to it.
Says == \/ UNCHANGED <<log, unacked>>
        \/ \E e \in Entries : Writes(e)

LEMMA Saying == ASSUME TypeOK, [Next]_vars PROVE Says /\ tail' \in {0, tail, Len(log')}
<1> USE NothingSaid, WhatIsEntered DEF Says, store, TypeOK, States
<1>0. \A r \in Roles : Entry(r, NoPrompt) \in Entries
  OBVIOUS
<1>a. \A r \in Roles : \A n : Say(Entry(r, NoPrompt), n) => Says /\ tail' \in {0, tail, Len(log')}
  BY <1>0, Telling
<1>b. {"user", "recovery", "calls", "result", "assistant"} \subseteq Roles
  BY DEF Roles
<1>1. CASE Start
  BY <1>1, <1>0, <1>b, Repairing DEF Start
<1>2. CASE Report
  BY <1>2, <1>a, <1>b DEF Report
<1>3. CASE AppendPrompt
  <2>1. Entry("user", mem.prompt) \in Entries /\ mem.prompt \in Prompts
    BY <1>b
  <2> QED BY <1>3, <1>b, <2>1, Telling DEF AppendPrompt
<1>4. CASE StartTurn
  BY <1>4, <1>a, <1>b DEF StartTurn
<1>5. CASE ModelCalls
  BY <1>5, <1>a, <1>b DEF ModelCalls
<1>6. CASE ToolResult
  BY <1>6, <1>a, <1>b DEF ToolResult
<1>7. CASE ModelAnswers
  BY <1>7, <1>a, <1>b DEF ModelAnswers
<1>8. CASE TurnFails \/ Choke \/ CommitChokes \/ Reported
  BY <1>8 DEF TurnFails, Choke, CommitChokes, Reported, Die
<1>9. CASE Started \/ Begin \/ PrepareWake \/ NextInbox \/ Prepare \/ Recognise
          \/ Appended \/ WriteReply
  BY <1>9 DEF Started, Begin, PrepareWake, NextInbox, Prepare, Recognise, Appended, WriteReply
<1>10. CASE Archive \/ Remember \/ Commit \/ HandleFailure \/ Timer \/ Stopping
          \/ LastCheckpoint \/ Stopped
  BY <1>10 DEF Archive, Remember, Commit, HandleFailure, Timer, Stopping, LastCheckpoint, Stopped
<1>11. CASE InboxWakes \/ AcceptWake \/ IgnoreWake \/ Throw \/ Crash \/ RequestStop
          \/ (\E m \in Messages : Post(m)) \/ PostWake
  BY <1>11 DEF InboxWakes, AcceptWake, IgnoreWake, Throw, Crash, Die, RequestStop, Post, PostWake
<1>12. CASE UNCHANGED vars
  BY <1>12 DEF vars
<1> QED BY <1>1, <1>2, <1>3, <1>4, <1>5, <1>6, <1>7, <1>8, <1>9, <1>10, <1>11, <1>12 DEF Next,
    Turn

\* Messages and editions are numbered from one.
LEMMA Numbered ==
  /\ Messages \union {0} \subseteq Nat /\ Letters \union {0} \subseteq Nat
  /\ 0 \notin Messages /\ 0 \notin Letters /\ Malformed \subseteq Messages
BY EngineAssumption DEF EngineAssumption

\* The record of a state with other values in some of its fields.
LEMMA Updated ==
  ASSUME NEW s \in States
  PROVE  /\ \A b \in BOOLEAN : [s EXCEPT !.crash = b] \in States
         /\ [s EXCEPT !.phase = "running"] \in States
         /\ \A l \in Letters \union {0} : [s EXCEPT !.letter = l] \in States
         /\ \A m \in Messages \union {0} : [s EXCEPT !.inbox = m] \in States
         /\ \A w \in Nat : [s EXCEPT !.wake = w, !.lastWake = w] \in States
         /\ [s EXCEPT !.crash = FALSE, !.prompt.recovery = TRUE] \in States
         /\ \A p \in Prompts, l \in Letters \union {0} :
              /\ [s EXCEPT !.inbox = 0, !.prompt = p, !.phase = "prepared"] \in States
              /\ [[s EXCEPT !.letter = l] EXCEPT !.phase = "prepared", !.prompt = p] \in States
         /\ \A n \in Nat : [s EXCEPT !.cycle = n, !.phase = "idle", !.prompt = NoPrompt, !.inbox = 0, !.wake = 0] \in States
<1>1. \A b \in BOOLEAN : [s EXCEPT !.crash = b] \in States
  BY NothingSaid DEF States, Phases
<1>2. [s EXCEPT !.phase = "running"] \in States
  BY NothingSaid DEF States, Phases
<1>3. \A l \in Letters \union {0} : [s EXCEPT !.letter = l] \in States
  BY NothingSaid DEF States, Phases
<1>4. \A m \in Messages \union {0} : [s EXCEPT !.inbox = m] \in States
  BY NothingSaid DEF States, Phases
<1>5. \A w \in Nat : [s EXCEPT !.wake = w, !.lastWake = w] \in States
  BY NothingSaid DEF States, Phases
<1>6. [s EXCEPT !.crash = FALSE, !.prompt.recovery = TRUE] \in States
  BY NothingSaid DEF States, Phases, Prompts
<1>7. \A p \in Prompts : [s EXCEPT !.inbox = 0, !.prompt = p, !.phase = "prepared"] \in States
  BY NothingSaid DEF States, Phases
<1>8. \A t \in States, p \in Prompts : [t EXCEPT !.phase = "prepared", !.prompt = p] \in States
  BY DEF States, Phases
<1>9. \A n \in Nat : [s EXCEPT !.cycle = n, !.phase = "idle", !.prompt = NoPrompt, !.inbox = 0, !.wake = 0] \in States
  BY NothingSaid DEF States, Phases
<1> QED BY <1>1, <1>2, <1>3, <1>4, <1>5, <1>6, <1>7, <1>8, <1>9

\* The state in memory keeps its type.
LEMMA MemoryTypes == ASSUME TypeOK, [Next]_vars PROVE mem' \in States
<1>0. mem \in States /\ disk \in States /\ Letters \union {mem.letter} \subseteq Letters \union {0}
  BY DEF TypeOK, States
<1>1. mem' = mem => mem' \in States
  BY <1>0
<1>2. CASE Start
  <2>1. disk.crash \in BOOLEAN /\ running \in BOOLEAN
    BY <1>0 DEF TypeOK, States
  <2>2. mem' = [disk EXCEPT !.crash = disk.crash \/ running]
    BY <1>2 DEF Start
  <2> QED BY <1>0, <2>1, <2>2, Updated
<1>3. CASE PrepareWake
  <2>1. Said("wake", mem.wake) \in Prompts
    BY <1>0, WhatIsSaid DEF Kinds, States
  <2> QED BY <1>0, <2>1, <1>3, Updated DEF PrepareWake, Persist
<1>4. CASE NextInbox
  <2>1. PICK m \in Messages \union {0} : mem' = [mem EXCEPT !.inbox = m]
    <3> DEFINE waiting == inbox \ (DOMAIN outbox \union Malformed)
    <3>1. waiting \in SUBSET Nat /\ waiting \subseteq Messages
      BY Numbered DEF TypeOK
    <3>2. waiting # {} => Min(waiting) \in Messages
      BY <3>1, Smallest
    <3> QED BY <3>2, <1>4 DEF NextInbox
  <2> QED BY <1>0, <2>1, Updated
<1>5. CASE Prepare
  <2>1. PICK l \in Letters \union {mem.letter}, q \in Prompts :
          \/ mem' = [[mem EXCEPT !.letter = l] EXCEPT !.phase = "prepared", !.prompt = q]
                \/ mem' = [mem EXCEPT !.letter = l]
    <3>1. PICK l \in Letters \union {mem.letter} :
            LET p == IF mem.inbox = 0 THEN Said("work", mem.cycle + 1) ELSE Said("message", mem.inbox)
                q == IF l = mem.letter THEN p ELSE [p EXCEPT !.letter = l]
            IN  \/ mem' = [[mem EXCEPT !.letter = l] EXCEPT !.phase = "prepared", !.prompt = q]
                \/ mem' = [mem EXCEPT !.letter = l]
      BY <1>5 DEF Prepare, Persist
    <3> DEFINE p == IF mem.inbox = 0 THEN Said("work", mem.cycle + 1) ELSE Said("message", mem.inbox)
    <3>2. p \in Prompts
      <4>1. mem.cycle \in Nat /\ mem.inbox \in Messages \union {0}
        BY <1>0 DEF States
      <4>2. mem.cycle + 1 \in Nat /\ mem.inbox \in Nat
        BY <4>1, Numbered
      <4>3. {"work", "message"} \subseteq Kinds
        BY DEF Kinds
      <4> QED BY <4>2, <4>3, WhatIsSaid
    <3>3. [p EXCEPT !.letter = l] \in Prompts
      BY <1>0, <3>2 DEF Prompts
    <3> HIDE DEF p
    <3> QED BY <3>1, <3>2, <3>3 DEF p
  <2>2. l \in Letters \union {0} /\ [mem EXCEPT !.letter = l] \in States
    BY <1>0, Updated
  <2>3. [[mem EXCEPT !.letter = l] EXCEPT !.phase = "prepared", !.prompt = q] \in States
    BY <1>0, <2>2, Updated
  <2> QED BY <2>1, <2>2, <2>3
<1>6. CASE Recognise
  BY <1>0, <1>1, <1>6, Updated DEF Recognise, MarkRunning, Persist
<1>7. CASE Appended
  BY <1>0, <1>1, <1>7, Updated DEF Appended, MarkRunning, Persist
<1>8. CASE Report
  BY <1>0, <1>1, <1>8, Updated DEF Report, Persist, store, Say
<1>9. CASE Commit
  <2>1. mem.cycle + 1 \in Nat
    BY <1>0 DEF States
  <2> QED BY <1>0, <2>1, <1>9, Updated DEF Commit, Persist
<1>10. CASE AcceptWake
  <2>1. wakeFile.id \in Nat
    BY DEF TypeOK
  <2> QED BY <1>0, <2>1, <1>10, Updated DEF AcceptWake
<1>11. CASE Stopped \/ Crash \/ Choke \/ CommitChokes
  BY <1>1, <1>11, NothingSaid DEF Stopped, Crash, Die, Choke, CommitChokes
<1>15. CASE Reported
  BY <1>0, <1>15, Updated DEF Reported, Persist
<1>12. CASE Started \/ Begin \/ AppendPrompt \/ StartTurn \/ ModelCalls \/ ToolResult
          \/ ModelAnswers \/ TurnFails \/ WriteReply \/ Archive \/ Remember \/ HandleFailure
          \/ Timer \/ Stopping \/ LastCheckpoint \/ InboxWakes \/ IgnoreWake \/ Throw
          \/ RequestStop
  BY <1>1, <1>12 DEF Started, Begin, AppendPrompt, StartTurn, ModelCalls, ToolResult,
      ModelAnswers, TurnFails, WriteReply, Archive, Remember, HandleFailure, Timer, Stopping,
      LastCheckpoint, InboxWakes, IgnoreWake, Throw, RequestStop, Say
<1>13. CASE PostWake \/ \E m \in Messages : Post(m)
  BY <1>1, <1>13 DEF PostWake, Post
<1>14. CASE UNCHANGED vars
  BY <1>1, <1>14 DEF vars
<1> QED BY <1>2, <1>3, <1>4, <1>5, <1>6, <1>7, <1>8, <1>9, <1>10, <1>11, <1>12, <1>13, <1>14,
    <1>15 DEF Next, Turn

\* What is checkpointed is what is, or was, in memory.
LEMMA Checkpoints ==
  ASSUME TypeOK, [Next]_vars
  PROVE  disk' = disk \/ (disk' = mem /\ pc # "off") \/ (disk' = mem' /\ pc' # "off")
<1> USE DEF store
<1>1. CASE Start \/ Started \/ Begin \/ PrepareWake \/ NextInbox \/ Prepare \/ Recognise \/ Report
  BY <1>1 DEF Start, Started, Begin, PrepareWake, Persist, Goto, Fail, NextInbox, Prepare,
      Recognise, MarkRunning, Report, Say
<1>2. CASE AppendPrompt \/ Appended \/ StartTurn \/ ModelCalls \/ ToolResult \/ ModelAnswers
          \/ TurnFails \/ WriteReply
  BY <1>2 DEF AppendPrompt, Appended, MarkRunning, Persist, Goto, Fail, StartTurn, ModelCalls,
      ToolResult, ModelAnswers, TurnFails, WriteReply, Say
<1>3. CASE Archive \/ Remember \/ Commit \/ HandleFailure \/ Timer \/ Stopping
          \/ LastCheckpoint \/ Stopped
  BY <1>3 DEF Archive, Remember, Commit, Persist, Goto, Fail, HandleFailure, Timer, Stopping,
      LastCheckpoint, Stopped
<1>4. CASE InboxWakes \/ AcceptWake \/ IgnoreWake \/ Throw \/ Crash \/ Choke \/ CommitChokes
          \/ Reported \/ RequestStop \/ (\E m \in Messages : Post(m)) \/ PostWake
  BY <1>4 DEF InboxWakes, AcceptWake, IgnoreWake, Throw, Fail, Crash, RequestStop, Post,
      PostWake, Goto, Die, Choke, CommitChokes, Reported, Persist
<1>5. CASE UNCHANGED vars
  BY <1>5 DEF vars, Goto
<1> QED BY <1>1, <1>2, <1>3, <1>4, <1>5 DEF Next, Turn

\* Only WriteReply writes the outbox.
LEMMA OutboxGrows == ASSUME TypeOK, [Next]_vars PROVE UNCHANGED outbox \/ WriteReply
<1> USE DEF mail
<1>1. CASE Start \/ Started \/ Begin \/ PrepareWake \/ NextInbox \/ Prepare \/ Recognise
          \/ Report \/ AppendPrompt \/ Appended \/ StartTurn \/ ModelCalls \/ ToolResult
          \/ ModelAnswers \/ TurnFails \/ WriteReply
  BY <1>1 DEF Start, Started, Begin, PrepareWake, Persist, NextInbox, Prepare, Recognise,
      MarkRunning, Report, AppendPrompt, Appended, StartTurn, ModelCalls, ToolResult,
      ModelAnswers, TurnFails, WriteReply, Say
<1>2. CASE Archive \/ Remember \/ Commit \/ HandleFailure \/ Timer \/ Stopping
          \/ LastCheckpoint \/ Stopped \/ InboxWakes \/ AcceptWake \/ IgnoreWake \/ Throw
          \/ Crash \/ Choke \/ CommitChokes \/ Reported \/ RequestStop
          \/ (\E m \in Messages : Post(m)) \/ PostWake
  BY <1>2 DEF Archive, Remember, Commit, Persist, HandleFailure, Timer, Stopping, LastCheckpoint,
      Stopped, InboxWakes, AcceptWake, IgnoreWake, Throw, Crash, RequestStop, Post, PostWake,
      Die, Choke, CommitChokes, Reported, Goto, Fail
<1>3. CASE UNCHANGED vars
  BY <1>3 DEF vars
<1> QED BY <1>1, <1>2, <1>3 DEF Next, Turn

\* The directories hold messages that were posted.
LEMMA MailTypes ==
  ASSUME TypeOK, [Next]_vars
  PROVE  /\ inbox' \subseteq posted' /\ processed' \subseteq posted' /\ rejected' \subseteq Malformed
         /\ posted' \subseteq Messages /\ posted \subseteq posted'
<1> USE DEF TypeOK, mail, clients
<1>1. CASE NextInbox
  <2> DEFINE waiting == inbox \ (DOMAIN outbox \union Malformed)
  <2>1. waiting \in SUBSET Nat
    BY Numbered
  <2>2. \A m \in waiting : m \in Nat /\ Min(waiting) \in Nat /\ Min(waiting) <= m
    BY <2>1, Smallest
  <2> HIDE DEF waiting
  <2>3. \A m \in inbox : m < Min(waiting) => m \notin waiting
    BY <2>2
  <2> QED BY <2>3, <1>1 DEF NextInbox, waiting
<1>2. CASE Archive
  BY <1>2 DEF Archive
<1>3. ASSUME NEW m \in Messages, Post(m) PROVE /\ inbox' \subseteq posted' /\ processed' \subseteq posted' /\ rejected' \subseteq Malformed
         /\ posted' \subseteq Messages /\ posted \subseteq posted'
  BY <1>3 DEF Post
<1>4. CASE Start \/ Started \/ Begin \/ PrepareWake \/ Prepare \/ Recognise \/ Report
          \/ AppendPrompt \/ Appended \/ StartTurn \/ ModelCalls \/ ToolResult
          \/ ModelAnswers \/ TurnFails \/ WriteReply
  BY <1>4 DEF Start, Started, Begin, PrepareWake, Persist, Prepare, Recognise, MarkRunning,
      Report, AppendPrompt, Appended, StartTurn, ModelCalls, ToolResult, ModelAnswers, TurnFails,
      WriteReply, Say
<1>5. CASE Remember \/ Commit \/ HandleFailure \/ Timer \/ Stopping \/ LastCheckpoint
          \/ Stopped \/ InboxWakes \/ AcceptWake \/ IgnoreWake \/ Throw \/ Crash \/ Choke
          \/ CommitChokes \/ Reported \/ RequestStop \/ PostWake
  BY <1>5 DEF Remember, Commit, Persist, HandleFailure, Timer, Stopping, LastCheckpoint, Stopped,
      InboxWakes, AcceptWake, IgnoreWake, Throw, Crash, RequestStop, PostWake, Die, Choke,
      CommitChokes, Reported, Goto, Fail
<1>6. CASE UNCHANGED vars
  BY <1>6 DEF vars
<1> QED BY <1>1, <1>2, <1>3, <1>4, <1>5, <1>6 DEF Next, Turn

\* A message is taken from those that next_inbox() may return.
LEMMA TakenStep ==
  ASSUME TypeOK, [Next]_vars
  PROVE  mem'.inbox \in {0, disk.inbox, mem.inbox} \union (posted \ Malformed)
<1>0. mem \in States /\ disk \in States /\ NoState.inbox = 0 /\ inbox \subseteq posted /\ posted \subseteq Messages
  BY NothingSaid DEF TypeOK
<1> USE <1>0 DEF store
<1>1. CASE NextInbox
  <2> DEFINE waiting == inbox \ (DOMAIN outbox \union Malformed)
  <2>1. waiting \in SUBSET Nat
    BY Numbered
  <2>2. waiting # {} => Min(waiting) \in waiting
    BY <2>1, Smallest
  <2>3. mem'.inbox = IF waiting = {} THEN 0 ELSE Min(waiting)
    BY <1>1 DEF NextInbox, States
  <2> HIDE DEF waiting
  <2> QED BY <2>2, <2>3 DEF waiting
<1>2. CASE Start
  BY <1>2 DEF Start, States
<1>3. CASE PrepareWake
  BY <1>3 DEF PrepareWake, Persist, States
<1>4. CASE Prepare
  BY <1>4 DEF Prepare, Persist, States
<1>5. CASE Recognise
  BY <1>5 DEF Recognise, MarkRunning, Persist, States
<1>6. CASE Report
  BY <1>6 DEF Report, Persist, States, Say
<1>14. CASE Reported
  BY <1>14 DEF Reported, Persist, States
<1>7. CASE Appended
  BY <1>7 DEF Appended, MarkRunning, Persist, States
<1>8. CASE Commit
  BY <1>8 DEF Commit, Persist, States
<1>9. CASE AcceptWake
  BY <1>9 DEF AcceptWake, States
<1>10. CASE Started \/ Begin \/ AppendPrompt \/ StartTurn \/ ModelCalls \/ ToolResult
          \/ ModelAnswers \/ TurnFails
  BY <1>10 DEF Started, Begin, AppendPrompt, StartTurn, ModelCalls, ToolResult, ModelAnswers,
      TurnFails, Say
<1>11. CASE WriteReply \/ Archive \/ Remember \/ HandleFailure \/ Timer \/ Stopping
          \/ LastCheckpoint \/ Stopped
  BY <1>11 DEF WriteReply, Archive, Remember, HandleFailure, Timer, Stopping, LastCheckpoint,
      Stopped
<1>12. CASE InboxWakes \/ IgnoreWake \/ Throw \/ Crash \/ Choke \/ CommitChokes
          \/ RequestStop \/ (\E m \in Messages : Post(m)) \/ PostWake
  BY <1>12 DEF InboxWakes, IgnoreWake, Throw, Crash, RequestStop, Post, PostWake, Die, Choke,
      CommitChokes
<1>13. CASE UNCHANGED vars
  BY <1>13 DEF vars
<1> QED BY <1>1, <1>2, <1>3, <1>4, <1>5, <1>6, <1>7, <1>8, <1>9, <1>10, <1>11, <1>12, <1>13,
    <1>14 DEF Next, Turn

\* The wake command keeps its type.
LEMMA WakeTypes ==
  ASSUME TypeOK, [Next]_vars
  PROVE  wakeFile' \in [id : Nat, fresh : BOOLEAN] /\ offered' \in Nat
<1> USE NothingSaid DEF clients, TypeOK
<1>1. CASE AcceptWake
  <2>1. wakeFile' \in {wakeFile, NoWake} /\ offered' = offered
    BY <1>1 DEF AcceptWake
  <2> QED BY <2>1, NothingSaid, Zenon
<1>2. CASE IgnoreWake
  BY <1>2 DEF IgnoreWake
<1>3. CASE Start \/ Started \/ Begin \/ PrepareWake \/ NextInbox \/ Prepare \/ Recognise
          \/ Report \/ AppendPrompt \/ Appended
  BY <1>3 DEF Start, Started, Begin, PrepareWake, Persist, NextInbox, Prepare, Recognise,
      MarkRunning, Report, AppendPrompt, Appended, Say
<1>4. CASE StartTurn \/ ModelCalls \/ ToolResult \/ ModelAnswers \/ TurnFails \/ WriteReply
          \/ Archive \/ Remember \/ Commit \/ HandleFailure
  BY <1>4 DEF StartTurn, ModelCalls, ToolResult, ModelAnswers, TurnFails, WriteReply, Archive,
      Remember, Commit, Persist, HandleFailure, Say
<1>5. CASE Timer \/ Stopping \/ LastCheckpoint \/ Stopped \/ InboxWakes \/ Throw \/ Crash
          \/ Choke \/ CommitChokes \/ Reported \/ RequestStop
          \/ (\E m \in Messages : Post(m)) \/ PostWake
  BY <1>5 DEF Timer, Stopping, LastCheckpoint, Stopped, InboxWakes, Throw, Crash, RequestStop,
      Post, PostWake, Die, Choke, CommitChokes, Reported, Persist, Goto, Fail
<1>6. CASE UNCHANGED vars
  BY <1>6 DEF vars
<1> QED BY <1>1, <1>2, <1>3, <1>4, <1>5, <1>6 DEF Next, Turn

\* The marks are Booleans.
LEMMA MarkTypes ==
  ASSUME TypeOK, [Next]_vars
  PROVE  {running', stop', unreported'} \subseteq BOOLEAN
<1> USE NothingSaid DEF marks, TypeOK
<1>1. CASE AppendPrompt
  BY <1>1 DEF AppendPrompt, States, Prompts, Say
<1>2. CASE Start \/ Started \/ Begin \/ PrepareWake \/ NextInbox \/ Prepare \/ Recognise
          \/ Report \/ Appended \/ StartTurn \/ ModelCalls
  BY <1>2 DEF Start, Started, Begin, PrepareWake, Persist, NextInbox, Prepare, Recognise,
      MarkRunning, Report, Appended, StartTurn, ModelCalls, Say
<1>3. CASE ToolResult \/ ModelAnswers \/ TurnFails \/ WriteReply \/ Archive \/ Remember
          \/ Commit \/ HandleFailure \/ Timer \/ Stopping \/ LastCheckpoint
  BY <1>3 DEF ToolResult, ModelAnswers, TurnFails, WriteReply, Archive, Remember, Commit,
      Persist, HandleFailure, Timer, Stopping, LastCheckpoint, Say
<1>4. CASE Stopped \/ InboxWakes \/ AcceptWake \/ IgnoreWake \/ Throw \/ Crash \/ Choke
          \/ CommitChokes \/ Reported \/ RequestStop \/ (\E m \in Messages : Post(m)) \/ PostWake
  BY <1>4 DEF Stopped, InboxWakes, AcceptWake, IgnoreWake, Throw, Crash, RequestStop, Post,
      PostWake, Die, Choke, CommitChokes, Reported, Persist, Goto, Fail
<1>5. CASE UNCHANGED vars
  BY <1>5 DEF vars
<1> QED BY <1>1, <1>2, <1>3, <1>4, <1>5 DEF Next, Turn

\* The bounds count in Nat.
LEMMA CounterTypes == ASSUME TypeOK, [Next]_vars PROVE {posts', faults', ends'} \subseteq Nat
<1> USE DEF clients, TypeOK
<1>1. CASE Prepare
  BY <1>1 DEF Prepare, Persist, Goto, Fail
<1>2. CASE Report
  BY <1>2 DEF Report, Persist, Goto, Fail, Say
<1>3. CASE Start \/ Started \/ Begin \/ PrepareWake \/ NextInbox \/ Recognise
          \/ AppendPrompt \/ Appended
  BY <1>3 DEF Start, Started, Begin, PrepareWake, Persist, Goto, Fail, NextInbox, Recognise,
      MarkRunning, AppendPrompt, Appended, Say
<1>4. CASE StartTurn \/ ModelCalls \/ ToolResult \/ ModelAnswers \/ TurnFails \/ WriteReply
          \/ Archive \/ Remember
  BY <1>4 DEF StartTurn, ModelCalls, ToolResult, ModelAnswers, TurnFails, Fail, WriteReply,
      Archive, Remember, Say
<1>5. CASE Commit \/ HandleFailure \/ Timer \/ Stopping \/ LastCheckpoint \/ Stopped
          \/ InboxWakes \/ AcceptWake
  BY <1>5 DEF Commit, Persist, Goto, Fail, HandleFailure, Timer, Stopping, LastCheckpoint,
      Stopped, InboxWakes, AcceptWake
<1>6. CASE IgnoreWake \/ Throw \/ Crash \/ Choke \/ CommitChokes \/ Reported \/ RequestStop
          \/ (\E m \in Messages : Post(m)) \/ PostWake
  BY <1>6 DEF IgnoreWake, Throw, Fail, Crash, RequestStop, Post, PostWake, Die, Choke,
      CommitChokes, Reported, Persist, Goto
<1>7. CASE UNCHANGED vars
  BY <1>7 DEF vars
<1> QED BY <1>1, <1>2, <1>3, <1>4, <1>5, <1>6, <1>7 DEF Next, Turn

\* Only a new answer can be one that has no excerpt.
LEMMA CutStep ==
  ASSUME TypeOK, [Next]_vars
  PROVE  cut' = cut \/ (cut' = cut \union {Len(log')} /\ Len(log') \in DOMAIN log')
<1> USE DEF store
<1>1. CASE ModelAnswers
  <2>1. "assistant" \in Roles /\ NoPrompt \in Prompts
    BY NothingSaid DEF Roles
  <2>2. Writes(Entry("assistant", NoPrompt)) \/ log' = log
    BY <1>1, <2>1, Telling DEF ModelAnswers
  <2>3. log' # log => Len(log') \in DOMAIN log'
    <3>1. Entry("assistant", NoPrompt) \in Entries
      BY <2>1, WhatIsEntered
    <3> QED BY <2>2, <3>1, Appending DEF Writes, Adds
  <2> QED BY <1>1, <2>3 DEF ModelAnswers
<1>2. CASE Start \/ Started \/ Begin \/ PrepareWake \/ NextInbox \/ Prepare \/ Choke \/ Recognise
          \/ Report \/ Reported \/ AppendPrompt \/ Appended \/ StartTurn \/ ModelCalls
          \/ ToolResult
  BY <1>2 DEF Start, Started, Begin, PrepareWake, NextInbox, Prepare, Choke, Die, Recognise, Report,
      Reported, AppendPrompt, Appended, StartTurn, ModelCalls, ToolResult
<1>3. CASE TurnFails \/ WriteReply \/ Archive \/ Remember \/ Commit \/ CommitChokes
          \/ HandleFailure
          \/ Timer \/ Stopping \/ LastCheckpoint \/ Stopped
  BY <1>3 DEF TurnFails, WriteReply, Archive, Remember, Commit, CommitChokes, Die, HandleFailure,
      Timer,
      Stopping, LastCheckpoint, Stopped
<1>4. CASE InboxWakes \/ AcceptWake \/ IgnoreWake \/ Throw \/ Crash \/ RequestStop
          \/ (\E m \in Messages : Post(m)) \/ PostWake
  BY <1>4 DEF InboxWakes, AcceptWake, IgnoreWake, Throw, Crash, Die, RequestStop, Post, PostWake
<1>5. CASE UNCHANGED vars
  BY <1>5 DEF vars
<1> QED BY <1>1, <1>2, <1>3, <1>4, <1>5 DEF Next, Turn

\* The type invariant is kept; a reply points at an answer because of InStep.
LEMMA TypeStep == ASSUME TypeOK, InStep, [Next]_vars PROVE TypeOK'
<1>1. /\ log' \in Seq(Entries) /\ DOMAIN log \subseteq DOMAIN log'
      /\ unacked' \subseteq DOMAIN log' /\ tail' \in 0..Len(log')
  <2>0. /\ log \in Seq(Entries) /\ unacked \subseteq DOMAIN log /\ tail \in 0..Len(log)
        /\ tail' \in {0, tail, Len(log')}
    BY Saying DEF TypeOK, Entries
  <2>1. CASE UNCHANGED <<log, unacked>>
    BY <2>0, <2>1
  <2>2. ASSUME NEW e \in Entries, Writes(e)
        PROVE  /\ log' \in Seq(Entries) /\ DOMAIN log \subseteq DOMAIN log'
               /\ unacked' \subseteq DOMAIN log' /\ tail' \in 0..Len(log')
    <3>1. Adds(e) /\ log' \in Seq(Entries)
      BY <2>2, Appending DEF Writes
    <3>2. /\ Len(log') = Len(log) + 1 /\ Len(log) + 1 \in DOMAIN log' /\ DOMAIN log \subseteq DOMAIN log'
          /\ Len(log) \in Nat
      BY <3>1 DEF Adds
    <3> QED BY <2>0, <2>2, <3>1, <3>2 DEF Writes
  <2> QED BY <2>1, <2>2, Saying DEF Says
<1>2. mem' \in States /\ disk' \in States
  BY MemoryTypes, Checkpoints DEF TypeOK
<1>3. \A m \in DOMAIN outbox' : outbox'[m] \in DOMAIN log'
  <2>1. CASE UNCHANGED outbox
    BY <1>1, <2>1 DEF TypeOK
  <2>2. CASE WriteReply
    <3>1. tail \in DOMAIN log
      <4>1. Heard = "assistant" /\ tail \in 0..Len(log) /\ Len(log) \in Nat
        BY <2>2 DEF InStep, WriteReply, Answered, TypeOK
      <4>2. tail # 0
        BY <4>1 DEF Heard, RoleAt
      <4> QED BY <4>1, <4>2 DEF TypeOK
    <3>2. \A m \in DOMAIN outbox' : \/ outbox'[m] = tail
                                    \/ m \in DOMAIN outbox /\ outbox'[m] = outbox[m]
      BY <2>2 DEF WriteReply
    <3> QED BY <1>1, <3>1, <3>2 DEF TypeOK
  <2> QED BY <2>1, <2>2, OutboxGrows
<1>4. DOMAIN outbox' \subseteq posted' \ Malformed
  <2>1. DOMAIN outbox' \subseteq DOMAIN outbox \union ({mem.inbox} \ {0})
    BY OutboxGrows DEF WriteReply
  <2> QED BY <2>1, MailTypes DEF TypeOK
<1>5. {mem'.inbox, disk'.inbox} \subseteq (posted' \ Malformed) \union {0}
  BY TakenStep, Checkpoints, MailTypes DEF TypeOK
<1>6. {running', stop', unreported'} \subseteq BOOLEAN
  BY MarkTypes
<1>7. {posts', faults', ends'} \subseteq Nat
  BY CounterTypes
<1>8. cut' \subseteq DOMAIN log'
  BY <1>1, CutStep DEF TypeOK
<1> QED BY <1>1, <1>2, <1>3, <1>4, <1>5, <1>6, <1>7, <1>8, MailTypes, WakeTypes DEF TypeOK, Entries

\* The view stays what it is while nothing is said.
LEMMA ViewKept ==
  ASSUME TypeOK, InView, UNCHANGED <<log, tail, unacked>>, pc # "off", pc' # "off",
         \/ mem'.phase = mem.phase /\ (mem'.crash => mem.crash)
         \/ tail = Len(log)
         \/ mem'.phase = "running" /\ Heard # "assistant"
  PROVE  InView'
<1>1. Heard' = Heard
  BY Unspoken
<1>2. \A i \in DOMAIN log : i > tail => i \in unacked
  BY DEF InView
<1>3. /\ mem'.phase = "idle" => tail = Len(log)
      /\ mem'.phase = "prepared" /\ tail # Len(log) => Heard # "user" /\ ~mem'.crash
      /\ mem'.phase = "running" /\ Heard = "assistant" => tail = Len(log)
  BY DEF InView
<1> QED BY <1>1, <1>2, <1>3 DEF InView

\* It is complete after an append that is known to have been done.
LEMMA ViewTold ==
  ASSUME TypeOK, NEW r, NEW n, Told(r, n), n # "off", log' \in Seq(Entries)
  PROVE  InView'
<1>1. DOMAIN log' = 1..Len(log') /\ Len(log') \in Nat
  OBVIOUS
<1>2. \A i \in DOMAIN log' : ~(i > tail')
  BY <1>1 DEF Told
<1> QED BY <1>2 DEF InView, Told

\* After one that has failed it lacks at most an entry that is not acknowledged.
LEMMA ViewUntold ==
  ASSUME TypeOK, InView, pc # "off", Untold, mem' = mem, log' \in Seq(Entries),
         \/ mem.phase = "prepared" /\ Heard # "user" /\ ~mem.crash
         \/ mem.phase = "running" /\ Heard # "assistant"
  PROVE  InView'
<1>1. pc' # "off" /\ tail' = tail /\ Heard' = Heard
  BY DEF Untold
<1>2. \A i \in DOMAIN log' : i > tail => i \in unacked'
  <2>1. CASE UNCHANGED <<log, unacked>>
    BY <2>1 DEF InView
  <2>2. CASE Len(log') = Len(log) + 1 /\ unacked' = unacked \union {Len(log) + 1}
    <3>1. \A i \in DOMAIN log' : i \in DOMAIN log \/ i = Len(log) + 1
      BY <2>2 DEF TypeOK
    <3> QED BY <2>2, <3>1 DEF InView
  <2> QED BY <2>1, <2>2 DEF Untold
<1> QED BY <1>1, <1>2 DEF InView

\* The two ways an attempt to say something ends.
LEMMA ViewSaid ==
  ASSUME TypeOK, TypeOK', InView, NEW r \in Roles, NEW p \in Prompts, NEW n, Say(Entry(r, p), n),
         n # "off", pc # "off", mem' = mem,
         \/ mem.phase = "prepared" /\ Heard # "user" /\ ~mem.crash
         \/ mem.phase = "running" /\ Heard # "assistant"
  PROVE  InView'
<1>1. log' \in Seq(Entries)
  BY DEF TypeOK, Entries
<1> QED BY <1>1, Telling, ViewTold, ViewUntold

\* The process knows every entry of the file that was acknowledged.
LEMMA ViewStep == ASSUME TypeOK, TypeOK', InView, InStep, [Next]_vars PROVE InView'
<1>0. mem \in States /\ disk \in States /\ NoPrompt \in Prompts /\ mem.prompt \in Prompts
      /\ {"user", "recovery", "calls", "result", "assistant"} \subseteq Roles
  BY NothingSaid DEF TypeOK, States, Roles
<1>a. pc' = "off" /\ tail' = 0 => InView'
  BY DEF InView
<1>b. mem.phase \in {"idle", "prepared", "running"}
  BY <1>0 DEF States, Phases
<1> USE DEF store, Goto, Fail
<1>1. CASE Report
  <2>1. pc = "report" /\ mem.phase # "idle"
    BY <1>1 DEF Report, InStep, Working
  <2>2. CASE Say(Entry("recovery", NoPrompt), "reported") /\ mem' = mem /\ mem.phase # "prepared"
             /\ ~(mem.phase = "running" /\ Completed)
    <3>1. mem.phase = "running" /\ Heard # "assistant"
      BY <1>b, <2>1, <2>2, HeardIs
    <3> QED BY <1>0, <2>1, <2>2, <3>1, ViewSaid
  <2>3. CASE UNCHANGED said /\ mem.phase = "prepared"
             /\ Persist([mem EXCEPT !.crash = FALSE, !.prompt.recovery = TRUE], "append")
    <3>1. mem'.phase = mem.phase /\ ~mem'.crash /\ pc' # "off"
      BY <1>0, <2>3 DEF Persist, States
    <3> QED BY <2>1, <2>3, <3>1, ViewKept
  <2>4. CASE UNCHANGED said /\ mem' = mem /\ pc' = "append"
    BY <2>1, <2>4, ViewKept
  <2> QED BY <1>1, <2>2, <2>3, <2>4 DEF Report
<1>2. CASE AppendPrompt
  <2>1. pc = "append" /\ mem' = mem
    BY <1>2 DEF AppendPrompt
  <2>2. CASE mem.phase = "prepared" /\ Say(Entry("user", mem.prompt), "appended")
    <3>1. Heard # "user" /\ ~mem.crash
      BY <2>1, <2>2 DEF InStep
    <3> QED BY <1>0, <2>1, <2>2, <3>1, ViewSaid
  <2>3. CASE UNCHANGED said /\ pc' \in {"appended", "turn"}
    BY <2>1, <2>3, ViewKept
  <2> QED BY <1>2, <2>2, <2>3 DEF AppendPrompt
<1>3. CASE StartTurn
  <2>1. pc = "turn" /\ mem' = mem /\ mem.phase = "running"
    BY <1>3 DEF StartTurn, InStep, Turning
  <2>2. CASE Heard = "calls" /\ Say(Entry("result", NoPrompt), "model")
    BY <1>0, <2>1, <2>2, ViewSaid
  <2>3. CASE UNCHANGED said /\ pc' \in {"reply", "model"}
    BY <2>1, <2>3, ViewKept
  <2> QED BY <1>0, <1>3, <2>2, <2>3, HeardIs DEF StartTurn
<1>4. CASE ModelCalls
  <2>1. pc = "model" /\ mem' = mem /\ mem.phase = "running" /\ Heard # "assistant"
    BY <1>4 DEF ModelCalls, InStep, Turning
  <2> QED BY <1>0, <1>4, <2>1, ViewSaid DEF ModelCalls
<1>5. CASE ToolResult
  <2>1. pc = "tools" /\ mem' = mem /\ mem.phase = "running" /\ Heard # "assistant"
    BY <1>5 DEF ToolResult, InStep, Turning
  <2> QED BY <1>0, <1>5, <2>1, ViewSaid DEF ToolResult
<1>6. CASE ModelAnswers
  <2>1. pc = "model" /\ mem' = mem /\ mem.phase = "running" /\ Heard # "assistant"
    BY <1>6 DEF ModelAnswers, InStep, Turning
  <2> QED BY <1>0, <1>6, <2>1, ViewSaid DEF ModelAnswers
<1>7. CASE Start
  <2>1. DOMAIN log' = 1..Len(log') /\ Len(log') \in Nat
    BY DEF TypeOK
  <2> QED BY <1>7, <2>1 DEF Start, InView
<1>8. CASE Prepare \/ PrepareWake
  <2>1. tail = Len(log) /\ pc # "off"
    BY <1>8 DEF Prepare, PrepareWake, InStep, InView
  <2> QED BY <1>8, <2>1, ViewKept DEF Prepare, PrepareWake, Persist
<1>9. CASE NextInbox
  <2>1. mem'.phase = mem.phase /\ mem'.crash = mem.crash
    BY <1>0, <1>9 DEF NextInbox, States
  <2> QED BY <1>9, <2>1, ViewKept DEF NextInbox
<1>10. CASE AcceptWake
  <2>1. mem'.phase = mem.phase /\ mem'.crash = mem.crash
    BY <1>0, <1>10 DEF AcceptWake, States
  <2> QED BY <1>10, <2>1, ViewKept DEF AcceptWake
<1>11. CASE Reported
  <2>1. mem'.phase = mem.phase /\ ~mem'.crash
    BY <1>0, <1>11 DEF Reported, Persist, States
  <2> QED BY <1>11, <2>1, ViewKept DEF Reported, Persist
<1>12. CASE Recognise
  <2>1. Heard = "user" \/ mem' = mem
    BY <1>12, HeardIs DEF Recognise
  <2>2. mem' = mem \/ mem'.phase = "running"
    BY <1>0, <1>12 DEF Recognise, MarkRunning, Persist, States
  <2> QED BY <1>12, <2>1, <2>2, ViewKept DEF Recognise, MarkRunning, Persist
<1>13. CASE Appended
  <2>1. Heard = "user"
    BY <1>13 DEF Appended, InStep
  <2>2. mem'.phase = "running"
    BY <1>0, <1>13 DEF Appended, MarkRunning, Persist, States
  <2> QED BY <1>13, <2>1, <2>2, ViewKept DEF Appended, MarkRunning, Persist
<1>14. CASE Commit
  <2>1. tail = Len(log)
    BY <1>14 DEF Commit, InStep, InView, Turning, Answered
  <2> QED BY <1>14, <2>1, ViewKept DEF Commit, Persist
<1>15. CASE Choke
  BY <1>a, <1>15, ViewKept DEF Choke, Die
<1>16. CASE CommitChokes \/ Stopped \/ Crash
  BY <1>a, <1>16 DEF CommitChokes, Stopped, Crash, Die
<1>17. CASE Started \/ Begin \/ TurnFails \/ WriteReply \/ Archive \/ Remember
  BY <1>17, ViewKept DEF Started, Begin, TurnFails, WriteReply, Archive, Remember
<1>18. CASE HandleFailure \/ Timer \/ Stopping \/ LastCheckpoint \/ InboxWakes
  BY <1>18, ViewKept DEF HandleFailure, Timer, Stopping, LastCheckpoint, InboxWakes
<1>19. CASE IgnoreWake \/ Throw \/ RequestStop \/ PostWake
  BY <1>19, ViewKept DEF IgnoreWake, Throw, RequestStop, PostWake
<1>20. ASSUME NEW m \in Messages, Post(m) PROVE InView'
  BY <1>20, Unspoken DEF Post, InView
<1>21. CASE UNCHANGED vars
  BY <1>21, Unspoken DEF vars, InView
<1> QED BY <1>1, <1>2, <1>3, <1>4, <1>5, <1>6, <1>7, <1>8, <1>9, <1>10, <1>11, <1>12, <1>13,
      <1>14, <1>15, <1>16, <1>17, <1>18, <1>19, <1>20, <1>21 DEF Next, Turn

\* Places, phases and the last entry stay in step.
LEMMA StepsInStep == ASSUME TypeOK, InView, InStep, Fitting, [Next]_vars PROVE InStep'
<1>0. /\ UNCHANGED <<log, tail>> => Heard' = Heard
      /\ Completed <=> Heard = "assistant"
      /\ TailIsPrompt => Heard = "user"
  BY HeardIs, Unspoken
<1>a. mem \in States /\ disk \in States /\ mem.phase \in {"idle", "prepared", "running"}
  BY DEF TypeOK, States, Phases
<1>b. NoPrompt \in Prompts /\ mem.prompt \in Prompts
      /\ {"user", "recovery", "calls", "result", "assistant"} \subseteq Roles
  BY <1>a, NothingSaid DEF States, Roles
<1>c. \A n : /\ Say(Entry("user", mem.prompt), n) => (pc' = n /\ Heard' = "user") \/ (pc' = "failed" /\ Heard' = Heard)
             /\ \A r \in {"recovery", "calls", "result", "assistant"} :
                  Say(Entry(r, NoPrompt), n) => (pc' = n /\ Heard' = r) \/ (pc' = "failed" /\ Heard' = Heard)
  BY <1>b, Telling DEF Told, Untold
<1> USE <1>0, <1>a DEF InStep, Places, Working, Turning, Answered, store, Goto, Fail
<1>1. CASE Recognise
  <2>1. Heard = "user" /\ mem.phase = "prepared" => TailIsPrompt
    <3> SUFFICES ASSUME Heard = "user", mem.phase = "prepared" PROVE TailIsPrompt
      OBVIOUS
    <3>1. pc # "off" /\ tail = Len(log)
      BY <1>1 DEF Recognise, InView
    <3>2. TailIs("user")
      BY <1>b, HeardIs
    <3> QED BY <3>1, <3>2 DEF Fitting, Sound, Fits, TailIsPrompt, TailIs, LastRole, RoleAt
  <2>2. pc = "recognise" /\ pc' \in {"report", "failed"} /\ UNCHANGED <<log, tail>>
    BY <1>1 DEF Recognise, MarkRunning, Persist
  <2>3. \/ mem' = [mem EXCEPT !.phase = "running"]  /\ disk' \in {disk, mem'} /\ (pc' = "report" => disk' = mem')
        \/ mem' = mem /\ disk' = disk /\ ~(mem.phase = "prepared" /\ TailIsPrompt)
    BY <1>1 DEF Recognise, MarkRunning, Persist
  <2>4. mem'.phase \in {"running", mem.phase}
    BY <2>3 DEF States
  <2> QED BY <2>1, <2>2, <2>3, <2>4 DEF States
<1>2. CASE Report
  <2>1. pc = "report" /\ disk = mem /\ mem.phase \in {"prepared", "running"}
    BY <1>2 DEF Report
  <2>2. CASE /\ ~mem.crash \/ (mem.phase = "running" /\ Completed)
             /\ pc' = "append" /\ UNCHANGED <<mem, disk, log, tail>>
    BY <2>1, <2>2
  <2>4. CASE /\ mem.phase = "prepared" /\ UNCHANGED <<log, tail>>
             /\ Persist([mem EXCEPT !.crash = FALSE, !.prompt.recovery = TRUE], "append")
    <3>1. ~mem'.crash /\ mem'.phase = mem.phase
      BY <2>4 DEF Persist, States
    <3>2. Heard' = Heard /\ Heard # "user" /\ pc' \in {"append", "failed"} /\ (pc' = "append" => disk' = mem')
      BY <2>1, <2>4 DEF Persist
    <3> HIDE <1>0
    <3> QED BY <2>1, <2>4, <3>1, <3>2
  <2>5. CASE /\ mem.phase # "prepared" /\ UNCHANGED <<mem, disk>>
             /\ Say(Entry("recovery", NoPrompt), "reported")
    <3>1. (pc' = "reported" /\ Heard' = "recovery") \/ (pc' = "failed" /\ Heard' = Heard)
      BY <2>5, <1>c
    <3> HIDE <1>0
    <3> QED BY <2>1, <2>5, <3>1
  <2> QED BY <2>2, <2>4, <2>5, <1>2 DEF Report
<1>3. CASE AppendPrompt
  <2>1. pc = "append" /\ mem' = mem /\ disk' = disk
    BY <1>3 DEF AppendPrompt
  <2>2. CASE mem.phase = "prepared" /\ Say(Entry("user", mem.prompt), "appended")
    <3>1. (pc' = "appended" /\ Heard' = "user") \/ (pc' = "failed" /\ Heard' = Heard)
      BY <2>2, <1>c
    <3> HIDE <1>0
    <3> QED BY <2>1, <2>2, <3>1
  <2>3. CASE /\ ~(mem.phase = "prepared" /\ ~TailIsPrompt) /\ UNCHANGED <<log, tail>>
             /\ pc' = IF mem.phase = "prepared" THEN "appended" ELSE "turn"
    BY <2>1, <2>3
  <2> QED BY <2>2, <2>3, <1>3 DEF AppendPrompt
<1>4. CASE Start
  BY <1>4 DEF Start, States
<1>5. CASE Started
  BY <1>5 DEF Started
<1>6. CASE Begin
  BY <1>6 DEF Begin
<1>7. CASE PrepareWake
  BY <1>7 DEF PrepareWake, Persist, States
<1>8. CASE NextInbox
  BY <1>8 DEF NextInbox, States
<1>9. CASE Prepare
  BY <1>9 DEF Prepare, Persist, States
<1>10. CASE Appended
  BY <1>10 DEF Appended, MarkRunning, Persist, States
<1>11. CASE StartTurn
  <2>1. pc = "turn" /\ UNCHANGED <<mem, disk>>
    BY <1>11 DEF StartTurn
  <2>2. CASE Heard = "calls" /\ Say(Entry("result", NoPrompt), "model")
    <3>1. (pc' = "model" /\ Heard' = "result") \/ (pc' = "failed" /\ Heard' = Heard)
      BY <2>2, <1>c
    <3>2. ~mem.crash
      BY <2>1, <2>2
    <3> HIDE <1>0
    <3> QED BY <2>1, <2>2, <3>1, <3>2
  <2>3. CASE Heard # "calls" /\ UNCHANGED <<log, tail>> /\ pc' = IF Completed THEN "reply" ELSE "model"
    BY <2>1, <2>3
  <2> QED BY <2>2, <2>3, <1>b, <1>11, HeardIs DEF StartTurn
<1>12. CASE ModelCalls
  <2>1. (pc' = "tools" /\ Heard' = "calls") \/ (pc' = "failed" /\ Heard' = Heard)
    BY <1>12, <1>c DEF ModelCalls
  <2> HIDE <1>0
  <2> QED BY <2>1, <1>12 DEF ModelCalls
<1>13. CASE ToolResult
  <2>1. (pc' = "model" /\ Heard' = "result") \/ (pc' = "failed" /\ Heard' = Heard)
    BY <1>13, <1>c DEF ToolResult
  <2> HIDE <1>0
  <2> QED BY <2>1, <1>13 DEF ToolResult
<1>14. CASE ModelAnswers
  <2>1. (pc' = "reply" /\ Heard' = "assistant") \/ (pc' = "failed" /\ Heard' = Heard)
    BY <1>14, <1>c DEF ModelAnswers
  <2> HIDE <1>0
  <2> QED BY <2>1, <1>14 DEF ModelAnswers
<1>15. CASE TurnFails
  BY <1>15 DEF TurnFails
<1>16. CASE WriteReply
  BY <1>16 DEF WriteReply
<1>17. CASE Archive
  BY <1>17 DEF Archive
<1>18. CASE Remember
  BY <1>18 DEF Remember
<1>19. CASE Commit
  BY <1>19 DEF Commit, Persist, States
<1>20. CASE HandleFailure
  BY <1>20 DEF HandleFailure
<1>21. CASE Timer
  BY <1>21 DEF Timer
<1>22. CASE Stopping
  BY <1>22 DEF Stopping
<1>23. CASE LastCheckpoint
  BY <1>23 DEF LastCheckpoint
<1>24. CASE Stopped
  BY <1>24 DEF Stopped
<1>25. CASE InboxWakes
  BY <1>25 DEF InboxWakes
<1>26. CASE AcceptWake
  BY <1>26 DEF AcceptWake, States
<1>27. CASE IgnoreWake
  BY <1>27 DEF IgnoreWake
<1>28. CASE Throw
  BY <1>28 DEF Throw
<1>29. CASE Crash \/ CommitChokes
  BY <1>29 DEF Crash, CommitChokes, Die
<1>30. CASE RequestStop
  BY <1>30 DEF RequestStop
<1>31. CASE PostWake
  BY <1>31 DEF PostWake
<1>32. ASSUME NEW m \in Messages, Post(m) PROVE InStep'
  BY <1>32 DEF Post
<1>33. CASE Choke
  BY <1>33 DEF Choke, Die
<1>34. CASE Reported
  BY <1>34 DEF Reported, Persist, States
<1>35. CASE UNCHANGED vars
  BY <1>35 DEF vars
<1> QED BY <1>1, <1>2, <1>3, <1>4, <1>5, <1>6, <1>7, <1>8, <1>9, <1>10, <1>11, <1>12, <1>13,
      <1>14, <1>15, <1>16, <1>17, <1>18, <1>19, <1>20, <1>21, <1>22, <1>23, <1>24, <1>25, <1>26,
      <1>27, <1>28, <1>29, <1>30, <1>31, <1>32, <1>33, <1>34, <1>35 DEF Next, Turn

\* A checkpoint stays sound while nothing is appended to the transcript.
LEMMA SoundStays ==
  ASSUME TypeOK, NEW s \in States, Sound(s), UNCHANGED <<log, unacked, outbox, offered>>,
         wakeFile'.id \in {wakeFile.id, 0}
  PROVE  Sound(s)'
<1>1. Fits(s)'
  BY DEF Sound, Fits, Past, IsPast, IsUser, LastUser, LastRole, RoleAt
<1>2. PromptIsOwn(s)'
  BY DEF Sound, PromptIsOwn
<1>3. WakesAreNew(s)'
  BY DEF Sound, WakesAreNew, IsUser
<1> QED BY <1>1, <1>2, <1>3 DEF Sound

\* Nor does it mind what is not a prompt, once the prompt is said.
LEMMA SoundAdds ==
  ASSUME TypeOK, NEW s \in States, Sound(s), UNCHANGED <<outbox, offered>>,
         wakeFile'.id \in {wakeFile.id, 0}, s.phase = "prepared" => LastRole # "user",
         NEW r \in Roles \ {"user"}, Writes(Entry(r, NoPrompt))
  PROVE  Sound(s)'
<1> DEFINE e == Entry(r, NoPrompt)
<1>0. Adds(e) /\ e.role = r /\ LastRole' = r /\ unacked \subseteq unacked'
  <2>1. Adds(e) /\ e.role = r
    BY Appending, WhatIsEntered, NothingSaid DEF Writes
  <2> QED BY <2>1 DEF Adds, LastRole, RoleAt, Writes
<1> HIDE DEF e
<1>1. \A i \in DOMAIN log' : IsUser(i)' => i \in DOMAIN log /\ IsUser(i) /\ log'[i] = log[i]
  BY <1>0 DEF Adds, IsUser
<1>2. \A i \in DOMAIN log : (IsUser(i)' <=> IsUser(i)) /\ i \in DOMAIN log' /\ log'[i] = log[i]
  BY <1>0 DEF Adds, IsUser
<1>3. LastRole # "user" => \A i \in DOMAIN log : IsUser(i) => i # Len(log)
  BY DEF LastRole, RoleAt, IsUser, TypeOK
<1>4. \A i \in DOMAIN log' : (i \in DOMAIN log => Past(i, s)) => Past(i, s)'
  BY <1>0, <1>1 DEF Past, IsPast
<1>5. ASSUME s.phase = "idle" PROVE Fits(s)'
  BY <1>0, <1>1, <1>4, <1>5 DEF Sound, Fits
<1>6. ASSUME s.phase = "prepared" PROVE Fits(s)'
  <2>1. \A i \in DOMAIN log : Past(i, s)
    BY <1>3, <1>6 DEF Sound, Fits, Past
  <2> QED BY <1>0, <1>1, <1>4, <1>6, <2>1 DEF Sound, Fits
<1>7. ASSUME s.phase = "running" PROVE Fits(s)'
  <2>1. PICK u \in DOMAIN log : /\ LastUser(u) /\ log[u].prompt = s.prompt
                                /\ \A i \in DOMAIN log : i # u => Past(i, s)
    BY <1>7 DEF Sound, Fits
  <2>2. LastUser(u)'
    BY <1>1, <1>2, <2>1 DEF LastUser
  <2>3. \A i \in DOMAIN log' : i # u => Past(i, s)'
    BY <1>4, <2>1
  <2> QED BY <1>2, <1>7, <2>1, <2>2, <2>3 DEF Fits
<1>8. Fits(s)'
  BY <1>5, <1>6, <1>7 DEF States, Phases
<1>9. WakesAreNew(s)' /\ PromptIsOwn(s)'
  BY <1>1 DEF Sound, WakesAreNew, PromptIsOwn
<1> QED BY <1>8, <1>9 DEF Sound

\* The ways from one sound state to the next.
Alike(s, t) == t.wake = s.wake /\ t.lastWake = s.lastWake /\ t.cycle = s.cycle

\* Other letters, another mark of a crash, another message to come.
LEMMA SoundAgain ==
  ASSUME NEW s \in States, NEW t \in States, Sound(s), Alike(s, t), t.phase = s.phase,
         s.phase # "idle" => t.inbox = s.inbox /\ t.prompt = s.prompt
  PROVE  Sound(t)
<1>1. Fits(t)
  BY DEF Sound, Fits, Past, IsPast, Alike, States, Phases
<1> QED BY <1>1 DEF Sound, PromptIsOwn, WakesAreNew, Alike, States, Phases

\* A prompt is chosen.
LEMMA SoundPrepared ==
  ASSUME TypeOK, NEW s \in States, NEW t \in States, Sound(s), Alike(s, t),
         s.phase = "idle", t.phase = "prepared", t.inbox \notin DOMAIN outbox, PromptIsOwn(t)
  PROVE  Sound(t)
BY DEF Sound, Fits, Past, IsPast, WakesAreNew, Alike

\* The prompt is in the transcript and the turn runs.
LEMMA SoundRunning ==
  ASSUME TypeOK, NEW s \in States, NEW t \in States, Sound(s), Alike(s, t), LastRole = "user",
         s.phase = "prepared", t.phase = "running", t.inbox = s.inbox, t.prompt = s.prompt
  PROVE  Sound(t)
<1>1. Len(log) \in DOMAIN log /\ IsUser(Len(log)) /\ DOMAIN log = 1..Len(log)
  BY DEF LastRole, RoleAt, IsUser, TypeOK
<1>2. LastUser(Len(log))
  BY <1>1 DEF LastUser, TypeOK
<1>3. \A i \in DOMAIN log : i # Len(log) => Past(i, t)
  BY DEF Sound, Fits, Past, IsPast, Alike
<1>4. log[Len(log)].prompt = t.prompt
  BY DEF Sound, Fits
<1>5. Fits(t)
  BY <1>1, <1>2, <1>3, <1>4 DEF Fits
<1> QED BY <1>5 DEF Sound, PromptIsOwn, WakesAreNew, Alike

\* The crash evidence is added to a prompt that is not said yet.
LEMMA SoundReported ==
  ASSUME TypeOK, NEW s \in States, NEW t \in States, Sound(s), Alike(s, t), LastRole # "user",
         s.phase = "prepared", t.phase = "prepared", t.inbox = s.inbox,
         t.prompt.kind = s.prompt.kind, t.prompt.id = s.prompt.id
  PROVE  Sound(t)
<1>1. Fits(t)
  BY DEF Sound, Fits, Past, IsPast, Alike
<1> QED BY <1>1 DEF Sound, PromptIsOwn, WakesAreNew, Alike

\* The cycle is committed: its prompt belongs to the past.
LEMMA SoundCommitted ==
  ASSUME TypeOK, NEW s \in States, NEW t \in States, Sound(s), LastRole # "user",
         s.phase = "running", t.phase = "idle", s.inbox = 0 \/ s.inbox \in DOMAIN outbox,
         t.cycle = s.cycle + 1, t.wake = 0, t.lastWake = s.lastWake
  PROVE  Sound(t)
<1>1. PICK u \in DOMAIN log : /\ LastUser(u) /\ log[u].prompt = s.prompt
                              /\ \A i \in DOMAIN log : i # u => Past(i, s)
  BY DEF Sound, Fits
<1>2. \A i \in DOMAIN log : log[i].prompt.id \in Nat
  BY EntryTypes DEF Entries, Prompts
<1>3. s.cycle \in Nat
  BY DEF States
<1>4. IsPast(log[u].prompt, t)
  BY <1>1, <1>3 DEF Sound, PromptIsOwn, IsPast
<1>5. ASSUME NEW i \in DOMAIN log, i # u PROVE Past(i, t)
  <2>1. IsUser(i) /\ log[i].prompt.kind = "wake" => log[i].prompt.id # 0
    BY <1>5 DEF Sound, WakesAreNew
  <2>2. Past(i, s)
    BY <1>1, <1>5
  <2> QED BY <1>2, <1>3, <2>1, <2>2 DEF Past, IsPast
<1>6. Fits(t)
  BY <1>4, <1>5 DEF Fits, Past
<1> QED BY <1>6 DEF Sound, PromptIsOwn, WakesAreNew

\* A wake command is accepted.
LEMMA SoundWoken ==
  ASSUME TypeOK, WakesAreKnown, NEW s \in States, NEW t \in States, Sound(s),
         s.phase = "idle", t.phase = "idle", t.cycle = s.cycle, wakeFile.id # s.lastWake,
         t.wake = wakeFile.id, t.lastWake = wakeFile.id
  PROVE  Sound(t)
<1>1. \A i \in DOMAIN log : IsUser(i) /\ log[i].prompt.kind = "wake" => log[i].prompt.id # wakeFile.id
  BY DEF Sound, WakesAreNew
<1>2. Fits(t)
  BY <1>1 DEF Sound, Fits, Past, IsPast
<1>3. wakeFile.id <= offered
  BY DEF WakesAreKnown, TypeOK
<1> QED BY <1>2, <1>3 DEF Sound, PromptIsOwn, WakesAreNew

\* Nothing is said and the last command is the last one.
Quiet == UNCHANGED <<log, unacked, outbox, offered>> /\ wakeFile'.id \in {wakeFile.id, 0}

\* Nothing is said.
LEMMA QuietStep ==
  ASSUME TypeOK, TypeOK', Fitting, Quiet, pc' # "off" => Sound(mem'), Sound(disk')
  PROVE  Sound(disk)' /\ (pc' # "off" => Sound(mem)')
<1>1. \A s \in States : Sound(s) => Sound(s)'
  BY SoundStays DEF Quiet
<1> QED BY <1>1 DEF TypeOK

\* Something is said that is not a prompt, or the attempt changes nothing.
LEMMA SpokenStep ==
  ASSUME TypeOK, TypeOK', Fitting, UNCHANGED <<outbox, offered>>, wakeFile'.id \in {wakeFile.id, 0},
         NEW r \in Roles \ {"user"}, Writes(Entry(r, NoPrompt)) \/ UNCHANGED <<log, unacked>>,
         Sound(mem'), Sound(disk'),
         mem'.phase = "prepared" \/ disk'.phase = "prepared" => LastRole # "user"
  PROVE  Sound(disk)' /\ Sound(mem)'
<1>1. \A s \in States : Sound(s) /\ (s.phase = "prepared" => LastRole # "user") => Sound(s)'
  BY SoundAdds, SoundStays
<1> QED BY <1>1 DEF TypeOK

\* The transcript is repaired.
LEMMA RepairedStep ==
  ASSUME TypeOK, TypeOK', Fitting, UNCHANGED <<outbox, offered>>, wakeFile'.id \in {wakeFile.id, 0},
         log' = Repaired, tail' = Len(log'), unacked' = unacked, Sound(mem'), Sound(disk')
  PROVE  Sound(disk)' /\ Sound(mem)'
<1>1. CASE LastRole = "calls"
  <2>1. "result" \in Roles \ {"user"} /\ Writes(Entry("result", NoPrompt))
    BY <1>1, Repairing DEF Roles
  <2> QED BY <1>1, <2>1, SpokenStep
<1>2. CASE LastRole # "calls"
  <2>1. log' = log
    BY <1>2, Repairing
  <2>2. \A s \in States : Sound(s) => Sound(s)'
    BY <2>1, SoundStays
  <2> QED BY <2>2 DEF TypeOK
<1> QED BY <1>1, <1>2

\* What the process may be about to say is in the file at its end and not
\* acknowledged, or it is new.
LEMMA AllIsPast ==
  ASSUME TypeOK, InView, pc # "off", NEW s \in States, Sound(s), s.phase = "prepared", Heard # "user"
  PROVE  \A i \in DOMAIN log : Past(i, s)
<1> SUFFICES ASSUME NEW i \in DOMAIN log, IsUser(i), i \notin unacked PROVE IsPast(log[i].prompt, s)
  BY DEF Past
<1>1. i # Len(log)
  <2> SUFFICES ASSUME i = Len(log) PROVE FALSE
    OBVIOUS
  <2>1. ~(i > tail) /\ tail \in 0..Len(log) /\ i \in Nat \ {0}
    BY DEF InView, TypeOK
  <2>2. tail = i
    BY <2>1
  <2> QED BY <2>1, <2>2 DEF Heard, RoleAt, IsUser
<1> QED BY <1>1 DEF Sound, Fits, Past

\* The prompt is said.
LEMMA SoundPrompted ==
  ASSUME TypeOK, NEW s \in States, Sound(s), s.phase = "prepared", \A i \in DOMAIN log : Past(i, s),
         UNCHANGED <<outbox, offered, wakeFile>>, Writes(Entry("user", s.prompt))
  PROVE  Sound(s)'
<1> DEFINE e == Entry("user", s.prompt)
<1>0. Adds(e) /\ e.role = "user" /\ e.prompt = s.prompt /\ unacked \subseteq unacked'
  <2>1. "user" \in Roles /\ s.prompt \in Prompts
    BY DEF Roles, States
  <2> QED BY <2>1, Appending, WhatIsEntered DEF Writes
<1> HIDE DEF e
<1>1. \A i \in DOMAIN log' : i = Len(log') \/ (i \in DOMAIN log /\ log'[i] = log[i])
  BY <1>0 DEF Adds
<1>2. log'[Len(log')] = e
  BY <1>0 DEF Adds
<1>3. \A i \in DOMAIN log' : i # Len(log') => Past(i, s)'
  BY <1>0, <1>1 DEF Past, IsPast, IsUser
<1>4. Fits(s)'
  BY <1>0, <1>2, <1>3 DEF Sound, Fits
<1>5. s.prompt.kind = "wake" => s.prompt.id = s.lastWake /\ s.prompt.id \in 1..offered
  <2>1. s.wake \in {0, s.lastWake} /\ s.lastWake <= offered
        /\ (s.prompt.kind = "wake" => s.prompt.id = s.wake /\ s.wake # 0)
    BY DEF Sound, PromptIsOwn, WakesAreNew
  <2>2. s.lastWake \in Nat /\ offered \in Nat
    BY DEF States, TypeOK
  <2> QED BY <2>1, <2>2
<1>6. WakesAreNew(s)'
  BY <1>0, <1>1, <1>2, <1>5 DEF Sound, WakesAreNew, IsUser
<1> QED BY <1>4, <1>6 DEF Sound, PromptIsOwn

\* The reply is in the outbox.
LEMMA SoundReplied ==
  ASSUME TypeOK, NEW s \in States, Sound(s), s.phase = "running",
         UNCHANGED <<log, unacked, offered, wakeFile>>, DOMAIN outbox \subseteq DOMAIN outbox'
  PROVE  Sound(s)'
<1>1. Fits(s)'
  BY DEF Sound, Fits, Past, IsPast, IsUser, LastUser, LastRole, RoleAt
<1> QED BY <1>1 DEF Sound, PromptIsOwn, WakesAreNew, IsUser

\* A new wake command has an id that was never said.
LEMMA SoundOffered ==
  ASSUME TypeOK, NEW s \in States, Sound(s),
         UNCHANGED <<log, unacked, outbox>>, offered' = offered + 1, wakeFile'.id = offered + 1
  PROVE  Sound(s)'
<1>1. Fits(s)'
  BY DEF Sound, Fits, Past, IsPast, IsUser, LastUser, LastRole, RoleAt
<1>2. offered \in Nat /\ s.lastWake \in Nat
  BY DEF TypeOK, States
<1>3. \A i \in DOMAIN log : IsUser(i) /\ log[i].prompt.kind = "wake" => log[i].prompt.id \in 1..offered
  BY DEF Sound, WakesAreNew
<1>4. WakesAreNew(s)'
  BY <1>2, <1>3 DEF Sound, WakesAreNew, IsUser
<1> QED BY <1>1, <1>4 DEF Sound, PromptIsOwn

\* What is on disk and in memory stays sound.
LEMMA SoundStep ==
  ASSUME TypeOK, TypeOK', InView, InStep, Fitting, Filed, [Next]_vars
  PROVE  Sound(disk)' /\ (pc' # "off" => Sound(mem)')
<1>0. mem \in States /\ disk \in States /\ mem' \in States /\ disk' \in States
  BY DEF TypeOK
<1>a. Sound(disk) /\ (pc # "off" => Sound(mem)) /\ WakesAreKnown
  BY DEF Fitting
<1>b. NoPrompt \in Prompts /\ mem.prompt \in Prompts /\ "user" \in Roles
      /\ {"recovery", "calls", "result", "assistant"} \subseteq Roles \ {"user"}
  BY <1>0, NothingSaid DEF Roles, States
<1>1. CASE Started
  <2>1. Quiet
    BY <1>1 DEF Started, Quiet, store, mail, clients
  <2>2. Sound(disk') /\ (pc' # "off" => Sound(mem'))
    BY <1>a, <1>1 DEF Started, store, Goto, NoWake, Fail
  <2> QED BY <1>0, <2>1, <2>2, QuietStep
<1>2. CASE Begin
  <2>1. Quiet
    BY <1>2 DEF Begin, Quiet, store, mail, clients
  <2>2. Sound(disk') /\ (pc' # "off" => Sound(mem'))
    BY <1>a, <1>2 DEF Begin, store, Goto, NoWake, Fail
  <2> QED BY <1>0, <2>1, <2>2, QuietStep
<1>3. CASE Throw
  <2>1. Quiet
    BY <1>3 DEF Throw, Quiet, store, mail, clients
  <2>2. Sound(disk') /\ (pc' # "off" => Sound(mem'))
    BY <1>a, <1>3 DEF Throw, store, Goto, NoWake, Fail
  <2> QED BY <1>0, <2>1, <2>2, QuietStep
<1>4. CASE HandleFailure
  <2>1. Quiet
    BY <1>4 DEF HandleFailure, Quiet, store, mail, clients
  <2>2. Sound(disk') /\ (pc' # "off" => Sound(mem'))
    BY <1>a, <1>4 DEF HandleFailure, store, Goto, NoWake, Fail
  <2> QED BY <1>0, <2>1, <2>2, QuietStep
<1>5. CASE Timer
  <2>1. Quiet
    BY <1>5 DEF Timer, Quiet, store, mail, clients
  <2>2. Sound(disk') /\ (pc' # "off" => Sound(mem'))
    BY <1>a, <1>5 DEF Timer, store, Goto, NoWake, Fail
  <2> QED BY <1>0, <2>1, <2>2, QuietStep
<1>6. CASE Stopping
  <2>1. Quiet
    BY <1>6 DEF Stopping, Quiet, store, mail, clients
  <2>2. Sound(disk') /\ (pc' # "off" => Sound(mem'))
    BY <1>a, <1>6 DEF Stopping, store, Goto, NoWake, Fail
  <2> QED BY <1>0, <2>1, <2>2, QuietStep
<1>7. CASE LastCheckpoint
  <2>1. Quiet
    BY <1>7 DEF LastCheckpoint, Quiet, store, mail, clients
  <2>2. Sound(disk') /\ (pc' # "off" => Sound(mem'))
    BY <1>a, <1>7 DEF LastCheckpoint, store, Goto, NoWake, Fail
  <2> QED BY <1>0, <2>1, <2>2, QuietStep
<1>8. CASE Stopped
  <2>1. Quiet
    BY <1>8 DEF Stopped, Quiet, store, mail, clients
  <2>2. Sound(disk') /\ (pc' # "off" => Sound(mem'))
    BY <1>a, <1>8 DEF Stopped, store, Goto, NoWake, Fail
  <2> QED BY <1>0, <2>1, <2>2, QuietStep
<1>9. CASE InboxWakes
  <2>1. Quiet
    BY <1>9 DEF InboxWakes, Quiet, store, mail, clients
  <2>2. Sound(disk') /\ (pc' # "off" => Sound(mem'))
    BY <1>a, <1>9 DEF InboxWakes, store, Goto, NoWake, Fail
  <2> QED BY <1>0, <2>1, <2>2, QuietStep
<1>10. CASE IgnoreWake
  <2>1. Quiet
    BY <1>10 DEF IgnoreWake, Quiet, store, mail, clients, NoWake
  <2>2. Sound(disk') /\ (pc' # "off" => Sound(mem'))
    BY <1>a, <1>10 DEF IgnoreWake, store, Goto, NoWake, Fail
  <2> QED BY <1>0, <2>1, <2>2, QuietStep
<1>11. CASE Crash \/ Choke \/ CommitChokes
  <2>1. Quiet
    BY <1>11 DEF Crash, Choke, CommitChokes, Die, Quiet, store, mail, clients
  <2>2. Sound(disk') /\ (pc' # "off" => Sound(mem'))
    BY <1>a, <1>11 DEF Crash, Choke, CommitChokes, Die, Goto
  <2> QED BY <1>0, <2>1, <2>2, QuietStep
<1>12. CASE RequestStop
  <2>1. Quiet
    BY <1>12 DEF RequestStop, Quiet, store, mail, clients
  <2>2. Sound(disk') /\ (pc' # "off" => Sound(mem'))
    BY <1>a, <1>12 DEF RequestStop, store, Goto, NoWake, Fail
  <2> QED BY <1>0, <2>1, <2>2, QuietStep
<1>13. ASSUME NEW m \in Messages, Post(m) PROVE Sound(disk)' /\ (pc' # "off" => Sound(mem)')
  <2>1. Quiet
    BY <1>13 DEF Post, Quiet, store, mail, clients
  <2>2. Sound(disk') /\ (pc' # "off" => Sound(mem'))
    BY <1>a, <1>13 DEF Post, store, Goto, NoWake, Fail
  <2> QED BY <1>0, <2>1, <2>2, QuietStep
<1>14. CASE Archive
  <2>1. Quiet
    BY <1>14 DEF Archive, Quiet, store, mail, clients
  <2>2. Sound(disk') /\ (pc' # "off" => Sound(mem'))
    BY <1>a, <1>14 DEF Archive, store, Goto, NoWake, Fail
  <2> QED BY <1>0, <2>1, <2>2, QuietStep
<1>15. CASE Remember
  <2>1. Quiet
    BY <1>15 DEF Remember, Quiet, store, mail, clients
  <2>2. Sound(disk') /\ (pc' # "off" => Sound(mem'))
    BY <1>a, <1>15 DEF Remember, store, Goto, NoWake, Fail
  <2> QED BY <1>0, <2>1, <2>2, QuietStep
<1>16. CASE PrepareWake
  <2>1. Quiet
    BY <1>16 DEF PrepareWake, Persist, Quiet, store, mail, clients
  <2> DEFINE t == [mem EXCEPT !.inbox = 0, !.prompt = Said("wake", mem.wake), !.phase = "prepared"]
  <2>3. pc = "prepare" /\ mem.wake # 0 /\ mem.phase = "idle" /\ mem' = t /\ disk' \in {disk, t}
    BY <1>16 DEF PrepareWake, Persist, InStep
  <2>4. t.phase = "prepared" /\ Alike(mem, t) /\ t.inbox = 0 /\ t.prompt = Said("wake", mem.wake)
    BY <1>0 DEF Alike, States
  <2>5. PromptIsOwn(t)
    BY <1>0, <2>3, <2>4, WhatIsSaid DEF PromptIsOwn, Alike, States, Kinds
  <2>6. t.inbox \notin DOMAIN outbox
    BY <2>4, Numbered DEF TypeOK
  <2> HIDE DEF t
  <2>2. Sound(disk') /\ (pc' # "off" => Sound(mem'))
    BY <1>0, <1>a, <2>3, <2>4, <2>5, <2>6, SoundPrepared
  <2> QED BY <1>0, <2>1, <2>2, QuietStep
<1>17. CASE NextInbox
  <2>1. Quiet
    BY <1>17 DEF NextInbox, Quiet, store, mail, clients
  <2>3. pc = "prepare" /\ mem.phase = "idle" /\ disk' = disk
    BY <1>17 DEF NextInbox, InStep, store
  <2>4. mem'.phase = "idle" /\ Alike(mem, mem')
    BY <1>0, <2>3, <1>17 DEF NextInbox, Alike, States
  <2>2. Sound(disk') /\ (pc' # "off" => Sound(mem'))
    BY <1>0, <1>a, <2>3, <2>4, SoundAgain
  <2> QED BY <1>0, <2>1, <2>2, QuietStep
<1>18. CASE Prepare
  <2>1. Quiet
    BY <1>18 DEF Prepare, Persist, Quiet, store, mail, clients
  <2>3. PICK m : pc = "letters" /\ mem.phase = "idle" /\ mem' = m /\ disk' \in {disk, m} /\ mem.inbox \notin DOMAIN outbox
    BY <1>18 DEF Prepare, Persist, InStep, Fitting
  <2>4. \/ m.phase = "idle" /\ Alike(mem, m)
        \/ m.phase = "prepared" /\ Alike(mem, m) /\ m.inbox = mem.inbox /\ PromptIsOwn(m)
    <3> DEFINE p == IF mem.inbox = 0 THEN Said("work", mem.cycle + 1) ELSE Said("message", mem.inbox)
    <3>1. /\ p \in Prompts
          /\ \/ p.kind = "message" /\ p.id = mem.inbox /\ mem.inbox # 0
             \/ p.kind = "work" /\ p.id = mem.cycle + 1 /\ mem.inbox = 0
      <4>1. mem.cycle \in Nat /\ mem.inbox \in Messages \union {0}
        BY <1>0 DEF States
      <4>2. mem.cycle + 1 \in Nat /\ mem.inbox \in Nat
        BY <4>1, Numbered
      <4>3. {"work", "message"} \subseteq Kinds
        BY DEF Kinds
      <4> QED BY <4>2, <4>3, WhatIsSaid
    <3>2. PICK l : \/ m = [mem EXCEPT !.letter = l]
                   \/ m = [[mem EXCEPT !.letter = l] EXCEPT !.phase = "prepared",
                             !.prompt = IF l = mem.letter THEN p ELSE [p EXCEPT !.letter = l]]
      BY <2>3, <1>18 DEF Prepare, Persist
    <3> HIDE DEF p
    <3>3. CASE m = [mem EXCEPT !.letter = l]
      BY <1>0, <2>3, <3>3 DEF Alike, States
    <3>4. CASE m = [[mem EXCEPT !.letter = l] EXCEPT !.phase = "prepared",
                      !.prompt = IF l = mem.letter THEN p ELSE [p EXCEPT !.letter = l]]
      <4>1. m.phase = "prepared" /\ m.inbox = mem.inbox /\ Alike(mem, m)
        BY <1>0, <2>3, <3>4 DEF Alike, States
      <4>2. m.prompt.kind = p.kind /\ m.prompt.id = p.id
        BY <1>0, <3>1, <3>4 DEF States, Prompts
      <4> QED BY <3>1, <4>1, <4>2 DEF PromptIsOwn, Alike
    <3> QED BY <3>2, <3>3, <3>4
  <2>2. Sound(disk') /\ (pc' # "off" => Sound(mem'))
    BY <1>0, <1>a, <2>3, <2>4, SoundAgain, SoundPrepared
  <2> QED BY <1>0, <2>1, <2>2, QuietStep
<1>19. CASE Recognise
  <2>1. Quiet
    BY <1>19 DEF Recognise, MarkRunning, Persist, Quiet, store, mail, clients
  <2> DEFINE t == [mem EXCEPT !.phase = "running"]
  <2>6. Heard = "user" /\ mem.phase = "prepared" => LastRole = "user"
    BY <1>19 DEF Recognise, InView, Heard, LastRole
  <2>3. \/ mem' = mem /\ disk' = disk
        \/ mem' = t /\ disk' \in {disk, t} /\ LastRole = "user" /\ mem.phase = "prepared"
    BY <1>19, <2>6, HeardIs DEF Recognise, MarkRunning, Persist, InStep
  <2>4. t.phase = "running" /\ Alike(mem, t) /\ t.inbox = mem.inbox /\ t.prompt = mem.prompt
    BY <1>0 DEF Alike, States
  <2> HIDE DEF t
  <2>5. pc # "off"
    BY <1>19 DEF Recognise
  <2>2. Sound(disk') /\ (pc' # "off" => Sound(mem'))
    BY <1>0, <1>a, <2>3, <2>4, <2>5, SoundRunning
  <2> QED BY <1>0, <2>1, <2>2, QuietStep
<1>20. CASE Appended
  <2>1. Quiet
    BY <1>20 DEF Appended, MarkRunning, Persist, Quiet, store, mail, clients
  <2> DEFINE t == [mem EXCEPT !.phase = "running"]
  <2>6. Heard = "user" /\ mem.phase = "prepared" => LastRole = "user"
    BY <1>20 DEF Appended, InView, Heard, LastRole
  <2>3. \/ mem' = mem /\ disk' = disk
        \/ mem' = t /\ disk' \in {disk, t} /\ LastRole = "user" /\ mem.phase = "prepared"
    BY <1>20, <2>6 DEF Appended, MarkRunning, Persist, InStep
  <2>4. t.phase = "running" /\ Alike(mem, t) /\ t.inbox = mem.inbox /\ t.prompt = mem.prompt
    BY <1>0 DEF Alike, States
  <2> HIDE DEF t
  <2>5. pc # "off"
    BY <1>20 DEF Appended
  <2>2. Sound(disk') /\ (pc' # "off" => Sound(mem'))
    BY <1>0, <1>a, <2>3, <2>4, <2>5, SoundRunning
  <2> QED BY <1>0, <2>1, <2>2, QuietStep
<1>21. CASE Commit
  <2>1. Quiet
    BY <1>21 DEF Commit, Persist, Quiet, store, mail, clients
  <2>3. pc = "commit" /\ disk' \in {disk, mem'} /\ mem'.phase = "idle" /\ mem'.cycle = mem.cycle + 1
        /\ mem'.wake = 0 /\ mem'.lastWake = mem.lastWake
    BY <1>0, <1>21 DEF Commit, Persist, States
  <2>5. mem.phase = "running" /\ Heard = "assistant" /\ tail = Len(log)
    BY <2>3 DEF InStep, InView, Turning, Answered
  <2>4. mem.phase = "running" /\ LastRole # "user" /\ (mem.inbox = 0 \/ mem.inbox \in DOMAIN outbox)
    BY <2>3, <2>5 DEF Heard, LastRole, Filed
  <2>2. Sound(disk') /\ (pc' # "off" => Sound(mem'))
    BY <1>0, <1>a, <2>3, <2>4, SoundCommitted
  <2> QED BY <1>0, <2>1, <2>2, QuietStep
<1>22. CASE AcceptWake
  <2>1. Quiet
    BY <1>22 DEF AcceptWake, Quiet, store, mail, clients, NoWake
  <2>3. pc = "wait" /\ disk' \in {disk, mem'} /\ wakeFile.id # mem.lastWake /\ mem.phase = "idle"
        /\ mem' = [mem EXCEPT !.wake = wakeFile.id, !.lastWake = wakeFile.id]
    BY <1>22 DEF AcceptWake, InStep
  <2>4. mem'.phase = "idle" /\ mem'.cycle = mem.cycle /\ mem'.wake = wakeFile.id /\ mem'.lastWake = wakeFile.id
    BY <1>0, <2>3 DEF States
  <2>2. Sound(disk') /\ (pc' # "off" => Sound(mem'))
    BY <1>0, <1>a, <2>3, <2>4, SoundWoken
  <2> QED BY <1>0, <2>1, <2>2, QuietStep
<1>23. CASE Start
  <2>1. /\ mem' = [disk EXCEPT !.crash = disk.crash \/ running] /\ disk' = disk /\ log' = Repaired
        /\ tail' = Len(log') /\ UNCHANGED <<unacked, outbox, offered>> /\ wakeFile'.id = wakeFile.id
    BY <1>23 DEF Start, mail, TypeOK
  <2>2. Alike(disk, mem') /\ mem'.phase = disk.phase /\ mem'.inbox = disk.inbox /\ mem'.prompt = disk.prompt
    BY <1>0, <2>1 DEF Alike, States
  <2>3. Sound(mem')
    BY <1>0, <1>a, <2>2, SoundAgain
  <2> QED BY <1>a, <2>1, <2>3, RepairedStep
<1>24. CASE ModelCalls
  <2>1. /\ "calls" \in Roles \ {"user"}
        /\ Writes(Entry("calls", NoPrompt)) \/ UNCHANGED <<log, unacked>>
        /\ UNCHANGED <<mem, disk, outbox, offered, wakeFile>>
    BY <1>24, <1>b, Telling DEF ModelCalls, mail, clients
  <2>2. pc \in Turning
    BY <1>24 DEF ModelCalls, Turning
  <2>3. mem.phase = "running" /\ disk = mem /\ pc # "off"
    BY <2>2 DEF InStep, Turning, Answered, Working
  <2> QED BY <1>a, <2>1, <2>3, SpokenStep
<1>25. CASE ToolResult
  <2>1. /\ "result" \in Roles \ {"user"}
        /\ Writes(Entry("result", NoPrompt)) \/ UNCHANGED <<log, unacked>>
        /\ UNCHANGED <<mem, disk, outbox, offered, wakeFile>>
    BY <1>25, <1>b, Telling DEF ToolResult, mail, clients
  <2>2. pc \in Turning
    BY <1>25 DEF ToolResult, Turning
  <2>3. mem.phase = "running" /\ disk = mem /\ pc # "off"
    BY <2>2 DEF InStep, Turning, Answered, Working
  <2> QED BY <1>a, <2>1, <2>3, SpokenStep
<1>26. CASE ModelAnswers
  <2>1. /\ "assistant" \in Roles \ {"user"}
        /\ Writes(Entry("assistant", NoPrompt)) \/ UNCHANGED <<log, unacked>>
        /\ UNCHANGED <<mem, disk, outbox, offered, wakeFile>>
    BY <1>26, <1>b, Telling DEF ModelAnswers, mail, clients
  <2>2. pc \in Turning
    BY <1>26 DEF ModelAnswers, Turning
  <2>3. mem.phase = "running" /\ disk = mem /\ pc # "off"
    BY <2>2 DEF InStep, Turning, Answered, Working
  <2> QED BY <1>a, <2>1, <2>3, SpokenStep
<1>27. CASE StartTurn
  <2>1. /\ "result" \in Roles \ {"user"}
        /\ Writes(Entry("result", NoPrompt)) \/ UNCHANGED <<log, unacked>>
        /\ UNCHANGED <<mem, disk, outbox, offered, wakeFile>>
    BY <1>27, <1>b, Telling DEF StartTurn, mail, clients
  <2>2. pc \in Turning
    BY <1>27 DEF StartTurn, Turning
  <2>3. mem.phase = "running" /\ disk = mem /\ pc # "off"
    BY <2>2 DEF InStep, Turning, Answered, Working
  <2> QED BY <1>a, <2>1, <2>3, SpokenStep
<1>28. CASE TurnFails
  <2>1. Quiet
    BY <1>28 DEF TurnFails, Quiet, store, mail, clients
  <2>2. Sound(disk') /\ (pc' # "off" => Sound(mem'))
    BY <1>a, <1>28 DEF TurnFails, store, Goto
  <2> QED BY <1>0, <2>1, <2>2, QuietStep
<1>29. CASE Report
  <2>1. UNCHANGED <<outbox, offered, wakeFile>> /\ pc = "report" /\ disk = mem /\ disk' \in {disk, mem'}
    BY <1>29 DEF Report, Persist, store, mail, clients, InStep, Working
  <2>2. CASE mem' = mem /\ UNCHANGED said
    BY <1>a, <2>1, <2>2, QuietStep DEF Quiet
  <2>3. CASE mem.crash /\ mem.phase = "prepared" /\ UNCHANGED said
             /\ mem' = [mem EXCEPT !.crash = FALSE, !.prompt.recovery = TRUE]
    <3>1. mem'.phase = "prepared" /\ mem'.inbox = mem.inbox /\ Alike(mem, mem')
      BY <1>0, <2>3 DEF Alike, States
    <3>2. mem'.prompt.kind = mem.prompt.kind /\ mem'.prompt.id = mem.prompt.id
      BY <1>0, <2>3 DEF States, Prompts
    <3>3. LastRole # "user"
      <4>1. Heard # "user" /\ tail = Len(log)
        BY <2>1, <2>3 DEF InStep, InView
      <4> QED BY <4>1 DEF Heard, LastRole
    <3>4. Sound(mem')
      BY <1>0, <1>a, <2>1, <2>3, <3>1, <3>2, <3>3, SoundReported
    <3> QED BY <1>a, <2>1, <2>3, <3>4, QuietStep DEF Quiet
  <2>4. CASE mem.phase # "prepared" /\ mem' = mem /\ Say(Entry("recovery", NoPrompt), "reported")
    <3>1. Writes(Entry("recovery", NoPrompt)) \/ UNCHANGED <<log, unacked>>
      BY <1>b, <2>4, Telling
    <3> QED BY <1>a, <1>b, <2>1, <2>4, <3>1, SpokenStep
  <2> QED BY <2>2, <2>3, <2>4, <1>29 DEF Report, Persist, store
<1>30. CASE AppendPrompt
  <2>1. UNCHANGED <<mem, disk, outbox, offered, wakeFile>> /\ pc = "append" /\ disk = mem
    BY <1>30 DEF AppendPrompt, mail, clients, InStep, Working
  <2>2. CASE UNCHANGED <<log, unacked>>
    BY <1>a, <2>1, <2>2, QuietStep DEF Quiet
  <2>3. CASE mem.phase = "prepared" /\ Writes(Entry("user", mem.prompt))
    <3>1. Heard # "user"
      BY <2>1, <2>3 DEF InStep
    <3>2. \A i \in DOMAIN log : Past(i, mem)
      BY <1>0, <1>a, <2>1, <2>3, <3>1, AllIsPast
    <3>3. Sound(mem)'
      BY <1>0, <1>a, <2>1, <2>3, <3>2, SoundPrompted
    <3> QED BY <2>1, <3>3
  <2>4. Writes(Entry("user", mem.prompt)) \/ UNCHANGED <<log, unacked>>
    BY <1>30, <1>b, Telling DEF AppendPrompt
  <2> QED BY <2>2, <2>3, <2>4, <1>30 DEF AppendPrompt
<1>31. CASE WriteReply
  <2>1. UNCHANGED <<mem, disk, log, unacked, offered, wakeFile>> /\ pc = "reply" /\ DOMAIN outbox \subseteq DOMAIN outbox'
    BY <1>31 DEF WriteReply, store, clients
  <2>2. mem.phase = "running" /\ disk = mem
    BY <2>1 DEF InStep, Turning, Answered, Working
  <2>3. Sound(mem)'
    BY <1>0, <1>a, <2>1, <2>2, SoundReplied
  <2> QED BY <2>1, <2>2, <2>3
<1>32. CASE PostWake
  <2>1. UNCHANGED <<mem, disk, log, unacked, outbox>> /\ offered' = offered + 1 /\ wakeFile'.id = offered + 1
        /\ pc = "wait"
    BY <1>32 DEF PostWake, store, mail
  <2> QED BY <1>0, <1>a, <2>1, SoundOffered
<1>34. CASE Reported
  <2>1. Quiet
    BY <1>34 DEF Reported, Persist, Quiet, store, mail, clients
  <2>3. pc = "reported" /\ mem' = [mem EXCEPT !.crash = FALSE] /\ disk' \in {disk, mem'}
    BY <1>34 DEF Reported, Persist
  <2>4. Alike(mem, mem') /\ mem'.phase = mem.phase /\ mem'.inbox = mem.inbox /\ mem'.prompt = mem.prompt
    BY <1>0, <2>3 DEF Alike, States
  <2>2. Sound(disk') /\ (pc' # "off" => Sound(mem'))
    BY <1>0, <1>a, <2>3, <2>4, SoundAgain
  <2> QED BY <1>0, <2>1, <2>2, QuietStep
<1>33. CASE UNCHANGED vars
  <2>1. Quiet /\ UNCHANGED <<pc, mem, disk>>
    BY <1>33 DEF vars, Quiet, store, mail, clients
  <2> QED BY <1>a, <2>1, QuietStep
<1> QED BY <1>1, <1>2, <1>3, <1>4, <1>5, <1>6, <1>7, <1>8, <1>9, <1>10, <1>11, <1>12, <1>13,
    <1>14, <1>15, <1>16, <1>17, <1>18, <1>19, <1>20, <1>21, <1>22, <1>23, <1>24, <1>25, <1>26,
    <1>27, <1>28, <1>29, <1>30, <1>31, <1>32, <1>33, <1>34 DEF Next, Turn

\* A message that is about to become a prompt has no reply.
LEMMA LettersFit ==
  ASSUME TypeOK, TypeOK', Fitting, [Next]_vars
  PROVE  /\ WakesAreKnown'
         /\ (pc = "letters" => mem.inbox \notin DOMAIN outbox /\ mem.wake = 0)'
<1> USE DEF Fitting, WakesAreKnown, mail, clients, Goto, NoWake
<1>1. CASE NextInbox
  <2> DEFINE waiting == inbox \ (DOMAIN outbox \union Malformed)
  <2>1. waiting \in SUBSET Nat
    BY Numbered DEF TypeOK
  <2>2. waiting # {} => Min(waiting) \in waiting
    BY <2>1, Smallest
  <2>3. /\ mem' = [mem EXCEPT !.inbox = IF waiting = {} THEN 0 ELSE Min(waiting)] /\ mem.wake = 0
        /\ UNCHANGED <<outbox, wakeFile, offered>>
    BY <1>1 DEF NextInbox
  <2>4. mem'.inbox \in waiting \union {0} /\ mem'.wake = 0
    <3> HIDE DEF waiting
    <3> QED BY <2>2, <2>3 DEF TypeOK, States
  <2>5. mem'.inbox \notin DOMAIN outbox
    BY <2>4, Numbered DEF TypeOK
  <2> QED BY <2>3, <2>4, <2>5
<1>2. CASE Start
  BY <1>2 DEF Start, TypeOK
<1>3. CASE Begin
  BY <1>3 DEF Begin, TypeOK
<1>4. CASE PostWake
  BY <1>4 DEF PostWake, TypeOK
<1>5. CASE AcceptWake
  BY <1>5 DEF AcceptWake
<1>6. CASE IgnoreWake
  BY <1>6 DEF IgnoreWake
<1>7. CASE PrepareWake
  BY <1>7 DEF PrepareWake, Persist, Goto, Fail
<1>8. CASE Prepare
  BY <1>8 DEF Prepare, Persist, Goto, Fail
<1>9. CASE Commit
  BY <1>9 DEF Commit, Persist, Goto, Fail
<1>10. CASE Started \/ Recognise \/ Report
  BY <1>10 DEF Started, Recognise, MarkRunning, Persist, Goto, Fail, Report, Say
<1>11. CASE AppendPrompt \/ Appended \/ StartTurn
  BY <1>11 DEF AppendPrompt, Appended, MarkRunning, Persist, Goto, Fail, StartTurn, Say
<1>12. CASE ModelCalls \/ ToolResult \/ ModelAnswers
  BY <1>12 DEF ModelCalls, ToolResult, ModelAnswers, Say, Fail
<1>13. CASE TurnFails \/ WriteReply \/ Archive
  BY <1>13 DEF TurnFails, Fail, WriteReply, Archive
<1>14. CASE Remember \/ HandleFailure \/ Timer
  BY <1>14 DEF Remember, HandleFailure, Timer
<1>15. CASE Stopping \/ LastCheckpoint \/ Stopped
  BY <1>15 DEF Stopping, LastCheckpoint, Stopped
<1>16. CASE InboxWakes \/ Throw \/ Crash \/ Choke \/ CommitChokes \/ Reported
  BY <1>16 DEF InboxWakes, Throw, Fail, Crash, Die, Choke, CommitChokes, Reported, Persist, Goto
<1>17. CASE RequestStop \/ (\E m \in Messages : Post(m))
  BY <1>17 DEF RequestStop, Post
<1>18. CASE UNCHANGED vars
  BY <1>18 DEF vars
<1> QED BY <1>1, <1>2, <1>3, <1>4, <1>5, <1>6, <1>7, <1>8, <1>9, <1>10, <1>11, <1>12, <1>13,
    <1>14, <1>15, <1>16, <1>17, <1>18 DEF Next, Turn

\* The checkpoint, the memory and the transcript keep fitting each other.
LEMMA FittingStep == ASSUME TypeOK, TypeOK', InView, InStep, Fitting, Filed, [Next]_vars PROVE Fitting'
BY SoundStep, LettersFit DEF Fitting

\* What may be said next: after an acknowledged answer nothing but a prompt,
\* after an acknowledged call nothing but its result, a result only to a call
\* behind which nothing is acknowledged, and no acknowledged prompt again.
Legal(r, p) ==
  /\ Len(log) \notin unacked /\ LastRole = "assistant" => r = "user"
  /\ Len(log) \notin unacked /\ LastRole = "calls" => r = "result"
  /\ r = "result" => \E c \in DOMAIN log : log[c].role = "calls" /\ c + 1..Len(log) \subseteq unacked
  /\ r = "user" => \A i \in Acked : IsUser(i) =>
       <<log[i].prompt.kind, log[i].prompt.id>> # <<p.kind, p.id>>
SaysLegally == \/ UNCHANGED <<log, unacked>>
               \/ \E r \in Roles, p \in Prompts : Writes(Entry(r, p)) /\ Legal(r, p)

\* The last entry the process has heard is the last of the acknowledged ones.
LEMMA LastAcked ==
  ASSUME TypeOK, InView, pc # "off"
  PROVE  /\ Len(log) \notin unacked => tail = Len(log) /\ Heard = LastRole
         /\ \A i \in DOMAIN log : i > tail => i \in unacked
         /\ Heard = "calls" => \E c \in DOMAIN log : log[c].role = "calls" /\ c + 1..Len(log) \subseteq unacked
<1>1. tail \in 0..Len(log) /\ Len(log) \in Nat /\ DOMAIN log = 1..Len(log)
  BY DEF TypeOK
<1>2. \A i \in DOMAIN log : i > tail => i \in unacked
  BY DEF InView
<1>3. Len(log) \notin unacked => tail = Len(log)
  <2>1. \A n \in Nat : \A t \in 0..n : t # n => n \in 1..n /\ n > t
    OBVIOUS
  <2>2. tail # Len(log) => Len(log) \in DOMAIN log /\ Len(log) > tail
    BY <1>1, <2>1, Zenon
  <2> QED BY <1>2, <2>2, Zenon
<1>4. ASSUME Heard = "calls"
      PROVE  \E c \in DOMAIN log : log[c].role = "calls" /\ c + 1..Len(log) \subseteq unacked
  <2>1. tail \in DOMAIN log /\ log[tail].role = "calls"
    BY <1>1, <1>4 DEF Heard, RoleAt
  <2>2. tail + 1..Len(log) \subseteq unacked
    BY <1>1, <1>2
  <2> QED BY <2>1, <2>2
<1> QED BY <1>2, <1>3, <1>4 DEF Heard, LastRole

\* No action says what may not be said.
LEMMA LegalStep == ASSUME TypeOK, InView, InStep, Fitting, OpenCallIsMine, [Next]_vars PROVE SaysLegally
<1>0. NoPrompt \in Prompts /\ mem \in States /\ mem.prompt \in Prompts
      /\ Roles = {"user", "recovery", "calls", "result", "assistant"}
  BY NothingSaid DEF TypeOK, Roles, States
<1>b. \A r \in Roles : \A n : Say(Entry(r, NoPrompt), n) /\ Legal(r, NoPrompt) => SaysLegally
  BY <1>0, Telling DEF SaysLegally
<1>c. pc # "off" => /\ Len(log) \notin unacked => Heard = LastRole
                    /\ Heard = "calls" => \E c \in DOMAIN log : log[c].role = "calls" /\ c + 1..Len(log) \subseteq unacked
  BY LastAcked
<1>1. CASE Start
  <2>1. CASE LastRole = "calls"
    <3>1. Writes(Entry("result", NoPrompt))
      BY <1>1, <2>1, Repairing DEF Start
    <3>2. Len(log) \in DOMAIN log /\ log[Len(log)].role = "calls" /\ Len(log) + 1..Len(log) = {}
      BY <2>1 DEF LastRole, RoleAt, TypeOK
    <3>3. Legal("result", NoPrompt)
      BY <2>1, <3>2 DEF Legal
    <3> QED BY <1>0, <3>1, <3>3 DEF SaysLegally
  <2>2. CASE LastRole # "calls"
    BY <1>1, <2>2, Repairing DEF Start, SaysLegally
  <2> QED BY <2>1, <2>2
<1>2. CASE StartTurn
  <2>1. CASE UNCHANGED <<log, unacked>>
    BY <2>1 DEF SaysLegally
  <2>2. CASE TailIs("calls") /\ Say(Entry("result", NoPrompt), "model")
    <3>1. pc # "off" /\ Heard = "calls"
      BY <1>0, <1>2, <2>2, HeardIs DEF StartTurn
    <3>2. Legal("result", NoPrompt)
      BY <1>c, <3>1 DEF Legal
    <3> QED BY <1>0, <1>b, <2>2, <3>2
  <2> QED BY <2>1, <2>2, <1>2 DEF StartTurn
<1>4. CASE ModelCalls
  <2>1. Legal("calls", NoPrompt)
    BY <1>4, <1>c DEF ModelCalls, InStep, Legal
  <2> QED BY <1>0, <1>b, <2>1, <1>4 DEF ModelCalls
<1>5. CASE ToolResult
  <2>1. Legal("result", NoPrompt)
    BY <1>5, <1>c DEF ToolResult, InStep, Legal
  <2> QED BY <1>0, <1>b, <2>1, <1>5 DEF ToolResult
<1>6. CASE ModelAnswers
  <2>1. Legal("assistant", NoPrompt)
    BY <1>6, <1>c DEF ModelAnswers, InStep, Legal
  <2> QED BY <1>0, <1>b, <2>1, <1>6 DEF ModelAnswers
<1>7. CASE Report
  <2>1. CASE UNCHANGED <<log, unacked>>
    BY <2>1 DEF SaysLegally
  <2>2. CASE Say(Entry("recovery", NoPrompt), "reported") /\ mem.crash /\ mem.phase # "prepared"
             /\ ~(mem.phase = "running" /\ Completed)
    <3>1. pc = "report" /\ mem.phase # "idle"
      BY <1>7 DEF Report, InStep, Working
    <3>2. Heard \notin {"assistant", "calls"}
      BY <1>0, <2>2, <3>1, HeardIs DEF States, Phases, OpenCallIsMine
    <3>3. Legal("recovery", NoPrompt)
      BY <1>c, <3>1, <3>2 DEF Legal
    <3> QED BY <1>0, <1>b, <2>2, <3>3
  <2> QED BY <2>1, <2>2, <1>7 DEF Report, store
<1>8. CASE AppendPrompt
  <2>1. CASE UNCHANGED <<log, unacked>>
    BY <2>1 DEF SaysLegally
  <2>2. CASE Say(Entry("user", mem.prompt), "appended") /\ mem.phase = "prepared"
    <3>1. pc = "append" /\ Heard \notin {"user", "calls"}
      BY <2>2, <1>8 DEF AppendPrompt, InStep, OpenCallIsMine
    <3>2. Sound(mem)
      BY <3>1 DEF Fitting
    <3>3. \A i \in DOMAIN log : Past(i, mem)
      BY <1>0, <2>2, <3>1, <3>2, AllIsPast
    <3>4. PromptIsOwn(mem) /\ mem.inbox \notin DOMAIN outbox
      BY <2>2, <3>2 DEF Sound, Fits
    <3>5. mem.cycle \in Nat /\ \A i \in DOMAIN log : log[i].prompt.id \in Nat
      BY <1>0, EntryTypes DEF Entries, States, Prompts
    <3>6. \A i \in Acked : IsUser(i) => <<log[i].prompt.kind, log[i].prompt.id>> # <<mem.prompt.kind, mem.prompt.id>>
      BY <2>2, <3>3, <3>4, <3>5 DEF Past, IsPast, PromptIsOwn, Acked
    <3>7. Legal("user", mem.prompt)
      BY <1>c, <3>1, <3>6 DEF Legal
    <3>8. Writes(Entry("user", mem.prompt)) \/ UNCHANGED <<log, unacked>>
      BY <1>0, <2>2, Telling
    <3> QED BY <1>0, <3>7, <3>8 DEF SaysLegally
  <2> QED BY <2>1, <2>2, <1>8 DEF AppendPrompt
<1>9. CASE Started \/ Begin \/ PrepareWake \/ NextInbox \/ Prepare \/ Recognise
          \/ Appended \/ WriteReply
  BY <1>9 DEF Started, Begin, PrepareWake, NextInbox, Prepare, Recognise, Appended, WriteReply,
      SaysLegally, store
<1>10. CASE Archive \/ Remember \/ Commit \/ HandleFailure \/ Timer \/ Stopping
          \/ LastCheckpoint \/ Stopped
  BY <1>10 DEF Archive, Remember, Commit, HandleFailure, Timer, Stopping, LastCheckpoint, Stopped,
      SaysLegally, store
<1>11. CASE InboxWakes \/ AcceptWake \/ IgnoreWake \/ Throw \/ Crash \/ RequestStop
          \/ (\E m \in Messages : Post(m)) \/ PostWake
  BY <1>11 DEF InboxWakes, AcceptWake, IgnoreWake, Throw, Crash, Die, RequestStop, Post, PostWake,
      SaysLegally, store
<1>12. CASE TurnFails \/ Choke \/ CommitChokes \/ Reported
  BY <1>12 DEF TurnFails, Choke, CommitChokes, Die, Reported, SaysLegally, store
<1>13. CASE UNCHANGED vars
  BY <1>13 DEF vars, SaysLegally, store
<1> QED BY <1>1, <1>2, <1>4, <1>5, <1>6, <1>7, <1>8, <1>9, <1>10, <1>11, <1>12, <1>13 DEF Next, Turn

\* A legal entry keeps what the transcript promises.
LEMMA TranscriptStep ==
  ASSUME TypeOK, SaysLegally, AnswersLast, AnswersApart, CallsAreClosed, PromptOnce
  PROVE  AnswersLast' /\ AnswersApart' /\ CallsAreClosed' /\ PromptOnce'
<1>1. CASE UNCHANGED <<log, unacked>>
  BY <1>1 DEF AnswersLast, AnswersApart, CallsAreClosed, PromptOnce, IsUser, Acked
<1>2. ASSUME NEW r \in Roles, NEW p \in Prompts, Writes(Entry(r, p)), Legal(r, p)
      PROVE  AnswersLast' /\ AnswersApart' /\ CallsAreClosed' /\ PromptOnce'
  <2> DEFINE e == Entry(r, p)
  <2>1. Adds(e) /\ e.role = r /\ e.prompt = p
    BY <1>2, Appending, WhatIsEntered DEF Writes
  <2> HIDE DEF e
  <2>2. \A i \in DOMAIN log' : (i = Len(log) + 1 /\ log'[i] = e) \/ (i \in DOMAIN log /\ log'[i] = log[i] /\ i < Len(log) + 1)
    BY <2>1 DEF Adds
  <2>3. \A i \in DOMAIN log : i \in DOMAIN log' /\ log'[i] = log[i] /\ i <= Len(log) /\ i \in Nat
    BY <2>1 DEF Adds
  <2>4. Len(log') = Len(log) + 1 /\ Len(log) + 1 \in DOMAIN log' /\ Len(log) \in Nat /\ DOMAIN log = 1..Len(log)
    BY <2>1 DEF Adds
  <2>5. \A i \in Acked' : i = Len(log) + 1 \/ (i \in Acked /\ i \in DOMAIN log)
    BY <1>2, <2>2 DEF Acked, Writes
  <2>6. unacked \subseteq unacked'
    BY <1>2 DEF Writes
  <2>7. Len(log) \in DOMAIN log => log[Len(log)].role = LastRole
    BY <2>4 DEF LastRole, RoleAt
  <2>8. \A i \in Acked : i = Len(log) => (log[i].role = "assistant" => r = "user") /\ (log[i].role = "calls" => r = "result")
    BY <1>2, <2>7 DEF Legal, Acked
  <2>9. \A i \in Acked : i \in DOMAIN log
    BY DEF Acked
  <2>10. AnswersLast'
    BY <2>1, <2>2, <2>3, <2>4, <2>5, <2>8, <2>9 DEF AnswersLast, IsUser
  <2>11. AnswersApart'
    BY <2>1, <2>2, <2>3, <2>4, <2>5, <2>8, <2>9 DEF AnswersLast, AnswersApart, IsUser
  <2>12. CallsAreClosed'
    <3>1. ASSUME NEW i \in Acked', log'[i].role = "calls", i < Len(log')
          PROVE  log'[i + 1].role = "result"
      <4>1. i \in Acked /\ log[i].role = "calls" /\ i \in DOMAIN log
        BY <2>3, <2>4, <2>5, <3>1
      <4>2. CASE i = Len(log)
        BY <2>1, <2>8, <4>1, <4>2 DEF Adds
      <4>3. CASE i < Len(log)
        <5>1. log[i + 1].role = "result" /\ i + 1 \in DOMAIN log
          BY <2>4, <4>1, <4>3 DEF CallsAreClosed
        <5> QED BY <2>3, <5>1
      <4> QED BY <2>3, <4>1, <4>2, <4>3
    <3>2. ASSUME NEW i \in Acked', log'[i].role = "result"
          PROVE  \E c \in 1..i - 1 : log'[c].role = "calls" /\ c + 1..i - 1 \subseteq unacked'
      <4>1. CASE i \in Acked /\ i \in DOMAIN log
        <5>1. PICK c \in 1..i - 1 : log[c].role = "calls" /\ c + 1..i - 1 \subseteq unacked
          BY <2>3, <3>2, <4>1 DEF CallsAreClosed
        <5>2. c \in DOMAIN log
          BY <2>3, <2>4, <4>1, <5>1
        <5> QED BY <2>3, <2>6, <5>1, <5>2
      <4>2. CASE i = Len(log) + 1
        <5>1. PICK c \in DOMAIN log : log[c].role = "calls" /\ c + 1..Len(log) \subseteq unacked
          BY <1>2, <2>1, <3>2, <4>2 DEF Legal, Adds
        <5>2. c \in 1..i - 1 /\ i - 1 = Len(log)
          BY <2>4, <4>2
        <5> QED BY <2>3, <2>6, <5>1, <5>2
      <4> QED BY <2>5, <4>1, <4>2
    <3> QED BY <3>1, <3>2 DEF CallsAreClosed
  <2>13. PromptOnce'
    BY <1>2, <2>1, <2>2, <2>3, <2>4, <2>5, <2>9 DEF PromptOnce, IsUser, Legal
  <2> QED BY <2>10, <2>11, <2>12, <2>13
<1> QED BY <1>1, <1>2 DEF SaysLegally

\* An open call belongs to the turn that runs.
LEMMA OpenCallStep == ASSUME TypeOK, InStep, OpenCallIsMine, [Next]_vars PROVE OpenCallIsMine'
<1>0. UNCHANGED <<log, tail>> => Heard' = Heard
  BY Unspoken
<1>a. mem \in States /\ disk \in States
  BY DEF TypeOK
<1>b. NoPrompt \in Prompts /\ mem.prompt \in Prompts
      /\ {"user", "recovery", "calls", "result", "assistant"} \subseteq Roles
  BY <1>a, NothingSaid DEF States, Roles
<1>c. \A n : /\ Say(Entry("user", mem.prompt), n) => Heard' \in {"user", Heard}
             /\ \A r \in {"recovery", "calls", "result", "assistant"} :
                  Say(Entry(r, NoPrompt), n) => Heard' \in {r, Heard}
  BY <1>b, Telling DEF Told, Untold
<1> USE <1>0, <1>a DEF OpenCallIsMine, store
<1>1. CASE Start
  BY <1>1, Repairing DEF Start
<1>2. CASE Started
  BY <1>2 DEF Started
<1>3. CASE Begin
  BY <1>3 DEF Begin
<1>4. CASE PrepareWake
  BY <1>4 DEF PrepareWake, Persist, States, InStep, Answered
<1>5. CASE NextInbox
  BY <1>5 DEF NextInbox, States, InStep, Answered
<1>6. CASE Prepare
  BY <1>6 DEF Prepare, Persist, States, InStep, Answered
<1>7. CASE Recognise
  BY <1>7 DEF Recognise, MarkRunning, Persist, States, InStep, Answered
<1>8. CASE Report
  BY <1>8, <1>c DEF Report, Persist, States, InStep, Answered
<1>9. CASE AppendPrompt
  BY <1>9, <1>c DEF AppendPrompt
<1>10. CASE Appended
  BY <1>10 DEF Appended, MarkRunning, Persist, States, InStep, Answered
<1>11. CASE StartTurn
  BY <1>11, <1>c DEF StartTurn
<1>12. CASE ModelCalls
  BY <1>12, <1>c DEF ModelCalls, InStep, Turning
<1>13. CASE ToolResult
  BY <1>13, <1>c DEF ToolResult
<1>14. CASE ModelAnswers
  BY <1>14, <1>c DEF ModelAnswers
<1>15. CASE TurnFails
  BY <1>15 DEF TurnFails
<1>16. CASE WriteReply
  BY <1>16 DEF WriteReply
<1>17. CASE Archive
  BY <1>17 DEF Archive
<1>18. CASE Remember
  BY <1>18 DEF Remember
<1>19. CASE Commit
  BY <1>19 DEF Commit, Persist, States, InStep, Answered
<1>20. CASE HandleFailure
  BY <1>20 DEF HandleFailure
<1>21. CASE Timer
  BY <1>21 DEF Timer
<1>22. CASE Stopping
  BY <1>22 DEF Stopping
<1>23. CASE LastCheckpoint
  BY <1>23 DEF LastCheckpoint
<1>24. CASE Stopped
  BY <1>24 DEF Stopped, Goto
<1>25. CASE InboxWakes
  BY <1>25 DEF InboxWakes
<1>26. CASE AcceptWake
  BY <1>26 DEF AcceptWake, States, InStep, Answered
<1>27. CASE IgnoreWake
  BY <1>27 DEF IgnoreWake
<1>28. CASE Throw
  BY <1>28 DEF Throw
<1>29. CASE Crash \/ Choke \/ CommitChokes
  BY <1>29 DEF Crash, Choke, CommitChokes, Die, Goto
<1>34. CASE Reported
  BY <1>34 DEF Reported, Persist, States
<1>30. CASE RequestStop
  BY <1>30 DEF RequestStop
<1>31. ASSUME NEW m \in Messages, Post(m) PROVE OpenCallIsMine'
  BY <1>31 DEF Post
<1>32. CASE PostWake
  BY <1>32 DEF PostWake
<1>33. CASE UNCHANGED vars
  BY <1>33 DEF vars
<1> QED BY <1>1, <1>2, <1>3, <1>4, <1>5, <1>6, <1>7, <1>8, <1>9, <1>10, <1>11, <1>12, <1>13,
    <1>14, <1>15, <1>16, <1>17, <1>18, <1>19, <1>20, <1>21, <1>22, <1>23, <1>24, <1>25, <1>26,
    <1>27, <1>28, <1>29, <1>30, <1>31, <1>32, <1>33, <1>34 DEF Next, Turn

\* A reply stays the answer of the turn its message started.
LEMMA RepliesStep ==
  ASSUME TypeOK, InView, InStep, Fitting, RepliesAreAnswers, [Next]_vars
  PROVE  RepliesAreAnswers'
<1>1. CASE UNCHANGED outbox /\ log' = log
  BY <1>1 DEF RepliesAreAnswers, IsUser
<1>2. ASSUME UNCHANGED outbox, NEW e \in Entries, log' = Append(log, e)
      PROVE  RepliesAreAnswers'
  <2>1. Adds(e)
    BY <1>2, Appending
  <2>2. \A i \in DOMAIN log : i \in DOMAIN log' /\ log'[i] = log[i] /\ i <= Len(log) /\ i \in Nat
    BY <2>1 DEF Adds
  <2>3. \A i \in DOMAIN log' : i \in DOMAIN log \/ i > Len(log)
    BY <2>1 DEF Adds
  <2>4. Len(log) \in Nat /\ DOMAIN log' \subseteq Nat
    BY <2>1 DEF Adds
  <2>5. ASSUME NEW m \in DOMAIN outbox
        PROVE  /\ outbox[m] \in DOMAIN log' /\ log'[outbox[m]].role = "assistant"
               /\ \E u \in DOMAIN log' : /\ u < outbox[m] /\ IsUser(u)'
                                         /\ log'[u].prompt.kind = "message" /\ log'[u].prompt.id = m
                                         /\ \A k \in DOMAIN log' : u < k /\ k < outbox[m] => ~IsUser(k)'
    <3>1. outbox[m] \in DOMAIN log /\ log[outbox[m]].role = "assistant"
      BY DEF RepliesAreAnswers
    <3>2. PICK u \in DOMAIN log : /\ u < outbox[m] /\ IsUser(u)
                                  /\ log[u].prompt.kind = "message" /\ log[u].prompt.id = m
                                  /\ \A k \in DOMAIN log : u < k /\ k < outbox[m] => ~IsUser(k)
      BY DEF RepliesAreAnswers
    <3>3. \A k \in DOMAIN log' : u < k /\ k < outbox[m] => ~IsUser(k)'
      BY <2>2, <2>3, <2>4, <3>1, <3>2 DEF IsUser
    <3> QED BY <2>2, <3>1, <3>2, <3>3 DEF IsUser
  <2> QED BY <1>2, <2>5 DEF RepliesAreAnswers
<1>3. CASE WriteReply
  <2>1. log' = log /\ pc = "reply"
    BY <1>3 DEF WriteReply, store
  <2>2. mem.phase = "running" /\ Heard = "assistant" /\ tail = Len(log)
    BY <2>1 DEF InStep, InView, Turning, Answered
  <2>3. Len(log) \in DOMAIN log /\ log[Len(log)].role = "assistant" /\ DOMAIN log = 1..Len(log) /\ Len(log) \in Nat
    BY <2>2 DEF Heard, RoleAt, TypeOK
  <2>4. PICK u \in DOMAIN log : LastUser(u) /\ log[u].prompt = mem.prompt
    BY <2>1, <2>2 DEF Fitting, Sound, Fits
  <2>5. mem.inbox # 0 => mem.prompt.kind = "message" /\ mem.prompt.id = mem.inbox
    BY <2>1, <2>2 DEF Fitting, Sound, PromptIsOwn
  <2>6. u < Len(log) /\ IsUser(u) /\ \A k \in DOMAIN log : u < k => ~IsUser(k)
    BY <2>3, <2>4 DEF LastUser, IsUser
  <2>7. \A m \in DOMAIN outbox' : \/ outbox'[m] = Len(log) /\ m = mem.inbox /\ m # 0
                                  \/ m \in DOMAIN outbox /\ outbox'[m] = outbox[m]
    BY <1>3, <2>2 DEF WriteReply
  <2> QED BY <2>1, <2>3, <2>4, <2>5, <2>6, <2>7 DEF RepliesAreAnswers, IsUser
<1> QED BY <1>1, <1>2, <1>3, Saying, OutboxGrows DEF Says, Writes

\* Somebody knows of the crash until the transcript tells of it.
LEMMA CrashStep == ASSUME TypeOK, InView, InStep, CrashIsKnown, [Next]_vars PROVE CrashIsKnown'
<1>0. /\ log' = log => LastRole' = LastRole
      /\ Heard = "user" /\ pc # "off" /\ mem.phase = "prepared" => LastRole = "user"
      /\ TailIsPrompt => Heard = "user"
  <2>1. Heard = "user" /\ pc # "off" /\ mem.phase = "prepared" => LastRole = "user"
    BY DEF InView, Heard, LastRole
  <2> QED BY <2>1, HeardIs, Unspoken
<1>a. mem \in States /\ disk \in States /\ NoState \in States
  BY NothingSaid DEF TypeOK
<1>b. \A s \in States : s.prompt \in Prompts
  BY DEF States
<1> USE <1>0, <1>a DEF CrashIsKnown, Knows, store, marks
<1>1. CASE Start
  BY <1>1, Repairing DEF Start, Goto, InStep, States
<1>2. CASE Started
  BY <1>2 DEF Started, Goto
<1>3. CASE Begin
  BY <1>3 DEF Begin, Goto
<1>4. CASE PrepareWake
  BY <1>4 DEF PrepareWake, Persist, Goto, Fail, InStep, States
<1>5. CASE NextInbox
  BY <1>5 DEF NextInbox, Goto, InStep, States
<1>6. CASE Prepare
  BY <1>6 DEF Prepare, Persist, Goto, Fail, InStep, States
<1>7. CASE Recognise
  BY <1>7 DEF Recognise, MarkRunning, Persist, Goto, Fail, InStep, States, Turning, Answered
<1>8. CASE Report
  <2>1. pc = "report" /\ running' = running /\ running = TRUE /\ pc' # "off" /\ mem.phase # "idle"
    BY <1>8 DEF Report, InStep, Working, Persist, Say, Goto, Fail, TypeOK
  <2>2. CASE UNCHANGED <<mem, log, unreported>> /\ pc' = "append"
    BY <2>1, <2>2
  <2>3. CASE mem.phase # "prepared" /\ mem' = mem /\ unreported' = (unreported /\ log' = log)
             /\ Say(Entry("recovery", NoPrompt), "reported")
    <3>1. log' = log => pc' # "reported"
      <4>1. log \in Seq(Entries) /\ Entry("recovery", NoPrompt) \in Entries
        BY NothingSaid, WhatIsEntered DEF TypeOK, Entries, Roles
      <4>2. Append(log, Entry("recovery", NoPrompt)) # log
        BY <4>1
      <4> QED BY <2>3, <4>2 DEF Say, Fail, Goto
    <3> QED BY <2>1, <2>3, <3>1
  <2>4. CASE /\ mem.crash /\ mem.phase = "prepared" /\ UNCHANGED <<log, unreported>>
             /\ Persist([mem EXCEPT !.crash = FALSE, !.prompt.recovery = TRUE], "append")
    <3>1. mem'.phase = "prepared" /\ mem'.prompt.recovery
      BY <1>b, <2>4 DEF Persist, States, Prompts
    <3>2. LastRole # "user" /\ LastRole' = LastRole
      BY <2>1, <2>4 DEF InStep, InView, Heard, LastRole
    <3>3. pc' \notin {"off", "reported"}
      BY <2>4 DEF Persist, Goto, Fail
    <3> QED BY <2>1, <2>4, <3>1, <3>2, <3>3
  <2> QED BY <2>2, <2>3, <2>4, <1>8 DEF Report, Goto
<1>9. CASE AppendPrompt
  <2>1. pc = "append" /\ running' = running /\ running = TRUE /\ mem' = mem
    BY <1>9 DEF AppendPrompt, InStep, TypeOK
  <2>2. CASE mem.phase = "prepared" /\ unreported' = (unreported /\ (log' = log \/ ~mem.prompt.recovery))
             /\ pc' \in {"appended", "failed"}
    BY <2>1, <2>2 DEF InStep
  <2>3. CASE UNCHANGED <<log, unreported>> /\ pc' \in {"appended", "turn"}
    BY <2>1, <2>3
  <2> QED BY <1>9, <2>2, <2>3 DEF AppendPrompt, Say, Goto, Fail
<1>10. CASE Appended
  BY <1>10 DEF Appended, MarkRunning, Persist, Goto, Fail, InStep, States, Turning, Answered
<1>11. CASE StartTurn
  BY <1>11 DEF StartTurn, Say, Fail, Goto, InStep, Turning, Answered
<1>12. CASE ModelCalls
  BY <1>12 DEF ModelCalls, Say, Fail, Goto, InStep, Turning, Answered
<1>13. CASE ToolResult
  BY <1>13 DEF ToolResult, Say, Fail, Goto, InStep, Turning, Answered
<1>14. CASE ModelAnswers
  BY <1>14 DEF ModelAnswers, Say, Fail, Goto, InStep, Turning, Answered
<1>15. CASE TurnFails
  BY <1>15 DEF TurnFails, Fail, Goto, InStep, Turning, Answered
<1>16. CASE WriteReply
  BY <1>16 DEF WriteReply, Goto
<1>17. CASE Archive
  BY <1>17 DEF Archive, Goto
<1>18. CASE Remember
  BY <1>18 DEF Remember, Goto
<1>19. CASE Commit
  BY <1>19 DEF Commit, Persist, Goto, Fail, InStep, States, Turning, Answered
<1>20. CASE HandleFailure
  BY <1>20 DEF HandleFailure, Goto
<1>21. CASE Timer
  BY <1>21 DEF Timer, Goto
<1>22. CASE Stopping
  BY <1>22 DEF Stopping, Goto
<1>23. CASE LastCheckpoint
  BY <1>23 DEF LastCheckpoint, Goto
<1>24. CASE Stopped
  BY <1>24 DEF Stopped, Goto, InStep
<1>25. CASE InboxWakes
  BY <1>25 DEF InboxWakes, Goto
<1>26. CASE AcceptWake
  BY <1>26 DEF AcceptWake, Goto, InStep, States
<1>27. CASE IgnoreWake
  BY <1>27 DEF IgnoreWake, Goto
<1>28. CASE Throw
  BY <1>28 DEF Throw, Fail, Goto
<1>29. CASE Crash \/ CommitChokes
  BY <1>29 DEF Crash, CommitChokes, Die, Goto
<1>35. CASE Choke
  BY <1>35 DEF Choke, Die, Goto
<1>34. CASE Reported
  BY <1>34 DEF Reported, Persist, Goto, Fail, States
<1>30. CASE RequestStop
  BY <1>30 DEF RequestStop, Goto
<1>31. ASSUME NEW m \in Messages, Post(m) PROVE CrashIsKnown'
  BY <1>31 DEF Post
<1>32. CASE PostWake
  BY <1>32 DEF PostWake, Goto
<1>33. CASE UNCHANGED vars
  BY <1>33 DEF vars
<1> QED BY <1>1, <1>2, <1>3, <1>4, <1>5, <1>6, <1>7, <1>8, <1>9, <1>10, <1>11, <1>12, <1>13,
    <1>14, <1>15, <1>16, <1>17, <1>18, <1>19, <1>20, <1>21, <1>22, <1>23, <1>24, <1>25, <1>26,
    <1>27, <1>28, <1>29, <1>30, <1>31, <1>32, <1>33, <1>34, <1>35 DEF Next, Turn

\* A message leaves the inbox filed or rejected.
LEMMA MailStep == ASSUME TypeOK, Filed, NoMessageLost, [Next]_vars PROVE NoMessageLost'
<1> USE DEF NoMessageLost, mail, clients
<1>1. CASE NextInbox
  BY <1>1 DEF NextInbox
<1>2. CASE Archive
  BY Numbered, <1>2 DEF Archive, Filed, TypeOK
<1>3. CASE WriteReply
  BY <1>3 DEF WriteReply
<1>4. ASSUME NEW m \in Messages, Post(m) PROVE NoMessageLost'
  BY <1>4 DEF Post
<1>5. CASE Start \/ Started \/ Begin \/ PrepareWake \/ Prepare \/ Recognise \/ Report
  BY <1>5 DEF Start, Started, Begin, PrepareWake, Persist, Prepare, Recognise, MarkRunning,
      Report, Say
<1>6. CASE AppendPrompt \/ Appended \/ StartTurn \/ ModelCalls \/ ToolResult \/ ModelAnswers
          \/ TurnFails
  BY <1>6 DEF AppendPrompt, Appended, MarkRunning, Persist, StartTurn, ModelCalls, ToolResult,
      ModelAnswers, TurnFails, Say
<1>7. CASE Remember \/ Commit \/ HandleFailure \/ Timer \/ Stopping \/ LastCheckpoint \/ Stopped
  BY <1>7 DEF Remember, Commit, Persist, HandleFailure, Timer, Stopping, LastCheckpoint, Stopped
<1>8. CASE InboxWakes \/ AcceptWake \/ IgnoreWake \/ Throw \/ Crash \/ Choke \/ CommitChokes
          \/ Reported \/ RequestStop \/ PostWake
  BY <1>8 DEF InboxWakes, AcceptWake, IgnoreWake, Throw, Crash, RequestStop, PostWake, Die,
      Choke, CommitChokes, Reported, Persist, Goto, Fail
<1>9. CASE UNCHANGED vars
  BY <1>9 DEF vars
<1> QED BY <1>1, <1>2, <1>3, <1>4, <1>5, <1>6, <1>7, <1>8, <1>9 DEF Next, Turn

\* Faults are only counted up.
LEMMA FaultsStep == ASSUME TypeOK, [Next]_vars PROVE faults' = faults \/ faults' # 0
<1> USE DEF TypeOK
<1>1. CASE Prepare
  BY <1>1 DEF Prepare, Persist, Goto, Fail
<1>2. CASE Report
  BY <1>2 DEF Report, Persist, Goto, Fail, Say
<1>3. CASE Recognise
  BY <1>3 DEF Recognise, MarkRunning, Persist, Goto, Fail
<1>4. CASE Start \/ Started \/ Begin \/ PrepareWake \/ NextInbox
  BY <1>4 DEF Start, Started, Begin, PrepareWake, Persist, Goto, Fail, NextInbox
<1>5. CASE AppendPrompt \/ Appended \/ StartTurn \/ ModelCalls \/ ToolResult
  BY <1>5 DEF AppendPrompt, Appended, MarkRunning, Persist, Goto, Fail, StartTurn, ModelCalls,
      ToolResult, Say
<1>6. CASE ModelAnswers \/ TurnFails \/ WriteReply \/ Archive \/ Remember
  BY <1>6 DEF ModelAnswers, TurnFails, Fail, WriteReply, Archive, Remember, Say
<1>7. CASE Commit \/ HandleFailure \/ Timer \/ Stopping \/ LastCheckpoint
  BY <1>7 DEF Commit, Persist, Goto, Fail, HandleFailure, Timer, Stopping, LastCheckpoint
<1>8. CASE Stopped \/ InboxWakes \/ AcceptWake \/ IgnoreWake \/ Throw
  BY <1>8 DEF Stopped, InboxWakes, AcceptWake, IgnoreWake, Throw, Fail
<1>9. CASE Crash \/ Choke \/ CommitChokes \/ Reported \/ RequestStop
          \/ (\E m \in Messages : Post(m)) \/ PostWake
  BY <1>9 DEF Crash, RequestStop, Post, PostWake, Die, Choke, CommitChokes, Reported, Persist,
      Goto, Fail
<1>10. CASE UNCHANGED vars
  BY <1>10 DEF vars
<1> QED BY <1>1, <1>2, <1>3, <1>4, <1>5, <1>6, <1>7, <1>8, <1>9, <1>10 DEF Next, Turn

\* An edition of the letters that is in the transcript stays there.
InLog(x) == \E i \in DOMAIN log : log[i].prompt.letter = x

LEMMA LettersStay == ASSUME TypeOK, [Next]_vars, NEW x, InLog(x) PROVE InLog(x)'
<1>1. PICK i \in DOMAIN log : log[i].prompt.letter = x
  BY DEF InLog
<1>2. i \in DOMAIN log' /\ log'[i] = log[i]
  BY Saying, Appending DEF Says, Writes, Adds
<1> QED BY <1>1, <1>2 DEF InLog

\* A state that keeps what it knows of the letters keeps its promise.
LEMMA LettersKeep ==
  ASSUME TypeOK, [Next]_vars, NEW s \in States, NEW t \in States, LettersIn(s), t.letter = s.letter,
         s.phase # "idle" /\ s.prompt.letter = s.letter =>
           (t.phase # "idle" /\ t.prompt.letter = s.letter) \/ InLog(s.letter)
  PROVE  LettersIn(t)'
<1>1. faults' = 0 => faults = 0
  BY FaultsStep
<1>2. InLog(s.letter) => InLog(s.letter)'
  BY LettersStay
<1> QED BY <1>1, <1>2 DEF LettersIn, InLog

\* The state in memory keeps its promise about the letters.
LEMMA LettersInMemory ==
  ASSUME TypeOK, TypeOK', InStep, Fitting, LettersAreSaid, [Next]_vars
  PROVE  pc' # "off" => LettersIn(mem)'
<1>0. mem \in States /\ disk \in States /\ mem' \in States
  BY DEF TypeOK
<1>a. LettersIn(disk) /\ (pc # "off" => LettersIn(mem))
  BY DEF LettersAreSaid
<1>b. pc # "off" /\ mem' = mem => LettersIn(mem)'
  BY <1>0, <1>a, LettersKeep
<1>c. mem'.letter = mem.letter /\ mem'.prompt.letter = mem.prompt.letter /\ mem'.phase # "idle" /\ pc # "off"
        => LettersIn(mem)'
  BY <1>0, <1>a, LettersKeep
<1>d. mem'.letter = mem.letter /\ mem.phase = "idle" /\ pc # "off" => LettersIn(mem)'
  BY <1>0, <1>a, LettersKeep
<1>1. CASE Start
  <2>1. mem' = [disk EXCEPT !.crash = disk.crash \/ running]
    BY <1>1 DEF Start
  <2>2. mem'.letter = disk.letter /\ mem'.prompt = disk.prompt /\ mem'.phase = disk.phase
    BY <1>0, <2>1 DEF States
  <2> QED BY <1>0, <1>a, <2>2, LettersKeep
<1>2. CASE PrepareWake
  <2>1. mem'.letter = mem.letter /\ mem.phase = "idle" /\ pc # "off"
    BY <1>0, <1>2 DEF PrepareWake, InStep, States, Persist
  <2> QED BY <1>d, <2>1
<1>3. CASE NextInbox
  <2>1. mem'.letter = mem.letter /\ mem.phase = "idle" /\ pc # "off"
    BY <1>0, <1>3 DEF NextInbox, InStep, States
  <2> QED BY <1>d, <2>1
<1>4. CASE AcceptWake
  <2>1. mem'.letter = mem.letter /\ mem.phase = "idle" /\ pc # "off"
    BY <1>0, <1>4 DEF AcceptWake, InStep, States
  <2> QED BY <1>d, <2>1
<1>5. CASE Prepare
  <2>1. mem.phase = "idle" /\ pc # "off"
    BY <1>5 DEF Prepare, InStep
  <2>2. PICK l \in Letters \union {mem.letter}, p \in Prompts :
          \/ mem' = [[mem EXCEPT !.letter = l] EXCEPT !.phase = "prepared",
                       !.prompt = IF l = mem.letter THEN p ELSE [p EXCEPT !.letter = l]]
          \/ faults' = faults + 1
    <3>1. mem.cycle \in Nat /\ mem.inbox \in Messages \union {0}
      BY <1>0 DEF States
    <3>2. mem.cycle + 1 \in Nat /\ mem.inbox \in Nat
      BY <3>1, Numbered
    <3>3. {"work", "message"} \subseteq Kinds
      BY DEF Kinds
    <3>4. (IF mem.inbox = 0 THEN Said("work", mem.cycle + 1) ELSE Said("message", mem.inbox)) \in Prompts
      BY <3>2, <3>3, WhatIsSaid
    <3> QED BY <3>4, <1>5 DEF Prepare, Persist, Fail
  <2>3. CASE faults' = faults + 1
    BY <2>3 DEF LettersIn, TypeOK
  <2>4. CASE /\ l = mem.letter
             /\ mem' = [[mem EXCEPT !.letter = l] EXCEPT !.phase = "prepared",
                          !.prompt = IF l = mem.letter THEN p ELSE [p EXCEPT !.letter = l]]
    <3>1. mem'.letter = mem.letter
      BY <1>0, <2>4 DEF States
    <3> QED BY <1>d, <2>1, <3>1
  <2>5. CASE /\ l # mem.letter
             /\ mem' = [[mem EXCEPT !.letter = l] EXCEPT !.phase = "prepared",
                          !.prompt = IF l = mem.letter THEN p ELSE [p EXCEPT !.letter = l]]
    <3>1. mem'.letter = l /\ mem'.phase # "idle" /\ mem'.prompt = [p EXCEPT !.letter = l]
      BY <1>0, <2>5 DEF States
    <3>2. [p EXCEPT !.letter = l].letter = l
      BY DEF Prompts
    <3> QED BY <3>1, <3>2 DEF LettersIn
  <2> QED BY <2>2, <2>3, <2>4, <2>5
<1>6. CASE Recognise
  <2>1. pc # "off" /\ (mem' = mem \/ mem' = [mem EXCEPT !.phase = "running"])
    BY <1>6 DEF Recognise, MarkRunning, Persist
  <2>2. mem' = mem \/ (mem'.letter = mem.letter /\ mem'.prompt = mem.prompt /\ mem'.phase # "idle")
    BY <1>0, <2>1 DEF States
  <2> QED BY <1>b, <1>c, <2>1, <2>2
<1>7. CASE Appended
  <2>1. pc # "off" /\ (mem' = mem \/ mem' = [mem EXCEPT !.phase = "running"])
    BY <1>7 DEF Appended, MarkRunning, Persist
  <2>2. mem' = mem \/ (mem'.letter = mem.letter /\ mem'.prompt = mem.prompt /\ mem'.phase # "idle")
    BY <1>0, <2>1 DEF States
  <2> QED BY <1>b, <1>c, <2>1, <2>2
<1>8. CASE Report
  <2>1. pc = "report" /\ (\/ mem' = mem
                          \/ mem' = [mem EXCEPT !.crash = FALSE, !.prompt.recovery = TRUE])
    BY <1>8 DEF Report, Persist, store, Say
  <2>2. mem.phase # "idle" /\ mem.prompt \in Prompts
    BY <1>0, <2>1 DEF InStep, Working, States
  <2>3. mem'.letter = mem.letter /\ mem'.phase # "idle"
    <3>1. mem' = [mem EXCEPT !.crash = FALSE] => mem'.letter = mem.letter /\ mem'.phase = mem.phase
      BY <1>0 DEF States
    <3>2. mem' = [mem EXCEPT !.crash = FALSE, !.prompt.recovery = TRUE]
            => mem'.letter = mem.letter /\ mem'.phase = mem.phase
      BY <1>0 DEF States
    <3> QED BY <2>1, <2>2, <3>1, <3>2
  <2>4. mem'.prompt \in {mem.prompt, [mem.prompt EXCEPT !.recovery = TRUE]}
    <3>1. mem' = [mem EXCEPT !.crash = FALSE] => mem'.prompt = mem.prompt
      BY <1>0 DEF States
    <3>2. mem' = [mem EXCEPT !.crash = FALSE, !.prompt.recovery = TRUE]
            => mem'.prompt = [mem.prompt EXCEPT !.recovery = TRUE]
      BY <1>0 DEF States
    <3> QED BY <2>1, <3>1, <3>2
  <2>5. mem'.prompt.letter = mem.prompt.letter
    BY <2>2, <2>4 DEF Prompts
  <2> QED BY <1>c, <2>1, <2>3, <2>5
<1>9. CASE Commit
  <2>1. pc = "commit" /\ mem'.letter = mem.letter
    BY <1>0, <1>9 DEF Commit, Persist, States
  <2>2. mem.phase = "running"
    BY <2>1 DEF InStep, Turning, Answered
  <2>3. InLog(mem.prompt.letter)
    BY <2>1, <2>2 DEF Fitting, Sound, Fits, InLog
  <2> QED BY <1>0, <1>a, <2>1, <2>3, LettersKeep
<1>10. CASE Stopped \/ Crash \/ CommitChokes
  BY <1>10 DEF Stopped, Crash, CommitChokes, Die, Goto
<1>15. CASE Choke
  BY <1>b, <1>15 DEF Choke, Die, Goto
<1>16. CASE Reported
  <2>1. pc = "reported" /\ mem.phase # "idle"
    BY <1>16 DEF Reported, InStep
  <2>2. mem'.letter = mem.letter /\ mem'.phase = mem.phase /\ mem'.prompt = mem.prompt
    BY <1>0, <1>16 DEF Reported, Persist, States
  <2> QED BY <1>c, <2>1, <2>2
<1>11. CASE Started \/ Begin \/ AppendPrompt \/ StartTurn \/ ModelCalls \/ ToolResult
          \/ ModelAnswers
  BY <1>b, <1>11 DEF Started, Begin, AppendPrompt, StartTurn, ModelCalls, ToolResult,
      ModelAnswers, store, Say
<1>12. CASE TurnFails \/ WriteReply \/ Archive \/ Remember \/ HandleFailure \/ Timer \/ Stopping
  BY <1>b, <1>12 DEF TurnFails, WriteReply, Archive, Remember, HandleFailure, Timer, Stopping, store
<1>13. CASE LastCheckpoint \/ InboxWakes \/ IgnoreWake \/ Throw \/ RequestStop
          \/ (\E m \in Messages : Post(m)) \/ PostWake
  BY <1>b, <1>13 DEF LastCheckpoint, InboxWakes, IgnoreWake, Throw, RequestStop, Post, PostWake,
      store
<1>14. CASE UNCHANGED vars
  BY <1>b, <1>14 DEF vars, store
<1> QED BY <1>1, <1>2, <1>3, <1>4, <1>5, <1>6, <1>7, <1>8, <1>9, <1>10, <1>11, <1>12, <1>13,
    <1>14, <1>15, <1>16 DEF
    Next, Turn

\* So does the checkpoint.
LEMMA LettersStep ==
  ASSUME TypeOK, TypeOK', InStep, Fitting, LettersAreSaid, [Next]_vars
  PROVE  LettersAreSaid'
<1>1. \A s \in States : LettersIn(s) => LettersIn(s)'
  BY LettersKeep
<1>2. LettersIn(disk)'
  BY <1>1, LettersInMemory, Checkpoints DEF LettersAreSaid, TypeOK
<1> QED BY <1>2, LettersInMemory DEF LettersAreSaid

\* Observations are never taken back.
LEMMA ObservedGrows == ASSUME TypeOK, [Next]_vars PROVE observed \subseteq observed'
<1>1. CASE Recognise \/ Appended \/ Remember
  BY <1>1 DEF Recognise, MarkRunning, Persist, Appended, Remember
<1>2. CASE Start \/ Started \/ Begin \/ PrepareWake \/ NextInbox \/ Prepare \/ Report
          \/ AppendPrompt \/ StartTurn \/ ModelCalls
  BY <1>2 DEF Start, Started, Begin, PrepareWake, Persist, NextInbox, Prepare, Report,
      AppendPrompt, StartTurn, ModelCalls, Say
<1>3. CASE ToolResult \/ ModelAnswers \/ TurnFails \/ WriteReply \/ Archive \/ Commit
          \/ HandleFailure \/ Timer \/ Stopping \/ LastCheckpoint
  BY <1>3 DEF ToolResult, ModelAnswers, TurnFails, WriteReply, Archive, Commit, Persist,
      HandleFailure, Timer, Stopping, LastCheckpoint, Say
<1>4. CASE Stopped \/ InboxWakes \/ AcceptWake \/ IgnoreWake \/ Throw \/ Crash \/ Choke
          \/ CommitChokes \/ Reported \/ RequestStop \/ (\E m \in Messages : Post(m)) \/ PostWake
  BY <1>4 DEF Stopped, InboxWakes, AcceptWake, IgnoreWake, Throw, Crash, RequestStop, Post,
      PostWake, Die, Choke, CommitChokes, Reported, Persist, Goto, Fail
<1>5. CASE UNCHANGED vars
  BY <1>5 DEF vars
<1> QED BY <1>1, <1>2, <1>3, <1>4, <1>5 DEF Next, Turn

\* The state in memory does not run ahead of the observations.
LEMMA ObservesInMemory ==
  ASSUME TypeOK, TypeOK', InStep, Filed, [Next]_vars
  PROVE  pc' # "off" => Observes(mem)'
<1>0. mem \in States /\ disk \in States /\ mem' \in States
  BY DEF TypeOK
<1>a. Observes(disk) /\ (pc # "off" => Observes(mem)) /\ observed \subseteq observed'
  BY ObservedGrows DEF Filed
<1>b. \A s, t \in States : Observes(s) /\ t.cycle = s.cycle
          /\ (t.phase = "running" => s.phase = "running" /\ t.inbox = s.inbox) => Observes(t)'
  BY <1>a DEF Observes
<1>1. CASE Start
  <2>1. mem'.cycle = disk.cycle /\ mem'.inbox = disk.inbox /\ mem'.phase = disk.phase
    BY <1>0, <1>1 DEF Start, States
  <2> QED BY <1>0, <1>a, <1>b, <2>1
<1>2. CASE PrepareWake
  <2>1. mem'.cycle = mem.cycle /\ mem'.phase # "running" /\ pc # "off"
    BY <1>0, <1>2 DEF PrepareWake, InStep, States, Persist
  <2> QED BY <1>0, <1>a, <1>b, <2>1
<1>3. CASE NextInbox
  <2>1. mem'.cycle = mem.cycle /\ mem'.phase # "running" /\ pc # "off"
    BY <1>0, <1>3 DEF NextInbox, InStep, States
  <2> QED BY <1>0, <1>a, <1>b, <2>1
<1>4. CASE Prepare
  <2>1. mem'.cycle = mem.cycle /\ mem'.phase # "running" /\ pc # "off"
    BY <1>0, <1>4 DEF Prepare, InStep, States, Persist
  <2> QED BY <1>0, <1>a, <1>b, <2>1
<1>5. CASE AcceptWake
  <2>1. mem'.cycle = mem.cycle /\ mem'.phase # "running" /\ pc # "off"
    BY <1>0, <1>5 DEF AcceptWake, InStep, States
  <2> QED BY <1>0, <1>a, <1>b, <2>1
<1>6. CASE Recognise
  <2>1. pc # "off" /\ (mem' = mem \/ (/\ mem' = [mem EXCEPT !.phase = "running"]
                                      /\ mem.inbox # 0 => <<"input", mem.inbox>> \in observed'))
    BY <1>6 DEF Recognise, MarkRunning, Persist
  <2>2. CASE mem' = mem
    BY <1>0, <1>a, <1>b, <2>1, <2>2
  <2>3. CASE /\ mem' = [mem EXCEPT !.phase = "running"]
             /\ mem.inbox # 0 => <<"input", mem.inbox>> \in observed'
    <3>1. mem'.cycle = mem.cycle /\ mem'.inbox = mem.inbox
      BY <1>0, <2>3 DEF States
    <3> QED BY <1>a, <2>1, <2>3, <3>1 DEF Observes
  <2> QED BY <2>1, <2>2, <2>3
<1>7. CASE Appended
  <2>1. pc # "off" /\ (mem' = mem \/ (/\ mem' = [mem EXCEPT !.phase = "running"]
                                      /\ mem.inbox # 0 => <<"input", mem.inbox>> \in observed'))
    BY <1>7 DEF Appended, MarkRunning, Persist
  <2>2. CASE mem' = mem
    BY <1>0, <1>a, <1>b, <2>1, <2>2
  <2>3. CASE /\ mem' = [mem EXCEPT !.phase = "running"]
             /\ mem.inbox # 0 => <<"input", mem.inbox>> \in observed'
    <3>1. mem'.cycle = mem.cycle /\ mem'.inbox = mem.inbox
      BY <1>0, <2>3 DEF States
    <3> QED BY <1>a, <2>1, <2>3, <3>1 DEF Observes
  <2> QED BY <2>1, <2>2, <2>3
<1>8. CASE Report
  <2>1. mem'.cycle = mem.cycle /\ mem'.inbox = mem.inbox /\ mem'.phase = mem.phase /\ pc # "off"
    BY <1>0, <1>8 DEF Report, Persist, store, States, Say
  <2> QED BY <1>0, <1>a, <1>b, <2>1
<1>9. CASE Commit
  <2>1. pc = "commit" /\ mem'.cycle = mem.cycle + 1 /\ mem'.phase = "idle" /\ observed' = observed /\ mem.cycle \in Nat
    BY <1>0, <1>9 DEF Commit, Persist, States
  <2>2. <<"cycle", mem.cycle + 1>> \in observed
    BY <2>1 DEF Filed
  <2>3. \A n \in 1..mem.cycle + 1 : n \in 1..mem.cycle \/ n = mem.cycle + 1
    BY <2>1
  <2> QED BY <1>a, <2>1, <2>2, <2>3 DEF Observes
<1>10. CASE Stopped \/ Crash \/ CommitChokes
  BY <1>10 DEF Stopped, Crash, CommitChokes, Die, Goto
<1>16. CASE Choke
  BY <1>0, <1>a, <1>b, <1>16 DEF Choke, Die, Goto
<1>17. CASE Reported
  <2>1. mem'.cycle = mem.cycle /\ mem'.inbox = mem.inbox /\ mem'.phase = mem.phase /\ pc # "off"
    BY <1>0, <1>17 DEF Reported, Persist, States
  <2> QED BY <1>0, <1>a, <1>b, <2>1
<1>11. CASE Started \/ Begin \/ AppendPrompt \/ StartTurn \/ ModelCalls \/ ToolResult
  BY <1>0, <1>a, <1>b, <1>11 DEF Started, Begin, AppendPrompt, StartTurn, ModelCalls, ToolResult,
      store, Say
<1>12. CASE ModelAnswers \/ TurnFails \/ WriteReply \/ Archive \/ Remember \/ HandleFailure
  BY <1>0, <1>a, <1>b, <1>12 DEF ModelAnswers, TurnFails, WriteReply, Archive, Remember,
      HandleFailure, store, Say
<1>13. CASE Timer \/ Stopping \/ LastCheckpoint \/ InboxWakes \/ IgnoreWake \/ Throw
  BY <1>0, <1>a, <1>b, <1>13 DEF Timer, Stopping, LastCheckpoint, InboxWakes, IgnoreWake, Throw,
      store
<1>14. CASE RequestStop \/ (\E m \in Messages : Post(m)) \/ PostWake
  BY <1>0, <1>a, <1>b, <1>14 DEF RequestStop, Post, PostWake, store
<1>15. CASE UNCHANGED vars
  BY <1>0, <1>a, <1>b, <1>15 DEF vars, store
<1> QED BY <1>1, <1>2, <1>3, <1>4, <1>5, <1>6, <1>7, <1>8, <1>9, <1>10, <1>11, <1>12, <1>13,
    <1>14, <1>15, <1>16, <1>17 DEF Next, Turn

\* After WriteReply the reply is in the outbox.
LEMMA ReplyFiled ==
  ASSUME TypeOK, Filed, [Next]_vars
  PROVE  pc' \in {"archive", "remember", "commit"} => mem'.inbox = 0 \/ mem'.inbox \in DOMAIN outbox'
<1> USE DEF Filed, Goto, Fail, store, mail
<1>1. CASE WriteReply
  BY <1>1 DEF WriteReply
<1>2. CASE Start \/ Started \/ Begin \/ PrepareWake \/ NextInbox \/ Prepare \/ Recognise \/ Report
  BY <1>2 DEF Start, Started, Begin, PrepareWake, Persist, NextInbox, Prepare, Recognise,
      MarkRunning, Report, Say
<1>3. CASE AppendPrompt \/ Appended \/ StartTurn \/ ModelCalls \/ ToolResult \/ ModelAnswers
          \/ TurnFails \/ Archive
  BY <1>3 DEF AppendPrompt, Appended, MarkRunning, Persist, StartTurn, ModelCalls, ToolResult,
      ModelAnswers, TurnFails, Archive, Say
<1>4. CASE Remember \/ Commit \/ HandleFailure \/ Timer \/ Stopping \/ LastCheckpoint
          \/ Stopped \/ InboxWakes
  BY <1>4 DEF Remember, Commit, Persist, HandleFailure, Timer, Stopping, LastCheckpoint, Stopped,
      InboxWakes
<1>5. CASE AcceptWake \/ IgnoreWake \/ Throw \/ Crash \/ Choke \/ CommitChokes \/ Reported
          \/ RequestStop \/ (\E m \in Messages : Post(m)) \/ PostWake
  BY <1>5 DEF AcceptWake, IgnoreWake, Throw, Crash, RequestStop, Post, PostWake, Die, Choke,
      CommitChokes, Reported, Persist, Goto, Fail
<1>6. CASE UNCHANGED vars
  BY <1>6 DEF vars
<1> QED BY <1>1, <1>2, <1>3, <1>4, <1>5, <1>6 DEF Next, Turn

\* After Remember the cycle is observed.
LEMMA CycleFiled ==
  ASSUME TypeOK, Filed, [Next]_vars
  PROVE  pc' = "commit" => <<"cycle", mem'.cycle + 1>> \in observed'
<1> USE DEF Filed, Goto, Fail, store
<1>1. CASE Remember
  BY <1>1 DEF Remember
<1>2. CASE Start \/ Started \/ Begin \/ PrepareWake \/ NextInbox \/ Prepare \/ Recognise \/ Report
  BY <1>2 DEF Start, Started, Begin, PrepareWake, Persist, NextInbox, Prepare, Recognise,
      MarkRunning, Report, Say
<1>3. CASE AppendPrompt \/ Appended \/ StartTurn \/ ModelCalls \/ ToolResult \/ ModelAnswers
          \/ TurnFails \/ WriteReply
  BY <1>3 DEF AppendPrompt, Appended, MarkRunning, Persist, StartTurn, ModelCalls, ToolResult,
      ModelAnswers, TurnFails, WriteReply, Say
<1>4. CASE Archive \/ Commit \/ HandleFailure \/ Timer \/ Stopping \/ LastCheckpoint
          \/ Stopped \/ InboxWakes
  BY <1>4 DEF Archive, Commit, Persist, HandleFailure, Timer, Stopping, LastCheckpoint, Stopped,
      InboxWakes
<1>5. CASE AcceptWake \/ IgnoreWake \/ Throw \/ Crash \/ Choke \/ CommitChokes \/ Reported
          \/ RequestStop \/ (\E m \in Messages : Post(m)) \/ PostWake
  BY <1>5 DEF AcceptWake, IgnoreWake, Throw, Crash, RequestStop, Post, PostWake, Die, Choke,
      CommitChokes, Reported, Persist, Goto, Fail
<1>6. CASE UNCHANGED vars
  BY <1>6 DEF vars
<1> QED BY <1>1, <1>2, <1>3, <1>4, <1>5, <1>6 DEF Next, Turn

\* The writes that file an answer stay in their order.
LEMMA FiledStep == ASSUME TypeOK, TypeOK', InStep, Filed, [Next]_vars PROVE Filed'
<1>1. Observes(disk)'
  <2>1. \A s \in States : Observes(s) => Observes(s)'
    BY ObservedGrows DEF Observes
  <2> QED BY <2>1, ObservesInMemory, Checkpoints DEF Filed, TypeOK
<1>2. \A m \in DOMAIN outbox' : <<"input", m>> \in observed'
  <2>1. CASE UNCHANGED outbox
    BY <2>1, ObservedGrows DEF Filed
  <2>2. CASE WriteReply
    <3>1. pc = "reply" /\ mem.phase = "running" /\ observed' = observed
      BY <2>2 DEF WriteReply, InStep, Turning, Answered
    <3>2. mem.inbox # 0 => <<"input", mem.inbox>> \in observed
      BY <3>1 DEF Filed, Observes
    <3>3. \A m \in DOMAIN outbox' : m \in DOMAIN outbox \/ (m = mem.inbox /\ m # 0)
      BY <2>2 DEF WriteReply
    <3> QED BY <3>1, <3>2, <3>3 DEF Filed
  <2> QED BY <2>1, <2>2, OutboxGrows
<1>3. pc' \in {"archive", "remember", "commit"} => mem'.inbox = 0 \/ mem'.inbox \in DOMAIN outbox'
  BY ReplyFiled DEF Filed
<1>4. pc' = "commit" => <<"cycle", mem'.cycle + 1>> \in observed'
  BY CycleFiled DEF Filed
<1> QED BY <1>1, <1>2, <1>3, <1>4, ObservesInMemory DEF Filed

-----------------------------------------------------------------------------

\* The invariant holds before the first process.
LEMMA InitEngine == Init => EngineInv
<1> SUFFICES ASSUME Init PROVE EngineInv
  OBVIOUS
<1> USE DEF Init
<1>1. TypeOK
  <2>1. log \in Seq([role : Roles, prompt : Prompts]) /\ DOMAIN outbox = {}
        /\ tail \in 0..Len(log) /\ unacked \subseteq DOMAIN log /\ cut \subseteq DOMAIN log
    OBVIOUS
  <2>2. mem \in States /\ disk \in States /\ mem.inbox = 0 /\ disk.inbox = 0
        /\ wakeFile \in [id : Nat, fresh : BOOLEAN]
    BY NothingSaid
  <2>3. DOMAIN outbox \subseteq posted \ Malformed /\ \A m \in DOMAIN outbox : outbox[m] \in DOMAIN log
    BY <2>1
  <2>4. inbox \subseteq posted /\ processed \subseteq posted /\ rejected \subseteq Malformed /\ posted \subseteq Messages
    OBVIOUS
  <2>5. {mem.inbox, disk.inbox} \subseteq (posted \ Malformed) \union {0}
    BY <2>2
  <2>6. {posts, faults, ends} \subseteq Nat /\ offered \in Nat
    OBVIOUS
  <2>7. {running, stop, unreported} \subseteq BOOLEAN
    OBVIOUS
  <2> QED BY <2>1, <2>2, <2>3, <2>4, <2>5, <2>6, <2>7, Zenon DEF TypeOK
<1>2. LastRole = "nobody" /\ DOMAIN log = {} /\ DOMAIN outbox = {} /\ wakeFile.id = 0
  BY NothingSaid DEF LastRole, RoleAt
<1>3. disk = NoState /\ NoState.phase = "idle" /\ NoState.wake = 0 /\ NoState.lastWake = 0 /\ NoState.letter = 0
      /\ NoState.cycle = 0
  BY NothingSaid
<1>4. InView /\ InStep
  BY DEF InView, InStep, Places, Working, Turning, Answered
<1>5. Fitting
  BY <1>2, <1>3 DEF Fitting, Sound, Fits, Past, PromptIsOwn, WakesAreNew, WakesAreKnown
<1>6. AnswersLast /\ AnswersApart /\ RepliesAreAnswers /\ CallsAreClosed /\ PromptOnce
  BY <1>2 DEF AnswersLast, AnswersApart, RepliesAreAnswers, CallsAreClosed, PromptOnce, Acked
<1>7. OpenCallIsMine /\ CrashIsKnown /\ LettersAreSaid
  BY <1>3 DEF OpenCallIsMine, CrashIsKnown, LettersAreSaid, LettersIn
<1>8. Filed /\ NoMessageLost
  BY <1>2, <1>3 DEF Filed, Observes, NoMessageLost
<1> QED BY <1>1, <1>4, <1>5, <1>6, <1>7, <1>8 DEF EngineInv

\* Every step keeps it.
LEMMA NextEngine == EngineInv /\ [Next]_vars => EngineInv'
<1> SUFFICES ASSUME EngineInv, [Next]_vars PROVE EngineInv'
  OBVIOUS
<1>0. /\ TypeOK /\ InView /\ InStep /\ Fitting /\ AnswersLast /\ AnswersApart /\ RepliesAreAnswers
      /\ CallsAreClosed /\ OpenCallIsMine /\ CrashIsKnown /\ LettersAreSaid /\ Filed /\ NoMessageLost
      /\ PromptOnce
  BY DEF EngineInv
<1>1. TypeOK'
  BY <1>0, TypeStep
<1>2. InView' /\ InStep'
  BY <1>0, <1>1, ViewStep, StepsInStep
<1>3. Fitting'
  BY <1>0, <1>1, FittingStep
<1>4. SaysLegally
  BY <1>0, LegalStep
<1>5. AnswersLast' /\ AnswersApart' /\ CallsAreClosed' /\ PromptOnce'
  BY <1>0, <1>4, TranscriptStep
<1>6. RepliesAreAnswers' /\ OpenCallIsMine' /\ CrashIsKnown' /\ NoMessageLost'
  BY <1>0, RepliesStep, OpenCallStep, CrashStep, MailStep
<1>7. LettersAreSaid' /\ Filed'
  BY <1>0, <1>1, LettersStep, FiledStep
<1> QED BY <1>1, <1>2, <1>3, <1>5, <1>6, <1>7 DEF EngineInv

\* The invariant holds: the checkpoint, the memory of the process and the
\* transcript fit each other at every place where the process can die.
THEOREM EngineInvariant == Spec => []EngineInv
BY InitEngine, NextEngine, PTL DEF Spec

\* The values have their types and the files refer to what is there.
THEOREM EngineTypes == Spec => []TypeOK
<1>1. EngineInv => TypeOK
  BY DEF EngineInv
<1> QED BY <1>1, EngineInvariant, PTL

\* Whatever fails between the append of a prompt and its checkpoint, a message,
\* a wake command or a work cycle is said to the model at most once by an
\* append that was acknowledged.
THEOREM SaidOnce == Spec => []PromptOnce
<1>1. EngineInv => PromptOnce
  BY DEF EngineInv
<1> QED BY <1>1, EngineInvariant, PTL

\* A message leaves the inbox with its reply in the outbox, or rejected.
THEOREM MessagesAreKept == Spec => []NoMessageLost
<1>1. EngineInv => NoMessageLost
  BY DEF EngineInv
<1> QED BY <1>1, EngineInvariant, PTL

\* The witness of a reply is the last prompt before it.
LEMMA OwnReply == EngineInv => ReplyIsOwn
<1> SUFFICES ASSUME EngineInv, NEW m \in DOMAIN outbox
             PROVE  /\ log[outbox[m]].role = "assistant" /\ PromptsBefore(outbox[m]) # {}
                    /\ LET p == log[Max(PromptsBefore(outbox[m]))].prompt
                       IN  p.kind = "message" /\ p.id = m
  BY DEF ReplyIsOwn
<1>1. TypeOK /\ RepliesAreAnswers
  BY DEF EngineInv
<1>2. PICK u \in DOMAIN log : /\ u < outbox[m] /\ IsUser(u)
                              /\ log[u].prompt.kind = "message" /\ log[u].prompt.id = m
                              /\ \A k \in DOMAIN log : u < k /\ k < outbox[m] => ~IsUser(k)
  BY <1>1 DEF RepliesAreAnswers
<1>3. outbox[m] \in DOMAIN log /\ log[outbox[m]].role = "assistant"
  BY <1>1 DEF RepliesAreAnswers
<1>4. DOMAIN log = 1..Len(log) /\ Len(log) \in Nat
  BY <1>1 DEF TypeOK
<1>5. u \in PromptsBefore(outbox[m]) /\ PromptsBefore(outbox[m]) \in SUBSET Nat
  BY <1>2, <1>3, <1>4 DEF PromptsBefore, IsUser
<1>6. \A n \in PromptsBefore(outbox[m]) : n <= u
  BY <1>2, <1>3, <1>4 DEF PromptsBefore, IsUser
<1>7. Max(PromptsBefore(outbox[m])) = u
  BY <1>5, <1>6, Largest
<1> QED BY <1>2, <1>3, <1>5, <1>7

\* A reply in the outbox is the model's answer to that message, and the model
\* answers a prompt by one acknowledged answer, whatever crashes and retries the
\* turn went through.
THEOREM RepliesAreTrue == Spec => []RepliesAreSound
<1>1. EngineInv => AnsweredOnce
  <2> SUFFICES ASSUME EngineInv, NEW i \in Acked, NEW j \in Acked, i < j,
                      log[i].role = "assistant", log[j].role = "assistant"
               PROVE  PromptsBefore(i) # PromptsBefore(j)
    BY DEF AnsweredOnce
  <2>1. PICK k \in DOMAIN log : i < k /\ k < j /\ IsUser(k)
    BY DEF EngineInv, AnswersApart
  <2>2. DOMAIN log = 1..Len(log) /\ Len(log) \in Nat
    BY DEF EngineInv, TypeOK, Acked
  <2>3. k \in PromptsBefore(j) /\ k \notin PromptsBefore(i)
    BY <2>1, <2>2 DEF PromptsBefore, IsUser, Acked
  <2> QED BY <2>3
<1>2. EngineInv => RepliesAreSound
  BY <1>1, OwnReply DEF RepliesAreSound
<1> QED BY <1>2, EngineInvariant, PTL

\* Nothing a crash can take is forgotten: that it happened, what was observed,
\* the letters that were read; and no acknowledged call of the transcript stays
\* open.
THEOREM CrashesForgetNothing == Spec => []NothingForgotten
<1>1. EngineInv => CrashIsKept
  BY DEF EngineInv, CrashIsKnown, Knows, CrashIsKept
<1>2. EngineInv => ObservationsKept
  BY DEF EngineInv, Filed, Observes, NoMessageLost, ObservationsKept
<1>3. EngineInv => LettersKept
  BY DEF EngineInv, LettersAreSaid, LettersIn, LettersKept
<1>4. EngineInv => NothingForgotten
  BY <1>1, <1>2, <1>3 DEF EngineInv, NothingForgotten
<1> QED BY <1>4, EngineInvariant, PTL

=============================================================================
