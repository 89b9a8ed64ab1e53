---------------------------- MODULE SubAgentProofs ----------------------------
(***************************************************************************)
(* The window of one sub-agent for any messages, questions, turn budget    *)
(* and number of generations: askers are released once and for all, with   *)
(* a turn's answer or the sentinel, and what a durable agent has accepted  *)
(* reaches its transcript once or waits in the manifest.                   *)
(***************************************************************************)
EXTENDS SubAgent, SequenceTheorems, TLAPS

\* The manifest's part of TypeOK.
DiskOK == disk \in [recoverable : BOOLEAN, standing : BOOLEAN, inbox : Seq(Entries)]

\* A question is waiting at most once, and every open one waits or is in flight.
Waiting ==
  /\ \A i, j \in DOMAIN asked : asked[i] = asked[j] => i = j
  /\ \A i \in DOMAIN asked : answer[asked[i]] = "open" /\ asked[i] # current
  /\ current # None => answer[current] = "open"
  /\ \A q \in Questions : answer[q] = "open" => q = current \/ InSeq(asked, q)

\* An agent that has ended holds no question and takes none.
Ended ==
  /\ Stopped => asked = << >> /\ current = None
  /\ pc = "gone" => terminated

\* Where a question can be in flight; the thread owes it a turn.
InFlight ==
  current # None =>
    /\ pc \in {"resuming", "delivering", "acking", "top", "turn", "turned", "capped",
              "interrupted", "reap"}
    /\ pc \in {"delivering", "acking", "top"} => needTurn
    /\ pc \in {"delivering", "acking"} => InSeq(log, current) \/ InSeq(todo, current)
    /\ pc \in {"top", "turn", "turned"} => InSeq(log, current)

\* An entry is acknowledged after it has been recorded, a turn answers them all.
Recorded ==
  /\ pc = "acking" => todo # << >> /\ InSeq(log, Head(todo))
  /\ pc = "turned" => served = Len(log)

\* What has left the mailbox and is on its way into the transcript.
Drained == IF pc \in {"delivering", "acking"} THEN todo ELSE << >>
Arrived == ToSet(log) \union ToSet(Drained)

\* The thread has not begun to end.
Living == pc \notin {"reap", "gone", "crashed"}
LivingIsOpen == /\ Living => ~Closed /\ ~terminated
                /\ pc = "reap" => Closed

\* The entries of s are messages that are neither in S nor twice in s.
Fresh(s, S) == \A i \in 1..Len(s) : s[i] \in Messages =>
                 s[i] \notin S /\ \A h \in 1..i - 1 : s[h] # s[i]

\* Transcript, drained entries and mailbox hold what was accepted, one after the
\* other; so do the transcript and the manifest's inbox.
Orderly ==
  /\ \A i \in 1..Len(accepted) : accepted[i] \in sent
  /\ InOrder(accepted, log, {}) /\ Fresh(log, {})
  /\ Living => /\ InOrder(accepted, Drained, ToSet(log)) /\ InOrder(accepted, mail, Arrived)
               /\ ToSet(accepted) \subseteq Arrived \union ToSet(mail)
  /\ Journaled => InOrder(accepted, disk.inbox, ToSet(log))

\* Without a journal nothing is delivered that is in the transcript already.
NoReplay ==
  ~Journaled =>
    /\ Living => Fresh(mail, Arrived)
    /\ pc = "delivering" => Fresh(todo, ToSet(log))
    /\ pc = "acking" => Fresh(Tail(todo), ToSet(log))

\* A thread that has nothing to do has answered its whole transcript.
AllAnswered ==
  /\ pc \in {"turned", "quiet", "closing", "parked", "checked", "asleep", "awake"} => served = Len(log)
  /\ pc \in {"delivering", "top"} /\ ~needTurn => served = Len(log)
  /\ pc = "delivering" /\ ~needTurn => todo = << >>
  /\ pc = "acking" => needTurn

OrderInv == LivingIsOpen /\ Orderly /\ NoReplay /\ AllAnswered

WindowInv == TypeOK /\ Waiting /\ Ended /\ InFlight /\ Recorded
             /\ AnsweredFromTurn /\ AcceptedSurvives /\ (Journaled => DeliveredOnce)
             /\ OrderInv

-----------------------------------------------------------------------------
\* Taking one entry out of a sequence keeps the others.
LEMMA MinusKeeps ==
  ASSUME NEW S, NEW s \in Seq(S), NEW e
  PROVE  /\ Minus(s, e) \in Seq(S)
         /\ \A v \in S : v # e /\ InSeq(s, v) => InSeq(Minus(s, e), v)
<1>1. CASE ~InSeq(s, e)
  BY <1>1 DEF Minus
<1>2. CASE InSeq(s, e)
  <2> DEFINE k == CHOOSE i \in 1..Len(s) : s[i] = e
             l == SubSeq(s, 1, k - 1)
             r == SubSeq(s, k + 1, Len(s))
  <2>1. k \in 1..Len(s) /\ s[k] = e
    BY <1>2 DEF InSeq
  <2>2. Minus(s, e) = l \o r
    BY <1>2 DEF Minus, RemoveAt
  <2> HIDE DEF k
  <2>3. /\ l \in Seq(S) /\ Len(l) = k - 1
        /\ \A i \in 1..(k - 1) : l[i] = s[i]
    BY <2>1
  <2>4. /\ r \in Seq(S) /\ Len(r) = Len(s) - k
        /\ \A i \in 1..(Len(s) - k) : r[i] = s[k + i]
    BY <2>1
  <2> HIDE DEF l, r
  <2>5. /\ l \o r \in Seq(S) /\ Len(l \o r) = Len(s) - 1
        /\ \A i \in 1..(Len(s) - 1) : (l \o r)[i] = IF i <= k - 1 THEN l[i] ELSE r[i - (k - 1)]
    <3>1. /\ l \o r \in Seq(S) /\ Len(l \o r) = Len(l) + Len(r)
          /\ \A i \in 1..(Len(l) + Len(r)) : (l \o r)[i] = IF i <= Len(l) THEN l[i] ELSE r[i - Len(l)]
      BY <2>3, <2>4, ConcatProperties
    <3>2. Len(l) + Len(r) = Len(s) - 1
      BY <2>1, <2>3, <2>4
    <3> QED BY <2>3, <3>1, <3>2
  <2>6. ASSUME NEW v \in S, v # e, NEW i \in 1..Len(s), s[i] = v
        PROVE  \E j \in 1..Len(l \o r) : (l \o r)[j] = v
    <3>1. CASE i < k
      <4>1. (l \o r)[i] = v /\ i \in 1..Len(l \o r)
        BY <2>1, <2>3, <2>4, <2>5, <2>6, <3>1
      <4> QED BY <4>1
    <3>2. CASE i > k
      <4>1. i - k \in 1..(Len(s) - k) /\ i - 1 \in 1..(Len(s) - 1) /\ ~(i - 1 <= k - 1)
        BY <2>1, <3>2, LenProperties
      <4>2. (l \o r)[i - 1] = r[i - k]
        <5>1. (i - 1) - (k - 1) = i - k
          BY <2>1
        <5> QED BY <2>5, <4>1, <5>1
      <4>3. r[i - k] = s[i]
        <5>1. k + (i - k) = i
          BY <2>1
        <5> QED BY <2>4, <4>1, <5>1
      <4> QED BY <2>5, <2>6, <4>1, <4>2, <4>3
    <3> QED BY <2>1, <2>6, <3>1, <3>2
  <2> QED BY <2>2, <2>5, <2>6 DEF InSeq
<1> QED BY <1>1, <1>2

\* What Append, Head, Tail and \o do to the entries of a sequence.
LEMMA SeqFacts ==
  ASSUME NEW S, NEW s \in Seq(S)
  PROVE  /\ \A e \in S : /\ Append(s, e) \in Seq(S) /\ Len(Append(s, e)) = Len(s) + 1
                         /\ \A v : InSeq(Append(s, e), v) <=> InSeq(s, v) \/ v = e
                         /\ \A i \in 1..Len(s) : Append(s, e)[i] = s[i]
                         /\ Append(s, e)[Len(s) + 1] = e
         /\ s # << >> => /\ Head(s) \in S /\ Tail(s) \in Seq(S)
                         /\ \A v : InSeq(s, v) <=> v = Head(s) \/ InSeq(Tail(s), v)
         /\ \A e \in S : s \o <<e>> \in Seq(S) /\ InSeq(s \o <<e>>, e)
         /\ s \o << >> \in Seq(S)
<1>1. ASSUME NEW e \in S
      PROVE  /\ Append(s, e) \in Seq(S) /\ Len(Append(s, e)) = Len(s) + 1
             /\ \A i \in 1..Len(s) : Append(s, e)[i] = s[i]
             /\ Append(s, e)[Len(s) + 1] = e
  OBVIOUS
<1>2. ASSUME NEW e \in S, NEW v PROVE InSeq(Append(s, e), v) <=> InSeq(s, v) \/ v = e
  BY <1>1 DEF InSeq
<1>3. ASSUME s # << >>
      PROVE  /\ Head(s) \in S /\ Tail(s) \in Seq(S)
             /\ \A v : InSeq(s, v) <=> v = Head(s) \/ InSeq(Tail(s), v)
  <2>1. /\ Len(s) \in Nat \ {0} /\ Head(s) = s[1] /\ Head(s) \in S /\ Tail(s) \in Seq(S)
        /\ Len(Tail(s)) = Len(s) - 1
        /\ \A i \in 1..(Len(s) - 1) : Tail(s)[i] = s[i + 1]
    BY <1>3
  <2>2. ASSUME NEW v, NEW i \in 1..Len(s), s[i] = v, i # 1 PROVE InSeq(Tail(s), v)
    <3>1. i - 1 \in 1..(Len(s) - 1) /\ (i - 1) + 1 = i
      BY <2>1, <2>2
    <3>2. Tail(s)[i - 1] = v
      BY <2>1, <2>2, <3>1
    <3> QED BY <2>1, <3>1, <3>2 DEF InSeq
  <2>3. ASSUME NEW v, InSeq(Tail(s), v) PROVE InSeq(s, v)
    <3>1. PICK i \in 1..(Len(s) - 1) : Tail(s)[i] = v
      BY <2>1, <2>3 DEF InSeq
    <3>2. i + 1 \in 1..Len(s) /\ s[i + 1] = v
      BY <2>1, <3>1
    <3> QED BY <3>2 DEF InSeq
  <2> QED BY <2>1, <2>2, <2>3 DEF InSeq
<1>4. ASSUME NEW e \in S PROVE s \o <<e>> \in Seq(S) /\ InSeq(s \o <<e>>, e)
  <2>1. <<e>> \in Seq(S) /\ Len(<<e>>) = 1 /\ <<e>>[1] = e
    OBVIOUS
  <2>2. /\ s \o <<e>> \in Seq(S) /\ Len(s \o <<e>>) = Len(s) + 1
        /\ (s \o <<e>>)[Len(s) + 1] = <<e>>[1]
    <3>1. /\ s \o <<e>> \in Seq(S) /\ Len(s \o <<e>>) = Len(s) + Len(<<e>>)
          /\ \A i \in 1..(Len(s) + Len(<<e>>)) :
               (s \o <<e>>)[i] = IF i <= Len(s) THEN s[i] ELSE <<e>>[i - Len(s)]
      BY <2>1, ConcatProperties
    <3>2. Len(s) + 1 \in 1..(Len(s) + 1) /\ ~(Len(s) + 1 <= Len(s)) /\ (Len(s) + 1) - Len(s) = 1
      BY LenProperties
    <3> QED BY <2>1, <3>1, <3>2
  <2>3. Len(s) + 1 \in 1..Len(s \o <<e>>)
    BY <2>2, LenProperties
  <2> QED BY <2>1, <2>2, <2>3 DEF InSeq
<1>5. s \o << >> \in Seq(S)
  BY ConcatEmptySeq
<1> QED BY <1>1, <1>2, <1>3, <1>4, <1>5

\* Every step keeps the types.
LEMMA TypeStep == TypeOK /\ Recorded /\ [Next]_vars => TypeOK'
<1> SUFFICES ASSUME TypeOK /\ Recorded, [Next]_vars PROVE TypeOK'
  OBVIOUS
<1> USE DEF thread, channel, callers, restOfCallers
<1>0. CASE UNCHANGED vars
  BY <1>0 DEF vars, TypeOK
<1>1. ASSUME NEW m \in Messages, Enqueue(m) PROVE TypeOK'
  <2>1. /\ Append(disk.inbox, m) \in Seq(Entries) /\ Append(mail, m) \in Seq(Entries)
        /\ Append(accepted, m) \in Seq(Messages)
    BY <1>1, SeqFacts DEF TypeOK, Entries
  <2>2. DiskOK'
    BY <1>1, <2>1 DEF Enqueue, Record, TypeOK, DiskOK
  <2>3. mail' \in Seq(Entries) /\ accepted' \in Seq(Messages) /\ ringing' \subseteq {"peer", "cancel"}
    BY <1>1, <2>1 DEF Enqueue, TypeOK
  <2> QED BY <1>1, <2>2, <2>3 DEF Enqueue, TypeOK, DiskOK
<1>2. ASSUME NEW q \in Questions, Ask(q) PROVE TypeOK'
  <2>1. Append(disk.inbox, q) \in Seq(Entries) /\ Append(asked, q) \in Seq(Questions)
    BY <1>2, SeqFacts DEF TypeOK, Entries
  <2> QED BY ZenonT(60), <1>2, <2>1 DEF Ask, Record, TypeOK
<1>3. CASE PromoteCheck
  BY <1>3 DEF PromoteCheck, TypeOK, ThreadPc
<1>4. CASE Promote
  <2>1. DiskOK'
    BY <1>4 DEF Promote, TypeOK, DiskOK
  <2> QED BY <1>4, <2>1 DEF Promote, TypeOK, DiskOK
<1>5. CASE Cascade
  BY <1>5 DEF Cascade, TypeOK, ThreadPc
<1>6. CASE CloseDurably
  <2>1. DiskOK'
    BY <1>6 DEF CloseDurably, Record, TypeOK, DiskOK
  <2> QED BY <1>6, <2>1 DEF CloseDurably, TypeOK, DiskOK
<1>7. ASSUME NEW who \in {"peer", "cancel"}, Ring(who) PROVE TypeOK'
  BY <1>7 DEF Ring, TypeOK, ThreadPc
<1>8. CASE Start
  BY <1>8 DEF Start, Goto, TypeOK, ThreadPc
<1>9. CASE Destroy
  BY <1>9 DEF Destroy, Goto, TypeOK, ThreadPc
<1>10. CASE Begin
  <2>1. <<Prompt>> \in Seq(Entries) /\ Len(<< >>) = 0 /\ Len(<<Prompt>>) = 1
    BY DEF Entries
  <2>2. log' \in Seq(Entries) /\ served \in 0..Len(log')
    <3>1. CASE log = << >> /\ ~cancelled
      <4>1. served = 0 /\ log' = <<Prompt>>
        BY <1>10, <2>1, <3>1 DEF Begin, TypeOK
      <4> QED BY <2>1, <4>1
    <3>2. CASE ~(log = << >> /\ ~cancelled)
      <4>1. log' = log
        BY <1>10, <3>2 DEF Begin
      <4> QED BY <4>1 DEF TypeOK
    <3> QED BY <3>1, <3>2
  <2> QED BY <1>10, <2>2 DEF Begin, TypeOK, ThreadPc
<1>11. CASE Greet
  BY <1>11 DEF Greet, Goto, TypeOK, Entries, ThreadPc
<1>12. CASE Deliver
  <2>1. CASE todo = << >>
    BY <1>12, <2>1 DEF Deliver, TypeOK, ThreadPc
  <2>2. CASE todo # << >>
    <3>1. /\ Append(log, Head(todo)) \in Seq(Entries)
          /\ Len(Append(log, Head(todo))) = Len(log) + 1
      BY <2>2, SeqFacts DEF TypeOK
    <3>2. log' = log \/ log' = Append(log, Head(todo))
      BY <1>12, <2>2 DEF Deliver
    <3>3. log' \in Seq(Entries) /\ served \in 0..Len(log')
      <4>1. Len(log) \in Nat /\ served \in 0..Len(log) /\ log \in Seq(Entries)
        BY DEF TypeOK
      <4>2. Len(log') \in Nat /\ Len(log) <= Len(log') /\ log' \in Seq(Entries)
        BY <3>1, <3>2, <4>1
      <4> QED BY <4>1, <4>2
    <3> QED BY <1>12, <2>2, <3>3 DEF Deliver, TypeOK, ThreadPc
  <2> QED BY <2>1, <2>2
<1>13. CASE Acknowledge
  <2>1. todo # << >> => Tail(todo) \in Seq(Entries)
    BY SeqFacts DEF TypeOK
  <2>2. Minus(disk.inbox, Head(todo)) \in Seq(Entries)
    BY MinusKeeps DEF TypeOK
  <2> QED BY ZenonT(60), <1>13, <2>1, <2>2 DEF Acknowledge, Goto, Record, Recorded, TypeOK, ThreadPc
<1>14. CASE Top
  BY <1>14 DEF Top, TypeOK, ThreadPc
<1>15. CASE Capped
  BY <1>15 DEF Capped, Goto, Record, TypeOK, ThreadPc
<1>16. CASE Answer
  BY <1>16 DEF Answer, Goto, TypeOK, ThreadPc
<1>17. CASE Quiet
  <2>1. (todo' = mail \/ todo' = todo) /\ (mail' = << >> \/ mail' = mail)
        /\ (needTurn' = TRUE \/ needTurn' = needTurn)
    BY <1>17 DEF Quiet
  <2>2. pc' \in ThreadPc
    BY <1>17 DEF Quiet, ThreadPc
  <2>3. todo' \in Seq(Entries) /\ mail' \in Seq(Entries) /\ needTurn' \in BOOLEAN
    <3>1. /\ todo \in Seq(Entries) /\ mail \in Seq(Entries) /\ needTurn \in BOOLEAN
          /\ << >> \in Seq(Entries) /\ TRUE \in BOOLEAN
      BY DEF TypeOK
    <3> QED BY <2>1, <3>1, Zenon
  <2> QED BY <1>17, <2>2, <2>3 DEF Quiet, TypeOK
<1>18. CASE Close
  BY ZenonT(60), <1>18 DEF Close, Record, TypeOK, ThreadPc
<1>19. CASE Look
  <2>1. asked # << >> => Head(asked) \in Questions /\ Tail(asked) \in Seq(Questions)
    BY SeqFacts DEF TypeOK
  <2>2. /\ asked' \in Seq(Questions) /\ current' \in Questions \union {None}
        /\ pc' \in ThreadPc
    BY <1>19, <2>1 DEF Look, TakeWork, restOfWait, TypeOK, ThreadPc
  <2> QED BY <1>19, <2>2 DEF Look, restOfWait, TypeOK
<1>20. CASE Doze
  BY <1>20 DEF Doze, Goto, restOfWait, TypeOK, ThreadPc
<1>21. CASE Timeout
  <2>1. asked # << >> => Head(asked) \in Questions /\ Tail(asked) \in Seq(Questions)
    BY SeqFacts DEF TypeOK
  <2>2. /\ asked' \in Seq(Questions) /\ current' \in Questions \union {None}
        /\ pc' \in ThreadPc
    BY <1>21, <2>1 DEF Timeout, TakeWork, restOfWait, TypeOK, ThreadPc
  <2> QED BY <1>21, <2>2 DEF Timeout, restOfWait, TypeOK
<1>22. CASE Resume
  <2>1. mail \o (IF current = None THEN << >> ELSE <<current>>) \in Seq(Entries)
    BY SeqFacts DEF TypeOK, Entries
  <2>2. (todo' = mail \o (IF current = None THEN << >> ELSE <<current>>) \/ todo' = todo)
        /\ (mail' = << >> \/ mail' = mail) /\ (needTurn' = TRUE \/ needTurn' = needTurn)
    BY <1>22 DEF Resume
  <2>3. pc' \in ThreadPc
    BY <1>22 DEF Resume, ThreadPc
  <2>4. todo' \in Seq(Entries) /\ mail' \in Seq(Entries) /\ needTurn' \in BOOLEAN
    <3>1. /\ todo \in Seq(Entries) /\ mail \in Seq(Entries) /\ needTurn \in BOOLEAN
          /\ << >> \in Seq(Entries) /\ TRUE \in BOOLEAN
      BY DEF TypeOK
    <3> QED BY <2>1, <2>2, <3>1, Zenon
  <2> QED BY <1>22, <2>3, <2>4 DEF Resume, TypeOK
<1>23. CASE Interrupted
  BY <1>23 DEF Interrupted, Goto, TypeOK, ThreadPc
<1>24. CASE Reap
  BY <1>24 DEF Reap, Goto, TypeOK, ThreadPc
<1>25. CASE RunTurn
  BY <1>25 DEF RunTurn, Goto, TypeOK, ThreadPc
<1>26. CASE Fail
  BY <1>26 DEF Fail, TypeOK, ThreadPc
<1>27. CASE TurnCancelled
  BY <1>27 DEF TurnCancelled, Goto, TypeOK, ThreadPc
<1>28. CASE Crash
  <2>1. mail' \in Seq(Entries) /\ asked' \in Seq(Questions) /\ todo' \in Seq(Entries)
    BY <1>28 DEF Crash
  <2>2. answer' \in [Questions -> {"unasked", "open", "answered", "empty", "lost"}]
    BY <1>28 DEF Crash, TypeOK
  <2> QED BY <1>28, <2>1, <2>2 DEF Crash, TypeOK, ThreadPc
<1>29. CASE Restore
  <2>1. mail' \in Seq(Entries) /\ asked' \in Seq(Questions) /\ todo' \in Seq(Entries)
    BY <1>29 DEF Restore, TypeOK
  <2>2. lives' \in 1..MaxLives /\ standing' \in BOOLEAN
    BY <1>29, BoundAssumption DEF Restore, TypeOK
  <2> QED BY <1>29, <2>1, <2>2 DEF Restore, TypeOK, ThreadPc
<1>30. CASE Rest
  BY <1>30 DEF Rest, vars, TypeOK, ThreadPc
<1> QED BY <1>0, <1>1, <1>2, <1>3, <1>4, <1>5, <1>6, <1>7, <1>8, <1>9, <1>10, <1>11,
           <1>12, <1>13, <1>14, <1>15, <1>16, <1>17, <1>18, <1>19, <1>20, <1>21,
           <1>22, <1>23, <1>24, <1>25, <1>26, <1>27, <1>28, <1>29, <1>30 DEF Next,
           ThreadStep

\* The end of an agent, and what is recorded when.
LEMMA EndStep == TypeOK /\ Ended /\ InFlight /\ Recorded /\ [Next]_vars => Ended' /\ Recorded'
<1> SUFFICES ASSUME TypeOK /\ Ended /\ InFlight /\ Recorded,
      [Next]_vars PROVE Ended' /\ Recorded'
  OBVIOUS
<1> USE DEF thread, channel, callers, restOfCallers
<1>0. CASE UNCHANGED vars
  BY <1>0 DEF vars, Ended, Recorded, Stopped
<1>1. ASSUME NEW m \in Messages, Enqueue(m) PROVE Ended' /\ Recorded'
  BY <1>1 DEF Enqueue, Record, Ended, Recorded, Stopped
<1>2. ASSUME NEW q \in Questions, Ask(q) PROVE Ended' /\ Recorded'
  BY <1>2 DEF Ask, Record, Ended, Recorded, Stopped
<1>3. CASE PromoteCheck
  BY <1>3 DEF PromoteCheck, Ended, Recorded, Stopped
<1>4. CASE Promote
  BY <1>4 DEF Promote, Ended, Recorded, Stopped
<1>5. CASE Cascade
  BY <1>5 DEF Cascade, Ended, Recorded, Stopped
<1>6. CASE CloseDurably
  BY <1>6 DEF CloseDurably, Record, Ended, Recorded, Stopped
<1>7. ASSUME NEW who \in {"peer", "cancel"}, Ring(who) PROVE Ended' /\ Recorded'
  BY <1>7 DEF Ring, Ended, Recorded, Stopped
<1>8. CASE Start
  BY <1>8 DEF Start, Goto, Ended, Recorded, Stopped
<1>9. CASE Destroy
  BY <1>9 DEF Destroy, Goto, Ended, Recorded, Stopped, InFlight
<1>10. CASE Begin
  BY <1>10 DEF Begin, Ended, Recorded, Stopped
<1>11. CASE Greet
  BY <1>11 DEF Greet, Goto, Ended, Recorded, Stopped
<1>12. CASE Deliver
  <2>1. todo # << >> => InSeq(Append(log, Head(todo)), Head(todo))
    BY SeqFacts DEF TypeOK
  <2> QED BY <1>12, <2>1 DEF Deliver, Ended, Recorded, Stopped
<1>13. CASE Acknowledge
  BY <1>13 DEF Acknowledge, Goto, Record, Ended, Recorded, Stopped
<1>14. CASE Top
  BY <1>14 DEF Top, Ended, Recorded, Stopped
<1>15. CASE Capped
  BY <1>15 DEF Capped, Goto, Record, Ended, Recorded, Stopped
<1>16. CASE Answer
  BY <1>16 DEF Answer, Goto, Ended, Recorded, Stopped
<1>17. CASE Quiet
  BY <1>17 DEF Quiet, Ended, Recorded, Stopped
<1>18. CASE Close
  BY <1>18 DEF Close, Record, Ended, Recorded, Stopped
<1>19. CASE Look
  BY <1>19 DEF Look, TakeWork, restOfWait, Ended, Recorded, Stopped
<1>20. CASE Doze
  BY <1>20 DEF Doze, Goto, restOfWait, Ended, Recorded, Stopped
<1>21. CASE Timeout
  BY <1>21 DEF Timeout, TakeWork, restOfWait, Ended, Recorded, Stopped
<1>22. CASE Resume
  BY <1>22 DEF Resume, Ended, Recorded, Stopped
<1>23. CASE Interrupted
  BY <1>23 DEF Interrupted, Goto, Ended, Recorded, Stopped
<1>24. CASE Reap
  BY <1>24 DEF Reap, Goto, Ended, Recorded, Stopped
<1>25. CASE RunTurn
  BY <1>25 DEF RunTurn, Goto, Ended, Recorded, Stopped
<1>26. CASE Fail
  BY <1>26 DEF Fail, Ended, Recorded, Stopped
<1>27. CASE TurnCancelled
  BY <1>27 DEF TurnCancelled, Goto, Ended, Recorded, Stopped
<1>28. CASE Crash
  BY <1>28 DEF Crash, Ended, Recorded, Stopped
<1>29. CASE Restore
  BY <1>29 DEF Restore, Ended, Recorded, Stopped
<1>30. CASE Rest
  BY <1>30 DEF Rest, vars, Ended, Recorded, Stopped
<1> QED BY <1>0, <1>1, <1>2, <1>3, <1>4, <1>5, <1>6, <1>7, <1>8, <1>9, <1>10, <1>11,
           <1>12, <1>13, <1>14, <1>15, <1>16, <1>17, <1>18, <1>19, <1>20, <1>21,
           <1>22, <1>23, <1>24, <1>25, <1>26, <1>27, <1>28, <1>29, <1>30 DEF Next,
           ThreadStep

\* The place of the question in flight.
LEMMA FlightStep == TypeOK /\ InFlight /\ Recorded /\ [Next]_vars => InFlight'
<1> SUFFICES ASSUME TypeOK /\ InFlight /\ Recorded, [Next]_vars PROVE InFlight'
  OBVIOUS
<1> USE DEF thread, channel, callers, restOfCallers
<1>0. CASE UNCHANGED vars
  BY <1>0 DEF vars, InFlight
<1>1. ASSUME NEW m \in Messages, Enqueue(m) PROVE InFlight'
  BY <1>1 DEF Enqueue, Record, InFlight
<1>2. ASSUME NEW q \in Questions, Ask(q) PROVE InFlight'
  BY <1>2 DEF Ask, Record, InFlight
<1>3. CASE PromoteCheck
  BY <1>3 DEF PromoteCheck, InFlight
<1>4. CASE Promote
  BY <1>4 DEF Promote, InFlight
<1>5. CASE Cascade
  BY <1>5 DEF Cascade, InFlight
<1>6. CASE CloseDurably
  BY <1>6 DEF CloseDurably, Record, InFlight
<1>7. ASSUME NEW who \in {"peer", "cancel"}, Ring(who) PROVE InFlight'
  BY <1>7 DEF Ring, InFlight
<1>8. CASE Start
  BY <1>8 DEF Start, Goto, InFlight
<1>9. CASE Destroy
  BY <1>9 DEF Destroy, Goto, InFlight
<1>10. CASE Begin
  BY <1>10 DEF Begin, InFlight
<1>11. CASE Greet
  BY <1>11 DEF Greet, Goto, InFlight
<1>12. CASE Deliver
  <2>1. todo # << >> => InSeq(Append(log, Head(todo)), Head(todo))
                        /\ \A v : InSeq(log, v) => InSeq(Append(log, Head(todo)), v)
    BY SeqFacts DEF TypeOK
  <2>2. InSeq(todo, current) => todo # << >>
    BY DEF InSeq
  <2> QED BY <1>12, <2>1, <2>2 DEF Deliver, InFlight
<1>13. CASE Acknowledge
  <2>1. \A v : InSeq(todo, v) => v = Head(todo) \/ InSeq(Tail(todo), v)
    BY <1>13, SeqFacts DEF Recorded, TypeOK, Acknowledge, Goto
  <2> QED BY <1>13, <2>1 DEF Acknowledge, Goto, InFlight, Recorded
<1>14. CASE Top
  BY <1>14 DEF Top, InFlight
<1>15. CASE Capped
  BY <1>15 DEF Capped, Goto, Record, InFlight
<1>16. CASE Answer
  BY <1>16 DEF Answer, Goto, InFlight
<1>17. CASE Quiet
  BY <1>17 DEF Quiet, InFlight
<1>18. CASE Close
  BY <1>18 DEF Close, Record, InFlight
<1>19. CASE Look
  BY <1>19 DEF Look, TakeWork, restOfWait, InFlight
<1>20. CASE Doze
  BY <1>20 DEF Doze, Goto, restOfWait, InFlight
<1>21. CASE Timeout
  BY <1>21 DEF Timeout, TakeWork, restOfWait, InFlight
<1>22. CASE Resume
  <2>1. current # None => InSeq(mail \o <<current>>, current)
    BY SeqFacts DEF TypeOK, Entries
  <2> QED BY <1>22, <2>1 DEF Resume, InFlight
<1>23. CASE Interrupted
  BY <1>23 DEF Interrupted, Goto, InFlight
<1>24. CASE Reap
  BY <1>24 DEF Reap, Goto, InFlight
<1>25. CASE RunTurn
  BY <1>25 DEF RunTurn, Goto, InFlight
<1>26. CASE Fail
  BY <1>26 DEF Fail, InFlight
<1>27. CASE TurnCancelled
  BY <1>27 DEF TurnCancelled, Goto, InFlight
<1>28. CASE Crash
  BY <1>28 DEF Crash, InFlight
<1>29. CASE Restore
  BY <1>29 DEF Restore, InFlight
<1>30. CASE Rest
  BY <1>30 DEF Rest, vars, InFlight
<1> QED BY <1>0, <1>1, <1>2, <1>3, <1>4, <1>5, <1>6, <1>7, <1>8, <1>9, <1>10, <1>11,
           <1>12, <1>13, <1>14, <1>15, <1>16, <1>17, <1>18, <1>19, <1>20, <1>21,
           <1>22, <1>23, <1>24, <1>25, <1>26, <1>27, <1>28, <1>29, <1>30 DEF Next,
           ThreadStep

\* The steps that change the questions or the answers.
LEMMA WindowFrame ==
  [Next]_vars => \/ UNCHANGED <<asked, current, answer>> \/ \E q \in Questions : Ask(q)
                 \/ Destroy \/ Answer \/ Look \/ Timeout \/ Reap \/ Crash \/ Restore
<1> SUFFICES ASSUME [Next]_vars, ~UNCHANGED <<asked, current, answer>>
             PROVE  \/ \E q \in Questions : Ask(q)
                    \/ Destroy \/ Answer \/ Look \/ Timeout \/ Reap \/ Crash \/ Restore
  OBVIOUS
<1> USE DEF thread, channel, callers, restOfCallers
<1>1. ~UNCHANGED vars
  BY DEF vars
<1>2. \A m \in Messages : ~Enqueue(m)
  BY DEF Enqueue
<1>3. ~PromoteCheck /\ ~Promote /\ ~Cascade /\ ~CloseDurably /\ (\A who : ~Ring(who)) /\ ~Start /\ ~Rest
  BY DEF PromoteCheck, Promote, Cascade, CloseDurably, Ring, Start, Goto, Rest, vars
<1>4. ~Begin /\ ~Greet /\ ~Deliver /\ ~Acknowledge /\ ~Top /\ ~Capped /\ ~Quiet /\ ~Close
  BY DEF Begin, Greet, Deliver, Acknowledge, Top, Capped, Quiet, Close, Goto
<1>5. ~Doze /\ ~Resume /\ ~Interrupted /\ ~RunTurn /\ ~Fail /\ ~TurnCancelled
  BY DEF Doze, Resume, Interrupted, RunTurn, Fail, TurnCancelled, Goto, restOfWait
<1> QED BY <1>1, <1>2, <1>3, <1>4, <1>5 DEF Next, ThreadStep

\* A question keeps its place in the line, and its asker the open promise.
LEMMA WaitingStep == TypeOK /\ Waiting /\ Ended /\ InFlight /\ [Next]_vars => Waiting'
<1> SUFFICES ASSUME TypeOK, Waiting, Ended, InFlight, [Next]_vars PROVE Waiting'
  OBVIOUS
<1> USE DEF thread, channel, callers, restOfCallers
<1>0. /\ asked \in Seq(Questions) /\ current \in Questions \union {None} /\ None \notin Questions
      /\ DOMAIN asked = 1..Len(asked) /\ Len(asked) \in Nat /\ \A i \in 1..Len(asked) : asked[i] \in Questions
      /\ answer \in [Questions -> {"unasked", "open", "answered", "empty", "lost"}]
  BY EntriesAssumption DEF TypeOK
<1>1. CASE UNCHANGED <<asked, current, answer>>
  BY <1>1 DEF Waiting, InSeq
<1>2. ASSUME NEW q \in Questions, Ask(q) PROVE Waiting'
  <2>1. CASE UNCHANGED asked
    <3>0. Append(asked, q) # asked
      <4>1. Len(Append(asked, q)) = Len(asked) + 1
        BY <1>0, SeqFacts
      <4>2. Len(asked) + 1 # Len(asked)
        <5>1. \A n \in Nat : n + 1 # n
          OBVIOUS
        <5> QED BY <1>0, <5>1, Zenon
      <4> QED BY <4>1, <4>2, Zenon
    <3>1. /\ answer' = [answer EXCEPT ![q] = "empty"] /\ UNCHANGED current
          /\ answer[q] = "unasked"
      BY <1>2, <2>1, <3>0 DEF Ask
    <3> QED BY <1>0, <2>1, <3>1 DEF Waiting, InSeq
  <2>2. CASE ~UNCHANGED asked
    <3>1. /\ answer' = [answer EXCEPT ![q] = "open"] /\ asked' = Append(asked, q)
          /\ UNCHANGED current /\ answer[q] = "unasked"
      BY <1>2, <2>2 DEF Ask
    <3>2. /\ asked' \in Seq(Questions) /\ Len(asked') = Len(asked) + 1 /\ DOMAIN asked' = 1..(Len(asked) + 1)
          /\ \A i \in 1..Len(asked) : asked'[i] = asked[i]
          /\ asked'[Len(asked) + 1] = q
          /\ \A v : InSeq(asked', v) <=> InSeq(asked, v) \/ v = q
      BY <1>0, <3>1, SeqFacts
    <3>3. \A i \in DOMAIN asked' : i \in 1..Len(asked) \/ i = Len(asked) + 1
      BY <1>0, <3>2
    <3>4. current # q /\ \A i \in 1..Len(asked) : asked[i] # q
      BY <1>0, <3>1 DEF Waiting
    <3>5. \A i \in DOMAIN asked' : answer'[asked'[i]] = "open" /\ asked'[i] # current'
      BY <1>0, <3>1, <3>2, <3>3, <3>4 DEF Waiting
    <3>6. \A i, j \in DOMAIN asked' : asked'[i] = asked'[j] => i = j
      BY <1>0, <3>2, <3>3, <3>4 DEF Waiting
    <3> QED BY <1>0, <3>1, <3>2, <3>4, <3>5, <3>6 DEF Waiting
  <2> QED BY <2>1, <2>2
<1>3. ASSUME Look \/ Timeout PROVE Waiting'
  <2>1. current = None /\ answer' = answer
    BY <1>3 DEF InFlight, Look, Timeout, restOfWait
  <2>2. CASE UNCHANGED <<asked, current>>
    BY <2>1, <2>2, <1>1
  <2>3. CASE ~UNCHANGED <<asked, current>>
    <3>1. asked # << >> /\ current' = Head(asked) /\ asked' = Tail(asked)
      BY <1>3, <2>3 DEF Look, Timeout, TakeWork
    <3>2. /\ Len(asked) \in Nat \ {0} /\ Head(asked) = asked[1] /\ DOMAIN asked' = 1..(Len(asked) - 1)
          /\ Len(asked') = Len(asked) - 1
          /\ \A i \in 1..(Len(asked) - 1) : asked'[i] = asked[i + 1]
          /\ \A v : InSeq(asked, v) <=> v = Head(asked) \/ InSeq(asked', v)
      BY <1>0, <3>1, SeqFacts, HeadTailProperties
    <3>3. \A i \in DOMAIN asked' : i + 1 \in DOMAIN asked /\ i + 1 # 1 /\ asked'[i] = asked[i + 1]
      BY <1>0, <3>2
    <3>4. 1 \in DOMAIN asked
      BY <1>0, <3>2
    <3>5. \A i, j \in DOMAIN asked' : asked'[i] = asked'[j] => i = j
      BY <1>0, <3>2, <3>3 DEF Waiting
    <3>6. \A i \in DOMAIN asked' : answer'[asked'[i]] = "open" /\ asked'[i] # current'
      BY <2>1, <3>1, <3>2, <3>3, <3>4 DEF Waiting
    <3>7. answer'[current'] = "open"
      BY <2>1, <3>1, <3>2, <3>4 DEF Waiting
    <3> QED BY <1>0, <2>1, <3>1, <3>2, <3>5, <3>6, <3>7 DEF Waiting
  <2> QED BY <2>2, <2>3
<1>4. ASSUME Answer PROVE Waiting'
  <2>1. /\ current' = None /\ asked' = asked
        /\ answer' = [q \in Questions |-> IF q = current THEN "answered" ELSE answer[q]]
    BY <1>4 DEF Answer
  <2> QED BY <1>0, <2>1 DEF Waiting, InSeq
<1>5. ASSUME Destroy \/ Reap PROVE Waiting'
  <2>1. asked' = << >> /\ current' = None
    BY <1>5 DEF Destroy, Reap, Goto, InFlight
  <2>2. \A q \in Questions : answer'[q] # "open"
    <3>1. CASE Destroy
      BY <1>0, <3>1 DEF Destroy, Waiting, Goto, InFlight
    <3>2. CASE Reap
      BY <1>0, <3>2 DEF Reap, Waiting
    <3> QED BY <1>5, <3>1, <3>2
  <2> QED BY <2>1, <2>2 DEF Waiting
<1>6. ASSUME Crash PROVE Waiting'
  <2>1. asked' = << >> /\ current' = None /\ \A q \in Questions : answer'[q] # "open"
    BY <1>0, <1>6 DEF Crash
  <2> QED BY <2>1 DEF Waiting
<1>7. ASSUME Restore PROVE Waiting'
  <2>1. asked = << >> /\ current = None /\ asked' = << >> /\ current' = None /\ answer' = answer
    BY <1>7 DEF Restore, Ended, Stopped
  <2> QED BY <2>1 DEF Waiting, InSeq
<1> QED BY <1>1, <1>2, <1>3, <1>4, <1>5, <1>6, <1>7, WindowFrame

\* Only Answer answers.
LEMMA AnswerFrame ==
  [Next]_vars /\ TypeOK => \A q \in Questions : answer'[q] = "answered" /\ answer[q] # "answered" => Answer
<1> SUFFICES ASSUME [Next]_vars, TypeOK, NEW q \in Questions,
                    answer'[q] = "answered", answer[q] # "answered", ~Answer
             PROVE  FALSE
  OBVIOUS
<1>0. answer \in [Questions -> {"unasked", "open", "answered", "empty", "lost"}]
  BY DEF TypeOK
<1>1. answer' # answer
  BY <1>0
<1>2. \A p \in Questions : ~Ask(p)
  BY <1>0 DEF Ask, restOfCallers
<1>3. ~Destroy /\ ~Look /\ ~Timeout /\ ~Reap /\ ~Crash /\ ~Restore
  BY <1>0, <1>1 DEF Destroy, Look, Timeout, Reap, Crash, Restore, restOfWait, callers
<1> QED BY <1>1, <1>2, <1>3, WindowFrame

\* The transcript only grows, and so does what is answered of it.
Grows == /\ served <= served' /\ Len(log) <= Len(log')
         /\ \A i \in 1..Len(log) : log'[i] = log[i]

LEMMA GrowStep == TypeOK /\ [Next]_vars => Grows
<1> SUFFICES ASSUME TypeOK, [Next]_vars PROVE Grows
  OBVIOUS
<1> USE DEF thread, channel, callers, restOfCallers, Grows
<1>0. CASE UNCHANGED vars
  BY <1>0 DEF vars, TypeOK
<1>1. ASSUME NEW m \in Messages, Enqueue(m) PROVE Grows
  BY <1>1 DEF Enqueue, Record, TypeOK
<1>2. ASSUME NEW q \in Questions, Ask(q) PROVE Grows
  BY <1>2 DEF Ask, Record, TypeOK
<1>3. CASE PromoteCheck
  BY <1>3 DEF PromoteCheck, TypeOK
<1>4. CASE Promote
  BY <1>4 DEF Promote, TypeOK
<1>5. CASE Cascade
  BY <1>5 DEF Cascade, TypeOK
<1>6. CASE CloseDurably
  BY <1>6 DEF CloseDurably, Record, TypeOK
<1>7. ASSUME NEW who \in {"peer", "cancel"}, Ring(who) PROVE Grows
  BY <1>7 DEF Ring, TypeOK
<1>8. CASE Start
  BY <1>8 DEF Start, Goto, TypeOK
<1>9. CASE Destroy
  BY <1>9 DEF Destroy, Goto, TypeOK
<1>10. CASE Begin
  <2>1. log = << >> => Len(log) = 0 /\ served = 0
    BY DEF TypeOK
  <2>2. log = << >> \/ log' = log
    BY <1>10 DEF Begin
  <2>3. served' = served
    BY <1>10 DEF Begin
  <2>4. Len(log') \in Nat
    BY <1>10 DEF Begin, TypeOK
  <2> QED BY <2>1, <2>2, <2>3, <2>4 DEF TypeOK
<1>11. CASE Greet
  BY <1>11 DEF Greet, Goto, TypeOK
<1>12. CASE Deliver
  <2>1. CASE todo # << >> /\ log' = Append(log, Head(todo))
    <3>1. /\ \A i \in 1..Len(log) : log'[i] = log[i]
          /\ Len(log') = Len(log) + 1 /\ served' = served
      BY <1>12, <2>1, SeqFacts DEF Deliver, TypeOK
    <3>2. Len(log) \in Nat /\ served \in 0..Len(log)
      BY DEF TypeOK
    <3> QED BY <3>1, <3>2
  <2>2. CASE log' = log
    BY <1>12, <2>2 DEF Deliver, TypeOK
  <2> QED BY <1>12, <2>1, <2>2 DEF Deliver
<1>13. CASE Acknowledge
  BY <1>13 DEF Acknowledge, Goto, Record, TypeOK
<1>14. CASE Top
  BY <1>14 DEF Top, TypeOK
<1>15. CASE Capped
  BY <1>15 DEF Capped, Goto, Record, TypeOK
<1>16. CASE Answer
  BY <1>16 DEF Answer, Goto, TypeOK
<1>17. CASE Quiet
  BY <1>17 DEF Quiet, TypeOK
<1>18. CASE Close
  BY <1>18 DEF Close, Record, TypeOK
<1>19. CASE Look
  BY <1>19 DEF Look, TakeWork, restOfWait, TypeOK
<1>20. CASE Doze
  BY <1>20 DEF Doze, Goto, restOfWait, TypeOK
<1>21. CASE Timeout
  BY <1>21 DEF Timeout, TakeWork, restOfWait, TypeOK
<1>22. CASE Resume
  BY <1>22 DEF Resume, TypeOK
<1>23. CASE Interrupted
  BY <1>23 DEF Interrupted, Goto, TypeOK
<1>24. CASE Reap
  BY <1>24 DEF Reap, Goto, TypeOK
<1>25. CASE RunTurn
  BY <1>25 DEF RunTurn, Goto, TypeOK
<1>26. CASE Fail
  BY <1>26 DEF Fail, TypeOK
<1>27. CASE TurnCancelled
  BY <1>27 DEF TurnCancelled, Goto, TypeOK
<1>28. CASE Crash
  BY <1>28 DEF Crash, TypeOK
<1>29. CASE Restore
  BY <1>29 DEF Restore, TypeOK
<1>30. CASE Rest
  BY <1>30 DEF Rest, vars, TypeOK
<1> QED BY <1>0, <1>1, <1>2, <1>3, <1>4, <1>5, <1>6, <1>7, <1>8, <1>9, <1>10, <1>11,
           <1>12, <1>13, <1>14, <1>15, <1>16, <1>17, <1>18, <1>19, <1>20, <1>21,
           <1>22, <1>23, <1>24, <1>25, <1>26, <1>27, <1>28, <1>29, <1>30 DEF Next,
           ThreadStep

\* What a turn has answered stays answered: the transcript only grows.
LEMMA AnsweredStep ==
  TypeOK /\ Waiting /\ InFlight /\ Recorded /\ AnsweredFromTurn /\ [Next]_vars => AnsweredFromTurn'
<1> SUFFICES ASSUME TypeOK, InFlight, Recorded, AnsweredFromTurn, [Next]_vars,
                    NEW q \in Questions, answer'[q] = "answered"
             PROVE  \E i \in 1..served' : log'[i] = q
  BY DEF AnsweredFromTurn
<1>1. CASE answer[q] = "answered"
  <2>1. PICK i \in 1..served : log[i] = q
    BY <1>1 DEF AnsweredFromTurn
  <2>2. i \in 1..served' /\ i \in 1..Len(log)
    <3>1. TypeOK' /\ Grows
      BY GrowStep, TypeStep
    <3>2. served \in 0..Len(log) /\ Len(log) \in Nat
      BY DEF TypeOK
    <3>3. served' \in 0..Len(log') /\ Len(log') \in Nat
      BY <3>1 DEF TypeOK
    <3>4. served <= served'
      BY <3>1 DEF Grows
    <3> QED BY <3>2, <3>3, <3>4
  <2>3. log'[i] = log[i]
    BY <2>2, GrowStep DEF Grows
  <2> QED BY <2>1, <2>2, <2>3
<1>2. CASE answer[q] # "answered"
  <2>1. Answer /\ q = current
    <3>1. Answer
      BY <1>2, AnswerFrame
    <3> QED BY <1>2, <3>1 DEF Answer, TypeOK
  <2>2. PICK i \in 1..Len(log) : log[i] = q
    BY <2>1, EntriesAssumption DEF InFlight, Answer, Goto, InSeq
  <2>3. served' = Len(log) /\ log' = log
    BY <2>1 DEF Answer, Goto, Recorded
  <2> QED BY <2>2, <2>3
<1> QED BY <1>1, <1>2

\* The inbox loses an entry only when the transcript has it.
LEMMA JournalFrame ==
  TypeOK /\ Recorded /\ Journaled /\ [Next]_vars =>
    /\ \A v \in Entries : InSeq(log, v) \/ InSeq(disk.inbox, v) => InSeq(log', v) \/ InSeq(disk'.inbox, v)
    /\ \/ accepted' = accepted
       \/ \E m \in Messages : accepted' = Append(accepted, m) /\ InSeq(disk'.inbox, m)
<1> SUFFICES ASSUME TypeOK, Recorded, Journaled, [Next]_vars
             PROVE  /\ \A v \in Entries : InSeq(log, v) \/ InSeq(disk.inbox, v)
                                          => InSeq(log', v) \/ InSeq(disk'.inbox, v)
                    /\ \/ accepted' = accepted
                       \/ \E m \in Messages : accepted' = Append(accepted, m) /\ InSeq(disk'.inbox, m)
  OBVIOUS
<1> USE DEF thread, channel, callers, restOfCallers
<1>0. /\ disk.inbox \in Seq(Entries) /\ log \in Seq(Entries)
      /\ disk \in [recoverable : BOOLEAN, standing : BOOLEAN, inbox : Seq(Entries)]
  BY DEF TypeOK
<1>1. \A v : InSeq(log, v) => InSeq(log', v)
  <2>1. /\ Len(log) \in Nat /\ Len(log') \in Nat /\ Len(log) <= Len(log')
        /\ \A i \in 1..Len(log) : log'[i] = log[i]
    BY SMTT(60), GrowStep, TypeStep DEF Grows, TypeOK
  <2> QED BY <2>1 DEF InSeq
<1>2. ASSUME NEW e \in Entries,
             \/ Enqueue(e) /\ e \in Messages
             \/ Ask(e) /\ e \in Questions
      PROVE  /\ \A v : InSeq(disk.inbox, v) => InSeq(disk'.inbox, v)
             /\ accepted' = accepted \/ (accepted' = Append(accepted, e) /\ InSeq(disk'.inbox, e))
  <2>1. /\ disk' = disk \/ disk' = [disk EXCEPT !.inbox = Append(disk.inbox, e)]
        /\ accepted' = accepted \/ (accepted' = Append(accepted, e)
                                    /\ disk' = [disk EXCEPT !.inbox = Append(disk.inbox, e)])
    BY <1>2 DEF Enqueue, Ask, Record
  <2>2. disk' = disk \/ disk'.inbox = Append(disk.inbox, e)
    BY <1>0, <2>1
  <2>3. \A v : InSeq(Append(disk.inbox, e), v) <=> InSeq(disk.inbox, v) \/ v = e
    BY <1>0, SeqFacts
  <2>4. disk' = [disk EXCEPT !.inbox = Append(disk.inbox, e)] => disk'.inbox = Append(disk.inbox, e)
    BY <1>0
  <2> QED BY <2>1, <2>2, <2>3, <2>4
<1>3. CASE Acknowledge
  <2>1. /\ disk'.inbox = Minus(disk.inbox, Head(todo)) /\ accepted' = accepted /\ log' = log
        /\ InSeq(log, Head(todo))
    BY <1>0, <1>3 DEF Acknowledge, Goto, Record, Recorded
  <2>2. \A v \in Entries : v # Head(todo) /\ InSeq(disk.inbox, v) => InSeq(disk'.inbox, v)
    BY <1>0, <2>1, MinusKeeps
  <2> QED BY <2>1, <2>2
<1>4. ASSUME PromoteCheck \/ Promote \/ Cascade \/ CloseDurably \/ Start \/ Destroy \/ Rest
             \/ (\E who \in {"peer", "cancel"} : Ring(who)) \/ UNCHANGED vars
      PROVE  disk'.inbox = disk.inbox /\ accepted' = accepted
  BY <1>0, <1>4 DEF PromoteCheck, Promote, Cascade, CloseDurably, Record, Start,
     Destroy, Goto, Rest, Ring, vars
<1>5. ASSUME Begin \/ Greet \/ Deliver \/ Top \/ Capped \/ Answer \/ Quiet \/ Close \/ Resume
      PROVE  disk'.inbox = disk.inbox /\ accepted' = accepted
  BY <1>0, <1>5 DEF Begin, Greet, Deliver, Top, Capped, Answer, Quiet, Close, Resume,
     Record, Goto
<1>6. ASSUME Look \/ Doze \/ Timeout \/ Interrupted \/ Reap \/ RunTurn \/ Fail \/ TurnCancelled \/ Crash \/ Restore
      PROVE  disk'.inbox = disk.inbox /\ accepted' = accepted
  BY <1>0, <1>6 DEF Look, Doze, Timeout, restOfWait, Interrupted, Reap, RunTurn, Fail,
     TurnCancelled,
                    Crash, Restore, Goto
<1>7. ASSUME NEW m \in Messages, Enqueue(m)
      PROVE  /\ \A v : InSeq(disk.inbox, v) => InSeq(disk'.inbox, v)
             /\ accepted' = accepted \/ (accepted' = Append(accepted, m) /\ InSeq(disk'.inbox, m))
  BY <1>2, <1>7 DEF Entries
<1>8. ASSUME NEW q \in Questions, Ask(q)
      PROVE  (\A v : InSeq(disk.inbox, v) => InSeq(disk'.inbox, v)) /\ accepted' = accepted
  <2>1. accepted' = accepted
    BY <1>8 DEF Ask
  <2> QED BY <1>2, <1>8, <2>1 DEF Entries
<1>9. CASE disk'.inbox = disk.inbox /\ accepted' = accepted
  BY <1>1, <1>9
<1>10. CASE (\E m \in Messages : Enqueue(m)) \/ (\E q \in Questions : Ask(q))
  BY <1>1, <1>7, <1>8, <1>10
<1> QED BY <1>3, <1>4, <1>5, <1>6, <1>9, <1>10 DEF Next, ThreadStep

\* Hence no accepted message gets out of both.
LEMMA JournalStep ==
  TypeOK /\ Recorded /\ AcceptedSurvives /\ [Next]_vars => AcceptedSurvives'
<1> SUFFICES ASSUME TypeOK, Recorded, AcceptedSurvives, [Next]_vars, Journaled,
      NEW i \in 1..Len(accepted')
             PROVE  InSeq(log', accepted'[i]) \/ InSeq(disk'.inbox, accepted'[i])
  BY DEF AcceptedSurvives
<1>0. accepted \in Seq(Messages) /\ Messages \subseteq Entries
  BY DEF TypeOK, Entries
<1>1. ASSUME NEW k \in 1..Len(accepted)
      PROVE  InSeq(log', accepted[k]) \/ InSeq(disk'.inbox, accepted[k])
  BY <1>0, <1>1, JournalFrame DEF AcceptedSurvives
<1>2. CASE accepted' = accepted
  BY <1>1, <1>2
<1>3. ASSUME NEW m \in Messages, accepted' = Append(accepted, m), InSeq(disk'.inbox, m)
      PROVE  InSeq(log', accepted'[i]) \/ InSeq(disk'.inbox, accepted'[i])
  <2>1. /\ Len(accepted) \in Nat /\ Len(accepted') = Len(accepted) + 1
        /\ \A k \in 1..Len(accepted) : accepted'[k] = accepted[k]
        /\ accepted'[Len(accepted) + 1] = m
    BY <1>0, <1>3, SeqFacts
  <2>2. i \in 1..Len(accepted) \/ i = Len(accepted) + 1
    BY <2>1
  <2> QED BY <1>1, <1>3, <2>1, <2>2
<1> QED BY <1>2, <1>3, JournalFrame

\* A journaled entry is appended only when it is not in the transcript.
LEMMA OnceStep ==
  TypeOK /\ Journaled /\ DeliveredOnce /\ [Next]_vars => DeliveredOnce'
<1> SUFFICES ASSUME TypeOK, Journaled, DeliveredOnce, [Next]_vars PROVE DeliveredOnce'
  OBVIOUS
<1>0. log \in Seq(Entries) /\ Len(log) \in Nat
  BY DEF TypeOK
<1>1. CASE log' = log
  BY <1>1 DEF DeliveredOnce
<1>2. CASE Deliver
  <2>1. CASE log' # log
    <3>1. log' = Append(log, Head(todo)) /\ ~InSeq(log, Head(todo)) /\ Head(todo) \in Entries
      BY <1>2, <2>1, SeqFacts DEF Deliver, TypeOK
    <3>2. /\ Len(log') = Len(log) + 1 /\ log'[Len(log) + 1] = Head(todo)
          /\ \A k \in 1..Len(log) : log'[k] = log[k] /\ log[k] # Head(todo)
      BY <1>0, <3>1, SeqFacts DEF InSeq
    <3>3. \A k \in 1..Len(log') : k \in 1..Len(log) \/ k = Len(log) + 1
      BY <1>0, <3>2
    <3> QED BY <3>2, <3>3 DEF DeliveredOnce
  <2> QED BY <1>1, <2>1
<1>3. CASE Begin
  <2>1. log' = log \/ log' = <<Prompt>>
    BY <1>3 DEF Begin
  <2> QED BY <1>1, <2>1 DEF DeliveredOnce
<1>4. CASE ~Deliver /\ ~Begin
  <2> USE DEF thread, channel, callers, restOfCallers
  <2>1. ASSUME PromoteCheck \/ Promote \/ Cascade \/ CloseDurably \/ Start \/ Destroy \/ Rest
               \/ (\E m \in Messages : Enqueue(m)) \/ (\E q \in Questions : Ask(q))
               \/ (\E who \in {"peer", "cancel"} : Ring(who)) \/ UNCHANGED vars
        PROVE  log' = log
    BY <2>1 DEF PromoteCheck, Promote, Cascade, CloseDurably, Enqueue, Ask, Start,
       Destroy, Goto, Rest, Ring, vars
  <2>2. ASSUME Greet \/ Acknowledge \/ Top \/ Capped \/ Answer \/ Quiet \/ Close \/ Resume
        PROVE  log' = log
    BY <2>2 DEF Greet, Acknowledge, Top, Capped, Answer, Quiet, Close, Resume, Goto
  <2>3. ASSUME Look \/ Doze \/ Timeout \/ Interrupted \/ Reap \/ RunTurn \/ Fail \/ TurnCancelled \/ Crash \/ Restore
        PROVE  log' = log
    BY <2>3 DEF Look, Doze, Timeout, restOfWait, Interrupted, Reap, RunTurn, Fail,
       TurnCancelled,
                Crash, Restore, Goto
  <2> QED BY <1>1, <1>4, <2>1, <2>2, <2>3 DEF Next, ThreadStep
<1> QED BY <1>2, <1>3, <1>4

\* A thread that has not begun to end is open to messages; its end closes it.
LEMMA OpenStep == TypeOK /\ LivingIsOpen /\ [Next]_vars => LivingIsOpen'
<1> SUFFICES ASSUME TypeOK /\ LivingIsOpen, [Next]_vars PROVE LivingIsOpen'
  OBVIOUS
<1> USE DEF thread, channel, callers, restOfCallers
<1>0. CASE UNCHANGED vars
  BY <1>0 DEF vars, LivingIsOpen, Living, Closed
<1>1. ASSUME NEW m \in Messages, Enqueue(m) PROVE LivingIsOpen'
  BY <1>1 DEF Enqueue, Record, LivingIsOpen, Living, Closed
<1>2. ASSUME NEW q \in Questions, Ask(q) PROVE LivingIsOpen'
  BY <1>2 DEF Ask, Record, LivingIsOpen, Living, Closed
<1>3. CASE PromoteCheck
  BY <1>3 DEF PromoteCheck, LivingIsOpen, Living, Closed
<1>4. CASE Promote
  BY <1>4 DEF Promote, LivingIsOpen, Living, Closed
<1>5. CASE Cascade
  BY <1>5 DEF Cascade, LivingIsOpen, Living, Closed
<1>6. CASE CloseDurably
  BY <1>6 DEF CloseDurably, Record, LivingIsOpen, Living, Closed
<1>7. ASSUME NEW who \in {"peer", "cancel"}, Ring(who) PROVE LivingIsOpen'
  BY <1>7 DEF Ring, LivingIsOpen, Living, Closed
<1>8. CASE Start
  BY <1>8 DEF Start, Goto, LivingIsOpen, Living, Closed
<1>9. CASE Destroy
  BY <1>9 DEF Destroy, Goto, LivingIsOpen, Living, Closed
<1>10. CASE Begin
  BY <1>10 DEF Begin, LivingIsOpen, Living, Closed
<1>11. CASE Greet
  BY <1>11 DEF Greet, Goto, LivingIsOpen, Living, Closed
<1>12. CASE Deliver
  BY <1>12 DEF Deliver, LivingIsOpen, Living, Closed
<1>13. CASE Acknowledge
  BY <1>13 DEF Acknowledge, Goto, Record, LivingIsOpen, Living, Closed
<1>14. CASE Top
  BY <1>14 DEF Top, LivingIsOpen, Living, Closed
<1>15. CASE Capped
  BY <1>15 DEF Capped, Goto, Record, LivingIsOpen, Living, Closed
<1>16. CASE Answer
  BY <1>16 DEF Answer, Goto, LivingIsOpen, Living, Closed
<1>17. CASE Quiet
  BY <1>17 DEF Quiet, LivingIsOpen, Living, Closed
<1>18. CASE Close
  BY <1>18 DEF Close, Record, LivingIsOpen, Living, Closed
<1>19. CASE Look
  BY <1>19 DEF Look, TakeWork, restOfWait, LivingIsOpen, Living, Closed
<1>20. CASE Doze
  BY <1>20 DEF Doze, Goto, restOfWait, LivingIsOpen, Living, Closed
<1>21. CASE Timeout
  BY <1>21 DEF Timeout, TakeWork, restOfWait, LivingIsOpen, Living, Closed
<1>22. CASE Resume
  BY <1>22 DEF Resume, LivingIsOpen, Living, Closed
<1>23. CASE Interrupted
  BY <1>23 DEF Interrupted, Goto, LivingIsOpen, Living, Closed
<1>24. CASE Reap
  BY <1>24 DEF Reap, Goto, LivingIsOpen, Living, Closed
<1>25. CASE RunTurn
  BY <1>25 DEF RunTurn, Goto, LivingIsOpen, Living, Closed
<1>26. CASE Fail
  BY <1>26 DEF Fail, LivingIsOpen, Living, Closed
<1>27. CASE TurnCancelled
  BY <1>27 DEF TurnCancelled, Goto, LivingIsOpen, Living, Closed
<1>28. CASE Crash
  BY <1>28 DEF Crash, LivingIsOpen, Living, Closed
<1>29. CASE Restore
  <2>1. pc' = "queued" /\ status' = "queued" /\ terminated' = FALSE
    BY <1>29 DEF Restore
  <2> QED BY <2>1 DEF LivingIsOpen, Living, Closed
<1>30. CASE Rest
  BY <1>30 DEF Rest, vars, LivingIsOpen, Living, Closed
<1> QED BY <1>0, <1>1, <1>2, <1>3, <1>4, <1>5, <1>6, <1>7, <1>8, <1>9, <1>10, <1>11, <1>12,
           <1>13, <1>14, <1>15, <1>16, <1>17, <1>18, <1>19, <1>20, <1>21, <1>22, <1>23, <1>24,
           <1>25, <1>26, <1>27, <1>28, <1>29, <1>30 DEF Next, ThreadStep

\* The thread goes to rest only when a turn has answered the whole transcript.
LEMMA AllAnsweredStep == TypeOK /\ Recorded /\ AllAnswered /\ [Next]_vars => AllAnswered'
<1> SUFFICES ASSUME TypeOK /\ Recorded /\ AllAnswered, [Next]_vars PROVE AllAnswered'
  OBVIOUS
<1> USE DEF thread, channel, callers, restOfCallers
<1>0. CASE UNCHANGED vars
  BY <1>0 DEF vars, AllAnswered
<1>1. ASSUME NEW m \in Messages, Enqueue(m) PROVE AllAnswered'
  BY <1>1 DEF Enqueue, Record, AllAnswered
<1>2. ASSUME NEW q \in Questions, Ask(q) PROVE AllAnswered'
  BY <1>2 DEF Ask, Record, AllAnswered
<1>3. CASE PromoteCheck
  BY <1>3 DEF PromoteCheck, AllAnswered
<1>4. CASE Promote
  BY <1>4 DEF Promote, AllAnswered
<1>5. CASE Cascade
  BY <1>5 DEF Cascade, AllAnswered
<1>6. CASE CloseDurably
  BY <1>6 DEF CloseDurably, Record, AllAnswered
<1>7. ASSUME NEW who \in {"peer", "cancel"}, Ring(who) PROVE AllAnswered'
  BY <1>7 DEF Ring, AllAnswered
<1>8. CASE Start
  BY <1>8 DEF Start, Goto, AllAnswered
<1>9. CASE Destroy
  BY <1>9 DEF Destroy, Goto, AllAnswered
<1>10. CASE Begin
  BY <1>10 DEF Begin, AllAnswered
<1>11. CASE Greet
  <2>1. /\ pc' = "delivering" /\ served' = served /\ log' = log
        /\ ~needTurn' => mail = << >> /\ ~(served < Len(log))
        /\ todo' = mail
    BY <1>11 DEF Greet, Goto
  <2>2. served \in 0..Len(log) /\ Len(log) \in Nat
    BY DEF TypeOK
  <2>3. ~(served < Len(log)) => served = Len(log)
    BY <2>2
  <2> QED BY <2>1, <2>3 DEF AllAnswered
<1>12. CASE Deliver
  BY <1>12 DEF Deliver, AllAnswered
<1>13. CASE Acknowledge
  BY <1>13 DEF Acknowledge, Goto, Record, AllAnswered
<1>14. CASE Top
  BY <1>14 DEF Top, AllAnswered
<1>15. CASE Capped
  BY <1>15 DEF Capped, Goto, Record, AllAnswered
<1>16. CASE Answer
  BY <1>16 DEF Answer, Goto, AllAnswered
<1>17. CASE Quiet
  BY <1>17 DEF Quiet, AllAnswered
<1>18. CASE Close
  BY <1>18 DEF Close, Record, AllAnswered
<1>19. CASE Look
  BY <1>19 DEF Look, TakeWork, restOfWait, AllAnswered
<1>20. CASE Doze
  BY <1>20 DEF Doze, Goto, restOfWait, AllAnswered
<1>21. CASE Timeout
  BY <1>21 DEF Timeout, TakeWork, restOfWait, AllAnswered
<1>22. CASE Resume
  BY <1>22 DEF Resume, AllAnswered
<1>23. CASE Interrupted
  BY <1>23 DEF Interrupted, Goto, AllAnswered
<1>24. CASE Reap
  BY <1>24 DEF Reap, Goto, AllAnswered
<1>25. CASE RunTurn
  BY <1>25 DEF RunTurn, Goto, AllAnswered
<1>26. CASE Fail
  BY <1>26 DEF Fail, AllAnswered
<1>27. CASE TurnCancelled
  BY <1>27 DEF TurnCancelled, Goto, AllAnswered
<1>28. CASE Crash
  BY <1>28 DEF Crash, AllAnswered
<1>29. CASE Restore
  BY <1>29 DEF Restore, AllAnswered
<1>30. CASE Rest
  BY <1>30 DEF Rest, vars, AllAnswered
<1> QED BY <1>0, <1>1, <1>2, <1>3, <1>4, <1>5, <1>6, <1>7, <1>8, <1>9, <1>10, <1>11, <1>12,
           <1>13, <1>14, <1>15, <1>16, <1>17, <1>18, <1>19, <1>20, <1>21, <1>22, <1>23, <1>24,
           <1>25, <1>26, <1>27, <1>28, <1>29, <1>30 DEF Next, ThreadStep

\* The sets of entries of sequences.
LEMMA EmptySet == ToSet(<< >>) = {}
BY DEF ToSet

LEMMA SetFacts ==
  ASSUME NEW S, NEW s \in Seq(S)
  PROVE  /\ \A v : v \in ToSet(s) <=> InSeq(s, v)
         /\ \A e \in S : ToSet(Append(s, e)) = ToSet(s) \union {e}
         /\ s # << >> => ToSet(s) = {Head(s)} \union ToSet(Tail(s))
<1>1. ASSUME NEW t \in Seq(S), NEW v PROVE v \in ToSet(t) <=> InSeq(t, v)
  BY DEF ToSet, InSeq
<1>2. ASSUME NEW e \in S PROVE ToSet(Append(s, e)) = ToSet(s) \union {e}
  <2>1. Append(s, e) \in Seq(S) /\ \A v : InSeq(Append(s, e), v) <=> InSeq(s, v) \/ v = e
    BY SeqFacts
  <2>2. \A v : v \in ToSet(Append(s, e)) <=> v \in ToSet(s) \/ v = e
    BY <1>1, <2>1
  <2> QED BY <2>2
<1>3. ASSUME s # << >> PROVE ToSet(s) = {Head(s)} \union ToSet(Tail(s))
  <2>1. Tail(s) \in Seq(S) /\ \A v : InSeq(s, v) <=> v = Head(s) \/ InSeq(Tail(s), v)
    BY <1>3, SeqFacts
  <2>2. \A v : v \in ToSet(s) <=> v = Head(s) \/ v \in ToSet(Tail(s))
    BY <1>1, <2>1
  <2> QED BY <2>2
<1> QED BY <1>1, <1>2, <1>3

\* How order and freshness survive what is done to the sequences.
LEMMA OrderEmpty == \A a, S : InOrder(a, << >>, S) /\ Fresh(<< >>, S)
BY DEF InOrder, Fresh

LEMMA OrderMore ==
  ASSUME NEW a, NEW s, NEW S, NEW T, InOrder(a, s, S), S \subseteq T
  PROVE  InOrder(a, s, T)
BY DEF InOrder

LEMMA OrderAccepts ==
  ASSUME NEW a \in Seq(Messages), NEW m \in Messages, NEW s, NEW S, InOrder(a, s, S)
  PROVE  InOrder(Append(a, m), s, S)
<1>1. /\ Len(a) \in Nat /\ Len(Append(a, m)) = Len(a) + 1
      /\ \A k \in 1..Len(a) : Append(a, m)[k] = a[k]
  BY SeqFacts
<1> SUFFICES ASSUME NEW i \in 1..Len(s), s[i] \in Messages
             PROVE  \E k \in 1..Len(Append(a, m)) :
                      /\ Append(a, m)[k] = s[i]
                      /\ \A j \in 1..k - 1 : Append(a, m)[j] \in S \/ \E h \in 1..i - 1 : s[h] = Append(a, m)[j]
  BY DEF InOrder
<1>2. PICK k \in 1..Len(a) : /\ a[k] = s[i]
                             /\ \A j \in 1..k - 1 : a[j] \in S \/ \E h \in 1..i - 1 : s[h] = a[j]
  BY DEF InOrder
<1>3. k \in 1..Len(Append(a, m)) /\ \A j \in 1..k - 1 : j \in 1..Len(a)
  BY <1>1
<1> QED BY <1>1, <1>2, <1>3

\* An entry may be added to s when all that came before it is in S or in s.
Preceded(a, e, S) == \E k \in 1..Len(a) : a[k] = e /\ \A j \in 1..k - 1 : a[j] \in S

LEMMA OrderArrives ==
  ASSUME NEW a, NEW s \in Seq(Entries), NEW e \in Entries, NEW S, InOrder(a, s, S),
         e \in Messages => Preceded(a, e, S \union ToSet(s))
  PROVE  InOrder(a, Append(s, e), S)
<1>1. /\ Len(s) \in Nat /\ Len(Append(s, e)) = Len(s) + 1
      /\ \A i \in 1..Len(s) : Append(s, e)[i] = s[i]
      /\ Append(s, e)[Len(s) + 1] = e
  BY SeqFacts
<1> SUFFICES ASSUME NEW i \in 1..Len(Append(s, e)), Append(s, e)[i] \in Messages
             PROVE  \E k \in 1..Len(a) :
                      /\ a[k] = Append(s, e)[i]
                      /\ \A j \in 1..k - 1 : a[j] \in S \/ \E h \in 1..i - 1 : Append(s, e)[h] = a[j]
  BY DEF InOrder
<1>2. CASE i \in 1..Len(s)
  <2>1. PICK k \in 1..Len(a) : /\ a[k] = s[i]
                               /\ \A j \in 1..k - 1 : a[j] \in S \/ \E h \in 1..i - 1 : s[h] = a[j]
    BY <1>1, <1>2 DEF InOrder
  <2>2. \A h \in 1..i - 1 : Append(s, e)[h] = s[h]
    BY <1>1, <1>2
  <2> QED BY <1>1, <1>2, <2>1, <2>2
<1>3. CASE i = Len(s) + 1
  <2>1. PICK k \in 1..Len(a) : a[k] = e /\ \A j \in 1..k - 1 : a[j] \in S \union ToSet(s)
    BY <1>1, <1>3 DEF Preceded
  <2>2. ASSUME NEW v \in ToSet(s) PROVE \E h \in 1..i - 1 : Append(s, e)[h] = v
    <3>1. PICK h \in 1..Len(s) : s[h] = v
      BY <2>2, SetFacts DEF InSeq
    <3>2. h \in 1..i - 1
      BY <1>1, <1>3
    <3> QED BY <1>1, <3>1, <3>2
  <2> QED BY <1>1, <1>3, <2>1, <2>2
<1> QED BY <1>1, <1>2, <1>3

LEMMA OrderNew ==
  ASSUME NEW a \in Seq(Messages), NEW s \in Seq(Entries), NEW m \in Messages, NEW S,
         InOrder(a, s, S), ToSet(a) \subseteq S \union ToSet(s)
  PROVE  InOrder(Append(a, m), Append(s, m), S)
<1>1. /\ Len(a) \in Nat /\ Len(Append(a, m)) = Len(a) + 1
      /\ \A k \in 1..Len(a) : Append(a, m)[k] = a[k]
      /\ Append(a, m)[Len(a) + 1] = m
  BY SeqFacts
<1>2. \A j \in 1..Len(a) : a[j] \in ToSet(a)
  BY DEF ToSet
<1>3. Preceded(Append(a, m), m, S \union ToSet(s))
  <2>1. Len(a) + 1 \in 1..Len(Append(a, m)) /\ \A j \in 1..(Len(a) + 1) - 1 : j \in 1..Len(a)
    BY <1>1
  <2> QED BY <1>1, <1>2, <2>1 DEF Preceded
<1>4. InOrder(Append(a, m), s, S)
  BY OrderAccepts
<1> QED BY <1>3, <1>4, OrderArrives DEF Entries

\* The head of what is in order comes after all that is in S.
LEMMA HeadIsNext ==
  ASSUME NEW a, NEW s \in Seq(Entries), s # << >>, NEW S, InOrder(a, s, S), Head(s) \in Messages
  PROVE  Preceded(a, Head(s), S)
<1>1. 1 \in 1..Len(s) /\ Head(s) = s[1]
  OBVIOUS
<1>2. PICK k \in 1..Len(a) : /\ a[k] = s[1]
                             /\ \A j \in 1..k - 1 : a[j] \in S \/ \E h \in 1..1 - 1 : s[h] = a[j]
  BY <1>1 DEF InOrder
<1> QED BY <1>1, <1>2 DEF Preceded

\* An entry that is in S may leave s, here from anywhere.
Without(s, k, r) == /\ k \in 1..Len(s) /\ r \in Seq(Entries) /\ Len(r) = Len(s) - 1
                    /\ \A i \in 1..Len(s) - 1 : r[i] = IF i < k THEN s[i] ELSE s[i + 1]

LEMMA OrderLeaves ==
  ASSUME NEW a, NEW s \in Seq(Entries), NEW S, InOrder(a, s, S),
         NEW k, NEW r, Without(s, k, r), s[k] \in S
  PROVE  InOrder(a, r, S)
<1> DEFINE At(i) == IF i < k THEN i ELSE i + 1
           Back(h) == IF h < k THEN h ELSE h - 1
<1>1. /\ k \in 1..Len(s) /\ Len(r) = Len(s) - 1 /\ Len(s) \in Nat
      /\ \A i \in 1..Len(r) : At(i) \in 1..Len(s) /\ r[i] = s[At(i)]
      /\ \A i \in 1..Len(r) : \A h \in 1..At(i) - 1 : h # k => Back(h) \in 1..i - 1 /\ At(Back(h)) = h
  BY DEF Without
<1> HIDE DEF At, Back
<1> SUFFICES ASSUME NEW i \in 1..Len(r), r[i] \in Messages
             PROVE  \E n \in 1..Len(a) :
                      /\ a[n] = r[i]
                      /\ \A j \in 1..n - 1 : a[j] \in S \/ \E h \in 1..i - 1 : r[h] = a[j]
  BY DEF InOrder
<1>2. PICK n \in 1..Len(a) : /\ a[n] = s[At(i)]
                             /\ \A j \in 1..n - 1 : a[j] \in S \/ \E h \in 1..At(i) - 1 : s[h] = a[j]
  BY <1>1 DEF InOrder
<1>3. ASSUME NEW h \in 1..At(i) - 1, s[h] \notin S PROVE \E g \in 1..i - 1 : r[g] = s[h]
  <2>1. h # k
    BY <1>3
  <2>2. Back(h) \in 1..i - 1 /\ At(Back(h)) = h
    BY <1>1, <2>1
  <2>3. Back(h) \in 1..Len(r)
    BY <1>1, <2>2
  <2> QED BY <1>1, <2>2, <2>3
<1>4. ASSUME NEW j \in 1..n - 1 PROVE a[j] \in S \/ \E h \in 1..i - 1 : r[h] = a[j]
  BY <1>2, <1>3
<1>5. a[n] = r[i]
  BY <1>1, <1>2
<1> QED BY <1>4, <1>5

LEMMA TailIsWithout == ASSUME NEW s \in Seq(Entries), s # << >> PROVE Without(s, 1, Tail(s))
BY DEF Without

LEMMA MinusIsWithout ==
  ASSUME NEW s \in Seq(Entries), NEW e, InSeq(s, e)
  PROVE  \E k : Without(s, k, Minus(s, e)) /\ s[k] = e
<1> DEFINE k == CHOOSE i \in 1..Len(s) : s[i] = e
           l == SubSeq(s, 1, k - 1)
           r == SubSeq(s, k + 1, Len(s))
<1>1. k \in 1..Len(s) /\ s[k] = e
  BY DEF InSeq
<1>2. Minus(s, e) = l \o r
  BY DEF Minus, RemoveAt
<1> HIDE DEF k
<1>3. /\ l \in Seq(Entries) /\ Len(l) = k - 1
      /\ \A i \in 1..(k - 1) : l[i] = s[i]
  BY <1>1
<1>4. /\ r \in Seq(Entries) /\ Len(r) = Len(s) - k
      /\ \A i \in 1..(Len(s) - k) : r[i] = s[k + i]
  BY <1>1
<1> HIDE DEF l, r
<1>5. /\ l \o r \in Seq(Entries) /\ Len(l \o r) = Len(l) + Len(r)
      /\ \A i \in 1..(Len(l) + Len(r)) : (l \o r)[i] = IF i <= Len(l) THEN l[i] ELSE r[i - Len(l)]
  BY <1>3, <1>4, ConcatProperties
<1>6. Len(l) + Len(r) = Len(s) - 1
  BY <1>1, <1>3, <1>4
<1>7. ASSUME NEW i \in 1..Len(s) - 1 PROVE (l \o r)[i] = IF i < k THEN s[i] ELSE s[i + 1]
  <2>1. (l \o r)[i] = IF i <= Len(l) THEN l[i] ELSE r[i - Len(l)]
    BY <1>5, <1>6
  <2>2. CASE i < k
    <3>1. i \in 1..(k - 1) /\ i <= Len(l)
      BY <1>1, <1>3, <2>2
    <3> QED BY <1>3, <2>1, <2>2, <3>1
  <2>3. CASE ~(i < k)
    <3>1. i - Len(l) \in 1..(Len(s) - k) /\ ~(i <= Len(l)) /\ k + (i - Len(l)) = i + 1
      BY <1>1, <1>3, <2>3
    <3> QED BY <1>4, <2>1, <2>3, <3>1
  <2> QED BY <2>2, <2>3
<1> QED BY <1>1, <1>2, <1>5, <1>6, <1>7 DEF Without

LEMMA OrderMinus ==
  ASSUME NEW a, NEW s \in Seq(Entries), NEW S, InOrder(a, s, S), NEW e \in S
  PROVE  InOrder(a, Minus(s, e), S)
<1>1. CASE ~InSeq(s, e)
  BY <1>1 DEF Minus
<1>2. CASE InSeq(s, e)
  BY <1>2, MinusIsWithout, OrderLeaves
<1> QED BY <1>1, <1>2

LEMMA OrderTail ==
  ASSUME NEW a, NEW s \in Seq(Entries), s # << >>, NEW S, InOrder(a, s, S), Head(s) \in S
  PROVE  InOrder(a, Tail(s), S)
<1>1. s[1] \in S
  OBVIOUS
<1> QED BY <1>1, TailIsWithout, OrderLeaves

\* What is in order was accepted.
LEMMA OrderIsAccepted ==
  ASSUME NEW a, NEW s \in Seq(Entries), NEW S, InOrder(a, s, S), NEW e \in ToSet(s), e \in Messages
  PROVE  \E k \in 1..Len(a) : a[k] = e
<1>1. PICK i \in 1..Len(s) : s[i] = e
  BY SetFacts DEF InSeq
<1> QED BY <1>1 DEF InOrder

LEMMA FreshArrives ==
  ASSUME NEW s \in Seq(Entries), NEW e \in Entries, NEW S, Fresh(s, S),
         e \in Messages => e \notin S \union ToSet(s)
  PROVE  Fresh(Append(s, e), S)
<1>1. /\ Len(s) \in Nat /\ Len(Append(s, e)) = Len(s) + 1
      /\ \A i \in 1..Len(s) : Append(s, e)[i] = s[i] /\ s[i] \in ToSet(s)
      /\ Append(s, e)[Len(s) + 1] = e
  BY SeqFacts DEF ToSet
<1> SUFFICES ASSUME NEW i \in 1..Len(Append(s, e)), Append(s, e)[i] \in Messages
             PROVE  /\ Append(s, e)[i] \notin S
                    /\ \A h \in 1..i - 1 : Append(s, e)[h] # Append(s, e)[i]
  BY DEF Fresh
<1>2. \A h \in 1..i - 1 : h \in 1..Len(s)
  BY <1>1
<1>3. CASE i \in 1..Len(s)
  BY <1>1, <1>2, <1>3 DEF Fresh
<1>4. CASE i = Len(s) + 1
  BY <1>1, <1>2, <1>4
<1> QED BY <1>1, <1>3, <1>4

\* The rest of what is fresh stays fresh when its head is added to S.
LEMMA FreshTail ==
  ASSUME NEW s \in Seq(Entries), s # << >>, NEW S, Fresh(s, S)
  PROVE  Fresh(Tail(s), S \union {Head(s)})
<1>1. /\ Tail(s) \in Seq(Entries) /\ Len(s) \in Nat /\ Len(Tail(s)) = Len(s) - 1 /\ Head(s) = s[1]
      /\ \A i \in 1..Len(s) - 1 : Tail(s)[i] = s[i + 1]
  OBVIOUS
<1> SUFFICES ASSUME NEW i \in 1..Len(Tail(s)), Tail(s)[i] \in Messages
             PROVE  /\ Tail(s)[i] \notin S \union {Head(s)}
                    /\ \A h \in 1..i - 1 : Tail(s)[h] # Tail(s)[i]
  BY DEF Fresh
<1>2. /\ i + 1 \in 1..Len(s) /\ 1 \in 1..(i + 1) - 1 /\ Tail(s)[i] = s[i + 1]
      /\ \A h \in 1..i - 1 : h + 1 \in 1..(i + 1) - 1 /\ Tail(s)[h] = s[h + 1]
  BY <1>1
<1>3. s[i + 1] \notin S /\ \A h \in 1..(i + 1) - 1 : s[h] # s[i + 1]
  BY <1>2 DEF Fresh
<1> QED BY <1>1, <1>2, <1>3

\* The mailbox, with the question in flight behind it.
LEMMA TakenIs ==
  ASSUME TypeOK
  PROVE  mail \o (IF current = None THEN << >> ELSE <<current>>)
           \in {mail} \union {Append(mail, q) : q \in Questions}
<1>1. mail \in Seq(Entries) /\ current \in Questions \union {None} /\ Questions \subseteq Entries
  BY DEF TypeOK, Entries
<1>2. mail \o << >> = mail
  BY <1>1, ConcatEmptySeq
<1>3. ASSUME current # None PROVE mail \o <<current>> = Append(mail, current) /\ current \in Questions
  BY <1>1, <1>3, AppendIsConcat
<1> QED BY <1>2, <1>3

\* What a step does to messages on their way.
Rests == log' = log /\ accepted' = accepted /\ sent \subseteq sent'
Stays == /\ Rests /\ disk'.inbox = disk.inbox
         /\ Living' => Living /\ mail' = mail /\ Drained' = Drained
         /\ ~Journaled /\ pc' \in {"delivering", "acking"} => pc' = pc /\ todo' = todo
Takes == /\ Rests /\ disk'.inbox = disk.inbox
         /\ Living /\ pc \notin {"delivering", "acking"} /\ pc' = "delivering"
         /\ mail' = << >> /\ todo' \in {mail} \union {Append(mail, q) : q \in Questions}
Greets == /\ accepted' = accepted /\ sent' = sent /\ disk'.inbox = disk.inbox /\ mail' = mail
          /\ log = << >> /\ log' = <<Prompt>> /\ pc = "begin" /\ pc' = "greeting"
Records == /\ accepted' = accepted /\ sent' = sent /\ disk'.inbox = disk.inbox /\ mail' = mail
           /\ pc = "delivering" /\ pc' = "acking" /\ todo # << >> /\ todo' = todo
           /\ log' = Append(log, Head(todo))
           /\ Journaled => ~InSeq(log, Head(todo))
Acks == /\ Rests /\ mail' = mail /\ pc = "acking" /\ pc' = "delivering"
        /\ todo # << >> /\ todo' = Tail(todo) /\ InSeq(log, Head(todo))
        /\ Journaled => disk'.inbox = Minus(disk.inbox, Head(todo))
Files(e) == /\ log' = log /\ pc' = pc /\ todo' = todo
            /\ Journaled => disk'.inbox = Append(disk.inbox, e)
Asks(q) == Files(q) /\ Rests /\ mail' = mail
Accepts(m) == /\ Files(m) /\ m \notin sent /\ sent' = sent \union {m} /\ accepted' = Append(accepted, m)
              /\ mail' = IF terminated \/ Closed THEN mail ELSE Append(mail, m)
Restores == /\ Rests /\ disk'.inbox = disk.inbox
            /\ Journaled /\ pc' = "queued" /\ mail' = disk.inbox

LEMMA Moves ==
  TypeOK /\ Recorded /\ [Next]_vars =>
    \/ Stays \/ Takes \/ Greets \/ Records \/ Acks \/ Restores
    \/ (\E q \in Questions : Asks(q)) \/ (\E m \in Messages : Accepts(m))
<1> SUFFICES ASSUME TypeOK, Recorded, [Next]_vars
             PROVE  \/ Stays \/ Takes \/ Greets \/ Records \/ Acks \/ Restores
                    \/ (\E q \in Questions : Asks(q)) \/ (\E m \in Messages : Accepts(m))
  OBVIOUS
<1> USE DEF thread, channel, callers, restOfCallers
<1>a. disk \in [recoverable : BOOLEAN, standing : BOOLEAN, inbox : Seq(Entries)]
  BY DEF TypeOK
<1>1. ASSUME NEW m \in Messages, Enqueue(m) PROVE Stays \/ Accepts(m)
  <2>1. CASE (terminated \/ Closed) /\ ~disk.recoverable
    BY <1>1, <2>1 DEF Enqueue, Stays, Rests, Living, Drained
  <2>2. CASE ~((terminated \/ Closed) /\ ~disk.recoverable)
    <3>1. Journaled => disk'.inbox = Append(disk.inbox, m)
      BY <1>a, <1>1, <2>2 DEF Enqueue, Record
    <3> QED BY <1>1, <2>2, <3>1 DEF Enqueue, Accepts, Files
  <2> QED BY <2>1, <2>2
<1>2. ASSUME NEW q \in Questions, Ask(q) PROVE Stays \/ Asks(q)
  <2>1. CASE disk' = disk /\ ~(Journaled /\ standing /\ ~terminated /\ ~cancelled)
    BY <1>2, <2>1 DEF Ask, Stays, Rests, Living, Drained
  <2>2. CASE ~terminated /\ standing /\ ~cancelled
    <3>1. Journaled => disk'.inbox = Append(disk.inbox, q)
      BY <1>a, <1>2, <2>2 DEF Ask, Record
    <3> QED BY <1>2, <2>2, <3>1 DEF Ask, Asks, Files, Rests
  <2> QED BY <1>2, <2>1, <2>2 DEF Ask
<1>3. ASSUME PromoteCheck \/ Promote \/ Cascade \/ CloseDurably \/ Rest \/ UNCHANGED vars
             \/ (\E who \in {"peer", "cancel"} : Ring(who))
      PROVE  Stays
  <2>1. disk'.inbox = disk.inbox
    BY <1>a, <1>3 DEF PromoteCheck, Promote, Cascade, CloseDurably, Record, Rest, Ring, vars
  <2>2. log' = log /\ accepted' = accepted /\ sent' = sent /\ mail' = mail /\ todo' = todo
    BY <1>3 DEF PromoteCheck, Promote, Cascade, CloseDurably, Rest, Ring, vars
  <2>3. pc' = pc \/ (pc = "asleep" /\ pc' = "awake")
    BY <1>3 DEF PromoteCheck, Promote, Cascade, CloseDurably, Rest, Ring, vars
  <2> QED BY <2>1, <2>2, <2>3 DEF Stays, Rests, Living, Drained
<1>4. ASSUME \/ Start \/ Destroy \/ Top \/ Capped \/ Answer \/ Close \/ Look \/ Doze \/ Timeout
             \/ Interrupted \/ Reap \/ RunTurn \/ Fail \/ TurnCancelled
      PROVE  Stays
  <2>1. disk'.inbox = disk.inbox
    BY <1>a, <1>4 DEF Start, Destroy, Top, Capped, Answer, Close, Record, Goto, Look, Doze, Timeout,
       restOfWait, Interrupted, Reap, RunTurn, Fail, TurnCancelled
  <2>2. log' = log /\ accepted' = accepted /\ sent' = sent /\ mail' = mail /\ todo' = todo
    BY <1>4 DEF Start, Destroy, Top, Capped, Answer, Close, Goto, Look, Doze, Timeout,
       restOfWait, Interrupted, Reap, RunTurn, Fail, TurnCancelled
  <2>3. \/ pc' \in {"reap", "gone"}
        \/ Living /\ Living' /\ pc \notin {"delivering", "acking"} /\ pc' \notin {"delivering", "acking"}
    BY <1>4 DEF Start, Destroy, Top, Capped, Answer, Close, Goto, Look, Doze, Timeout, TakeWork,
       restOfWait, Interrupted, Reap, RunTurn, Fail, TurnCancelled, Living
  <2> QED BY <2>1, <2>2, <2>3 DEF Stays, Rests, Living, Drained
<1>5. CASE Begin
  <2>1. CASE log = << >> /\ ~cancelled
    BY <1>5, <2>1 DEF Begin, Greets
  <2>2. CASE ~(log = << >> /\ ~cancelled)
    BY <1>5, <2>2 DEF Begin, Stays, Rests, Living, Drained
  <2> QED BY <2>1, <2>2
<1>6. CASE Greet
  BY <1>6 DEF Greet, Goto, Takes, Rests, Living
<1>7. CASE Quiet
  <2>1. CASE ~cancelled /\ mail # << >>
    BY <1>7, <2>1 DEF Quiet, Takes, Rests, Living
  <2>2. CASE ~(~cancelled /\ mail # << >>)
    <3>1. mail' = mail /\ todo' = todo /\ pc' \notin {"delivering", "acking"}
      BY <1>7, <2>2 DEF Quiet
    <3> QED BY <1>7, <3>1 DEF Quiet, Stays, Rests, Living, Drained
  <2> QED BY <2>1, <2>2
<1>8. CASE Resume
  <2>1. CASE cancelled
    BY <1>8, <2>1 DEF Resume, Stays, Rests, Living, Drained
  <2>2. CASE ~cancelled
    <3>1. todo' \in {mail} \union {Append(mail, q) : q \in Questions}
      BY <1>8, <2>2, TakenIs DEF Resume
    <3> QED BY <1>8, <2>2, <3>1 DEF Resume, Takes, Rests, Living
  <2> QED BY <2>1, <2>2
<1>9. CASE Deliver
  <2>1. CASE todo # << >> /\ log' # log
    BY <1>9, <2>1 DEF Deliver, Records
  <2>2. CASE todo # << >> /\ log' = log
    <3>1. Journaled
      <4>1. SUFFICES ASSUME ~Journaled PROVE FALSE
        OBVIOUS
      <4>2. Len(log) \in Nat /\ Len(log') = Len(log) + 1
        BY <1>9, <2>2, <4>1, SeqFacts DEF Deliver, TypeOK
      <4> QED BY <2>2, <4>2
    <3> QED BY <1>9, <2>2, <3>1 DEF Deliver, Stays, Rests, Living, Drained
  <2>3. CASE todo = << >>
    BY <1>9, <2>3 DEF Deliver, Stays, Rests, Living, Drained
  <2> QED BY <2>1, <2>2, <2>3
<1>10. CASE Acknowledge
  <2>1. Journaled => disk'.inbox = Minus(disk.inbox, Head(todo))
    BY <1>a, <1>10 DEF Acknowledge, Record
  <2> QED BY <1>10, <2>1 DEF Acknowledge, Goto, Acks, Rests, Recorded
<1>11. CASE Crash
  BY <1>11 DEF Crash, Stays, Rests, Living
<1>12. CASE Restore
  BY <1>12 DEF Restore, Restores, Rests
<1> QED BY <1>1, <1>2, <1>3, <1>4, <1>5, <1>6, <1>7, <1>8, <1>9, <1>10, <1>11, <1>12
        DEF Next, ThreadStep

\* What is acknowledged or waiting, as sets.
LEMMA AcceptedIsHeld ==
  ASSUME TypeOK, AcceptedSurvives, Journaled
  PROVE  ToSet(accepted) \subseteq ToSet(log) \union ToSet(disk.inbox)
<1>1. accepted \in Seq(Messages) /\ log \in Seq(Entries) /\ disk.inbox \in Seq(Entries)
  BY DEF TypeOK
<1>2. \A e \in ToSet(accepted) : \E i \in 1..Len(accepted) : accepted[i] = e
  BY <1>1, SetFacts DEF InSeq
<1>3. \A e : (InSeq(log, e) => e \in ToSet(log)) /\ (InSeq(disk.inbox, e) => e \in ToSet(disk.inbox))
  BY <1>1, SetFacts
<1> QED BY <1>2, <1>3 DEF AcceptedSurvives

\* Nothing is between mailbox and transcript unless it was drained.
LEMMA NothingDrained ==
  ASSUME pc \notin {"delivering", "acking"} PROVE Drained = << >> /\ Arrived = ToSet(log)
BY EmptySet DEF Drained, Arrived

\* Every step keeps the order.
LEMMA OrderStep ==
  TypeOK /\ Recorded /\ AcceptedSurvives /\ LivingIsOpen /\ Orderly /\ NoReplay /\ [Next]_vars => Orderly'
<1> SUFFICES ASSUME TypeOK, Recorded, AcceptedSurvives, LivingIsOpen, Orderly, NoReplay, [Next]_vars
             PROVE  Orderly'
  OBVIOUS
<1>0. /\ accepted \in Seq(Messages) /\ log \in Seq(Entries) /\ mail \in Seq(Entries) /\ todo \in Seq(Entries)
      /\ disk.inbox \in Seq(Entries) /\ Questions \subseteq Entries /\ Messages \subseteq Entries
      /\ \A q \in Questions : q \notin Messages
  BY EntriesAssumption DEF TypeOK, Entries
<1>1. CASE Stays
  <2>1. Living' => Arrived' = Arrived
    BY <1>1 DEF Stays, Rests, Arrived
  <2> QED BY <1>1, <2>1 DEF Stays, Rests, Orderly
<1>2. CASE Takes
  <2>1. Drained = << >> /\ Arrived = ToSet(log) /\ Drained' = todo' /\ Arrived' = ToSet(log) \union ToSet(todo')
    BY <1>2, NothingDrained DEF Takes, Rests, Drained, Arrived
  <2>2. InOrder(accepted, mail, ToSet(log)) /\ ToSet(accepted) \subseteq ToSet(log) \union ToSet(mail)
    BY <1>2, <2>1 DEF Takes, Orderly
  <2>3. InOrder(accepted, todo', ToSet(log)) /\ ToSet(mail) \subseteq ToSet(todo')
    <3>1. ASSUME NEW q \in Questions
          PROVE  InOrder(accepted, Append(mail, q), ToSet(log)) /\ ToSet(mail) \subseteq ToSet(Append(mail, q))
      <4>1. q \in Entries /\ q \notin Messages
        BY <1>0
      <4>2. InOrder(accepted, Append(mail, q), ToSet(log))
        BY <1>0, <2>2, <4>1, OrderArrives
      <4>3. ToSet(Append(mail, q)) = ToSet(mail) \union {q}
        BY <1>0, <4>1, SetFacts
      <4> QED BY <4>2, <4>3
    <3> QED BY <1>2, <2>2, <3>1 DEF Takes
  <2>4. InOrder(accepted, mail', Arrived')
    BY <1>2, OrderEmpty DEF Takes
  <2>5. ToSet(accepted) \subseteq Arrived' \union ToSet(mail')
    BY <2>1, <2>2, <2>3
  <2> QED BY <1>2, <2>1, <2>3, <2>4, <2>5 DEF Takes, Rests, Orderly
<1>3. CASE Greets
  <2>1. Drained = << >> /\ Arrived = ToSet(log) /\ Drained' = << >> /\ Arrived' = ToSet(log') \union ToSet(<< >>)
    BY <1>3, NothingDrained DEF Greets, Drained, Arrived
  <2>2. InOrder(accepted, log', {}) /\ Fresh(log', {})
    <3>1. \A i \in 1..Len(<<Prompt>>) : <<Prompt>>[i] \notin Messages
      BY EntriesAssumption
    <3> QED BY <1>3, <3>1 DEF Greets, InOrder, Fresh
  <2>3. ToSet(log) = {}
    BY <1>3, EmptySet DEF Greets
  <2>4. InOrder(accepted, << >>, ToSet(log'))
    BY OrderEmpty
  <2>5. InOrder(accepted, mail, Arrived') /\ ToSet(accepted) \subseteq Arrived' \union ToSet(mail)
    <3>1. InOrder(accepted, mail, {}) /\ ToSet(accepted) \subseteq ToSet(mail)
      BY <1>3, <2>1, <2>3 DEF Greets, Living, Orderly
    <3> QED BY <3>1, OrderMore
  <2>6. Journaled => InOrder(accepted, disk.inbox, ToSet(log'))
    BY <2>3, OrderMore DEF Orderly
  <2> QED BY <1>3, <2>1, <2>2, <2>4, <2>5, <2>6 DEF Greets, Orderly
<1>4. CASE Records
  <2>0. /\ Head(todo) \in Entries /\ Head(todo) \in ToSet(todo) /\ ToSet(log') = ToSet(log) \union {Head(todo)}
    BY <1>0, <1>4, SeqFacts, SetFacts DEF Records
  <2>1. Living /\ Drained = todo /\ Drained' = todo /\ Arrived' = Arrived
    BY <1>4, <2>0 DEF Records, Drained, Arrived, Living
  <2>2. InOrder(accepted, todo, ToSet(log))
    BY <2>1 DEF Orderly
  <2>3. InOrder(accepted, log', {})
    <3>1. Head(todo) \in Messages => Preceded(accepted, Head(todo), {} \union ToSet(log))
      BY <1>0, <1>4, <2>2, HeadIsNext DEF Records
    <3> QED BY <1>0, <1>4, <2>0, <3>1, OrderArrives DEF Records, Orderly
  <2>4. Fresh(log', {})
    <3>1. Head(todo) \in Messages => Head(todo) \notin {} \union ToSet(log)
      <4>1. CASE Journaled
        BY <1>0, <1>4, <4>1, SetFacts DEF Records
      <4>2. CASE ~Journaled
        <5>1. 1 \in 1..Len(todo) /\ Head(todo) = todo[1]
          BY <1>0, <1>4 DEF Records
        <5> QED BY <1>4, <4>2, <5>1 DEF Records, NoReplay, Fresh
      <4> QED BY <4>1, <4>2
    <3> QED BY <1>0, <1>4, <2>0, <3>1, FreshArrives DEF Records, Orderly
  <2>5. InOrder(accepted, todo, ToSet(log'))
    BY <2>0, <2>2, OrderMore
  <2>6. Journaled => InOrder(accepted, disk.inbox, ToSet(log'))
    BY <2>0, OrderMore DEF Orderly
  <2> QED BY <1>4, <2>1, <2>3, <2>4, <2>5, <2>6 DEF Records, Orderly
<1>5. CASE Acks
  <2>0. Head(todo) \in ToSet(log) /\ ToSet(todo) = {Head(todo)} \union ToSet(Tail(todo))
    BY <1>0, <1>5, SetFacts DEF Acks
  <2>1. Living /\ Drained = todo /\ Drained' = Tail(todo) /\ Arrived' = Arrived
    BY <1>5, <2>0 DEF Acks, Rests, Drained, Arrived, Living
  <2>2. InOrder(accepted, Tail(todo), ToSet(log))
    BY <1>0, <1>5, <2>0, <2>1, OrderTail DEF Acks, Orderly
  <2>3. Journaled => InOrder(accepted, disk'.inbox, ToSet(log))
    BY <1>0, <1>5, <2>0, OrderMinus DEF Acks, Orderly
  <2> QED BY <1>5, <2>1, <2>2, <2>3 DEF Acks, Rests, Orderly
<1>6. CASE Restores
  <2>1. Living' /\ Drained' = << >> /\ Arrived' = ToSet(log) /\ mail' = disk.inbox
    BY <1>6, EmptySet DEF Restores, Rests, Living, Drained, Arrived
  <2>2. ToSet(accepted) \subseteq ToSet(log) \union ToSet(disk.inbox) /\ InOrder(accepted, disk.inbox, ToSet(log))
    BY <1>6, AcceptedIsHeld DEF Restores, Orderly
  <2>3. InOrder(accepted, << >>, ToSet(log))
    BY OrderEmpty
  <2> QED BY <1>6, <2>1, <2>2, <2>3 DEF Restores, Rests, Orderly
<1>7. ASSUME NEW q \in Questions, Asks(q) PROVE Orderly'
  <2>1. Living' = Living /\ Drained' = Drained /\ Arrived' = Arrived
    BY <1>7 DEF Asks, Files, Living, Drained, Arrived
  <2>2. Journaled => InOrder(accepted, disk'.inbox, ToSet(log))
    BY <1>0, <1>7, OrderArrives DEF Asks, Files, Orderly
  <2> QED BY <1>7, <2>1, <2>2 DEF Asks, Files, Rests, Orderly
<1>8. ASSUME NEW m \in Messages, Accepts(m) PROVE Orderly'
  <2>1. Living' = Living /\ Drained' = Drained /\ Arrived' = Arrived /\ log' = log
        /\ accepted' = Append(accepted, m)
    BY <1>8 DEF Accepts, Files, Living, Drained, Arrived
  <2>2. \A i \in 1..Len(accepted') : accepted'[i] \in sent'
    <3>1. /\ Len(accepted) \in Nat /\ Len(accepted') = Len(accepted) + 1 /\ accepted'[Len(accepted) + 1] = m
          /\ \A i \in 1..Len(accepted) : accepted'[i] = accepted[i]
      BY <1>0, <2>1, SeqFacts
    <3>2. \A i \in 1..Len(accepted') : i \in 1..Len(accepted) \/ i = Len(accepted) + 1
      BY <3>1
    <3> QED BY <1>8, <3>1, <3>2 DEF Accepts, Orderly
  <2>3. InOrder(accepted', log, {})
    BY <1>0, <2>1, OrderAccepts DEF Orderly
  <2>4. ASSUME Living
        PROVE  /\ InOrder(accepted', Drained, ToSet(log)) /\ InOrder(accepted', mail', Arrived)
               /\ ToSet(accepted') \subseteq Arrived \union ToSet(mail')
    <3>1. mail' = Append(mail, m)
      BY <1>8, <2>4 DEF Accepts, LivingIsOpen
    <3>2. /\ InOrder(accepted, Drained, ToSet(log)) /\ InOrder(accepted, mail, Arrived)
          /\ ToSet(accepted) \subseteq Arrived \union ToSet(mail)
      BY <2>4 DEF Orderly
    <3>3. InOrder(accepted', Drained, ToSet(log))
      BY <1>0, <2>1, <3>2, OrderAccepts
    <3>4. InOrder(accepted', mail', Arrived)
      BY <1>0, <2>1, <3>1, <3>2, OrderNew
    <3>5. ToSet(accepted') = ToSet(accepted) \union {m} /\ ToSet(mail') = ToSet(mail) \union {m}
      BY <1>0, <2>1, <3>1, SetFacts
    <3> QED BY <3>2, <3>3, <3>4, <3>5
  <2>5. ASSUME Journaled PROVE InOrder(accepted', disk'.inbox, ToSet(log))
    <3>1. InOrder(accepted, disk.inbox, ToSet(log)) /\ ToSet(accepted) \subseteq ToSet(log) \union ToSet(disk.inbox)
      BY <2>5, AcceptedIsHeld DEF Orderly
    <3>2. disk'.inbox = Append(disk.inbox, m)
      BY <1>8, <2>5 DEF Accepts, Files
    <3> QED BY <1>0, <2>1, <3>1, <3>2, OrderNew
  <2> QED BY <2>1, <2>2, <2>3, <2>4, <2>5 DEF Orderly
<1> QED BY <1>1, <1>2, <1>3, <1>4, <1>5, <1>6, <1>7, <1>8, Moves

\* Every step keeps what is on its way without a journal new to the transcript.
LEMMA ReplayStep ==
  TypeOK /\ Recorded /\ LivingIsOpen /\ Orderly /\ NoReplay /\ [Next]_vars => NoReplay'
<1> SUFFICES ASSUME TypeOK, Recorded, LivingIsOpen, Orderly, NoReplay, ~Journaled, [Next]_vars
             PROVE  /\ Living' => Fresh(mail', Arrived')
                    /\ pc' = "delivering" => Fresh(todo', ToSet(log'))
                    /\ pc' = "acking" => Fresh(Tail(todo'), ToSet(log'))
  BY DEF NoReplay
<1>0. /\ accepted \in Seq(Messages) /\ log \in Seq(Entries) /\ mail \in Seq(Entries) /\ todo \in Seq(Entries)
      /\ Questions \subseteq Entries /\ Messages \subseteq Entries /\ \A q \in Questions : q \notin Messages
  BY EntriesAssumption DEF TypeOK, Entries
<1>a. /\ Living => Fresh(mail, Arrived)
      /\ pc = "delivering" => Fresh(todo, ToSet(log))
      /\ pc = "acking" => Fresh(Tail(todo), ToSet(log))
  BY DEF NoReplay
<1>1. CASE Stays
  <2>1. Living' => Living /\ Arrived' = Arrived /\ mail' = mail
    BY <1>1 DEF Stays, Rests, Arrived
  <2>2. log' = log /\ (pc' \in {"delivering", "acking"} => pc' = pc /\ todo' = todo)
    BY <1>1 DEF Stays, Rests
  <2> QED BY <1>a, <2>1, <2>2
<1>2. CASE Takes
  <2>1. Fresh(mail, ToSet(log))
    BY <1>2, <1>a, NothingDrained DEF Takes
  <2>2. Fresh(todo', ToSet(log))
    <3>1. \A q \in Questions : Fresh(Append(mail, q), ToSet(log))
      BY <1>0, <2>1, FreshArrives
    <3> QED BY <1>2, <2>1, <3>1 DEF Takes
  <2>3. Fresh(mail', Arrived')
    BY <1>2, OrderEmpty DEF Takes
  <2> QED BY <1>2, <2>2, <2>3 DEF Takes, Rests
<1>3. CASE Greets
  <2>1. Arrived' = {Prompt} /\ Prompt \notin Messages
    <3>1. ToSet(<<Prompt>>) = {Prompt}
      BY DEF ToSet
    <3> QED BY <1>3, <3>1, EmptySet, EntriesAssumption DEF Greets, Drained, Arrived
  <2>2. Fresh(mail, {Prompt})
    BY <1>3, <1>a, <2>1 DEF Greets, Living, Fresh
  <2> QED BY <1>3, <2>1, <2>2 DEF Greets
<1>4. CASE Records
  <2>0. /\ Head(todo) \in ToSet(todo) /\ ToSet(log') = ToSet(log) \union {Head(todo)}
    BY <1>0, <1>4, SeqFacts, SetFacts DEF Records
  <2>1. Living /\ Arrived' = Arrived
    BY <1>4, <2>0 DEF Records, Drained, Arrived, Living
  <2>2. Fresh(Tail(todo), ToSet(log) \union {Head(todo)})
    BY <1>0, <1>4, <1>a, FreshTail DEF Records
  <2> QED BY <1>4, <1>a, <2>0, <2>1, <2>2 DEF Records
<1>5. CASE Acks
  <2>0. Head(todo) \in ToSet(log) /\ ToSet(todo) = {Head(todo)} \union ToSet(Tail(todo))
    BY <1>0, <1>5, SetFacts DEF Acks
  <2>1. Living /\ Arrived' = Arrived
    BY <1>5, <2>0 DEF Acks, Rests, Drained, Arrived, Living
  <2> QED BY <1>5, <1>a, <2>1 DEF Acks, Rests
<1>6. CASE Restores
  BY <1>6 DEF Restores
<1>7. ASSUME NEW q \in Questions, Asks(q)
      PROVE  /\ Living' => Fresh(mail', Arrived')
             /\ pc' = "delivering" => Fresh(todo', ToSet(log'))
             /\ pc' = "acking" => Fresh(Tail(todo'), ToSet(log'))
  <2>1. Living' = Living /\ Arrived' = Arrived
    BY <1>7 DEF Asks, Files, Living, Drained, Arrived
  <2> QED BY <1>7, <1>a, <2>1 DEF Asks, Files
<1>8. ASSUME NEW m \in Messages, Accepts(m)
      PROVE  /\ Living' => Fresh(mail', Arrived')
             /\ pc' = "delivering" => Fresh(todo', ToSet(log'))
             /\ pc' = "acking" => Fresh(Tail(todo'), ToSet(log'))
  <2>1. Living' = Living /\ Arrived' = Arrived
    BY <1>8 DEF Accepts, Files, Living, Drained, Arrived
  <2>2. ASSUME Living PROVE Fresh(mail', Arrived)
    <3>1. \A k \in 1..Len(accepted) : accepted[k] # m
      BY <1>8 DEF Accepts, Orderly
    <3>2. m \notin ToSet(log)
      BY <1>0, <3>1, OrderIsAccepted DEF Orderly
    <3>3. m \notin ToSet(Drained)
      <4>1. Drained \in Seq(Entries)
        BY <1>0 DEF Drained
      <4> QED BY <2>2, <3>1, <4>1, OrderIsAccepted DEF Orderly
    <3>4. m \notin ToSet(mail)
      BY <1>0, <2>2, <3>1, OrderIsAccepted DEF Orderly
    <3>5. m \notin Arrived \union ToSet(mail)
      BY <3>2, <3>3, <3>4 DEF Arrived
    <3>6. Fresh(Append(mail, m), Arrived)
      BY <1>0, <1>a, <2>2, <3>5, FreshArrives
    <3> QED BY <1>8, <1>a, <2>2, <3>6 DEF Accepts
  <2> QED BY <1>8, <1>a, <2>1, <2>2 DEF Accepts, Files
<1> QED BY <1>1, <1>2, <1>3, <1>4, <1>5, <1>6, <1>7, <1>8, Moves

\* A natural close finds the mailbox empty.
LEMMA CloseOnlyEmpty ==
  TypeOK /\ [Next]_vars /\ pc = "closing" /\ status # "done" /\ status' = "done" => mail = << >>
<1> SUFFICES ASSUME TypeOK, [Next]_vars, pc = "closing", status # "done", status' = "done" PROVE mail = << >>
  OBVIOUS
<1> USE DEF thread, channel, callers, restOfCallers
<1>0. CASE UNCHANGED vars
  BY <1>0 DEF vars, TypeOK
<1>1. ASSUME NEW m \in Messages, Enqueue(m) PROVE mail = << >>
  BY <1>1 DEF Enqueue, Record, TypeOK
<1>2. ASSUME NEW q \in Questions, Ask(q) PROVE mail = << >>
  BY <1>2 DEF Ask, Record, TypeOK
<1>3. CASE PromoteCheck
  BY <1>3 DEF PromoteCheck, TypeOK
<1>4. CASE Promote
  BY <1>4 DEF Promote, TypeOK
<1>5. CASE Cascade
  BY <1>5 DEF Cascade, TypeOK
<1>6. CASE CloseDurably
  BY <1>6 DEF CloseDurably, Record, TypeOK
<1>7. ASSUME NEW who \in {"peer", "cancel"}, Ring(who) PROVE mail = << >>
  BY <1>7 DEF Ring, TypeOK
<1>8. CASE Start
  BY <1>8 DEF Start, Goto, TypeOK
<1>9. CASE Destroy
  BY <1>9 DEF Destroy, Goto, TypeOK
<1>10. CASE Begin
  BY <1>10 DEF Begin, TypeOK
<1>11. CASE Greet
  BY <1>11 DEF Greet, Goto, TypeOK
<1>12. CASE Deliver
  BY <1>12 DEF Deliver, TypeOK
<1>13. CASE Acknowledge
  BY <1>13 DEF Acknowledge, Goto, Record, TypeOK
<1>14. CASE Top
  BY <1>14 DEF Top, TypeOK
<1>15. CASE Capped
  BY <1>15 DEF Capped, Goto, Record, TypeOK
<1>16. CASE Answer
  BY <1>16 DEF Answer, Goto, TypeOK
<1>17. CASE Quiet
  BY <1>17 DEF Quiet, TypeOK
<1>18. CASE Close
  BY <1>18 DEF Close, Record, TypeOK
<1>19. CASE Look
  BY <1>19 DEF Look, TakeWork, restOfWait, TypeOK
<1>20. CASE Doze
  BY <1>20 DEF Doze, Goto, restOfWait, TypeOK
<1>21. CASE Timeout
  BY <1>21 DEF Timeout, TakeWork, restOfWait, TypeOK
<1>22. CASE Resume
  BY <1>22 DEF Resume, TypeOK
<1>23. CASE Interrupted
  BY <1>23 DEF Interrupted, Goto, TypeOK
<1>24. CASE Reap
  BY <1>24 DEF Reap, Goto, TypeOK
<1>25. CASE RunTurn
  BY <1>25 DEF RunTurn, Goto, TypeOK
<1>26. CASE Fail
  BY <1>26 DEF Fail, TypeOK
<1>27. CASE TurnCancelled
  BY <1>27 DEF TurnCancelled, Goto, TypeOK
<1>28. CASE Crash
  BY <1>28 DEF Crash, TypeOK
<1>29. CASE Restore
  BY <1>29 DEF Restore, TypeOK
<1>30. CASE Rest
  BY <1>30 DEF Rest, vars, TypeOK
<1> QED BY <1>0, <1>1, <1>2, <1>3, <1>4, <1>5, <1>6, <1>7, <1>8, <1>9, <1>10, <1>11, <1>12,
           <1>13, <1>14, <1>15, <1>16, <1>17, <1>18, <1>19, <1>20, <1>21, <1>22, <1>23, <1>24,
           <1>25, <1>26, <1>27, <1>28, <1>29, <1>30 DEF Next, ThreadStep

-----------------------------------------------------------------------------
LEMMA InitWindow == Init => WindowInv
<1> SUFFICES ASSUME Init PROVE WindowInv
  OBVIOUS
<1>1. TypeOK
  <2>1. /\ mail \in Seq(Entries) /\ todo \in Seq(Entries) /\ log \in Seq(Entries)
        /\ asked \in Seq(Questions) /\ accepted \in Seq(Messages) /\ served \in 0..Len(log)
        /\ lives \in 1..MaxLives
    BY BoundAssumption DEF Init
  <2>2. standing \in BOOLEAN /\ continuous \in BOOLEAN
    BY ModeAssumption, Zenon DEF Init
  <2>3. disk \in [recoverable : BOOLEAN, standing : BOOLEAN, inbox : Seq(Entries)]
    <3>1. (Journaled /\ standing) \in BOOLEAN /\ << >> \in Seq(Entries)
      OBVIOUS
    <3> QED BY ModeAssumption, <3>1 DEF Init
  <2>4. answer \in [Questions -> {"unasked", "open", "answered", "empty", "lost"}]
    BY DEF Init
  <2> QED BY <2>1, <2>2, <2>3, <2>4 DEF Init, TypeOK, ThreadPc
<1>2. Waiting /\ Ended /\ InFlight /\ Recorded
  BY DEF Init, Waiting, Ended, InFlight, Recorded, Stopped
<1>3. AnsweredFromTurn /\ AcceptedSurvives /\ DeliveredOnce
  BY DEF Init, AnsweredFromTurn, AcceptedSurvives, DeliveredOnce
<1>4. OrderInv
  <2>1. LivingIsOpen /\ AllAnswered
    BY DEF Init, LivingIsOpen, Living, Closed, AllAnswered
  <2>2. \A S : InOrder(accepted, << >>, S) /\ Fresh(<< >>, S)
    BY OrderEmpty
  <2>3. Orderly /\ NoReplay
    BY <2>2, EmptySet DEF Init, Orderly, NoReplay, Living, Drained, Arrived
  <2> QED BY <2>1, <2>3 DEF OrderInv
<1> QED BY <1>1, <1>2, <1>3, <1>4 DEF WindowInv

LEMMA StepWindow == WindowInv /\ [Next]_vars => WindowInv'
<1> SUFFICES ASSUME WindowInv, [Next]_vars PROVE WindowInv'
  OBVIOUS
<1>1. /\ TypeOK /\ Waiting /\ Ended /\ InFlight /\ Recorded
      /\ AnsweredFromTurn /\ AcceptedSurvives /\ (Journaled => DeliveredOnce) /\ OrderInv
  BY DEF WindowInv
<1>2. TypeOK' /\ Ended' /\ Recorded'
  BY <1>1, TypeStep, EndStep
<1>3. InFlight' /\ Waiting' /\ AnsweredFromTurn'
  BY <1>1, FlightStep, WaitingStep, AnsweredStep
<1>4. AcceptedSurvives' /\ (Journaled => DeliveredOnce)'
  BY <1>1, JournalStep, OnceStep
<1>5. OrderInv'
  BY <1>1, OpenStep, OrderStep, ReplayStep, AllAnsweredStep DEF OrderInv
<1> QED BY <1>2, <1>3, <1>4, <1>5 DEF WindowInv

\* The invariant of an agent's window: questions, delivery, inbox.
THEOREM WindowInvariant == Spec => []WindowInv
BY InitWindow, StepWindow, PTL DEF Spec

\* Every variable of the agent keeps its type.
THEOREM WindowTypes == Spec => []TypeOK
<1>1. WindowInv => TypeOK
  BY DEF WindowInv
<1> QED BY <1>1, WindowInvariant, PTL

\* An agent that has ended leaves no asker behind, however its end (natural,
\* failed, cancelled, destroyed before its start) and interrogate() interleave.
THEOREM NobodyHangs == Spec => []NoAskerLeft
<1>1. WindowInv => NoAskerLeft
  BY EntriesAssumption DEF WindowInv, Ended, Waiting, NoAskerLeft, Stopped, InSeq
<1> QED BY <1>1, WindowInvariant, PTL

\* A promise is fulfilled once: neither the turn nor the reaper sets the future
\* of a question that has its answer or the sentinel.
THEOREM PromiseOnce == Spec => AnswerOnce
<1>1. WindowInv /\ [Next]_vars =>
        [\A q \in Questions : answer[q] \in {"answered", "empty"} => answer'[q] = answer[q]]_vars
  <2> SUFFICES ASSUME WindowInv, [Next]_vars, NEW q \in Questions,
        answer[q] \in {"answered", "empty"}
               PROVE  answer'[q] = answer[q]
    OBVIOUS
  <2>0. /\ answer \in [Questions -> {"unasked", "open", "answered", "empty", "lost"}]
        /\ asked \in Seq(Questions) /\ q # current /\ ~InSeq(asked, q)
    BY EntriesAssumption DEF WindowInv, TypeOK, Waiting, InSeq
  <2>1. CASE UNCHANGED answer
    BY <2>1
  <2>2. ASSUME NEW p \in Questions, Ask(p) PROVE answer'[q] = answer[q]
    BY <2>0, <2>2 DEF Ask
  <2>3. CASE Answer \/ Destroy \/ Reap \/ Crash
    BY <2>0, <2>3 DEF Answer, Destroy, Reap, Crash
  <2>4. CASE Look \/ Timeout \/ Restore
    BY <2>4 DEF Look, Timeout, Restore, restOfWait, callers
  <2> QED BY <2>1, <2>2, <2>3, <2>4, WindowFrame
<1> QED BY <1>1, WindowInvariant, PTL DEF Spec, AnswerOnce

\* A non-empty answer is the output of a turn that ran after the question had
\* entered the transcript.
THEOREM AnswerIsEarned == Spec => []AnsweredFromTurn
<1>1. WindowInv => AnsweredFromTurn
  BY DEF WindowInv
<1> QED BY <1>1, WindowInvariant, PTL

\* A message a durable agent has accepted is in the transcript or in the
\* manifest's inbox, after any number of crashes, failures and restores.
THEOREM NoMessageLost == Spec => []AcceptedSurvives
<1>1. WindowInv => AcceptedSurvives
  BY DEF WindowInv
<1> QED BY <1>1, WindowInvariant, PTL

\* ... and a durable agent delivers it once.
THEOREM NoMessageTwice == Spec => [](Journaled => DeliveredOnce)
<1>1. WindowInv => (Journaled => DeliveredOnce)
  BY DEF WindowInv
<1> QED BY <1>1, WindowInvariant, PTL
\* Messages enter the transcript in the order they were accepted, without a gap
\* and once, in any mode and generation.
THEOREM FirstInFirstOut == Spec => []FifoDelivery
<1>1. WindowInv => FifoDelivery
  <2> SUFFICES ASSUME WindowInv PROVE FifoDelivery
    OBVIOUS
  <2>1. InOrder(accepted, log, {}) /\ Fresh(log, {}) /\ Len(log) \in Nat
    BY DEF WindowInv, OrderInv, Orderly, TypeOK
  <2>2. ASSUME NEW i \in 1..Len(log), NEW j \in 1..Len(log), log[i] \in Messages, log[i] = log[j]
        PROVE  i = j
    <3>1. ~(i \in 1..j - 1) /\ ~(j \in 1..i - 1)
      BY <2>1, <2>2 DEF Fresh
    <3> QED BY <2>1, <3>1
  <2> QED BY <2>1, <2>2 DEF FifoDelivery
<1> QED BY <1>1, WindowInvariant, PTL

\* An agent that closes by itself has answered, in a completed turn, every
\* message it accepted, also one that came while it was about to close.
THEOREM NothingUnanswered == Spec => CloseServesAll
<1>1. WindowInv /\ [Next]_vars =>
        [(pc = "closing" /\ status' = "done") =>
           \A i \in 1..Len(accepted) : \E k \in 1..served : log[k] = accepted[i]]_vars
  <2> SUFFICES ASSUME WindowInv, [Next]_vars, pc = "closing", status' = "done", NEW i \in 1..Len(accepted)
               PROVE  \E k \in 1..served : log[k] = accepted[i]
    OBVIOUS
  <2>1. TypeOK /\ LivingIsOpen /\ Orderly /\ AllAnswered
    BY DEF WindowInv, OrderInv
  <2>2. mail = << >>
    <3>1. Living /\ status # "done"
      BY <2>1 DEF LivingIsOpen, Living, Closed
    <3> QED BY <2>1, <3>1, CloseOnlyEmpty
  <2>3. ToSet(accepted) \subseteq ToSet(log)
    <3>1. Living /\ Arrived = ToSet(log)
      BY NothingDrained DEF Living
    <3> QED BY <2>1, <2>2, <3>1, EmptySet DEF Orderly
  <2>4. accepted[i] \in ToSet(accepted) /\ log \in Seq(Entries) /\ accepted \in Seq(Messages)
    BY <2>1 DEF ToSet, TypeOK
  <2>5. InSeq(log, accepted[i])
    BY <2>3, <2>4, SetFacts
  <2>6. served = Len(log)
    BY <2>1 DEF AllAnswered
  <2> QED BY <2>5, <2>6 DEF InSeq
<1> QED BY <1>1, WindowInvariant, PTL DEF Spec, CloseServesAll
=============================================================================
