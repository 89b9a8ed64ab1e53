------------------------- MODULE SessionStoreProofs -------------------------
(***************************************************************************)
(* For any number of agents, sessions, messages and crashes: what an       *)
(* append acknowledged stays on disk, and the index lists the sessions     *)
(* there are, through compression, pruning, torn lines and rebuilds.       *)
(***************************************************************************)
EXTENDS SessionStore, TLAPS, WellFoundedInduction

\* A session belongs to one agent: nobody else appends to it.
OwnerIsMe == \A a \in Agents : own[a] \in Sids => owner[own[a]] = {a}

\* What is on disk belongs to someone, and has a time.
FilesAreOwned ==
  \A s \in Sids : /\ owner[s] = {} => json[s] = Absent /\ gz[s] = Absent /\ acked[s] = 0
                  /\ owner[s] # {} => born[s] > 0

\* An agent that thinks its session is compressed is right.
GzIsGz == \A a \in Agents : own[a] \in Sids /\ maps[a].path # "json" => json[own[a]] = Absent

\* What is in the file of a's session during an append.
InTheFile(a) ==
  LET s == own[a]
      n == maps[a].read
  IN  /\ pc[a] = "replace"  => Exists(s) /\ Content(s) = n
      /\ pc[a] = "compress" => json[s] = n + 1
      /\ pc[a] = "unlink"   => json[s] = n + 1 /\ gz[s] = n + 1
      /\ pc[a] = "record"   => Exists(s) /\ Content(s) = n + 1

Appending == \A a \in Agents : pc[a] \in Busy /\ own[a] \notin pruned => InTheFile(a)
AckedIsThere == \A s \in Sids \ pruned : acked[s] > 0 => Content(s) >= acked[s]

\* An index that is absent or torn is seen before anybody works.
RebuildComes == rb = "none" /\ (index = NoIndex \/ IsCorrupt) => \A a \in Agents : pc[a] = "off"

\* What the rebuilder has scanned.
ScanIsWhole ==
  rb = "write" => /\ found.torn = "no"
                  /\ \A s \in Sids \ (unlisted \union pruned) : Exists(s) => found.recs[s] # NoRec

SessionInv == /\ TypeOK /\ OwnerIsMe /\ FilesAreOwned /\ GzIsGz /\ Appending /\ AckedIsThere
              /\ RebuildComes /\ ScanIsWhole /\ ListsAll

-----------------------------------------------------------------------------
LEMMA NoIndexIs ==
  /\ NoIndex \in Indexes /\ NoIndex.torn = "absent" /\ NoMaps \in Maps /\ NoMaps.path = "none"
  /\ \A s \in Sids : NoIndex.recs[s] = NoRec
  /\ NoRec \in Records /\ NoRec.at = 0
BY DEF NoIndex, Indexes, Records, NoRec, Rec, NoMaps, Maps

\* What the index and its history make of a record that was appended, or was not.
Recorded(a) ==
  /\ index' \in Indexes /\ unlisted' \subseteq unlisted
  /\ Scanned => unlisted' = unlisted
  /\ index # NoIndex /\ ~IsCorrupt =>
       /\ index' # NoIndex /\ index'.torn \notin {"open", "yes"}
       /\ \A s \in Sids : index.recs[s] # NoRec \/ s \in unlisted \ unlisted' => index'.recs[s] # NoRec

LEMMA RecordDoes == ASSUME TypeOK, NEW a \in Agents, own[a] \in Sids, Record(a) PROVE Recorded(a)
<1> DEFINE r == Rec(clock, maps[a].agent)
           i == Appended(index, own[a], r)
<1>1. r \in Records /\ r.at = clock /\ clock > 0
  BY DEF TypeOK, Rec, Records, Maps
<1>2. index \in Indexes /\ \A s \in Sids : index.recs[s].at \in Nat
  BY DEF TypeOK, Indexes, Records
<1>3. CASE UNCHANGED <<index, unlisted, blurred>>
  BY <1>2, <1>3 DEF Recorded, IsCorrupt
<1>4. CASE /\ index' = i
           /\ unlisted' = (IF index.torn # "open" /\ ~Scanned THEN unlisted \ {own[a]} ELSE unlisted)
  <2> HIDE DEF r
  <2>1. i.recs \in [Sids -> Records] /\ i.torn \in {"absent", "no", "open", "yes"}
    BY <1>1, <1>2 DEF Appended, Indexes
  <2>2. i \in Indexes
    BY <2>1 DEF Appended, Indexes
  <2>3. \A s \in Sids : index.recs[s].at > 0 => i.recs[s].at > 0
    BY <1>1, <1>2 DEF Appended, Takes, Indexes
  <2>4. index.torn # "open" => i.recs[own[a]].at > 0
    BY <1>1, <1>2 DEF Appended, Takes, Indexes
  <2>5. index.torn \in {"absent", "no"} => i.torn = "no"
    BY DEF Appended
  <2>6. \A s \in Sids, j \in Indexes : j.recs[s].at > 0 => j.recs[s] # NoRec
    BY NoIndexIs
  <2>7. \A s \in Sids : index.recs[s] # NoRec => i.recs[s] # NoRec
    BY <1>1, <1>2, <2>2, <2>4, <2>6 DEF Appended, Takes, Indexes
  <2> HIDE DEF i
  <2>8. i.torn = "no" => i # NoIndex
    BY NoIndexIs
  <2>9. ~IsCorrupt => index.torn \in {"absent", "no"}
    BY <1>2 DEF IsCorrupt, Indexes
  <2> QED BY <1>4, <2>2, <2>4, <2>5, <2>6, <2>7, <2>8, <2>9 DEF Recorded, IsCorrupt
<1> QED BY <1>3, <1>4 DEF Record

\* What a step of agent a leaves alone.
Only(a) ==
  /\ pc' \in [Agents -> Busy \union {"off", "find", "create"}] /\ own' \in [Agents -> Sids \union {0}]
  /\ maps' \in [Agents -> Maps]
  /\ \A b \in Agents : b # a => pc'[b] = pc[b] /\ own'[b] = own[b] /\ maps'[b] = maps[b]

\* What the scan finds.
LEMMA RebuiltIs ==
  ASSUME TypeOK, NEW sids \in SUBSET Sids
  PROVE  /\ \A s \in Sids : RebuiltFrom(sids).recs[s].at \in {0, born[s], clock}
         /\ RebuiltFrom(sids) \in Indexes /\ RebuiltFrom(sids).torn = "no"
         /\ \A s \in sids : born[s] > 0 => RebuiltFrom(sids).recs[s] # NoRec
<1>1. \A s \in Sids : Rec(IF json[s] # Absent THEN born[s] ELSE clock, FALSE) \in Records
  BY DEF TypeOK, Rec, Records
<1>2. \A s \in Sids : born[s] > 0 => Rec(IF json[s] # Absent THEN born[s] ELSE clock, FALSE).at # 0
  BY DEF TypeOK, Rec
<1>3. Empty.torn = "no" /\ Empty \in Indexes
  BY NoIndexIs DEF Empty, Indexes
<1>4. RebuiltFrom(sids) \in Indexes /\ RebuiltFrom(sids).torn = "no"
  BY <1>1, <1>3, NoIndexIs DEF RebuiltFrom, Indexes
<1>5. \A s \in sids : RebuiltFrom(sids).recs[s] = Rec(IF json[s] # Absent THEN born[s] ELSE clock, FALSE)
  BY <1>3 DEF RebuiltFrom, Indexes
<1>6. \A s \in Sids : RebuiltFrom(sids).recs[s].at \in {0, born[s], clock}
  BY <1>3, NoIndexIs DEF RebuiltFrom, Indexes, Rec
<1> QED BY <1>2, <1>4, <1>5, <1>6, NoIndexIs

LEMMA OpenInv == ASSUME SessionInv, NEW a \in Agents, Open(a) PROVE SessionInv'
<1> USE DEF SessionInv, Open, files, store, ghosts, bounds, Goto, Absent
<1>1. TypeOK'
  BY NoIndexIs DEF TypeOK, Busy, Maps
<1>2. OwnerIsMe'
  BY NoIndexIs DEF OwnerIsMe, TypeOK, Busy
<1>3. FilesAreOwned'
  BY NoIndexIs DEF FilesAreOwned, OwnerIsMe, TypeOK, Busy
<1>4. GzIsGz'
  BY NoIndexIs DEF GzIsGz, TypeOK, Maps, OwnerIsMe, FilesAreOwned
<1>5. Appending'
  BY NoIndexIs DEF Appending, InTheFile, Exists, Content, TypeOK, OwnerIsMe, FilesAreOwned, Busy, Maps, AckedIsThere
<1>6. AckedIsThere'
  BY NoIndexIs DEF AckedIsThere, Content, TypeOK, Appending, InTheFile, Exists, OwnerIsMe, FilesAreOwned, GzIsGz, Busy, Maps
<1>7. RebuildComes'
  BY NoIndexIs DEF RebuildComes, IsCorrupt, TypeOK, Busy
<1>8. ScanIsWhole'
  BY NoIndexIs DEF ScanIsWhole, Exists, TypeOK, Appending, InTheFile, OwnerIsMe, FilesAreOwned, Busy
<1>9. ListsAll'
  BY NoIndexIs DEF ListsAll, Rebuilding, Listed, IsCorrupt, Exists, TypeOK, RebuildComes, Appending, InTheFile, OwnerIsMe, FilesAreOwned, ScanIsWhole, Busy
<1> QED BY <1>1, <1>2, <1>3, <1>4, <1>5, <1>6, <1>7, <1>8, <1>9

LEMMA AdoptInv == ASSUME SessionInv, NEW a \in Agents, Adopt(a) PROVE SessionInv'
<1> USE DEF SessionInv
<1>0. UNCHANGED <<files, index, doomed, rb, found, bounds, ghosts>> /\ pc[a] = "find"
  BY DEF Adopt
<1>1. CASE Found(a) = {} /\ Goto(a, "create") /\ UNCHANGED <<own, maps>>
  <2> USE <1>0, <1>1 DEF Goto, files, bounds, ghosts
  <2>1. TypeOK' /\ OwnerIsMe' /\ FilesAreOwned' /\ GzIsGz'
    BY DEF TypeOK, OwnerIsMe, FilesAreOwned, GzIsGz, Busy
  <2>2. Appending' /\ AckedIsThere'
    BY DEF TypeOK, Appending, InTheFile, AckedIsThere, Exists, Content, Busy
  <2>3. RebuildComes' /\ ScanIsWhole' /\ ListsAll'
    BY DEF TypeOK, RebuildComes, ScanIsWhole, ListsAll, Exists, Listed, Rebuilding, IsCorrupt
  <2> QED BY <2>1, <2>2, <2>3
<1>2. ASSUME NEW s \in Found(a), own' = [own EXCEPT ![a] = s], Goto(a, "ready"),
             maps' = [maps EXCEPT ![a] = [path |-> IF json[s] # Absent THEN "json" ELSE "gz",
                                          agent |-> TRUE, read |-> 0]]
      PROVE  SessionInv'
  <2> DEFINE m == [path |-> IF json[s] # Absent THEN "json" ELSE "gz", agent |-> TRUE, read |-> 0]
  <2>1. s \in Sids /\ owner[s] = {a}
    BY DEF Found, Candidates, Listed
  <2>2. m \in Maps /\ (m.path # "json" => json[s] = Absent)
    BY DEF Maps
  <2>3. maps' = [maps EXCEPT ![a] = m]
    BY <1>2
  <2> HIDE DEF m
  <2> USE <1>0, <1>2, <2>1, <2>2, <2>3 DEF Goto, files, bounds, ghosts
  <2>4. TypeOK'
    <3>1. maps' \in [Agents -> Maps] /\ own' \in [Agents -> Sids \union {0}]
      <4>1. maps' \in [Agents -> Maps]
        BY <2>2, <2>3 DEF TypeOK
      <4>2. own' \in [Agents -> Sids \union {0}]
        BY <1>2, <2>1 DEF TypeOK
      <4> QED BY <4>1, <4>2
    <3>2. pc' \in [Agents -> Busy \union {"off", "find", "create"}]
      BY DEF TypeOK, Busy
    <3>3. \A b \in Agents : pc'[b] \in Busy => own'[b] \in Sids
      <4>1. own'[a] = s /\ \A b \in Agents : b # a => pc'[b] = pc[b] /\ own'[b] = own[b]
        BY DEF TypeOK
      <4> QED BY <4>1 DEF TypeOK
    <3> QED BY <3>1, <3>2, <3>3 DEF TypeOK
  <2>5. OwnerIsMe' /\ FilesAreOwned'
    BY DEF TypeOK, OwnerIsMe, FilesAreOwned
  <2>6. GzIsGz'
    BY DEF TypeOK, GzIsGz
  <2>7. Appending' /\ AckedIsThere'
    BY DEF TypeOK, Appending, InTheFile, AckedIsThere, Exists, Content, Busy
  <2>8. RebuildComes' /\ ScanIsWhole' /\ ListsAll'
    BY DEF TypeOK, RebuildComes, ScanIsWhole, ListsAll, Exists, Listed, Rebuilding, IsCorrupt
  <2> QED BY <2>4, <2>5, <2>6, <2>7, <2>8
<1> QED BY <1>1, <1>2 DEF Adopt

LEMMA CreateInv == ASSUME SessionInv, NEW a \in Agents, Create(a) PROVE SessionInv'
<1>0. PICK s \in Sids :
        /\ owner[s] = {} /\ json' = [json EXCEPT ![s] = 0] /\ born' = [born EXCEPT ![s] = clock]
        /\ own' = [own EXCEPT ![a] = s] /\ owner' = [owner EXCEPT ![s] = {a}]
        /\ unlisted' = unlisted \union {s} /\ pc' = [pc EXCEPT ![a] = "list"]
        /\ maps' = [maps EXCEPT ![a] = [path |-> "json", agent |-> a \notin Nameless, read |-> 0]]
        /\ UNCHANGED <<gz, index, doomed, rb, found, clock, acked, pruned>>
  BY DEF Create, Goto, bounds
<1> USE <1>0 DEF SessionInv
<1>1. \A b \in Agents : b # a => own[b] # s
  BY DEF OwnerIsMe, TypeOK
<1>2. [path |-> "json", agent |-> a \notin Nameless, read |-> 0] \in Maps
  BY DEF Maps
<1>3. TypeOK'
  BY <1>2 DEF TypeOK, Busy, Absent
<1>4. OwnerIsMe'
  BY <1>1 DEF TypeOK, OwnerIsMe
<1>5. FilesAreOwned'
  <2>1. owner'[s] # {} /\ born'[s] > 0
    BY DEF TypeOK
  <2>2. \A t \in Sids : t # s => /\ owner'[t] = owner[t] /\ json'[t] = json[t] /\ gz'[t] = gz[t]
                                 /\ born'[t] = born[t] /\ acked'[t] = acked[t]
    BY DEF TypeOK
  <2> QED BY <2>1, <2>2 DEF FilesAreOwned
<1>6. GzIsGz'
  BY <1>1, <1>2 DEF TypeOK, GzIsGz
<1>7. Appending'
  BY <1>1 DEF TypeOK, Appending, InTheFile, Exists, Content, Busy
<1>8. AckedIsThere'
  BY DEF TypeOK, FilesAreOwned, AckedIsThere, Content, Absent
<1>9. RebuildComes'
  <2>1. pc[a] # "off"
    BY DEF Create
  <2> QED BY <2>1 DEF TypeOK, RebuildComes, IsCorrupt
<1>10. ScanIsWhole' /\ ListsAll'
  BY DEF TypeOK, ScanIsWhole, ListsAll, Exists, Rebuilding, IsCorrupt, Listed
<1> QED BY <1>3, <1>4, <1>5, <1>6, <1>7, <1>8, <1>9, <1>10

LEMMA ListInv == ASSUME SessionInv, NEW a \in Agents, List(a) PROVE SessionInv'
<1> USE DEF SessionInv, List, files, store, ghosts, bounds, Goto, Absent
<1>0. Recorded(a)
  BY RecordDoes DEF TypeOK, Busy
<1> USE <1>0 DEF Recorded, Scanned
<1>1. TypeOK'
  BY NoIndexIs DEF TypeOK, Busy, Maps
<1>2. OwnerIsMe'
  BY NoIndexIs DEF OwnerIsMe, TypeOK, Busy
<1>3. FilesAreOwned'
  BY NoIndexIs DEF FilesAreOwned, OwnerIsMe, TypeOK, Busy
<1>4. GzIsGz'
  BY NoIndexIs DEF GzIsGz, TypeOK, Maps, OwnerIsMe, FilesAreOwned
<1>5. Appending'
  BY NoIndexIs DEF Appending, InTheFile, Exists, Content, TypeOK, OwnerIsMe, FilesAreOwned, Busy, Maps, AckedIsThere
<1>6. AckedIsThere'
  BY NoIndexIs DEF AckedIsThere, Content, TypeOK, Appending, InTheFile, Exists, OwnerIsMe, FilesAreOwned, GzIsGz, Busy, Maps
<1>7. RebuildComes'
  BY NoIndexIs DEF RebuildComes, IsCorrupt, TypeOK, Busy
<1>8. ScanIsWhole'
  BY NoIndexIs DEF ScanIsWhole, Exists, TypeOK, Appending, InTheFile, OwnerIsMe, FilesAreOwned, Busy
<1>9. ListsAll'
  BY NoIndexIs DEF ListsAll, Rebuilding, Listed, IsCorrupt, Exists, TypeOK, RebuildComes, Appending, InTheFile, OwnerIsMe, FilesAreOwned, ScanIsWhole, Busy
<1> QED BY <1>1, <1>2, <1>3, <1>4, <1>5, <1>6, <1>7, <1>8, <1>9

LEMMA PruneInv == ASSUME SessionInv, NEW a \in Agents, Prune(a) PROVE SessionInv'
<1> USE DEF SessionInv, Prune, files, store, ghosts, bounds, Goto, Absent
<1>1. TypeOK'
  BY NoIndexIs DEF TypeOK, Busy, Listed
<1>2. OwnerIsMe'
  BY NoIndexIs DEF OwnerIsMe, TypeOK, Busy
<1>3. FilesAreOwned'
  BY NoIndexIs DEF FilesAreOwned, OwnerIsMe, TypeOK, Busy
<1>4. GzIsGz'
  BY NoIndexIs DEF GzIsGz, TypeOK, Maps, OwnerIsMe, FilesAreOwned
<1>5. Appending'
  BY NoIndexIs DEF Appending, InTheFile, Exists, Content, TypeOK, OwnerIsMe, FilesAreOwned, Busy, Maps, AckedIsThere
<1>6. AckedIsThere'
  BY NoIndexIs DEF AckedIsThere, Content, TypeOK, Appending, InTheFile, Exists, OwnerIsMe, FilesAreOwned, GzIsGz, Busy, Maps
<1>7. RebuildComes'
  BY NoIndexIs DEF RebuildComes, IsCorrupt, TypeOK, Busy
<1>8. ScanIsWhole'
  BY NoIndexIs DEF ScanIsWhole, Exists, TypeOK, Appending, InTheFile, OwnerIsMe, FilesAreOwned, Busy
<1>9. ListsAll'
  BY NoIndexIs DEF ListsAll, Rebuilding, Listed, IsCorrupt, Exists, TypeOK, RebuildComes, Appending, InTheFile, OwnerIsMe, FilesAreOwned, ScanIsWhole, Busy
<1> QED BY <1>1, <1>2, <1>3, <1>4, <1>5, <1>6, <1>7, <1>8, <1>9

LEMMA DeleteInv == ASSUME SessionInv, NEW a \in Agents, Delete(a) PROVE SessionInv'
<1> USE DEF SessionInv, Delete, files, store, ghosts, bounds, Goto, Absent
<1>1. TypeOK'
  BY NoIndexIs DEF TypeOK, Busy, Maps
<1>2. OwnerIsMe'
  BY NoIndexIs DEF OwnerIsMe, TypeOK, Busy
<1>3. FilesAreOwned'
  BY NoIndexIs DEF FilesAreOwned, OwnerIsMe, TypeOK, Busy
<1>4. GzIsGz'
  BY NoIndexIs DEF GzIsGz, TypeOK, Maps, OwnerIsMe, FilesAreOwned
<1>5. Appending'
  BY NoIndexIs DEF Appending, InTheFile, Exists, Content, TypeOK, OwnerIsMe, FilesAreOwned, Busy, Maps, AckedIsThere
<1>6. AckedIsThere'
  BY NoIndexIs DEF AckedIsThere, Content, TypeOK, Appending, InTheFile, Exists, OwnerIsMe, FilesAreOwned, GzIsGz, Busy, Maps
<1>7. RebuildComes'
  BY NoIndexIs DEF RebuildComes, IsCorrupt, TypeOK, Busy
<1>8. ScanIsWhole'
  BY NoIndexIs DEF ScanIsWhole, Exists, TypeOK, Appending, InTheFile, OwnerIsMe, FilesAreOwned, Busy
<1>9. ListsAll'
  BY NoIndexIs DEF ListsAll, Rebuilding, Listed, IsCorrupt, Exists, TypeOK, RebuildComes, Appending, InTheFile, OwnerIsMe, FilesAreOwned, ScanIsWhole, Busy
<1> QED BY <1>1, <1>2, <1>3, <1>4, <1>5, <1>6, <1>7, <1>8, <1>9

\* An append finds the file its content is in.
LEMMA ResolveDoes ==
  ASSUME SessionInv, NEW a \in Agents, Resolve(a)
  PROVE  /\ Only(a) /\ own[a] \in Sids /\ pc'[a] = "replace" /\ Exists(own[a]) /\ own' = own
         /\ maps'[a].read = Content(own[a]) /\ (maps'[a].path # "json" => json[own[a]] = Absent) /\ pc[a] = "ready"
         /\ UNCHANGED <<json, gz, born, owner, acked, pruned, unlisted, index, doomed, rb, found, clock>>
<1>1. /\ pc[a] = "ready" /\ Path(a) # "none" /\ pc' = [pc EXCEPT ![a] = "replace"] /\ own' = own
     /\ maps' = [maps EXCEPT ![a].path = Path(a),
                             ![a].read = IF Path(a) = "json" THEN json[own[a]] ELSE gz[own[a]]]
     /\ UNCHANGED <<json, gz, born, owner, acked, pruned, unlisted, index, doomed, rb, found, clock>>
  BY DEF Resolve, Goto, files, ghosts, bounds
<1>2. own[a] \in Sids
  BY <1>1 DEF SessionInv, TypeOK, Busy
<1>3. \/ Path(a) = "json" /\ json[own[a]] # Absent
      \/ Path(a) = "gz" /\ gz[own[a]] # Absent /\ json[own[a]] = Absent
  <2>1. maps[a].path = "gz" => json[own[a]] = Absent
    BY <1>2 DEF SessionInv, GzIsGz
  <2> QED BY <1>1, <2>1 DEF Path
<1>4. Exists(own[a]) /\ Content(own[a]) \in Nat
  BY <1>2, <1>3 DEF SessionInv, TypeOK, Exists, Content
<1>5. Content(own[a]) = IF Path(a) = "json" THEN json[own[a]] ELSE gz[own[a]]
  BY <1>3 DEF Content
<1>6. /\ maps' \in [Agents -> Maps] /\ \A b \in Agents : b # a => maps'[b] = maps[b]
      /\ maps'[a].read = Content(own[a]) /\ maps'[a].path = Path(a)
  <2>1. maps' = [maps EXCEPT ![a] = [@ EXCEPT !.path = Path(a), !.read = Content(own[a])]]
    BY <1>1, <1>5
  <2>2. Path(a) \in {"json", "gz"}
    BY <1>3
  <2>3. maps[a] \in Maps /\ maps \in [Agents -> Maps]
    BY DEF SessionInv, TypeOK
  <2> HIDE DEF Maps
  <2>4. [maps[a] EXCEPT !.path = Path(a), !.read = Content(own[a])] \in Maps
    BY <1>4, <2>2, <2>3 DEF Maps
  <2> QED BY <2>1, <2>3, <2>4 DEF Maps
<1>7. pc' \in [Agents -> Busy \union {"off", "find", "create"}]
  BY <1>1 DEF SessionInv, TypeOK, Busy
<1>8. own' \in [Agents -> Sids \union {0}] /\ \A b \in Agents : b # a => pc'[b] = pc[b] /\ own'[b] = own[b]
  BY <1>1 DEF SessionInv, TypeOK
<1> QED BY <1>1, <1>2, <1>3, <1>4, <1>5, <1>6, <1>7, <1>8 DEF SessionInv, TypeOK, Only

LEMMA ResolveInv == ASSUME SessionInv, NEW a \in Agents, Resolve(a) PROVE SessionInv'
<1>0. /\ Only(a) /\ own[a] \in Sids /\ pc'[a] = "replace" /\ Exists(own[a]) /\ own' = own
      /\ maps'[a].read = Content(own[a]) /\ (maps'[a].path # "json" => json[own[a]] = Absent) /\ pc[a] = "ready"
      /\ UNCHANGED <<json, gz, born, owner, acked, pruned, unlisted, index, doomed, rb, found, clock>>
  BY ResolveDoes
<1> USE <1>0 DEF SessionInv, Only, Absent
<1>1. TypeOK'
  BY NoIndexIs DEF TypeOK, Busy, Maps
<1>2. OwnerIsMe'
  BY NoIndexIs DEF OwnerIsMe, TypeOK, Busy
<1>3. FilesAreOwned'
  BY NoIndexIs DEF FilesAreOwned, OwnerIsMe, TypeOK, Busy
<1>4. GzIsGz'
  BY NoIndexIs DEF GzIsGz, TypeOK, Maps, OwnerIsMe, FilesAreOwned
<1>5. Appending'
  BY NoIndexIs DEF Appending, InTheFile, Exists, Content, TypeOK, OwnerIsMe, FilesAreOwned, Busy, Maps, AckedIsThere
<1>6. AckedIsThere'
  BY NoIndexIs DEF AckedIsThere, Content, TypeOK, Appending, InTheFile, Exists, OwnerIsMe, FilesAreOwned, GzIsGz, Busy, Maps
<1>7. RebuildComes'
  BY NoIndexIs DEF RebuildComes, IsCorrupt, TypeOK, Busy
<1>8. ScanIsWhole'
  BY NoIndexIs DEF ScanIsWhole, Exists, TypeOK, Appending, InTheFile, OwnerIsMe, FilesAreOwned, Busy
<1>9. ListsAll'
  BY NoIndexIs DEF ListsAll, Rebuilding, Listed, IsCorrupt, Exists, TypeOK, RebuildComes, Appending, InTheFile, OwnerIsMe, FilesAreOwned, ScanIsWhole, Busy
<1> QED BY <1>1, <1>2, <1>3, <1>4, <1>5, <1>6, <1>7, <1>8, <1>9

LEMMA ReplaceInv == ASSUME SessionInv, NEW a \in Agents, Replace(a) PROVE SessionInv'
<1>0. /\ Only(a) /\ UNCHANGED <<born, owner, acked, pruned, unlisted>> /\ UNCHANGED <<index, doomed, rb, found, clock>>
     /\ own' = own /\ own[a] \in Sids /\ maps' = maps /\ pc[a] = "replace" /\ maps[a].read \in Nat
     /\ \/ /\ json' = [json EXCEPT ![own[a]] = maps[a].read + 1] /\ gz' = gz
           /\ maps[a].path = "json" /\ pc'[a] \in {"compress", "record"}
        \/ /\ gz' = [gz EXCEPT ![own[a]] = maps[a].read + 1] /\ json' = json
           /\ json[own[a]] = Absent /\ pc'[a] = "record"
  BY DEF SessionInv, Replace, files, store, ghosts, bounds, Goto, GzIsGz, TypeOK, Only, Busy, Maps
<1> USE <1>0 DEF SessionInv, Only, Absent
<1>1. TypeOK'
  <2>1. maps[a].read + 1 \in {Absent} \union Nat
    OBVIOUS
  <2>2. json' \in [Sids -> {Absent} \union Nat] /\ gz' \in [Sids -> {Absent} \union Nat]
    BY <2>1 DEF TypeOK
  <2> QED BY <2>2 DEF TypeOK, Busy
<1>2. OwnerIsMe'
  BY NoIndexIs DEF OwnerIsMe, TypeOK, Busy
<1>3. FilesAreOwned'
  <2>1. owner[own[a]] = {a}
    BY DEF OwnerIsMe
  <2>2. \A s \in Sids : s # own[a] => json'[s] = json[s] /\ gz'[s] = gz[s]
    BY DEF TypeOK
  <2> QED BY <2>1, <2>2 DEF FilesAreOwned
<1>4. GzIsGz'
  <2>1. \A b \in Agents : b # a /\ own[b] \in Sids => own[b] # own[a]
    BY DEF OwnerIsMe
  <2>2. \A s \in Sids : s # own[a] => json'[s] = json[s]
    BY DEF TypeOK
  <2>3. maps[a].path # "json" => json'[own[a]] = Absent
    OBVIOUS
  <2> QED BY <2>1, <2>2, <2>3 DEF GzIsGz
<1>5. Appending'
  BY NoIndexIs DEF Appending, InTheFile, Exists, Content, TypeOK, OwnerIsMe, FilesAreOwned, Busy, Maps, AckedIsThere
<1>6. AckedIsThere'
  <2>1. ASSUME NEW s \in Sids \ pruned, acked[s] > 0 PROVE Content(s)' >= acked[s]
    <3>1. CASE s # own[a]
      <4>1. json'[s] = json[s] /\ gz'[s] = gz[s]
        BY <3>1 DEF TypeOK
      <4> QED BY <2>1, <4>1 DEF AckedIsThere, Content
    <3>2. CASE s = own[a]
      <4>1. Content(s) = maps[a].read /\ Content(s) >= acked[s]
        BY <2>1, <3>2 DEF Appending, InTheFile, AckedIsThere, Busy
      <4>2. Content(s)' = maps[a].read + 1
        BY <3>2 DEF TypeOK, Content
      <4> QED BY <4>1, <4>2 DEF TypeOK
    <3> QED BY <3>1, <3>2
  <2> QED BY <2>1 DEF AckedIsThere
<1>7. RebuildComes'
  BY NoIndexIs DEF RebuildComes, IsCorrupt, TypeOK, Busy
<1>8. ScanIsWhole'
  BY NoIndexIs DEF ScanIsWhole, Exists, TypeOK, Appending, InTheFile, OwnerIsMe, FilesAreOwned, Busy
<1>9. ListsAll'
  BY NoIndexIs DEF ListsAll, Rebuilding, Listed, IsCorrupt, Exists, TypeOK, RebuildComes, Appending, InTheFile, OwnerIsMe, FilesAreOwned, ScanIsWhole, Busy
<1> QED BY <1>1, <1>2, <1>3, <1>4, <1>5, <1>6, <1>7, <1>8, <1>9

LEMMA CompressInv == ASSUME SessionInv, NEW a \in Agents, Compress(a) PROVE SessionInv'
<1>0. /\ Only(a) /\ UNCHANGED <<born, owner, acked, pruned, unlisted>> /\ UNCHANGED <<index, doomed, rb, found, clock>>
     /\ own' = own /\ own[a] \in Sids /\ maps' = maps /\ pc[a] = "compress" /\ json' = json /\ maps[a].read \in Nat
     /\ \/ gz' = [gz EXCEPT ![own[a]] = maps[a].read + 1] /\ pc'[a] = "unlink"
        \/ gz' = gz /\ pc'[a] = "record"
  BY DEF SessionInv, Compress, files, store, ghosts, bounds, Goto, TypeOK, Only, Busy, Maps
<1> USE <1>0 DEF SessionInv, Only, Absent
<1>1. TypeOK'
  BY NoIndexIs DEF TypeOK, Busy, Maps
<1>2. OwnerIsMe'
  BY NoIndexIs DEF OwnerIsMe, TypeOK, Busy
<1>3. FilesAreOwned'
  <2>1. owner[own[a]] = {a}
    BY DEF OwnerIsMe
  <2>2. \A s \in Sids : s # own[a] => json'[s] = json[s] /\ gz'[s] = gz[s]
    BY DEF TypeOK
  <2> QED BY <2>1, <2>2 DEF FilesAreOwned
<1>4. GzIsGz'
  BY NoIndexIs DEF GzIsGz, TypeOK, Maps, OwnerIsMe, FilesAreOwned
<1>5. Appending'
  BY NoIndexIs DEF Appending, InTheFile, Exists, Content, TypeOK, OwnerIsMe, FilesAreOwned, Busy, Maps, AckedIsThere
<1>6. AckedIsThere'
  BY NoIndexIs DEF AckedIsThere, Content, TypeOK, Appending, InTheFile, Exists, OwnerIsMe, FilesAreOwned, GzIsGz, Busy, Maps
<1>7. RebuildComes'
  BY NoIndexIs DEF RebuildComes, IsCorrupt, TypeOK, Busy
<1>8. ScanIsWhole'
  BY NoIndexIs DEF ScanIsWhole, Exists, TypeOK, Appending, InTheFile, OwnerIsMe, FilesAreOwned, Busy
<1>9. ListsAll'
  BY NoIndexIs DEF ListsAll, Rebuilding, Listed, IsCorrupt, Exists, TypeOK, RebuildComes, Appending, InTheFile, OwnerIsMe, FilesAreOwned, ScanIsWhole, Busy
<1> QED BY <1>1, <1>2, <1>3, <1>4, <1>5, <1>6, <1>7, <1>8, <1>9

LEMMA UnlinkInv == ASSUME SessionInv, NEW a \in Agents, Unlink(a) PROVE SessionInv'
<1>0. /\ Only(a) /\ gz' = gz /\ UNCHANGED <<born, owner, acked, pruned, unlisted>> /\ UNCHANGED <<index, doomed, rb, found, clock>>
     /\ own' = own /\ own[a] \in Sids /\ json' = [json EXCEPT ![own[a]] = Absent] /\ pc[a] = "unlink"
     /\ maps'[a].read = maps[a].read /\ maps[a].read \in Nat /\ maps'[a].path = "gz" /\ pc'[a] = "record"
  BY SMTT(60) DEF SessionInv, Unlink, files, store, ghosts, bounds, Goto, TypeOK, Only, Busy, Maps
<1> USE <1>0 DEF SessionInv, Only, Absent
<1>1. TypeOK'
  BY NoIndexIs DEF TypeOK, Busy, Maps
<1>2. OwnerIsMe'
  BY NoIndexIs DEF OwnerIsMe, TypeOK, Busy
<1>3. FilesAreOwned'
  BY NoIndexIs DEF FilesAreOwned, OwnerIsMe, TypeOK, Busy
<1>4. GzIsGz'
  BY NoIndexIs DEF GzIsGz, TypeOK, Maps, OwnerIsMe, FilesAreOwned
<1>5. Appending'
  BY SMTT(60), NoIndexIs DEF Appending, InTheFile, Exists, Content, TypeOK, OwnerIsMe, FilesAreOwned, Busy, Maps, AckedIsThere
<1>6. AckedIsThere'
  BY NoIndexIs DEF AckedIsThere, Content, TypeOK, Appending, InTheFile, Exists, OwnerIsMe, FilesAreOwned, GzIsGz, Busy, Maps
<1>7. RebuildComes'
  BY NoIndexIs DEF RebuildComes, IsCorrupt, TypeOK, Busy
<1>8. ScanIsWhole'
  BY NoIndexIs DEF ScanIsWhole, Exists, TypeOK, Appending, InTheFile, OwnerIsMe, FilesAreOwned, Busy
<1>9. ListsAll'
  BY NoIndexIs DEF ListsAll, Rebuilding, Listed, IsCorrupt, Exists, TypeOK, RebuildComes, Appending, InTheFile, OwnerIsMe, FilesAreOwned, ScanIsWhole, Busy
<1> QED BY <1>1, <1>2, <1>3, <1>4, <1>5, <1>6, <1>7, <1>8, <1>9

LEMMA AcknowledgeInv == ASSUME SessionInv, NEW a \in Agents, Acknowledge(a) PROVE SessionInv'
<1> USE DEF SessionInv, Acknowledge, files, store, ghosts, bounds, Goto, Absent
<1>0. Recorded(a)
  BY RecordDoes DEF TypeOK, Busy
<1> USE <1>0 DEF Recorded, Scanned
<1>1. TypeOK'
  BY SMTT(60), NoIndexIs DEF TypeOK, Busy, Maps
<1>2. OwnerIsMe'
  BY NoIndexIs DEF OwnerIsMe, TypeOK, Busy
<1>3. FilesAreOwned'
  BY DEF FilesAreOwned, OwnerIsMe, TypeOK, Busy, Maps
<1>4. GzIsGz'
  BY NoIndexIs DEF GzIsGz, TypeOK, Maps, OwnerIsMe, FilesAreOwned
<1>5. Appending'
  BY NoIndexIs DEF Appending, InTheFile, Exists, Content, TypeOK, OwnerIsMe, FilesAreOwned, Busy, Maps, AckedIsThere
<1>6. AckedIsThere'
  BY NoIndexIs DEF AckedIsThere, Content, TypeOK, Appending, InTheFile, Exists, OwnerIsMe, FilesAreOwned, GzIsGz, Busy, Maps
<1>7. RebuildComes'
  BY NoIndexIs DEF RebuildComes, IsCorrupt, TypeOK, Busy
<1>8. ScanIsWhole'
  BY NoIndexIs DEF ScanIsWhole, Exists, TypeOK, Appending, InTheFile, OwnerIsMe, FilesAreOwned, Busy
<1>9. ListsAll'
  BY NoIndexIs DEF ListsAll, Rebuilding, Listed, IsCorrupt, Exists, TypeOK, RebuildComes, Appending, InTheFile, OwnerIsMe, FilesAreOwned, ScanIsWhole, Busy
<1> QED BY <1>1, <1>2, <1>3, <1>4, <1>5, <1>6, <1>7, <1>8, <1>9

LEMMA CloseInv == ASSUME SessionInv, NEW a \in Agents, Close(a) PROVE SessionInv'
<1> USE DEF SessionInv, Close, files, store, ghosts, bounds, Goto, Absent
<1>1. TypeOK'
  BY NoIndexIs DEF TypeOK, Busy, Maps
<1>2. OwnerIsMe'
  BY NoIndexIs DEF OwnerIsMe, TypeOK, Busy, Sids
<1>3. FilesAreOwned'
  BY NoIndexIs DEF FilesAreOwned, OwnerIsMe, TypeOK, Busy
<1>4. GzIsGz'
  BY NoIndexIs DEF GzIsGz, TypeOK, Maps, OwnerIsMe, FilesAreOwned, Sids
<1>5. Appending'
  BY NoIndexIs DEF Appending, InTheFile, Exists, Content, TypeOK, OwnerIsMe, FilesAreOwned, Busy, Maps, AckedIsThere
<1>6. AckedIsThere'
  BY NoIndexIs DEF AckedIsThere, Content, TypeOK, Appending, InTheFile, Exists, OwnerIsMe, FilesAreOwned, GzIsGz, Busy, Maps
<1>7. RebuildComes'
  BY NoIndexIs DEF RebuildComes, IsCorrupt, TypeOK, Busy
<1>8. ScanIsWhole'
  BY NoIndexIs DEF ScanIsWhole, Exists, TypeOK, Appending, InTheFile, OwnerIsMe, FilesAreOwned, Busy
<1>9. ListsAll'
  BY NoIndexIs DEF ListsAll, Rebuilding, Listed, IsCorrupt, Exists, TypeOK, RebuildComes, Appending, InTheFile, OwnerIsMe, FilesAreOwned, ScanIsWhole, Busy
<1> QED BY <1>1, <1>2, <1>3, <1>4, <1>5, <1>6, <1>7, <1>8, <1>9

LEMMA ScanInv == ASSUME SessionInv, Scan PROVE SessionInv'
<1> USE DEF SessionInv, Scan, files, store, ghosts, bounds, Goto, Absent
<1>1. TypeOK'
  <2>1. found' \in Indexes
    BY RebuiltIs
  <2>2. index' \in Indexes
    BY NoIndexIs DEF TypeOK
  <2> QED BY <2>1, <2>2 DEF TypeOK, Busy
<1>2. OwnerIsMe'
  BY NoIndexIs DEF OwnerIsMe, TypeOK, Busy
<1>3. FilesAreOwned'
  BY NoIndexIs DEF FilesAreOwned, OwnerIsMe, TypeOK, Busy
<1>4. GzIsGz'
  BY NoIndexIs DEF GzIsGz, TypeOK, Maps, OwnerIsMe, FilesAreOwned
<1>5. Appending'
  BY NoIndexIs DEF Appending, InTheFile, Exists, Content, TypeOK, OwnerIsMe, FilesAreOwned, Busy, Maps, AckedIsThere
<1>6. AckedIsThere'
  BY NoIndexIs DEF AckedIsThere, Content, TypeOK, Appending, InTheFile, Exists, OwnerIsMe, FilesAreOwned, GzIsGz, Busy, Maps
<1>7. RebuildComes'
  BY NoIndexIs DEF RebuildComes, IsCorrupt, TypeOK, Busy
<1>8. ScanIsWhole'
  <2>1. {s \in Sids : Exists(s)} \in SUBSET Sids
    OBVIOUS
  <2>2. \A s \in Sids : Exists(s) => born[s] > 0
    BY DEF FilesAreOwned, Exists
  <2> QED BY <2>1, <2>2, RebuiltIs DEF ScanIsWhole, Exists
<1>9. ListsAll'
  BY NoIndexIs DEF ListsAll, Rebuilding, Listed, IsCorrupt, Exists, TypeOK, RebuildComes, Appending, InTheFile, OwnerIsMe, FilesAreOwned, ScanIsWhole, Busy
<1> QED BY <1>1, <1>2, <1>3, <1>4, <1>5, <1>6, <1>7, <1>8, <1>9

LEMMA WriteInv == ASSUME SessionInv, Write PROVE SessionInv'
<1> USE DEF SessionInv, Write, files, store, ghosts, bounds, Goto, Absent
<1>1. TypeOK'
  BY NoIndexIs DEF TypeOK, Busy, Maps
<1>2. OwnerIsMe'
  BY NoIndexIs DEF OwnerIsMe, TypeOK, Busy
<1>3. FilesAreOwned'
  BY NoIndexIs DEF FilesAreOwned, OwnerIsMe, TypeOK, Busy
<1>4. GzIsGz'
  BY NoIndexIs DEF GzIsGz, TypeOK, Maps, OwnerIsMe, FilesAreOwned
<1>5. Appending'
  BY NoIndexIs DEF Appending, InTheFile, Exists, Content, TypeOK, OwnerIsMe, FilesAreOwned, Busy, Maps, AckedIsThere
<1>6. AckedIsThere'
  BY NoIndexIs DEF AckedIsThere, Content, TypeOK, Appending, InTheFile, Exists, OwnerIsMe, FilesAreOwned, GzIsGz, Busy, Maps
<1>7. RebuildComes'
  <2>1. index'.torn = "no"
    BY DEF ScanIsWhole
  <2> QED BY <2>1, NoIndexIs DEF RebuildComes, IsCorrupt
<1>8. ScanIsWhole'
  BY NoIndexIs DEF ScanIsWhole, Exists, TypeOK, Appending, InTheFile, OwnerIsMe, FilesAreOwned, Busy
<1>9. ListsAll'
  BY NoIndexIs DEF ListsAll, Rebuilding, Listed, IsCorrupt, Exists, TypeOK, RebuildComes, Appending, InTheFile, OwnerIsMe, FilesAreOwned, ScanIsWhole, Busy
<1> QED BY <1>1, <1>2, <1>3, <1>4, <1>5, <1>6, <1>7, <1>8, <1>9

LEMMA CrashInv == ASSUME SessionInv, Crash PROVE SessionInv'
<1> USE DEF SessionInv, Crash, files, store, ghosts, bounds, Goto, Absent
<1>1. TypeOK'
  <2>1. index' \in Indexes
    BY DEF TypeOK, Indexes
  <2> QED BY <2>1, NoIndexIs DEF TypeOK, Busy
<1>2. OwnerIsMe'
  BY NoIndexIs DEF OwnerIsMe, TypeOK, Busy, Sids
<1>3. FilesAreOwned'
  BY NoIndexIs DEF FilesAreOwned, OwnerIsMe, TypeOK, Busy
<1>4. GzIsGz'
  BY NoIndexIs DEF GzIsGz, TypeOK, Maps, OwnerIsMe, FilesAreOwned, Sids
<1>5. Appending'
  BY NoIndexIs DEF Appending, InTheFile, Exists, Content, TypeOK, OwnerIsMe, FilesAreOwned, Busy, Maps, AckedIsThere
<1>6. AckedIsThere'
  BY NoIndexIs DEF AckedIsThere, Content, TypeOK, Appending, InTheFile, Exists, OwnerIsMe, FilesAreOwned, GzIsGz, Busy, Maps
<1>7. RebuildComes'
  BY NoIndexIs DEF RebuildComes, IsCorrupt, TypeOK, Busy
<1>8. ScanIsWhole'
  BY NoIndexIs DEF ScanIsWhole, Exists, TypeOK, Appending, InTheFile, OwnerIsMe, FilesAreOwned, Busy
<1>9. ListsAll'
  <2>1. CASE index' = index
    BY <2>1 DEF ListsAll, Rebuilding, Listed, IsCorrupt, Exists
  <2>2. CASE index' # index
    <3>1. index'.torn = "open"
      BY <2>2 DEF TypeOK, Indexes
    <3> QED BY <3>1 DEF ListsAll, IsCorrupt
  <2> QED BY <2>1, <2>2
<1> QED BY <1>1, <1>2, <1>3, <1>4, <1>5, <1>6, <1>7, <1>8, <1>9

LEMMA TickInv == ASSUME SessionInv, Tick PROVE SessionInv'
<1> USE DEF SessionInv, Tick, files, store, ghosts, bounds, Goto, Absent
<1>1. TypeOK'
  BY NoIndexIs DEF TypeOK, Busy, Maps
<1>2. OwnerIsMe'
  BY NoIndexIs DEF OwnerIsMe, TypeOK, Busy
<1>3. FilesAreOwned'
  BY NoIndexIs DEF FilesAreOwned, OwnerIsMe, TypeOK, Busy
<1>4. GzIsGz'
  BY NoIndexIs DEF GzIsGz, TypeOK, Maps, OwnerIsMe, FilesAreOwned
<1>5. Appending'
  BY NoIndexIs DEF Appending, InTheFile, Exists, Content, TypeOK, OwnerIsMe, FilesAreOwned, Busy, Maps, AckedIsThere
<1>6. AckedIsThere'
  BY NoIndexIs DEF AckedIsThere, Content, TypeOK, Appending, InTheFile, Exists, OwnerIsMe, FilesAreOwned, GzIsGz, Busy, Maps
<1>7. RebuildComes'
  BY NoIndexIs DEF RebuildComes, IsCorrupt, TypeOK, Busy
<1>8. ScanIsWhole'
  BY NoIndexIs DEF ScanIsWhole, Exists, TypeOK, Appending, InTheFile, OwnerIsMe, FilesAreOwned, Busy
<1>9. ListsAll'
  BY NoIndexIs DEF ListsAll, Rebuilding, Listed, IsCorrupt, Exists, TypeOK, RebuildComes, Appending, InTheFile, OwnerIsMe, FilesAreOwned, ScanIsWhole, Busy
<1> QED BY <1>1, <1>2, <1>3, <1>4, <1>5, <1>6, <1>7, <1>8, <1>9
LEMMA InitSession == Init => SessionInv
<1> SUFFICES ASSUME Init PROVE SessionInv
  OBVIOUS
<1> USE NoIndexIs DEF Init
<1>1. \A s \in Sids : s # 0
  BY DEF Sids
<1>2. TypeOK
  BY DEF TypeOK, Busy
<1>3. OwnerIsMe /\ FilesAreOwned /\ GzIsGz
  BY <1>1 DEF OwnerIsMe, FilesAreOwned, GzIsGz
<1>4. Appending /\ AckedIsThere /\ RebuildComes /\ ScanIsWhole /\ ListsAll
  BY DEF Appending, Busy, AckedIsThere, RebuildComes, ScanIsWhole, ListsAll
<1> QED BY <1>2, <1>3, <1>4 DEF SessionInv

LEMMA NextSession == ASSUME SessionInv, [Next]_vars PROVE SessionInv'
<1>1. CASE UNCHANGED vars
  <2> USE <1>1 DEF vars, files, store, bounds, ghosts
  <2>1. TypeOK' /\ OwnerIsMe' /\ FilesAreOwned' /\ GzIsGz'
    BY DEF SessionInv, TypeOK, OwnerIsMe, FilesAreOwned, GzIsGz
  <2>2. Appending' /\ AckedIsThere'
    BY DEF SessionInv, Appending, InTheFile, AckedIsThere, Exists, Content
  <2>3. RebuildComes' /\ ScanIsWhole' /\ ListsAll'
    BY DEF SessionInv, RebuildComes, ScanIsWhole, ListsAll, Exists, Listed, Rebuilding, IsCorrupt
  <2> QED BY <2>1, <2>2, <2>3 DEF SessionInv
<1>2. CASE \E a \in Agents : \/ Open(a) \/ Adopt(a) \/ Create(a) \/ List(a) \/ Prune(a) \/ Delete(a)
                            \/ Resolve(a) \/ Replace(a) \/ Compress(a) \/ Unlink(a) \/ Acknowledge(a)
                            \/ Close(a)
  BY <1>2, OpenInv, AdoptInv, CreateInv, ListInv, PruneInv, DeleteInv, ResolveInv, ReplaceInv,
     CompressInv, UnlinkInv, AcknowledgeInv, CloseInv
<1>3. CASE Scan \/ Write \/ Crash \/ Tick
  BY <1>3, ScanInv, WriteInv, CrashInv, TickInv
<1> QED BY <1>1, <1>2, <1>3 DEF Next

-----------------------------------------------------------------------------
\* A session has one owner, and the record of a named one says so.
OwnerIsAlone == \A s \in Sids : \A a \in owner[s] : owner[s] = {a}
NameIsKept   == \A a \in Agents : pc[a] \in Busy /\ a \notin Nameless => maps[a].agent
NameIsListed == \A s \in Sids \ blurred :
                  owner[s] # {} /\ owner[s] \cap Nameless = {} => index.recs[s].agent

\* No time is ahead of the clock.
TimesArePast == \A s \in Sids : /\ born[s] <= clock
                                /\ index.recs[s].at <= clock /\ found.recs[s].at <= clock

NameInv == OwnerIsAlone /\ NameIsKept /\ NameIsListed /\ TimesArePast

LEMMA RecordNames ==
  ASSUME TypeOK, TimesArePast, NEW a \in Agents, own[a] \in Sids, Record(a)
  PROVE  /\ \A s \in Sids : index'.recs[s].at <= clock
         /\ \A s \in Sids : s \notin blurred' =>
              \/ s \notin blurred /\ index'.recs[s] = index.recs[s]
              \/ s = own[a] /\ index'.recs[s].agent = maps[a].agent
<1> DEFINE r == Rec(clock, maps[a].agent)
           i == Appended(index, own[a], r)
<1>1. r \in Records /\ r.at = clock /\ r.agent = maps[a].agent
  BY DEF TypeOK, Rec, Records, Maps
<1>2. index \in Indexes /\ \A s \in Sids : index.recs[s].at \in Nat
  BY DEF TypeOK, Indexes, Records
<1>3. CASE UNCHANGED <<index, unlisted, blurred>>
  BY <1>3 DEF TimesArePast
<1>4. CASE /\ index' = i
           /\ blurred' = (IF Takes(index, own[a], r) /\ ~Rebuilding THEN blurred \ {own[a]} ELSE blurred)
  <2> HIDE DEF r
  <2>1. CASE Takes(index, own[a], r)
    <3>1. i.recs = [index.recs EXCEPT ![own[a]] = r]
      BY <2>1 DEF Appended
    <3>2. i.recs[own[a]] = r /\ \A s \in Sids : s # own[a] => i.recs[s] = index.recs[s]
      BY <1>2, <3>1 DEF Indexes
    <3> HIDE DEF i
    <3>3. \A s \in Sids : i.recs[s].at <= clock
      BY <1>1, <3>2 DEF TimesArePast, TypeOK
    <3> QED BY <1>1, <1>4, <2>1, <3>2, <3>3
  <2>2. CASE ~Takes(index, own[a], r)
    <3>1. i.recs = index.recs
      BY <2>2 DEF Appended
    <3> QED BY <1>4, <2>2, <3>1 DEF TimesArePast
  <2> QED BY <2>1, <2>2
<1> QED BY <1>3, <1>4 DEF Record

LEMMA OpenNames == ASSUME SessionInv, NameInv, NEW a \in Agents, Open(a) PROVE NameInv'
<1> USE DEF SessionInv, NameInv, Open, files, store, ghosts, bounds, Goto
<1>1. OwnerIsAlone'
  BY NoIndexIs DEF OwnerIsAlone, TypeOK
<1>2. NameIsKept'
  BY NoIndexIs DEF NameIsKept, TypeOK, Busy, Maps
<1>3. NameIsListed'
  BY NoIndexIs DEF NameIsListed, NameIsKept, OwnerIsAlone, OwnerIsMe, TypeOK, Busy
<1>4. TimesArePast'
  BY NoIndexIs DEF TimesArePast, TypeOK
<1> QED BY <1>1, <1>2, <1>3, <1>4

LEMMA AdoptNames == ASSUME SessionInv, NameInv, NEW a \in Agents, Adopt(a) PROVE NameInv'
<1> USE DEF SessionInv, NameInv, Adopt, files, store, ghosts, bounds, Goto
<1>1. OwnerIsAlone'
  BY NoIndexIs DEF OwnerIsAlone, TypeOK
<1>2. NameIsKept'
  BY NoIndexIs DEF NameIsKept, TypeOK, Busy, Maps
<1>3. NameIsListed'
  BY NoIndexIs DEF NameIsListed, NameIsKept, OwnerIsAlone, OwnerIsMe, TypeOK, Busy
<1>4. TimesArePast'
  BY NoIndexIs DEF TimesArePast, TypeOK
<1> QED BY <1>1, <1>2, <1>3, <1>4

LEMMA CreateNames == ASSUME SessionInv, NameInv, NEW a \in Agents, Create(a) PROVE NameInv'
<1> USE DEF SessionInv, NameInv, Create, files, store, ghosts, bounds, Goto
<1>1. OwnerIsAlone'
  BY NoIndexIs DEF OwnerIsAlone, TypeOK
<1>2. NameIsKept'
  <2>1. maps'[a].agent = (a \notin Nameless)
    BY DEF TypeOK
  <2>2. \A b \in Agents : b # a => pc'[b] = pc[b] /\ maps'[b] = maps[b]
    BY DEF TypeOK
  <2> QED BY <2>1, <2>2 DEF NameIsKept
<1>3. NameIsListed'
  BY NoIndexIs DEF NameIsListed, NameIsKept, OwnerIsAlone, OwnerIsMe, TypeOK, Busy
<1>4. TimesArePast'
  BY NoIndexIs DEF TimesArePast, TypeOK
<1> QED BY <1>1, <1>2, <1>3, <1>4

LEMMA ListNames == ASSUME SessionInv, NameInv, NEW a \in Agents, List(a) PROVE NameInv'
<1> USE DEF SessionInv, NameInv, List, files, store, ghosts, bounds, Goto
<1>0. /\ \A s \in Sids : index'.recs[s].at <= clock
      /\ \A s \in Sids : s \notin blurred' =>
           \/ s \notin blurred /\ index'.recs[s] = index.recs[s]
           \/ s = own[a] /\ index'.recs[s].agent = maps[a].agent
  BY RecordNames DEF TypeOK, Busy
<1>1. OwnerIsAlone'
  BY <1>0, NoIndexIs DEF OwnerIsAlone, TypeOK
<1>2. NameIsKept'
  BY <1>0, NoIndexIs DEF NameIsKept, TypeOK, Busy, Maps
<1>3. NameIsListed'
  BY <1>0, NoIndexIs DEF NameIsListed, NameIsKept, OwnerIsAlone, OwnerIsMe, TypeOK, Busy
<1>4. TimesArePast'
  BY <1>0, NoIndexIs DEF TimesArePast, TypeOK
<1> QED BY <1>1, <1>2, <1>3, <1>4

LEMMA PruneNames == ASSUME SessionInv, NameInv, NEW a \in Agents, Prune(a) PROVE NameInv'
<1> USE DEF SessionInv, NameInv, Prune, files, store, ghosts, bounds, Goto
<1>1. OwnerIsAlone'
  BY NoIndexIs DEF OwnerIsAlone, TypeOK
<1>2. NameIsKept'
  BY NoIndexIs DEF NameIsKept, TypeOK, Busy, Maps
<1>3. NameIsListed'
  BY NoIndexIs DEF NameIsListed, NameIsKept, OwnerIsAlone, OwnerIsMe, TypeOK, Busy
<1>4. TimesArePast'
  BY NoIndexIs DEF TimesArePast, TypeOK
<1> QED BY <1>1, <1>2, <1>3, <1>4

LEMMA DeleteNames == ASSUME SessionInv, NameInv, NEW a \in Agents, Delete(a) PROVE NameInv'
<1> USE DEF SessionInv, NameInv, Delete, files, store, ghosts, bounds, Goto
<1>1. OwnerIsAlone'
  BY NoIndexIs DEF OwnerIsAlone, TypeOK
<1>2. NameIsKept'
  BY NoIndexIs DEF NameIsKept, TypeOK, Busy, Maps
<1>3. NameIsListed'
  BY NoIndexIs DEF NameIsListed, NameIsKept, OwnerIsAlone, OwnerIsMe, TypeOK, Busy
<1>4. TimesArePast'
  BY NoIndexIs DEF TimesArePast, TypeOK
<1> QED BY <1>1, <1>2, <1>3, <1>4

LEMMA ResolveNames == ASSUME SessionInv, NameInv, NEW a \in Agents, Resolve(a) PROVE NameInv'
<1> USE DEF SessionInv, NameInv, Resolve, files, store, ghosts, bounds, Goto
<1>1. OwnerIsAlone'
  BY NoIndexIs DEF OwnerIsAlone, TypeOK
<1>2. NameIsKept'
  BY NoIndexIs DEF NameIsKept, TypeOK, Busy, Maps
<1>3. NameIsListed'
  BY NoIndexIs DEF NameIsListed, NameIsKept, OwnerIsAlone, OwnerIsMe, TypeOK, Busy
<1>4. TimesArePast'
  BY NoIndexIs DEF TimesArePast, TypeOK
<1> QED BY <1>1, <1>2, <1>3, <1>4

LEMMA ReplaceNames == ASSUME SessionInv, NameInv, NEW a \in Agents, Replace(a) PROVE NameInv'
<1> USE DEF SessionInv, NameInv, Replace, files, store, ghosts, bounds, Goto
<1>1. OwnerIsAlone'
  BY NoIndexIs DEF OwnerIsAlone, TypeOK
<1>2. NameIsKept'
  BY NoIndexIs DEF NameIsKept, TypeOK, Busy, Maps
<1>3. NameIsListed'
  BY NoIndexIs DEF NameIsListed, NameIsKept, OwnerIsAlone, OwnerIsMe, TypeOK, Busy
<1>4. TimesArePast'
  BY NoIndexIs DEF TimesArePast, TypeOK
<1> QED BY <1>1, <1>2, <1>3, <1>4

LEMMA CompressNames == ASSUME SessionInv, NameInv, NEW a \in Agents, Compress(a) PROVE NameInv'
<1> USE DEF SessionInv, NameInv, Compress, files, store, ghosts, bounds, Goto
<1>1. OwnerIsAlone'
  BY NoIndexIs DEF OwnerIsAlone, TypeOK
<1>2. NameIsKept'
  BY NoIndexIs DEF NameIsKept, TypeOK, Busy, Maps
<1>3. NameIsListed'
  BY NoIndexIs DEF NameIsListed, NameIsKept, OwnerIsAlone, OwnerIsMe, TypeOK, Busy
<1>4. TimesArePast'
  BY NoIndexIs DEF TimesArePast, TypeOK
<1> QED BY <1>1, <1>2, <1>3, <1>4

LEMMA UnlinkNames == ASSUME SessionInv, NameInv, NEW a \in Agents, Unlink(a) PROVE NameInv'
<1> USE DEF SessionInv, NameInv, Unlink, files, store, ghosts, bounds, Goto
<1>1. OwnerIsAlone'
  BY NoIndexIs DEF OwnerIsAlone, TypeOK
<1>2. NameIsKept'
  BY NoIndexIs DEF NameIsKept, TypeOK, Busy, Maps
<1>3. NameIsListed'
  BY NoIndexIs DEF NameIsListed, NameIsKept, OwnerIsAlone, OwnerIsMe, TypeOK, Busy
<1>4. TimesArePast'
  BY NoIndexIs DEF TimesArePast, TypeOK
<1> QED BY <1>1, <1>2, <1>3, <1>4

LEMMA AcknowledgeNames == ASSUME SessionInv, NameInv, NEW a \in Agents, Acknowledge(a) PROVE NameInv'
<1> USE DEF SessionInv, NameInv, Acknowledge, files, store, ghosts, bounds, Goto
<1>0. /\ \A s \in Sids : index'.recs[s].at <= clock
      /\ \A s \in Sids : s \notin blurred' =>
           \/ s \notin blurred /\ index'.recs[s] = index.recs[s]
           \/ s = own[a] /\ index'.recs[s].agent = maps[a].agent
  BY RecordNames DEF TypeOK, Busy
<1>1. OwnerIsAlone'
  BY <1>0, NoIndexIs DEF OwnerIsAlone, TypeOK
<1>2. NameIsKept'
  BY <1>0, NoIndexIs DEF NameIsKept, TypeOK, Busy, Maps
<1>3. NameIsListed'
  BY <1>0, NoIndexIs DEF NameIsListed, NameIsKept, OwnerIsAlone, OwnerIsMe, TypeOK, Busy
<1>4. TimesArePast'
  BY <1>0, NoIndexIs DEF TimesArePast, TypeOK
<1> QED BY <1>1, <1>2, <1>3, <1>4

LEMMA CloseNames == ASSUME SessionInv, NameInv, NEW a \in Agents, Close(a) PROVE NameInv'
<1> USE DEF SessionInv, NameInv, Close, files, store, ghosts, bounds, Goto
<1>1. OwnerIsAlone'
  BY NoIndexIs DEF OwnerIsAlone, TypeOK
<1>2. NameIsKept'
  BY NoIndexIs DEF NameIsKept, TypeOK, Busy, Maps
<1>3. NameIsListed'
  BY NoIndexIs DEF NameIsListed, NameIsKept, OwnerIsAlone, OwnerIsMe, TypeOK, Busy
<1>4. TimesArePast'
  BY NoIndexIs DEF TimesArePast, TypeOK
<1> QED BY <1>1, <1>2, <1>3, <1>4

LEMMA ScanNames == ASSUME SessionInv, NameInv, Scan PROVE NameInv'
<1> USE DEF SessionInv, NameInv, Scan, files, store, ghosts, bounds, Goto
<1>1. OwnerIsAlone'
  BY NoIndexIs DEF OwnerIsAlone, TypeOK
<1>2. NameIsKept'
  BY NoIndexIs DEF NameIsKept, TypeOK, Busy, Maps
<1>3. NameIsListed'
  BY NoIndexIs DEF NameIsListed, NameIsKept, OwnerIsAlone, OwnerIsMe, TypeOK, Busy
<1>4. TimesArePast'
  <2>1. {s \in Sids : Exists(s)} \in SUBSET Sids
    OBVIOUS
  <2>2. \A s \in Sids : found'.recs[s].at \in {0, born[s], clock}
    BY <2>1, RebuiltIs
  <2> QED BY SMTT(60), <2>2, NoIndexIs DEF TimesArePast, TypeOK
<1> QED BY <1>1, <1>2, <1>3, <1>4

LEMMA WriteNames == ASSUME SessionInv, NameInv, Write PROVE NameInv'
<1> USE DEF SessionInv, NameInv, Write, files, store, ghosts, bounds, Goto
<1>1. OwnerIsAlone'
  BY NoIndexIs DEF OwnerIsAlone, TypeOK
<1>2. NameIsKept'
  BY NoIndexIs DEF NameIsKept, TypeOK, Busy, Maps
<1>3. NameIsListed'
  BY NoIndexIs DEF NameIsListed, NameIsKept, OwnerIsAlone, OwnerIsMe, TypeOK, Busy
<1>4. TimesArePast'
  BY NoIndexIs DEF TimesArePast, TypeOK
<1> QED BY <1>1, <1>2, <1>3, <1>4

LEMMA CrashNames == ASSUME SessionInv, NameInv, Crash PROVE NameInv'
<1> USE DEF SessionInv, NameInv, Crash, files, store, ghosts, bounds, Goto
<1>0. index'.recs = index.recs
  BY DEF TypeOK, Indexes
<1>1. OwnerIsAlone'
  BY NoIndexIs DEF OwnerIsAlone, TypeOK
<1>2. NameIsKept'
  BY NoIndexIs DEF NameIsKept, TypeOK, Busy, Maps
<1>3. NameIsListed'
  BY <1>0, NoIndexIs DEF NameIsListed, NameIsKept, OwnerIsAlone, OwnerIsMe, TypeOK, Busy
<1>4. TimesArePast'
  BY <1>0, NoIndexIs DEF TimesArePast, TypeOK
<1> QED BY <1>1, <1>2, <1>3, <1>4

LEMMA TickNames == ASSUME SessionInv, NameInv, Tick PROVE NameInv'
<1> USE DEF SessionInv, NameInv, Tick, files, store, ghosts, bounds, Goto
<1>1. OwnerIsAlone'
  BY NoIndexIs DEF OwnerIsAlone, TypeOK
<1>2. NameIsKept'
  BY NoIndexIs DEF NameIsKept, TypeOK, Busy, Maps
<1>3. NameIsListed'
  BY NoIndexIs DEF NameIsListed, NameIsKept, OwnerIsAlone, OwnerIsMe, TypeOK, Busy
<1>4. TimesArePast'
  BY DEF TimesArePast, TypeOK, Indexes, Records
<1> QED BY <1>1, <1>2, <1>3, <1>4

LEMMA InitNames == Init => NameInv
BY NoIndexIs DEF Init, NameInv, OwnerIsAlone, NameIsKept, Busy, NameIsListed, TimesArePast

LEMMA NextNames == ASSUME SessionInv, NameInv, [Next]_vars PROVE NameInv'
<1>1. CASE UNCHANGED vars
  BY <1>1 DEF vars, files, store, bounds, ghosts, NameInv, OwnerIsAlone, NameIsKept, NameIsListed,
              TimesArePast
<1>2. CASE \E a \in Agents : \/ Open(a) \/ Adopt(a) \/ Create(a) \/ List(a) \/ Prune(a) \/ Delete(a)
                            \/ Resolve(a) \/ Replace(a) \/ Compress(a) \/ Unlink(a) \/ Acknowledge(a)
                            \/ Close(a)
  BY <1>2, OpenNames, AdoptNames, CreateNames, ListNames, PruneNames, DeleteNames, ResolveNames,
     ReplaceNames, CompressNames, UnlinkNames, AcknowledgeNames, CloseNames
<1>3. CASE Scan \/ Write \/ Crash \/ Tick
  BY <1>3, ScanNames, WriteNames, CrashNames, TickNames
<1> QED BY <1>1, <1>2, <1>3 DEF Next

\* Of sessions with records there is a most recent one.
LEMMA MostRecent ==
  ASSUME TypeOK, TimesArePast, NEW c \in SUBSET Sids, c # {}
  PROVE  \E s \in c : \A t \in c : index.recs[t].at <= index.recs[s].at
<1> DEFINE ages == {clock - index.recs[s].at : s \in c}
<1>1. \A s \in c : index.recs[s].at \in Nat /\ clock \in Nat /\ index.recs[s].at <= clock
  BY DEF TypeOK, Indexes, Records, TimesArePast
<1>2. ages \subseteq Nat /\ ages # {}
  BY <1>1
<1> HIDE DEF ages
<1>3. PICK m \in ages : \A n \in ages : ~ (<<n, m>> \in OpToRel(<, Nat))
  BY <1>2, NatLessThanWellFounded, WFMin
<1>4. \A n \in ages : n >= m
  <2>1. m \in Nat
    BY <1>2
  <2>2. ASSUME NEW n \in ages PROVE n >= m
    <3>1. n \in Nat
      BY <1>2
    <3>2. n < m => <<n, m>> \in OpToRel(<, Nat)
      BY <2>1, <3>1 DEF OpToRel
    <3>3. ~ (n < m)
      BY <1>3, <3>2, Zenon
    <3> QED BY <2>1, <3>1, <3>3
  <2> QED BY <2>2
<1>5. PICK s \in c : m = clock - index.recs[s].at
  BY DEF ages
<1>6. \A t \in c : clock - index.recs[t].at >= m
  BY <1>4 DEF ages
<1> QED BY <1>1, <1>5, <1>6

-----------------------------------------------------------------------------
\* The invariant holds: types, ownership, the files and the index.
THEOREM SessionInvariant == Spec => []SessionInv
BY InitSession, NextSession, PTL DEF Spec

\* What an append acknowledged stays in the file that load() reads, through
\* compression and crashes (append_message(), save_compressed()).
THEOREM AcknowledgedIsKept == Spec => []AckedIsOnDisk
<1>1. SessionInv => AckedIsOnDisk
  BY DEF SessionInv, AckedIsThere, AckedIsOnDisk
<1> QED BY <1>1, SessionInvariant, PTL

\* The index lists the sessions there are, through torn lines, pruning and
\* rebuilds that run beside appends (rebuild_from_dir(), IndexRebuilder).
THEOREM NothingIsUnlisted == Spec => []ListsAll
<1>1. SessionInv => ListsAll
  BY DEF SessionInv
<1> QED BY <1>1, SessionInvariant, PTL

\* An agent finds its session again, whatever others pruned, whatever append
\* failed and whatever line was torn, unless a rebuild took the agent ids
\* (find_session_for_agent(), adopt_restored()).
THEOREM AgentsFindTheirs == Spec => []FoundAgain
<1>1. ASSUME SessionInv, NameInv PROVE FoundAgain
  <2> SUFFICES ASSUME NEW s \in Sids \ blurred, Exists(s), owner[s] \cap Nameless = {},
                      NEW a \in owner[s]
               PROVE  Found(a) # {}
    BY DEF FoundAgain
  <2>1. owner[s] = {a} /\ a \notin Nameless
    BY <1>1 DEF NameInv, OwnerIsAlone
  <2>2. index.recs[s].agent
    BY <1>1, <2>1 DEF NameInv, NameIsListed
  <2>3. s \in Candidates(a)
    BY <2>1, <2>2 DEF Candidates, Listed, NoRec, Rec
  <2>4. Candidates(a) \in SUBSET Sids
    BY DEF Candidates, Listed
  <2>5. \E r \in Candidates(a) : \A t \in Candidates(a) : index.recs[t].at <= index.recs[r].at
    BY <1>1, <2>3, <2>4, MostRecent DEF SessionInv, NameInv
  <2> QED BY <2>1, <2>5 DEF Found
<1>2. SessionInv /\ NameInv /\ [Next]_vars => SessionInv' /\ NameInv'
  BY NextSession, NextNames
<1>3. Init => SessionInv /\ NameInv
  BY InitSession, InitNames
<1> QED BY <1>1, <1>2, <1>3, PTL DEF Spec

=============================================================================
