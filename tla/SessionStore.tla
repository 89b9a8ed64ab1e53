----------------------------- MODULE SessionStore -----------------------------
(***************************************************************************)
(* The session files and their index. Every agent thread opens a           *)
(* SessionStore of its own on the same directory: it creates a session or  *)
(* finds and adopts the one it had, appends messages to it, and prunes old *)
(* sessions when it creates one. A store that finds the index absent or    *)
(* corrupt rebuilds it from the files on a thread of its own. Nothing      *)
(* excludes the stores from each other, and the process may die between    *)
(* any two writes.                                                         *)
(*                                                                         *)
(* A file is the number of messages it holds, as .json or, when large, as  *)
(* .json.gz; the index is, for each session, the record its readers take;  *)
(* a record's time has the resolution of a second.                         *)
(***************************************************************************)
EXTENDS Integers, FiniteSets, FiniteSetsExt

CONSTANTS Agents,      \* agent threads, each with a store
          Nameless,    \* those whose agent_id is empty: the main conversation
          Cap,         \* DEFAULT_MAX_SESSIONS
          GzipAt,      \* messages of a file of GZIP_THRESHOLD_BYTES
          MaxOpens,    \* bound on stores opened
          MaxSessions, MaxMessages, \* bounds on sessions and on a session's messages
          MaxClock,    \* bound on seconds
          MaxFaults    \* bound on crashes and index appends that fail

ASSUME SessionAssumption == Nameless \subseteq Agents /\ Cap \in Nat /\ GzipAt \in Nat

VARIABLES
  json, gz,    \* messages in the two files of a session (Absent: no file)
  born,        \* updated_at in the header of a session file
  index,       \* index.json: NoIndex, or its lines
  pc, own,     \* each agent thread and its session
  maps,        \* its store's in-memory path and agent id, and the
               \* messages an append has read from the file
  doomed,      \* the sessions prune() has yet to delete
  rb, found,   \* the IndexRebuilder (of which store), and the records it scanned
  clock, opens, faults,
  owner,       \* history: the agent a session was created for
  acked,       \* history: messages whose append returned Ok, until it is pruned
  pruned,      \* history: sessions prune() deleted
  unlisted,    \* history: sessions that a rebuild may have left out
  blurred      \* history: sessions whose record may have lost its agent id

files  == <<json, gz, born>>
store  == <<pc, own, maps, doomed>>
ghosts == <<owner, acked, pruned, unlisted, blurred>>
bounds == <<clock, opens, faults>>
vars   == <<files, index, store, rb, found, bounds, ghosts>>

Sids    == 1..MaxSessions
Absent  == -1
NoMaps  == [path |-> "none", agent |-> FALSE, read |-> 0]
\* A record of the index. Time 0: the session has none.
Rec(at, agent) == [at |-> at, agent |-> agent]
NoRec   == Rec(0, FALSE)
NoIndex == [recs |-> [s \in Sids |-> NoRec], torn |-> "absent"]
Empty   == [NoIndex EXCEPT !.torn = "no"]

Exists(s)  == json[s] # Absent \/ gz[s] # Absent
\* What load() reads: .json before .json.gz.
Content(s) == IF json[s] # Absent THEN json[s] ELSE gz[s]
Listed     == {s \in Sids : index.recs[s] # NoRec}

Init ==
  /\ json = [s \in Sids |-> Absent] /\ gz = [s \in Sids |-> Absent]
  /\ born = [s \in Sids |-> 0] /\ index = NoIndex
  /\ pc = [a \in Agents |-> "off"] /\ own = [a \in Agents |-> 0]
  /\ maps = [a \in Agents |-> NoMaps] /\ doomed = [a \in Agents |-> {}]
  /\ rb = "none" /\ found = NoIndex
  /\ clock = 1 /\ opens = 0 /\ faults = 0
  /\ owner = [s \in Sids |-> {}] /\ acked = [s \in Sids |-> 0]
  /\ pruned = {} /\ unlisted = {} /\ blurred = {}

-----------------------------------------------------------------------------
\* append_index_record(), as read_latest_per_id() reads it: of a session's
\* records the first with the greatest time; a line that follows a torn one is
\* part of it.
Takes(i, s, r)    == i.torn # "open" /\ i.recs[s].at < r.at
Appended(i, s, r) == [recs |-> IF Takes(i, s, r) THEN [i.recs EXCEPT ![s] = r] ELSE i.recs,
                      torn |-> CASE i.torn = "open" -> "yes" [] i.torn = "absent" -> "no"
                                 [] OTHER -> i.torn]
IsCorrupt == index.torn \in {"open", "yes"}

\* find_session_for_agent(): the most recent of the agent's that can be read.
Candidates(a) == {s \in Listed : Exists(s) /\ index.recs[s].agent /\ owner[s] = {a}}
Found(a) == IF a \in Nameless THEN {}
            ELSE {s \in Candidates(a) : \A t \in Candidates(a) :
                    index.recs[t].at <= index.recs[s].at}

\* Is a rebuild under way that may have looked before now?
Rebuilding == rb # "none"
Scanned    == rb = "write"

Goto(a, p) == pc' = [pc EXCEPT ![a] = p]

\* A record of a's session goes to the index, or the append fails, unnoticed.
Record(a) ==
  LET s == own[a]
      r == Rec(clock, maps[a].agent)
  IN  \/ /\ index' = Appended(index, s, r)
         /\ unlisted' = (IF index.torn # "open" /\ ~Scanned THEN unlisted \ {s} ELSE unlisted)
         /\ blurred'  = (IF Takes(index, s, r) /\ ~Rebuilding THEN blurred \ {s} ELSE blurred)
         /\ UNCHANGED faults
      \/ /\ faults < MaxFaults /\ faults' = faults + 1
         /\ UNCHANGED <<index, unlisted, blurred>>

-----------------------------------------------------------------------------
\* SessionStore(): a store opens; an absent or corrupt index is rebuilt.
Open(a) ==
  /\ pc[a] = "off" /\ Goto(a, "find") /\ opens < MaxOpens /\ opens' = opens + 1
  /\ rb' = (IF rb = "none" /\ (index = NoIndex \/ IsCorrupt) THEN "scan" ELSE rb)
  /\ UNCHANGED <<files, index, own, maps, doomed, found, clock, faults, ghosts>>

\* Mutant: what is adopted has no agent id.
BugAdopt(a) ==
  /\ pc[a] = "find"
  /\ \/ \E s \in Found(a) :
          /\ own' = [own EXCEPT ![a] = s] /\ Goto(a, "ready")
          /\ maps' = [maps EXCEPT ![a] = [path |-> IF json[s] # Absent THEN "json" ELSE "gz",
                                          agent |-> FALSE, read |-> 0]]
     \/ Found(a) = {} /\ Goto(a, "create") /\ UNCHANGED <<own, maps>>
  /\ UNCHANGED <<files, index, doomed, rb, found, bounds, ghosts>>

\* find_session_for_agent() and adopt_restored(), or a new session.
Adopt(a) ==
  /\ pc[a] = "find"
  /\ \/ \E s \in Found(a) :
          /\ own' = [own EXCEPT ![a] = s] /\ Goto(a, "ready")
          /\ maps' = [maps EXCEPT ![a] = [path |-> IF json[s] # Absent THEN "json" ELSE "gz",
                                          agent |-> TRUE, read |-> 0]]
     \/ Found(a) = {} /\ Goto(a, "create") /\ UNCHANGED <<own, maps>>
  /\ UNCHANGED <<files, index, doomed, rb, found, bounds, ghosts>>

\* new_session(): the file first.
Create(a) ==
  /\ pc[a] = "create" /\ Goto(a, "list")
  /\ \E s \in {t \in Sids : owner[t] = {} /\ \A r \in 1..t - 1 : owner[r] # {}} :
       /\ json' = [json EXCEPT ![s] = 0] /\ born' = [born EXCEPT ![s] = clock]
       /\ own' = [own EXCEPT ![a] = s] /\ owner' = [owner EXCEPT ![s] = {a}]
       /\ unlisted' = unlisted \union {s} /\ blurred' = blurred \union {s}
  /\ maps' = [maps EXCEPT ![a] = [path |-> "json", agent |-> a \notin Nameless, read |-> 0]]
  /\ UNCHANGED <<gz, index, doomed, rb, found, bounds, acked, pruned>>

\* Then the index record.
List(a) ==
  /\ pc[a] = "list" /\ Record(a) /\ Goto(a, "prune")
  /\ UNCHANGED <<files, own, maps, doomed, rb, found, clock, opens, owner, acked, pruned>>

\* Kept sets of n sessions: none outside is more recent (ties fall anyhow).
Newest(n) ==
  {k \in SUBSET Listed :
     /\ Cardinality(k) = Min({n, Cardinality(Listed)})
     /\ \A s \in k, t \in Listed \ k : index.recs[t].at <= index.recs[s].at}

\* prune(): what the index lists beyond the cap, but for the store's own session.
Prune(a) ==
  /\ pc[a] = "prune"
  /\ \E k \in Newest(Cap) :
       LET excess == Listed \ (k \union {own[a]})
       IN  doomed' = [doomed EXCEPT ![a] = excess] /\ Goto(a, IF excess = {} THEN "ready" ELSE "delete")
  /\ UNCHANGED <<files, index, own, maps, rb, found, bounds, ghosts>>

Delete(a) ==
  /\ pc[a] = "delete"
  /\ \E s \in doomed[a] :
       /\ json' = [json EXCEPT ![s] = Absent] /\ gz' = [gz EXCEPT ![s] = Absent]
       /\ doomed' = [doomed EXCEPT ![a] = @ \ {s}]
       /\ Goto(a, IF doomed[a] = {s} THEN "ready" ELSE "delete")
       /\ pruned' = pruned \union {s} /\ acked' = [acked EXCEPT ![s] = 0]
  /\ UNCHANGED <<born, index, own, maps, rb, found, bounds, owner, unlisted, blurred>>

-----------------------------------------------------------------------------
\* append_message(): the mapped path, else .json, else .json.gz; the file is
\* read, and later replaced.
Path(a) ==
  LET s == own[a]
  IN  IF maps[a].path = "gz" /\ gz[s] # Absent THEN "gz"
      ELSE IF json[s] # Absent THEN "json"
      ELSE IF gz[s] # Absent THEN "gz" ELSE "none"

\* A session that another store pruned cannot be appended to.
Resolve(a) ==
  /\ pc[a] = "ready" /\ Path(a) # "none" /\ Content(own[a]) < MaxMessages /\ Goto(a, "replace")
  /\ maps' = [maps EXCEPT ![a].path = Path(a),
                          ![a].read = IF Path(a) = "json" THEN json[own[a]] ELSE gz[own[a]]]
  /\ UNCHANGED <<files, index, own, doomed, rb, found, bounds, ghosts>>

\* write_atomic(): a file that was deleted meanwhile is there again.
Replace(a) ==
  LET s == own[a]
      n == maps[a].read + 1
  IN  /\ pc[a] = "replace"
      /\ IF maps[a].path = "json"
           THEN /\ json' = [json EXCEPT ![s] = n] /\ UNCHANGED gz
                /\ Goto(a, IF n >= GzipAt THEN "compress" ELSE "record")
           ELSE /\ gz' = [gz EXCEPT ![s] = n] /\ UNCHANGED json /\ Goto(a, "record")
      /\ UNCHANGED <<born, index, own, maps, doomed, rb, found, bounds, ghosts>>

\* Mutant: the plain file is removed although the .gz could not be written.
BugCompress(a) ==
  /\ pc[a] = "compress" /\ Goto(a, "unlink")
  /\ gz' \in {gz, [gz EXCEPT ![own[a]] = maps[a].read + 1]}
  /\ UNCHANGED <<json, born, index, own, maps, doomed, rb, found, bounds, ghosts>>

\* save_compressed(): the .gz is written (or not, which is no error) ...
Compress(a) ==
  /\ pc[a] = "compress"
  /\ \/ Goto(a, "unlink") /\ gz' = [gz EXCEPT ![own[a]] = maps[a].read + 1]
     \/ Goto(a, "record") /\ UNCHANGED gz
  /\ UNCHANGED <<json, born, index, own, maps, doomed, rb, found, bounds, ghosts>>

\* ... then the plain file is removed.
Unlink(a) ==
  /\ pc[a] = "unlink" /\ Goto(a, "record") /\ json' = [json EXCEPT ![own[a]] = Absent]
  /\ maps' = [maps EXCEPT ![a].path = "gz"]
  /\ UNCHANGED <<gz, born, index, own, doomed, rb, found, bounds, ghosts>>

\* The maps and the index follow; the append returns Ok.
Acknowledge(a) ==
  /\ pc[a] = "record" /\ Goto(a, "ready") /\ Record(a)
  /\ maps' = [maps EXCEPT ![a].read = 0]
  /\ acked' = [acked EXCEPT ![own[a]] = maps[a].read + 1]
  /\ UNCHANGED <<files, own, doomed, rb, found, clock, opens, owner, pruned>>

-----------------------------------------------------------------------------
\* rebuild_from_dir(): a record of each file there is. The agent is not taken
\* from a header, a .gz is not looked into.
RebuiltFrom(sids) ==
  [Empty EXCEPT !.recs = [s \in Sids |->
     IF s \in sids THEN Rec(IF json[s] # Absent THEN born[s] ELSE clock, FALSE) ELSE NoRec]]

\* Mutant: compressed sessions are left out.
BugScan ==
  /\ rb = "scan" /\ rb' = "write"
  /\ IF IsCorrupt THEN index' = NoIndex /\ blurred' = Sids ELSE UNCHANGED <<index, blurred>>
  /\ found' = RebuiltFrom({s \in Sids : json[s] # Absent})
  /\ UNCHANGED <<files, store, bounds, owner, acked, pruned, unlisted>>

\* IndexRebuilder: a corrupt index is moved away, the files are scanned.
Scan ==
  /\ rb = "scan" /\ rb' = "write"
  /\ IF IsCorrupt THEN index' = NoIndex /\ blurred' = Sids ELSE UNCHANGED <<index, blurred>>
  /\ found' = RebuiltFrom({s \in Sids : Exists(s)})
  /\ UNCHANGED <<files, store, bounds, owner, acked, pruned, unlisted>>

\* A new index, written next to the old one, takes its place.
Write ==
  /\ rb = "write" /\ rb' = "none" /\ found' = NoIndex /\ index' = found /\ blurred' = Sids
  /\ UNCHANGED <<files, store, bounds, owner, acked, pruned, unlisted>>

-----------------------------------------------------------------------------
\* An agent ends.
Close(a) ==
  /\ pc[a] = "ready" /\ Goto(a, "off")
  /\ own' = [own EXCEPT ![a] = 0] /\ maps' = [maps EXCEPT ![a] = NoMaps]
  /\ UNCHANGED <<files, index, doomed, rb, found, bounds, ghosts>>

\* The process dies; a line being written may be torn. A rebuild that is cut
\* after an append leaves an index that looks whole and lists that append only.
Crash ==
  /\ faults < MaxFaults /\ faults' = faults + 1
  /\ index' \in {index} \union {[index EXCEPT !.torn = "open"] :
                                  a \in {b \in Agents : pc[b] \in {"list", "record"}}}
  /\ pc' = [a \in Agents |-> "off"] /\ own' = [a \in Agents |-> 0]
  /\ maps' = [a \in Agents |-> NoMaps] /\ doomed' = [a \in Agents |-> {}]
  /\ unlisted' = (IF Rebuilding /\ index' # NoIndex /\ ~IsCorrupt'
                   THEN unlisted \union {s \in Sids : Exists(s) /\ s \notin Listed} ELSE unlisted)
  /\ rb' = "none" /\ found' = NoIndex
  /\ UNCHANGED <<files, clock, opens, owner, acked, pruned, blurred>>

Tick == /\ clock < MaxClock /\ clock' = clock + 1
        /\ UNCHANGED <<files, index, store, rb, found, opens, faults, ghosts>>

Next ==
  \/ \E a \in Agents : \/ Open(a) \/ Adopt(a) \/ Create(a) \/ List(a) \/ Prune(a) \/ Delete(a)
                       \/ Resolve(a) \/ Replace(a) \/ Compress(a) \/ Unlink(a) \/ Acknowledge(a)
                       \/ Close(a)
  \/ Scan \/ Write \/ Crash \/ Tick

Spec == Init /\ [][Next]_vars

-----------------------------------------------------------------------------
Records == [at : Nat, agent : BOOLEAN]
Indexes == [recs : [Sids -> Records], torn : {"absent", "no", "open", "yes"}]
Maps    == [path : {"none", "json", "gz"}, agent : BOOLEAN, read : Nat]
Busy    == {"list", "prune", "delete", "ready", "replace", "compress", "unlink", "record"}

\* Type invariant: an agent has a session while its store works on one.
TypeOK ==
  /\ json \in [Sids -> {Absent} \union Nat] /\ gz \in [Sids -> {Absent} \union Nat]
  /\ born \in [Sids -> Nat] /\ index \in Indexes /\ found \in Indexes
  /\ pc \in [Agents -> Busy \union {"off", "find", "create"}] /\ maps \in [Agents -> Maps]
  /\ own \in [Agents -> Sids \union {0}] /\ doomed \in [Agents -> SUBSET Sids]
  /\ rb \in {"none", "scan", "write"} /\ clock \in Nat \ {0}
  /\ owner \in [Sids -> SUBSET Agents] /\ acked \in [Sids -> Nat]
  /\ \A a \in Agents : pc[a] \in Busy => own[a] \in Sids

\* An append that returned Ok is in the file a later load() reads, through
\* compression and a crash between any two writes, until prune() deletes the
\* session. (append_message(), save_compressed(), write_atomic())
AckedIsOnDisk == \A s \in Sids \ pruned : acked[s] > 0 => Content(s) >= acked[s]

\* An agent finds its session again after it was closed or the process died,
\* also when others prune, appends to the index fail or a line was torn;
\* unless a rebuild took the agent ids from the index. (find_session_for_agent(),
\* adopt_restored())
FoundAgain ==
  \A s \in Sids \ blurred : Exists(s) /\ owner[s] \cap Nameless = {} =>
    \A a \in owner[s] : Found(a) # {}

\* Outside a rebuild, the index lists every session whose file was there, or
\* whose record was appended, outside one, and was not pruned; unless a crash
\* cut a rebuild. (rebuild_from_dir(), IndexRebuilder)
ListsAll ==
  ~Rebuilding /\ index # NoIndex /\ ~IsCorrupt =>
    \A s \in Sids \ (unlisted \union pruned) : Exists(s) => s \in Listed

===============================================================================
