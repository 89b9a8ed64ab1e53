----------------------------- MODULE McpTransport -----------------------------
(***************************************************************************)
(* One MCP server and the transport that talks to it: a child process on   *)
(* two pipes (StdioTransport) or an event stream with a POST endpoint      *)
(* (SseTransport). Tool threads send requests and wait for the answer with *)
(* their id; a reader thread takes answers in any order; commands go       *)
(* through McpClient, which restarts a transport that failed; the main     *)
(* thread stops it at the end.                                             *)
(*                                                                         *)
(* Signals: the program leaves SIGPIPE as it inherits it: writing to a     *)
(* pipe that nobody reads any more ends the process (killed), or fails     *)
(* where whoever launched it ignores the signal. The model allows both.    *)
(***************************************************************************)
EXTENDS Naturals, FiniteSets

CONSTANTS Tools,      \* threads in McpTool
          Commands,   \* threads in McpClient::dispatch()
          Main,       \* the thread that shuts down
          Kinds,      \* subset of {"stdio", "sse"}
          MaxRequests \* bound on requests

ASSUME McpAssumption ==
  /\ Main \notin Tools \union Commands /\ Tools \cap Commands = {}
  /\ Kinds \subseteq {"stdio", "sse"} /\ MaxRequests \in Nat

VARIABLES
  kind,      \* configuration: which transport it is
  healthy, stopping, \* healthy_; stopping_ or stopped_
  stdin,     \* is our end of the child's input open? (an endpoint to POST to)
  reader,    \* reader_thread_: none, reading, ending (unhealthy), ended
  wlock,     \* who is in write_mutex_ (None: nobody)
  pending,   \* ids in pending_map_
  result,    \* what a request's future, or its shared entry, holds
  hand,      \* entries that the SSE reader, or stop(), has taken and has yet to fulfil
  nextId,
  server,    \* none, up, deaf (reads nothing more), dead
  output,    \* is its end of its output, or event stream, open?
  sent, stream, \* ids the server has; ids it has answered, not yet read
  pc, id,    \* the threads, and the id of each one's request
  token,     \* callers whose CancelToken has fired
  killed,    \* has SIGPIPE ended the process?
  late       \* history: ids registered when nobody was left to tell them

None == "none"
promises  == <<result, hand>>
transport == <<healthy, stopping, stdin, reader, wlock, pending, promises, nextId>>
child     == <<server, output>>
remote    == <<child, sent, stream>>
threads   == <<pc, id, token>>
vars      == <<kind, transport, remote, threads, killed, late>>

Ids     == 1..MaxRequests
Callers == Tools \union Commands
Threads == Callers \union {Main}
Hands   == {"reader", "stop"}

Init ==
  /\ kind \in Kinds
  /\ healthy = FALSE /\ stopping = FALSE /\ stdin = FALSE /\ reader = "none"
  /\ wlock = None /\ pending = {} /\ result = [i \in Ids |-> None] /\ nextId = 1
  /\ hand = [h \in Hands |-> {}] /\ server = "none" /\ output = FALSE /\ sent = {} /\ stream = {}
  /\ pc = [t \in Threads |-> IF t = Main THEN "start" ELSE "idle"]
  /\ id = [t \in Threads |-> 0] /\ token = {} /\ killed = FALSE /\ late = {}

InRequest(c) == pc[c] \in {"lock", "write", "erase", "wait", "grace"}

Goto(t, p) == pc' = [pc EXCEPT ![t] = p]

\* An SSE entry has a mutex of its own; the first result stays.
Tell(h, r) ==
  \E i \in hand[h] : /\ hand' = [hand EXCEPT ![h] = @ \ {i}]
                    /\ result' = [result EXCEPT ![i] = IF @ = None THEN r ELSE @]

\* cancel_all_pending() tells whoever waits and empties the map in one critical
\* section; cancel_pending() empties it and then tells entry by entry.
CancelAll(h) ==
  /\ pending' = {}
  /\ \/ /\ kind = "stdio" /\ UNCHANGED hand
        /\ result' = [i \in Ids |-> IF i \in pending /\ result[i] = None THEN "error"
                                                                        ELSE result[i]]
     \/ kind = "sse" /\ hand' = [hand EXCEPT ![h] = @ \union pending] /\ UNCHANGED result

-----------------------------------------------------------------------------
\* start(): the child is spawned, or the stream delivers its endpoint; or neither.
Start ==
  /\ pc[Main] = "start" /\ Goto(Main, "ui")
  /\ \/ /\ healthy' = TRUE /\ stdin' = TRUE /\ reader' = "reading" /\ server' = "up"
        /\ output' = TRUE
     \/ UNCHANGED <<healthy, stdin, reader, child>>
  /\ UNCHANGED <<kind, stopping, wlock, pending, promises, nextId, sent, stream, id, token,
                 killed, late>>

\* request(), past its checks; a command restarts a transport that is down.
Call(c) ==
  /\ pc[c] = "idle" /\ pc[Main] # "start" /\ nextId <= MaxRequests
  /\ \/ healthy /\ ~(kind = "sse" /\ stopping) /\ Goto(c, "register")
     \/ ~healthy /\ c \in Commands /\ Goto(c, "stop")
  /\ UNCHANGED <<kind, transport, remote, id, token, killed, late>>

\* The transport is down, and who cancels the map has done so already.
NobodyTells ==
  IF kind = "sse" THEN ~healthy
  ELSE stopping /\ reader \in {"none", "ended"} /\ \A t \in Threads : pc[t] # "cancel"

\* The promise is in the map before anything is sent.
Register(c) ==
  /\ pc[c] = "register" /\ nextId <= MaxRequests
  /\ Goto(c, IF kind = "stdio" THEN "lock" ELSE "write")
  /\ nextId' = nextId + 1 /\ id' = [id EXCEPT ![c] = nextId]
  /\ pending' = pending \union {nextId}
  /\ late' = (IF NobodyTells THEN late \union {nextId} ELSE late)
  /\ UNCHANGED <<kind, healthy, stopping, stdin, reader, wlock, promises, remote, token, killed>>

\* write_mutex_; a POST takes no lock.
Lock(t) ==
  /\ pc[t] \in {"lock", "farewell"} /\ wlock = None /\ wlock' = t
  /\ Goto(t, IF pc[t] = "lock" THEN "write" ELSE "exit")
  /\ UNCHANGED <<kind, healthy, stopping, stdin, reader, pending, promises, nextId, remote, id,
                 token, killed, late>>

Unlock == wlock' = None

\* Nobody reads what we write any more.
Broken == kind = "stdio" /\ stdin /\ server = "dead"

\* write_framed() blocks while the server reads nothing, and POST while it does
\* not respond. Writing to a dead child fails, or is the end of the process.
Write(c) ==
  /\ pc[c] = "write" /\ server # "deaf"
  /\ \/ Broken /\ killed' = TRUE /\ UNCHANGED <<pc, sent, wlock>>
     \/ /\ kind = "sse" \/ (stdin /\ server = "up")
        /\ sent' = sent \union (IF server = "up" /\ output THEN {id[c]} ELSE {})
        /\ Goto(c, "wait") /\ Unlock /\ UNCHANGED killed
     \/ /\ kind = "sse" \/ ~stdin \/ Broken
        /\ Goto(c, "erase") /\ Unlock /\ UNCHANGED <<sent, killed>>
  /\ UNCHANGED <<kind, healthy, stopping, stdin, reader, pending, promises, nextId, child, stream,
                 id, token, late>>

\* request() is over: McpTool reports, dispatch() restarts after an error that
\* is not a cancellation, the server's own errors included.
Return(c, failed) ==
  /\ Goto(c, IF failed /\ c \in Commands THEN "stop" ELSE "idle") /\ id' = [id EXCEPT ![c] = 0]
  /\ token' = token \ {c}

\* Nothing was sent: the entry goes.
Erase(c) ==
  /\ pc[c] = "erase" /\ pending' = pending \ {id[c]} /\ Return(c, TRUE)
  /\ UNCHANGED <<kind, healthy, stopping, stdin, reader, wlock, promises, nextId, remote, killed,
                 late>>

\* The wait ends with a result; an SSE request erases its entry itself.
Answered(c) ==
  /\ pc[c] \in {"wait", "grace"} /\ result[id[c]] # None
  /\ pending' = (IF kind = "sse" THEN pending \ {id[c]} ELSE pending)
  /\ \/ Return(c, result[id[c]] = "error")
     \/ result[id[c]] = "answer" /\ c \in Commands /\ Return(c, TRUE)
  /\ UNCHANGED <<kind, healthy, stopping, stdin, reader, wlock, promises, nextId, remote, killed,
                 late>>

\* Mutant: a cancelled request leaves its entry behind.
BugGiveUp(c) ==
  /\ pc[c] = "wait" /\ c \in token /\ result[id[c]] = None
  /\ UNCHANGED pending /\ Return(c, FALSE)
  /\ UNCHANGED <<kind, healthy, stopping, stdin, reader, wlock, promises, nextId, remote, killed,
                 late>>

\* The token has fired: the poll gives up, or the callback fulfils the entry.
GiveUp(c) ==
  /\ pc[c] = "wait" /\ c \in token /\ result[id[c]] = None
  /\ \/ /\ kind = "stdio" /\ pending' = pending \ {id[c]} /\ Return(c, FALSE)
        /\ UNCHANGED result
     \/ /\ kind = "sse" /\ result' = [result EXCEPT ![id[c]] = "cancelled"]
        /\ UNCHANGED <<pending, pc, id, token>>
  /\ UNCHANGED <<kind, healthy, stopping, stdin, reader, wlock, hand, nextId, remote, killed,
                 late>>

\* The poll finds the server gone: 100 ms later the request is over either way.
Notice(c) ==
  /\ pc[c] = "wait" /\ kind = "stdio" /\ ~healthy /\ ~stopping /\ Goto(c, "grace")
  /\ UNCHANGED <<kind, transport, remote, id, token, killed, late>>

Fallback(c) ==
  /\ pc[c] = "grace" /\ result[id[c]] = None
  /\ pending' = pending \ {id[c]} /\ Return(c, TRUE)
  /\ UNCHANGED <<kind, healthy, stopping, stdin, reader, wlock, promises, nextId, remote, killed,
                 late>>

-----------------------------------------------------------------------------
\* Mutant: a response is delivered whether or not its request still waits.
BugDeliver ==
  /\ reader = "reading" /\ hand["reader"] = {} /\ ~(kind = "sse" /\ stopping)
  /\ \E i \in stream :
       /\ stream' = stream \ {i} /\ pending' = pending \ {i}
       /\ result' = [result EXCEPT ![i] = "answer"]
  /\ UNCHANGED <<kind, healthy, stopping, stdin, reader, wlock, hand, nextId, child, sent,
                 threads, killed, late>>

\* reader_loop(), handle_event(): a response goes to the request with its id, if
\* it is in the map; over SSE its entry is taken, and fulfilled later.
Deliver ==
  /\ reader = "reading" /\ hand["reader"] = {} /\ ~(kind = "sse" /\ stopping)
  /\ \E i \in stream :
       /\ stream' = stream \ {i}
       /\ \/ i \notin pending /\ UNCHANGED <<pending, promises>>
          \/ /\ i \in pending /\ kind = "stdio" /\ UNCHANGED hand
             /\ result' = [result EXCEPT ![i] = "answer"] /\ pending' = pending \ {i}
          \/ /\ i \in pending /\ kind = "sse" /\ UNCHANGED <<pending, result>>
             /\ hand' = [hand EXCEPT !["reader"] = {i}]
  /\ UNCHANGED <<kind, healthy, stopping, stdin, reader, wlock, nextId, child, sent, threads,
                 killed, late>>

\* What the SSE reader has taken: an answer, or all that it cancels.
Fulfil ==
  /\ Tell("reader", IF reader = "reading" THEN "answer" ELSE "error")
  /\ UNCHANGED <<kind, healthy, stopping, stdin, reader, wlock, pending, nextId, remote, threads,
                 killed, late>>

\* The stream ends; or it brings something after stopped_ was set.
StreamEnds ==
  /\ reader = "reading" /\ hand["reader"] = {}
  /\ \/ ~output /\ (kind = "sse" \/ stream = {})
     \/ kind = "sse" /\ stopping /\ stream # {}
  /\ reader' = "ending" /\ healthy' = FALSE /\ stream' = {}
  /\ UNCHANGED <<kind, stopping, stdin, wlock, pending, promises, nextId, child, sent, threads,
                 killed, late>>

\* Mutant: the reader leaves cancelling to stop().
BugReaderEnds ==
  /\ reader = "ending" /\ reader' = "ended"
  /\ IF stopping THEN UNCHANGED <<pending, promises>> ELSE CancelAll("reader")
  /\ UNCHANGED <<kind, healthy, stopping, stdin, wlock, nextId, remote, threads, killed, late>>

\* Those who wait are told, by an SSE reader only when nobody called stop().
ReaderEnds ==
  /\ reader = "ending" /\ reader' = "ended"
  /\ IF kind = "sse" /\ stopping THEN UNCHANGED <<pending, promises>> ELSE CancelAll("reader")
  /\ UNCHANGED <<kind, healthy, stopping, stdin, wlock, nextId, remote, threads, killed, late>>

-----------------------------------------------------------------------------
\* stop_all(), once the user leaves; tools may still be running.
Quit == /\ pc[Main] = "ui" /\ Goto(Main, "stop")
        /\ UNCHANGED <<kind, transport, remote, id, token, killed, late>>

\* stop(): the first one does it. A second one returns at once; what a command
\* restarts is refused by start().
Stop(t) ==
  /\ pc[t] = "stop" /\ stopping' = TRUE
  /\ Goto(t, CASE ~stopping -> "cancel" [] t = Main -> "stopped" [] OTHER -> "idle")
  /\ UNCHANGED <<kind, healthy, stdin, reader, wlock, pending, promises, nextId, remote, id, token,
                 killed, late>>

CancelPending(t) ==
  /\ pc[t] = "cancel" /\ healthy' = FALSE /\ CancelAll("stop")
  /\ Goto(t, IF kind = "stdio" /\ stdin THEN "farewell" ELSE "join")
  /\ UNCHANGED <<kind, stopping, stdin, reader, wlock, nextId, remote, id, token, killed, late>>

\* notifications/exit; the write blocks, or kills, as in a request, and its
\* failure is ignored.
Exit(t) ==
  /\ pc[t] = "exit" /\ server # "deaf"
  /\ \/ Broken /\ killed' = TRUE /\ UNCHANGED <<pc, wlock>>
     \/ Unlock /\ Goto(t, "close") /\ UNCHANGED killed
  /\ UNCHANGED <<kind, healthy, stopping, stdin, reader, pending, promises, nextId, remote,
                 id, token, late>>

\* Our end of the input is closed; the child exits, or is terminated, and reaped.
Close(t) ==
  /\ pc[t] = "close" /\ stdin' = FALSE /\ Goto(t, "reap")
  /\ UNCHANGED <<kind, healthy, stopping, reader, wlock, pending, promises, nextId, remote, id,
                 token, killed, late>>

\* Mutant: a child that ignores the end of its input is left alone.
BugReap(t) ==
  /\ pc[t] = "reap" /\ Goto(t, "join")
  /\ UNCHANGED <<kind, transport, child, sent, stream, id, token, killed, late>>

Reap(t) ==
  /\ pc[t] = "reap" /\ server' = "dead" /\ output' = FALSE /\ sent' = {} /\ Goto(t, "join")
  /\ UNCHANGED <<kind, transport, stream, id, token, killed, late>>

\* cancel_pending(), entry by entry.
TellAll(t) ==
  /\ pc[t] = "join" /\ Tell("stop", "error")
  /\ UNCHANGED <<kind, healthy, stopping, stdin, reader, wlock, pending, nextId, remote, threads,
                 killed, late>>

Join(t) ==
  /\ pc[t] = "join" /\ hand["stop"] = {}
  /\ reader \in {"none", "ended"} /\ hand["reader"] = {} /\ reader' = "none"
  /\ Goto(t, IF t = Main THEN "stopped" ELSE "idle")
  /\ UNCHANGED <<kind, healthy, stopping, stdin, wlock, pending, promises, nextId, remote, id,
                 token, killed, late>>

-----------------------------------------------------------------------------
\* The server answers in any order, as long as somebody reads it; it stops
\* reading, reads on, closes its output, or dies.
Answer ==
  /\ server = "up" /\ output /\ reader = "reading"
  /\ \E i \in sent : sent' = sent \ {i} /\ stream' = stream \union {i}
  /\ UNCHANGED <<kind, transport, child, threads, killed, late>>

Server ==
  /\ \/ server = "up" /\ server' = "deaf" /\ UNCHANGED <<output, sent>>
     \/ server = "deaf" /\ server' = "up" /\ UNCHANGED <<output, sent>>
     \/ server \in {"up", "deaf"} /\ server' = "dead" /\ output' = FALSE /\ sent' = {}
     \/ server = "up" /\ output /\ output' = FALSE /\ sent' = {} /\ UNCHANGED server
  /\ UNCHANGED <<kind, transport, stream, threads, killed, late>>

Cancel(c) == /\ InRequest(c) /\ token' = token \union {c}
             /\ UNCHANGED <<kind, transport, remote, pc, id, killed, late>>

Step(t) == \/ t \in Callers /\ (\/ Register(t) \/ Write(t) \/ Erase(t) \/ Answered(t) \/ GiveUp(t)
                                \/ Notice(t) \/ Fallback(t))
           \/ Lock(t) \/ Stop(t) \/ CancelPending(t) \/ Exit(t) \/ Close(t) \/ Reap(t) \/ TellAll(t)
           \/ Join(t)
Reader  == Deliver \/ Fulfil \/ StreamEnds \/ ReaderEnds

Next == /\ ~killed
        /\ \/ Start \/ Quit \/ Reader \/ Answer \/ Server
           \/ \E c \in Callers : Call(c) \/ Cancel(c)
           \/ \E t \in Threads : Step(t)

Spec == Init /\ [][Next]_vars

\* Every thread goes on when it can; nothing is assumed of the server.
FairSpec == /\ Spec /\ WF_vars(~killed /\ Reader)
            /\ \A t \in Threads : WF_vars(~killed /\ Step(t))

-----------------------------------------------------------------------------
Places == {"start", "ui", "stopped", "idle", "register", "lock", "write", "erase", "wait", "grace",
           "stop", "cancel", "farewell", "exit", "close", "reap", "join"}

Results == {None, "answer", "error", "cancelled"}

\* Type invariant.
TypeOK ==
  /\ kind \in Kinds /\ healthy \in BOOLEAN /\ stopping \in BOOLEAN /\ stdin \in BOOLEAN
  /\ output \in BOOLEAN /\ killed \in BOOLEAN /\ wlock \in Threads \union {None}
  /\ reader \in {"none", "reading", "ending", "ended"} /\ server \in {"none", "up", "deaf", "dead"}
  /\ pending \subseteq Ids /\ sent \union stream \subseteq Ids /\ token \subseteq Callers
  /\ result \in [Ids -> Results] /\ hand \in [Hands -> SUBSET Ids] /\ nextId \in 1..MaxRequests + 1
  /\ pc \in [Threads -> Places] /\ id \in [Threads -> Ids \union {0}] /\ late \subseteq Ids

\* The map holds the requests that wait, and nothing else: no promise outlives
\* its request, and a request that has no result is in the map or in the hands of
\* who is fulfilling its entry. A promise in the map of a stdio transport is
\* not fulfilled yet: the reader would throw and end the program.
\* (pending_map_, cancel_all_pending(), cancel_pending())
PendingIsWaiting ==
  LET open == {id[c] : c \in {d \in Callers : InRequest(d)}}
  IN  /\ pending \subseteq open
      /\ \A i \in open : result[i] = None => i \in pending \union hand["reader"] \union hand["stop"]
      /\ kind = "stdio" => \A i \in pending : result[i] = None

\* A future is fulfilled once, and over stdio never after its request returned;
\* over SSE the reader and stop() may fulfil an entry they have taken out of a
\* map that its request has left meanwhile.
ResolvedOnce ==
  [][\A i \in Ids : result'[i] # result[i] =>
       /\ result[i] = None
       /\ kind = "stdio" => \E c \in Callers : InRequest(c) /\ id[c] = i]_vars

\* In a process that survives its writes, a request returns when its token
\* fires, its server has closed its output or is dead, or the transport is
\* stopped, if the server does not leave it writing for ever. Nobody is left to
\* tell a request that is registered when the event stream is down, or after
\* stop() cancelled behind a reader that had ended by itself (late).
RequestReturns ==
  <>[](server # "deaf") /\ []~killed =>
    \A c \in Callers :
      InRequest(c) /\ (c \in token \/ ~output \/ stopping) ~>
        ~InRequest(c) \/ (id[c] \in late /\ c \notin token)

\* In a process that survives its writes, stop() ends, unless the server does not
\* read, or its event stream stays open.
StopEnds ==
  <>[](IF kind = "sse" THEN ~output ELSE server # "deaf") /\ []~killed =>
    \A t \in Commands \union {Main} : pc[t] = "stop" ~> pc[t] \in {"idle", "stopped"}
===============================================================================
