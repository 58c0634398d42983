------------------------------- MODULE McpSse -------------------------------
(***************************************************************************)
(* One MCP client over the HTTP+SSE transport (mcp/transport/sse.go).  A   *)
(* request is POSTed to the endpoint that the server announces first on    *)
(* the GET stream, and its answer comes back as an event on that stream,   *)
(* which the reader goroutine reopens whenever it breaks.  Callers hold    *)
(* Client.mu from Send to Recv (mcp/client.go, Call).  The server and the  *)
(* network are external: a broken stream loses the events on it and the    *)
(* server forgets the session behind it.                                   *)
(***************************************************************************)
EXTENDS Naturals, Sequences

CONSTANTS Callers,     \* goroutines that call the server
          None,        \* nobody, nothing
          MaxCalls,    \* bound: requests of the client
          MaxStreams,  \* bound: streams the reader opens
          MaxPushes,   \* bound: requests of the server
          InboundCap   \* sseInboundBuffer, 32 in the code

SseAssumption ==
  /\ None \notin Callers
  /\ MaxCalls \in Nat /\ MaxStreams \in Nat \ {0} /\ MaxPushes \in Nat /\ InboundCap \in Nat \ {0}

VARIABLES
  pc,        \* where each caller is
  id,        \* the request id of each caller
  got,       \* the caller's response channel
  mu,        \* who holds Client.mu
  nextID, pending, lastFrame, alive,
  endpoint,  \* the stream whose endpoint requests are posted to; 0 before the first
  stream,    \* number of the streams opened so far
  open,      \* the last one is still open
  events,    \* what the server wrote to it and the reader has not read
  asked,     \* requests the server has to answer on it
  pushes,
  theirs,    \* history: ids the server has given to requests of its own
  inbound,   \* frames nobody waits for
  loop,      \* the inbound loop: "idle" or "roots"
  late       \* history: callers whose answer can no longer come

client == <<pc, id, got, mu, nextID, pending, lastFrame, alive>>
server == <<stream, open, events, asked, pushes, theirs>>
vars == <<client, endpoint, server, inbound, loop, late>>

Failure == [kind |-> "error", id |-> 0]

Init ==
  /\ pc = [c \in Callers |-> "idle"] /\ id = [c \in Callers |-> 0]
  /\ got = [c \in Callers |-> None] /\ mu = None
  /\ nextID = 0 /\ pending = {} /\ lastFrame = None /\ alive = TRUE
  /\ endpoint = 0 /\ stream = 0 /\ open = FALSE /\ events = <<>> /\ asked = {} /\ pushes = 0
  /\ theirs = {}
  /\ inbound = <<>> /\ loop = "idle" /\ late = {}

-----------------------------------------------------------------------------
(* Client.Call over Send and Recv.                                         *)

Move(c, place) == pc' = [pc EXCEPT ![c] = place]

\* The call is over: the mutex is free and nobody reads its channel any more.
Returned(c) ==
  /\ Move(c, "idle") /\ got' = [got EXCEPT ![c] = None] /\ mu' = None
  /\ late' = late \ {c}

Call(c) ==
  /\ pc[c] = "idle" /\ nextID < MaxCalls
  /\ Move(c, "lock")
  /\ UNCHANGED <<id, got, mu, nextID, pending, lastFrame, alive, endpoint, server,
                 inbound, loop, late>>

\* The mutex, then the alive checks of Call and of Send.
Acquire(c) ==
  /\ pc[c] = "lock" /\ mu = None
  /\ IF alive /\ nextID < MaxCalls
       THEN /\ mu' = c /\ nextID' = nextID + 1 /\ id' = [id EXCEPT ![c] = nextID + 1]
            /\ Move(c, "register") /\ UNCHANGED <<got, late>>
       ELSE Returned(c) /\ UNCHANGED <<id, nextID>>
  /\ UNCHANGED <<pending, lastFrame, alive, endpoint, server, inbound, loop>>

\* The id is pending before the request is posted.
Register(c) ==
  /\ pc[c] = "register"
  /\ pending' = pending \cup {id[c]} /\ Move(c, "post")
  /\ UNCHANGED <<id, got, mu, nextID, lastFrame, alive, endpoint, server, inbound,
                 loop, late>>

\* post: it waits for the first endpoint, then asks the server of that endpoint,
\* which knows the session while its stream is open; afterwards it refuses the
\* request, or takes it for nobody.
Post(c) ==
  /\ pc[c] = "post" /\ endpoint # 0
  /\ \/ /\ open /\ endpoint = stream
        /\ asked' = asked \cup {id[c]} /\ Move(c, "await")
        /\ UNCHANGED <<got, mu, pending, late>>
     \/ /\ ~open \/ endpoint # stream
        /\ Move(c, "await") /\ late' = late \cup {c}
        /\ UNCHANGED <<got, mu, pending, asked>>
     \/ /\ ~open \/ endpoint # stream
        /\ Returned(c) /\ pending' = pending \ {id[c]} /\ UNCHANGED asked
  /\ UNCHANGED <<id, nextID, lastFrame, alive, endpoint, stream, open, events,
                 pushes, theirs, inbound, loop>>

\* The acknowledgement is lost: the server answers a request nobody waits for.
PostUnacknowledged(c) ==
  /\ pc[c] = "post" /\ endpoint # 0 /\ open /\ endpoint = stream
  /\ asked' = asked \cup {id[c]}
  /\ Returned(c) /\ pending' = pending \ {id[c]}
  /\ UNCHANGED <<id, nextID, lastFrame, alive, endpoint, stream, open, events,
                 pushes, theirs, inbound, loop>>

Receive(c) ==
  /\ pc[c] = "await" /\ got[c] # None
  /\ IF got[c].kind = "error"
       THEN Returned(c) /\ UNCHANGED lastFrame
       ELSE lastFrame' = got[c] /\ Move(c, "recv") /\ UNCHANGED <<got, mu, late>>
  /\ UNCHANGED <<id, nextID, pending, alive, endpoint, server, inbound, loop>>

\* The caller's context ends while it waits for the endpoint or for the answer.
Cancel(c) ==
  /\ pc[c] = "await" \/ (pc[c] = "post" /\ endpoint = 0)
  /\ pending' = pending \ {id[c]} /\ Returned(c)
  /\ UNCHANGED <<id, nextID, lastFrame, alive, endpoint, server, inbound, loop>>

\* Recv leaves the frame where it is.
Recv(c) ==
  /\ pc[c] = "recv" /\ Returned(c)
  /\ UNCHANGED <<id, nextID, pending, lastFrame, alive, endpoint, server, inbound,
                 loop>>

-----------------------------------------------------------------------------
(* streamLoop and the events it hands on.                                  *)

\* A new stream opens; its first event is the endpoint of its session.
Opens ==
  /\ alive /\ ~open /\ stream < MaxStreams
  /\ stream' = stream + 1 /\ open' = TRUE
  /\ events' = <<[kind |-> "endpoint", id |-> stream + 1]>>
  /\ UNCHANGED <<client, endpoint, asked, pushes, theirs, inbound, loop, late>>

Waiting == {c \in Callers : pc[c] = "await" /\ got[c] = None}

\* The stream breaks (external): nobody tells the callers that wait on it.
Breaks ==
  /\ open
  /\ open' = FALSE /\ events' = <<>> /\ asked' = {}
  /\ late' = late \cup Waiting
  /\ UNCHANGED <<client, endpoint, stream, pushes, theirs, inbound, loop>>

SetEndpoint ==
  /\ events # <<>> /\ Head(events).kind = "endpoint"
  /\ endpoint' = Head(events).id /\ events' = Tail(events)
  /\ UNCHANGED <<client, stream, open, asked, pushes, theirs, inbound, loop, late>>

Owners(ids) == {c \in Callers : pc[c] \in {"post", "await"} /\ id[c] \in ids}

\* Fault: the frame goes to the caller that waits, whatever its id.
HandleMessageInOrder ==
  /\ events # <<>> /\ Head(events).kind # "endpoint"
  /\ events' = Tail(events)
  /\ got' = [c \in Callers |-> IF c \in Owners(pending) THEN Head(events) ELSE got[c]]
  /\ pending' = {}
  /\ UNCHANGED <<pc, id, mu, nextID, lastFrame, alive, endpoint, stream, open, asked, pushes, theirs,
                 inbound, loop, late>>

\* A frame whose id is pending goes to the caller that waits for it, the server's
\* own request with that id included; any other goes to the inbound channel.
HandleMessage ==
  /\ events # <<>> /\ Head(events).kind # "endpoint"
  /\ events' = Tail(events)
  /\ LET f == Head(events) IN
       IF f.id \in pending
         THEN /\ pending' = pending \ {f.id}
              /\ got' = [c \in Callers |-> IF c \in Owners({f.id}) THEN f ELSE got[c]]
              /\ UNCHANGED inbound
         ELSE /\ inbound' = IF Len(inbound) < InboundCap THEN Append(inbound, f) ELSE inbound
              /\ UNCHANGED <<pending, got>>
  /\ UNCHANGED <<pc, id, mu, nextID, lastFrame, alive, endpoint, stream, open, asked,
                 pushes, theirs, loop, late>>

-----------------------------------------------------------------------------
(* The server (external), and the client's answers to its requests.        *)

Answers ==
  /\ open
  /\ \E i \in asked :
       asked' = asked \ {i} /\ events' = Append(events, [kind |-> "answer", id |-> i])
  /\ UNCHANGED <<client, endpoint, stream, open, pushes, theirs, inbound, loop, late>>

\* The server numbers its own requests as it likes: from 0 or 1, like the client, or
\* with names, which count as 0.
Pushes ==
  /\ open /\ pushes < MaxPushes
  /\ pushes' = pushes + 1
  /\ \E kind \in {"ping", "roots"}, i \in 0 .. MaxCalls :
       events' = Append(events, [kind |-> kind, id |-> i]) /\ theirs' = theirs \cup {i}
  /\ UNCHANGED <<client, endpoint, stream, open, asked, inbound, loop, late>>

\* inboundLoop: a reply is posted; the list of roots is read under the mutex.
LoopTakes ==
  /\ loop = "idle" /\ inbound # <<>>
  /\ inbound' = Tail(inbound)
  /\ loop' = IF Head(inbound).kind = "roots" THEN "roots" ELSE "idle"
  /\ UNCHANGED <<client, endpoint, server, late>>

LoopRoots ==
  /\ loop = "roots" /\ mu = None
  /\ loop' = "idle"
  /\ UNCHANGED <<client, endpoint, server, inbound, late>>

\* Close: the stream ends, and every caller in the map finds an error.
Close ==
  /\ alive /\ alive' = FALSE
  /\ got' = [c \in Callers |-> IF c \in Owners(pending) THEN Failure ELSE got[c]]
  /\ pending' = {}
  /\ open' = FALSE /\ events' = <<>> /\ asked' = {}
  /\ UNCHANGED <<pc, id, mu, nextID, lastFrame, endpoint, stream, pushes, theirs,
                 inbound, loop, late>>

-----------------------------------------------------------------------------
CallerStep(c) == Acquire(c) \/ Register(c) \/ Post(c) \/ Receive(c) \/ Recv(c)
ReaderStep == Opens \/ SetEndpoint \/ HandleMessage
LoopStep == LoopTakes \/ LoopRoots

Next ==
  \/ \E c \in Callers : Call(c) \/ CallerStep(c) \/ PostUnacknowledged(c) \/ Cancel(c)
  \/ ReaderStep \/ Breaks \/ Answers \/ Pushes \/ LoopStep \/ Close

Spec == Init /\ [][Next]_vars

\* The goroutines run, and a server that is asked answers on an open stream.
FairSpec ==
  /\ Spec
  /\ \A c \in Callers : SF_vars(Acquire(c)) /\ WF_vars(CallerStep(c))
  /\ WF_vars(ReaderStep) /\ WF_vars(Answers) /\ WF_vars(LoopStep)

-----------------------------------------------------------------------------
Frames == [kind : {"answer", "ping", "roots", "error"}, id : 0 .. MaxCalls]

TypeOK ==
  /\ \A c \in Callers :
       /\ pc[c] \in {"idle", "lock", "register", "post", "await", "recv"}
       /\ got[c] \in Frames \cup {None}
       /\ (pc[c] \in {"register", "post", "await", "recv"}) <=> (mu = c)
  /\ pending \subseteq 1 .. nextID /\ late \subseteq Callers
  /\ endpoint \in 0 .. stream /\ stream \in 0 .. MaxStreams
  /\ lastFrame \in Frames \cup {None} /\ Len(inbound) <= InboundCap

\* The frame a call is about to return carries the id of its own request and, if the
\* server has not given that id to a request of its own too, is the answer to it: not
\* the late answer to a cancelled call, nor what an earlier stream still had to say.
OwnAnswer ==
  \A c \in Callers : pc[c] = "recv" =>
    /\ lastFrame.id = id[c] /\ lastFrame.kind # "error"
    /\ id[c] \notin theirs => lastFrame.kind = "answer"

\* A caller that only its own context can free: its answer was lost with a broken
\* stream or taken by a server that has no stream for it, or no endpoint ever came.
Unanswerable(c) == c \in late \/ (pc[c] = "post" /\ endpoint = 0)

\* sse.go, Close: "shuts down the GET stream and wakes every pending request".
CloseWakes == \A c \in Callers : ~alive ~> pc[c] = "idle"
=============================================================================
