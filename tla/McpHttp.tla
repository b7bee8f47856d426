------------------------------- MODULE McpHttp -------------------------------
(***************************************************************************)
(* The HTTP frontend of the MCP boundary (src/src/mcp/http.rs).             *)
(*                                                                         *)
(* Three parties share the state.  The acceptor reserves a connection slot *)
(* before it calls accept.  The request handlers, futures of the I/O       *)
(* thread, admit at most MaxRequests requests and hand them to a bounded   *)
(* channel.  One worker thread takes the channel's work in order, owns the *)
(* sessions and sends each response back through a one-shot channel.       *)
(*                                                                         *)
(* A request permit is never stored twice: it is held by the handler while *)
(* the body is read, by the Work in the channel, by the worker, and by the *)
(* response body until its last byte is written or its connection drops.   *)
(***************************************************************************)
EXTENDS Naturals, Sequences, FiniteSets

CONSTANTS
    Clients,         \* peers, each with at most one TCP stream at a time
    Requests,        \* identities of the HTTP requests
    Sessions,        \* identities a session can be given
    NoRequest,
    NoSession,
    Traffic,         \* the commands the clients send, a subset of Command
    MaxConnections,  \* Config.max_connections
    MaxRequests,     \* Config.max_requests
    MaxSessions,     \* Config.max_sessions
    IdleTimeout,     \* Config.session_idle_timeout, in ticks
    MaxTime          \* bound: the clock stops here

Methods == {"POST", "GET", "DELETE"}
Bodies == {"initialize", "initialized", "call", "oversized", "other"}
Command == [method : Methods, session : Sessions \cup {NoSession}, body : Bodies]

ASSUME McpHttpAssumption ==
    /\ Traffic \subseteq Command
    /\ \A m \in Traffic : m.method = "POST" \/ m.body = "other"
    /\ MaxConnections \in Nat \ {0}
    /\ MaxRequests \in Nat \ {0}
    /\ MaxSessions \in Nat \ {0}
    /\ IdleTimeout \in Nat \ {0}
    /\ MaxTime \in Nat
    /\ IsFiniteSet(Clients) /\ IsFiniteSet(Requests) /\ IsFiniteSet(Sessions)
    /\ NoRequest \notin Requests
    /\ NoSession \notin Sessions

VARIABLES
    phase,      \* "serving", "draining" after the shutdown signal, "stopped"
    listener,   \* "idle", "reserved": a slot is held across accept, "closed"
    connFree,   \* permits left in the connection semaphore
    stream,     \* [Clients -> "away" | "backlog" | "open"]
    on,         \* [Clients -> the request its stream is serving]
    free,       \* permits left in the admission semaphore
    stage,      \* [Requests -> where the request is]
    cmd,        \* [Requests -> the command and session header it carries]
    answer,     \* [Requests -> the outcome reported to the client]
    queue,      \* the channel of Work
    current,    \* the Work the worker is dispatching
    rpc,        \* [Sessions -> "absent" | "awaiting" | "ready"]
    touched,    \* [Sessions -> the time of the last dispatch]
    now,
    ran         \* history: [Requests -> native tool invocations]

streamVars == <<listener, connFree, stream>>
requestVars == <<on, free, stage, cmd, answer, queue>>
workerVars == <<current, rpc, touched, ran>>
vars == <<phase, listener, connFree, stream, on, free, stage, cmd, answer,
          queue, current, rpc, touched, now, ran>>

Stages == {"new", "body", "queued", "running", "writing", "refused", "over"}
Answers == {"none", "rejected", "busy", "unread", "unavailable", "unknown",
            "limit", "bad", "answered"}

(* Stages in which a request owns one admission permit. *)
Holding == {"body", "queued", "running", "writing"}
Holders == {r \in Requests : stage[r] \in Holding}
OpenStreams == {c \in Clients : stream[c] = "open"}
Live == {s \in Sessions : rpc[s] # "absent"}

(* The client's stream still waits for this request's response. *)
Attached(r) == \E c \in Clients : on[c] = r

Init ==
    /\ phase = "serving"
    /\ listener = "idle"
    /\ connFree = MaxConnections
    /\ stream = [c \in Clients |-> "away"]
    /\ on = [c \in Clients |-> NoRequest]
    /\ free = MaxRequests
    /\ stage = [r \in Requests |-> "new"]
    /\ cmd = [r \in Requests |->
                [method |-> "POST", session |-> NoSession, body |-> "other"]]
    /\ answer = [r \in Requests |-> "none"]
    /\ queue = <<>>
    /\ current = NoRequest
    /\ rpc = [s \in Sessions |-> "absent"]
    /\ touched = [s \in Sessions |-> 0]
    /\ now = 0
    /\ ran = [r \in Requests |-> 0]

-----------------------------------------------------------------------------
(* Connections. *)

(* ConnectionListener::accept waits for a permit before the inner accept. *)
Reserve ==
    /\ listener = "idle"
    /\ connFree > 0
    /\ connFree' = connFree - 1
    /\ listener' = "reserved"
    /\ UNCHANGED <<phase, stream, requestVars, workerVars, now>>

(* A peer's SYN lands in the kernel's backlog. *)
Connect(c) ==
    /\ phase = "serving"
    /\ stream[c] = "away"
    /\ stream' = [stream EXCEPT ![c] = "backlog"]
    /\ UNCHANGED <<phase, listener, connFree, requestVars, workerVars, now>>

(* The inner accept returns: the reserved permit moves into the stream. *)
Accept(c) ==
    /\ listener = "reserved"
    /\ stream[c] = "backlog"
    /\ stream' = [stream EXCEPT ![c] = "open"]
    /\ listener' = "idle"
    /\ UNCHANGED <<phase, connFree, requestVars, workerVars, now>>

(* AdmittedIo drops: the stream closes and its permit comes back. *)
CloseStream(c) ==
    /\ stream' = [stream EXCEPT ![c] = "away"]
    /\ connFree' = connFree + 1
    /\ on' = [on EXCEPT ![c] = NoRequest]

(* Mutant: a disconnect also takes back the permit of work already sent. *)
DropHandlerAndWork(r) ==
    /\ stage' = IF r # NoRequest /\ stage[r] \in {"body", "writing", "refused"}
                THEN [stage EXCEPT ![r] = "over"] ELSE stage
    /\ free' = IF r # NoRequest /\ stage[r] \in Holding THEN free + 1 ELSE free

(* A handler dropped with its connection gives back the permit it holds.   *)
(* A request already in the channel keeps its permit: a closed reply       *)
(* receiver is not a cancellation.                                         *)
DropHandler(r) ==
    /\ stage' = IF r # NoRequest /\ stage[r] \in {"body", "writing", "refused"}
                THEN [stage EXCEPT ![r] = "over"] ELSE stage
    /\ free' = IF r # NoRequest /\ stage[r] \in {"body", "writing"}
               THEN free + 1 ELSE free

(* The peer goes away, whatever its stream is doing. *)
HangUp(c) ==
    /\ stream[c] = "open"
    /\ CloseStream(c)
    /\ DropHandler(on[c])
    /\ UNCHANGED <<phase, listener, cmd, answer, queue, workerVars, now>>

GiveUp(c) ==
    /\ stream[c] = "backlog"
    /\ stream' = [stream EXCEPT ![c] = "away"]
    /\ UNCHANGED <<phase, listener, connFree, requestVars, workerVars, now>>

-----------------------------------------------------------------------------
(* Request handlers. *)

Refuse(r, why) ==
    /\ stage' = [stage EXCEPT ![r] = "refused"]
    /\ answer' = [answer EXCEPT ![r] = why]

(* Mutant: the channel has one slot less than there are permits. *)
SendToSmallChannel(r) ==
    IF Len(queue) < MaxRequests - 1
    THEN /\ queue' = Append(queue, r)
         /\ stage' = [stage EXCEPT ![r] = "queued"]
         /\ UNCHANGED <<answer>>
    ELSE /\ Refuse(r, "unavailable")
         /\ UNCHANGED <<queue>>

(* try_send into a channel with room for MaxRequests pieces of work. *)
Send(r) ==
    IF Len(queue) < MaxRequests
    THEN /\ queue' = Append(queue, r)
         /\ stage' = [stage EXCEPT ![r] = "queued"]
         /\ UNCHANGED <<answer>>
    ELSE /\ Refuse(r, "unavailable")
         /\ UNCHANGED <<queue>>

(* A request head reaches an open stream that serves no other request. *)
Arrives(c, r, m) ==
    /\ stream[c] = "open"
    /\ on[c] = NoRequest
    /\ stage[r] = "new"
    /\ on' = [on EXCEPT ![c] = r]
    /\ cmd' = [cmd EXCEPT ![r] = m]

(* Origin, token, version, session header, method, content type, accept. *)
ArriveRejected(c, r) ==
    /\ Arrives(c, r, cmd[r])
    /\ Refuse(r, "rejected")
    /\ UNCHANGED <<phase, streamVars, free, queue, workerVars, now>>

(* try_acquire_owned fails: the request is turned away, never parked. *)
ArriveBusy(c, r, m) ==
    /\ Arrives(c, r, m)
    /\ free = 0
    /\ Refuse(r, "busy")
    /\ UNCHANGED <<phase, streamVars, free, queue, workerVars, now>>

ArrivePost(c, r, m) ==
    /\ m.method = "POST"
    /\ Arrives(c, r, m)
    /\ free > 0
    /\ free' = free - 1
    /\ stage' = [stage EXCEPT ![r] = "body"]
    /\ UNCHANGED <<phase, streamVars, answer, queue, workerVars, now>>

(* GET and DELETE carry no body: admission and send are one step. *)
ArriveBare(c, r, m) ==
    /\ m.method # "POST"
    /\ Arrives(c, r, m)
    /\ free > 0
    /\ Send(r)
    /\ free' = IF Len(queue) < MaxRequests THEN free - 1 ELSE free
    /\ UNCHANGED <<phase, streamVars, workerVars, now>>

BodyArrives(r) ==
    /\ stage[r] = "body"
    /\ Send(r)
    /\ free' = IF Len(queue) < MaxRequests THEN free ELSE free + 1
    /\ UNCHANGED <<phase, streamVars, on, cmd, workerVars, now>>

(* Mutant: reading a body has no timeout. *)
BodyWaits(r) ==
    /\ stage[r] = "body"
    /\ UNCHANGED vars

(* The body is rejected, or body_timeout passes first. *)
BodyFails(r) ==
    /\ stage[r] = "body"
    /\ Refuse(r, "unread")
    /\ free' = free + 1
    /\ UNCHANGED <<phase, streamVars, on, cmd, queue, workerVars, now>>

(* The last byte of a response leaves; AdmittedBody drops its permit. *)
Written(c) ==
    LET r == on[c] IN
    /\ r # NoRequest
    /\ stage[r] \in {"writing", "refused"}
    /\ stage' = [stage EXCEPT ![r] = "over"]
    /\ free' = IF stage[r] = "writing" THEN free + 1 ELSE free
    /\ on' = [on EXCEPT ![c] = NoRequest]
    /\ UNCHANGED <<phase, streamVars, cmd, answer, queue, workerVars, now>>

-----------------------------------------------------------------------------
(* The worker thread. *)

(* Mutant: a session expires one tick early. *)
ExpiredEarly(s) == now - touched[s] >= IdleTimeout - 1

Expired(s) == now - touched[s] >= IdleTimeout

SessionsFull == Cardinality(Live) >= MaxSessions

(* Mutant: work whose client has gone is skipped. *)
TakeAttached ==
    /\ current = NoRequest
    /\ queue # <<>>
    /\ queue' = Tail(queue)
    /\ current' = IF Attached(Head(queue)) THEN Head(queue) ELSE NoRequest
    /\ stage' = [stage EXCEPT ![Head(queue)] =
                    IF Attached(Head(queue)) THEN "running" ELSE "over"]
    /\ free' = IF Attached(Head(queue)) THEN free ELSE free + 1
    /\ UNCHANGED <<phase, streamVars, on, cmd, answer, rpc, touched, now, ran>>

(* blocking_recv, then the retain at the head of Worker::dispatch. *)
Take ==
    /\ current = NoRequest
    /\ queue # <<>>
    /\ current' = Head(queue)
    /\ queue' = Tail(queue)
    /\ stage' = [stage EXCEPT ![Head(queue)] = "running"]
    /\ rpc' = [s \in Sessions |-> IF Expired(s) THEN "absent" ELSE rpc[s]]
    /\ UNCHANGED <<phase, streamVars, on, free, cmd, answer, touched, now, ran>>

(* Mutant: work whose client has gone is put back for a retry. *)
ReplyOrRetry(r, why) ==
    /\ current' = NoRequest
    /\ answer' = [answer EXCEPT ![r] = why]
    /\ stage' = [stage EXCEPT ![r] = IF Attached(r) THEN "writing" ELSE "queued"]
    /\ queue' = IF Attached(r) THEN queue ELSE Append(queue, r)
    /\ UNCHANGED <<phase, streamVars, on, free, cmd, now>>

(* The response and its permit go to the handler; with the receiver gone   *)
(* both are dropped here.                                                  *)
Reply(r, why) ==
    /\ current' = NoRequest
    /\ answer' = [answer EXCEPT ![r] = why]
    /\ stage' = [stage EXCEPT ![r] = IF Attached(r) THEN "writing" ELSE "over"]
    /\ free' = IF Attached(r) THEN free ELSE free + 1
    /\ UNCHANGED <<phase, streamVars, on, cmd, queue, now>>

(* A named session that is unknown or expired, or a method the endpoint    *)
(* does not serve.                                                         *)
DispatchUnserved ==
    LET r == current
        s == cmd[r].session
    IN /\ r # NoRequest
       /\ \/ s # NoSession /\ rpc[s] = "absent" /\ Reply(r, "unknown")
          \/ s # NoSession /\ rpc[s] # "absent" /\ cmd[r].method = "GET"
             /\ Reply(r, "bad")
          \/ s = NoSession /\ cmd[r].method # "POST" /\ Reply(r, "bad")
       /\ UNCHANGED <<rpc, touched, ran>>

DispatchDelete ==
    LET r == current
        s == cmd[r].session
    IN /\ r # NoRequest
       /\ s # NoSession
       /\ rpc[s] # "absent"
       /\ cmd[r].method = "DELETE"
       /\ rpc' = [rpc EXCEPT ![s] = "absent"]
       /\ Reply(r, "answered")
       /\ UNCHANGED <<touched, ran>>

(* Server::dispatch within a live session.  Only a call in a Ready session *)
(* reaches a native handler; a message over the limits ends the session.   *)
DispatchPost ==
    LET r == current
        s == cmd[r].session
        b == cmd[r].body
    IN /\ r # NoRequest
       /\ s # NoSession
       /\ rpc[s] # "absent"
       /\ cmd[r].method = "POST"
       /\ touched' = [touched EXCEPT ![s] = now]
       /\ rpc' = [rpc EXCEPT ![s] =
                    IF b = "oversized" THEN "absent"
                    ELSE IF b = "initialized" /\ @ = "awaiting" THEN "ready"
                    ELSE @]
       /\ ran' = [ran EXCEPT ![r] = IF b = "call" /\ rpc[s] = "ready"
                                    THEN @ + 1 ELSE @]
       /\ Reply(r, IF b = "oversized" THEN "bad" ELSE "answered")

(* Worker::initialize: a POST without a session header.  Parameters that   *)
(* are not valid are answered, and reserve no session; so it is when the   *)
(* registry, the protocol limits or the entropy for an identity fail.      *)
DispatchInitialize ==
    LET r == current
    IN /\ r # NoRequest
       /\ cmd[r].method = "POST"
       /\ cmd[r].session = NoSession
       /\ UNCHANGED ran
       /\ \/ /\ cmd[r].body # "initialize"
             /\ Reply(r, "bad")
             /\ UNCHANGED <<rpc, touched>>
          \/ /\ cmd[r].body = "initialize"
             /\ SessionsFull
             /\ Reply(r, "limit")
             /\ UNCHANGED <<rpc, touched>>
          \/ /\ cmd[r].body = "initialize"
             /\ ~SessionsFull
             /\ \E s \in Sessions \ Live :
                  /\ rpc' = [rpc EXCEPT ![s] = "awaiting"]
                  /\ touched' = [touched EXCEPT ![s] = now]
             /\ Reply(r, "answered")
          \/ /\ cmd[r].body = "initialize"
             /\ ~SessionsFull
             /\ Reply(r, "bad") \/ Reply(r, "answered")
             /\ UNCHANGED <<rpc, touched>>

Dispatch ==
    \/ DispatchUnserved
    \/ DispatchDelete
    \/ DispatchPost
    \/ DispatchInitialize

Tick ==
    /\ now < MaxTime
    /\ now' = now + 1
    /\ UNCHANGED <<phase, streamVars, requestVars, workerVars>>

-----------------------------------------------------------------------------
(* Shutdown. *)

(* The signal ends the accept loop: the pending accept is cancelled, which *)
(* drops a reserved permit, and the kernel resets the backlog.             *)
Shutdown ==
    /\ phase = "serving"
    /\ phase' = "draining"
    /\ listener' = "closed"
    /\ connFree' = IF listener = "reserved" THEN connFree + 1 ELSE connFree
    /\ stream' = [c \in Clients |->
                    IF stream[c] = "backlog" THEN "away" ELSE stream[c]]
    /\ UNCHANGED <<requestVars, workerVars, now>>

(* A stream that serves no request is closed during a graceful shutdown. *)
CloseIdle(c) ==
    /\ phase = "draining"
    /\ stream[c] = "open"
    /\ on[c] = NoRequest
    /\ CloseStream(c)
    /\ UNCHANGED <<phase, listener, free, stage, cmd, answer, queue,
                   workerVars, now>>

(* Mutant: the worker ends with the I/O thread, whatever is queued. *)
StopWithQueue ==
    /\ phase = "draining"
    /\ OpenStreams = {}
    /\ current = NoRequest
    /\ phase' = "stopped"
    /\ UNCHANGED <<streamVars, requestVars, workerVars, now>>

(* Every sender lives in a stream's router: with no stream left the        *)
(* channel closes, and blocking_recv ends once it is empty.                *)
Stop ==
    /\ phase = "draining"
    /\ OpenStreams = {}
    /\ queue = <<>>
    /\ current = NoRequest
    /\ phase' = "stopped"
    /\ UNCHANGED <<streamVars, requestVars, workerVars, now>>

(* serve_until has returned. *)
Stopped ==
    /\ phase = "stopped"
    /\ UNCHANGED vars

Next ==
    \/ Reserve
    \/ \E c \in Clients :
         \/ Connect(c)
         \/ Accept(c)
         \/ HangUp(c)
         \/ GiveUp(c)
         \/ Written(c)
         \/ CloseIdle(c)
         \/ \E r \in Requests :
              \/ ArriveRejected(c, r)
              \/ \E m \in Traffic :
                   \/ ArriveBusy(c, r, m)
                   \/ ArrivePost(c, r, m)
                   \/ ArriveBare(c, r, m)
    \/ \E r \in Requests : BodyArrives(r) \/ BodyFails(r)
    \/ Take
    \/ Dispatch
    \/ Tick
    \/ Shutdown
    \/ Stop
    \/ Stopped

(* The worker thread and the runtime run whenever they can; body_timeout   *)
(* bounds every upload; invocations are finite.  Nothing is assumed of the *)
(* clients: they may never read a response.                                *)
Fairness ==
    /\ WF_vars(Take)
    /\ WF_vars(Dispatch)
    /\ WF_vars(Stop)
    /\ \A r \in Requests : WF_vars(BodyFails(r))
    /\ \A c \in Clients : WF_vars(CloseIdle(c))

Spec == Init /\ [][Next]_vars /\ Fairness

-----------------------------------------------------------------------------
(* Every variable stays in its range. *)
TypeOK ==
    /\ phase \in {"serving", "draining", "stopped"}
    /\ listener \in {"idle", "reserved", "closed"}
    /\ connFree \in Nat
    /\ stream \in [Clients -> {"away", "backlog", "open"}]
    /\ on \in [Clients -> Requests \cup {NoRequest}]
    /\ free \in Nat
    /\ stage \in [Requests -> Stages]
    /\ cmd \in [Requests -> Command]
    /\ answer \in [Requests -> Answers]
    /\ queue \in Seq(Requests)
    /\ current \in Requests \cup {NoRequest}
    /\ rpc \in [Sessions -> {"absent", "awaiting", "ready"}]
    /\ touched \in [Sessions -> Nat]
    /\ now \in Nat
    /\ ran \in [Requests -> Nat]

(* Admission permits are neither lost nor duplicated, whichever of handler, *)
(* channel, worker or response body owns them and whenever a peer hangs up  *)
(* (OwnedSemaphorePermit moving from handle_request to AdmittedBody).       *)
PermitsConserved == free + Cardinality(Holders) = MaxRequests

(* Connection permits: free, reserved by the acceptor or owned by a stream; *)
(* so accepted descriptors never exceed max_connections, also when the      *)
(* signal cancels a pending accept (ConnectionListener, AdmittedIo).        *)
ConnectionsConserved ==
    connFree + Cardinality(OpenStreams)
        + (IF listener = "reserved" THEN 1 ELSE 0) = MaxConnections

(* A request that was admitted finds room in the channel: the 503 after     *)
(* try_send cannot come from a full queue, because every queued Work holds  *)
(* one of the MaxRequests permits.                                          *)
ChannelNeverFull ==
    /\ \A r \in Requests : answer[r] # "unavailable"
    /\ (\E r \in Requests : stage[r] = "body") => Len(queue) < MaxRequests

(* "request was not dispatched" is true, and no request is dispatched       *)
(* twice: a tool ran at most once per request, and only for a request that  *)
(* the worker answered as dispatched, its client present or not.            *)
RanAtMostOnce ==
    \A r \in Requests :
        /\ ran[r] <= 1
        /\ ran[r] = 1 => answer[r] = "answered" /\ stage[r] \in {"writing", "over"}

(* A session ends only by idling for the whole timeout, or by a request     *)
(* that names it: no other client's call, error or expiry takes it away.    *)
SessionIsolation ==
    [][\A s \in Live : rpc'[s] = "absent" =>
          \/ now - touched[s] >= IdleTimeout
          \/ current # NoRequest /\ cmd[current].session = s]_vars

(* When serve_until returns, everything admitted was dispatched and every   *)
(* permit is back.                                                          *)
StoppedIsDrained ==
    phase = "stopped" =>
        /\ Holders = {}
        /\ free = MaxRequests
        /\ connFree = MaxConnections

(* Work in the channel is dispatched even if its client hung up.            *)
QueuedIsDispatched ==
    \A r \in Requests : stage[r] = "queued" ~> answer[r] # "none"

(* A shutdown completes, provided no peer leaves a response unread for     *)
(* ever: queued work is dispatched, uploads time out, idle streams close.   *)
Unread(c) == on[c] # NoRequest /\ stage[on[c]] \in {"writing", "refused"}

DrainEnds ==
    (\A c \in Clients : []<>~Unread(c)) =>
        (phase = "draining" ~> phase = "stopped")
=============================================================================
