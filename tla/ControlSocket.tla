--------------------------- MODULE ControlSocket ---------------------------
(***************************************************************************)
(* The operator's control socket: ControlServer                            *)
(* (native/src/control_server.cpp) and its client palmodctl                *)
(* (crates/palmodctl/src).                                                 *)
(*                                                                         *)
(* Every member of Server is one game process with the loader in it,       *)
(* numbered in the order of their starts; its ControlServer is started     *)
(* once, serves one client at a time on its own thread and is stopped      *)
(* once, or dies with the process and leaves its socket in the file        *)
(* system.  All of them are given the same path.                           *)
(*                                                                         *)
(* Every member of Client is one run of a client: palmodctl, or (Raw) any  *)
(* other program, which need not send anything and may send too much.  A   *)
(* Foreign client runs under another uid that can open the path (root).    *)
(*                                                                         *)
(* The kernel's side (lookup of the path, the accept queue, what a closed  *)
(* peer sees) is modelled from the calls the code makes.  A response fits  *)
(* the send buffer, so send() does not block.                              *)
(***************************************************************************)
EXTENDS Naturals, Sequences, FiniteSets

CONSTANTS
    MaxServers,  \* bound on the game processes, each with one ControlServer
    MaxCrashes,  \* bound on the processes that die
    Client,      \* client processes, each with one connection
    Raw,         \* clients other than palmodctl
    Foreign,     \* clients whose uid is not the server's
    Backlog,     \* the argument of listen()
    OneAtATime,  \* TRUE when a server is started after the last one ended
    Absent,      \* nothing at the path
    NotOurs,     \* a file that is no socket, or another user's
    NoClient     \* no accepted connection is open

ASSUME ControlSocketAssumption ==
    /\ MaxServers \in Nat
    /\ MaxCrashes \in Nat
    /\ Raw \subseteq Client
    /\ Foreign \subseteq Client
    /\ Backlog \in Nat
    /\ OneAtATime \in BOOLEAN
    /\ Absent # NotOurs
    /\ {Absent, NotOurs} \cap 1..MaxServers = {}
    /\ NoClient \notin Client

VARIABLES
    path,      \* what the socket path leads to: a server's socket, or none
    pc,        \* where the thread that calls start() and stop() is
    th,        \* where run() and handle_client() are
    cur,       \* the accepted connection that is open
    queue,     \* the kernel's accept queue
    cl,        \* where the client is, or how it ended
    req,       \* the packet the client has sent
    reply,     \* what the server's end has sent: "reset" is a close without
               \* a response, or before the request was read
    executed   \* how many times the handler ran for the client

vars == <<path, pc, th, cur, queue, cl, req, reply, executed>>

serverVars == <<path, pc, th, cur, queue>>
clientVars == <<cl, req, reply, executed>>

Server == 1..MaxServers

StartPhases == {"remove", "bind", "listen"}
StopPhases == {"flagged", "join", "close", "unlink"}
EndPhases == {"failed", "stopped", "dead"}
Started == StartPhases \cup StopPhases \cup EndPhases \cup {"up"}
Serving == {"recv", "handle", "respond"}
ThreadPhases == {"none", "check", "accept", "exit"} \cup Serving
Outcomes == {"refused", "unsent", "left",    \* no request was sent
             "timeout", "lost",              \* sent, and no response read
             "undecodable", "answered"}

Init ==
    /\ path \in {Absent, NotOurs}
    /\ pc = [s \in Server |-> "off"]
    /\ th = [s \in Server |-> "none"]
    /\ cur = [s \in Server |-> NoClient]
    /\ queue = [s \in Server |-> <<>>]
    /\ cl = [c \in Client |-> "idle"]
    /\ req = [c \in Client |-> "none"]
    /\ reply = [c \in Client |-> "none"]
    /\ executed = [c \in Client |-> 0]

-----------------------------------------------------------------------------
(***************************************************************************)
(* ControlServer::start and safe_remove_stale.  chmod and listen are one   *)
(* step: nobody can connect in between.                                    *)
(***************************************************************************)
GoTo(s, next) == pc' = [pc EXCEPT ![s] = next]

SkipsRemoval(s) ==                        \* mutant: no safe_remove_stale
    /\ pc[s] = "off"
    /\ \A k \in 1..s - 1 : pc[k] \in (IF OneAtATime THEN EndPhases ELSE Started)
    /\ GoTo(s, "bind")
    /\ UNCHANGED <<path, th, cur, queue, clientVars>>

\* lstat
StartInspect(s) ==
    /\ pc[s] = "off"
    /\ \A k \in 1..s - 1 : pc[k] \in (IF OneAtATime THEN EndPhases ELSE Started)
    /\ GoTo(s, CASE path = Absent -> "bind"
                 [] path = NotOurs -> "failed"
                 [] OTHER -> "remove")
    /\ UNCHANGED <<path, th, cur, queue, clientVars>>

\* unlink, which fails when the path is gone by now
StartRemove(s) ==
    /\ pc[s] = "remove"
    /\ GoTo(s, IF path = Absent THEN "failed" ELSE "bind")
    /\ path' = Absent
    /\ UNCHANGED <<th, cur, queue, clientVars>>

StartBind(s) ==
    /\ pc[s] = "bind"
    /\ IF path = Absent
       THEN path' = s /\ GoTo(s, "listen")
       ELSE GoTo(s, "failed") /\ UNCHANGED path
    /\ UNCHANGED <<th, cur, queue, clientVars>>

\* chmod by path, listen, and the thread.
StartListen(s) ==
    /\ pc[s] = "listen"
    /\ IF path = Absent
       THEN GoTo(s, "failed") /\ UNCHANGED th
       ELSE GoTo(s, "up") /\ th' = [th EXCEPT ![s] = "check"]
    /\ UNCHANGED <<path, cur, queue, clientVars>>

-----------------------------------------------------------------------------
(***************************************************************************)
(* ControlServer::stop.                                                    *)
(***************************************************************************)
\* stopping_
Stopping(s) == pc[s] \in StopPhases

NeverShut(s) == FALSE                     \* mutant: no shutdown()

\* shutdown(listen_fd_, SHUT_RDWR) was called
Shut(s) == pc[s] \in StopPhases \ {"flagged"}

Listening(s) == pc[s] \in {"up", "flagged"}

\* What the clients of a set see when their connections are closed unread.
Reset(clients) ==
    reply' = [c \in Client |-> IF c \in clients /\ reply[c] = "none"
                               THEN "reset" ELSE reply[c]]

Queued(s) == {queue[s][i] : i \in DOMAIN queue[s]}

StopFlag(s) ==
    /\ pc[s] = "up"
    /\ GoTo(s, "flagged")
    /\ UNCHANGED <<path, th, cur, queue, clientVars>>

StopShutdown(s) ==
    /\ pc[s] = "flagged"
    /\ GoTo(s, "join")
    /\ UNCHANGED <<path, th, cur, queue, clientVars>>

StopJoin(s) ==
    /\ pc[s] = "join"
    /\ th[s] = "exit"
    /\ th' = [th EXCEPT ![s] = "none"]
    /\ GoTo(s, "close")
    /\ UNCHANGED <<path, cur, queue, clientVars>>

\* close(listen_fd_) resets whoever is still in the accept queue.
StopClose(s) ==
    /\ pc[s] = "close"
    /\ GoTo(s, "unlink")
    /\ Reset(Queued(s))
    /\ queue' = [queue EXCEPT ![s] = <<>>]
    /\ UNCHANGED <<path, th, cur, cl, req, executed>>

\* unlink by name, whoever's socket it is
StopUnlink(s) ==
    /\ pc[s] = "unlink"
    /\ path' = Absent
    /\ GoTo(s, "stopped")
    /\ UNCHANGED <<th, cur, queue, clientVars>>

\* The process dies: its sockets are closed, the path stays.
Crash(s) ==
    /\ pc[s] \in Started \ EndPhases
    /\ Cardinality({k \in Server : pc[k] = "dead"}) < MaxCrashes
    /\ GoTo(s, "dead")
    /\ Reset(Queued(s) \cup {cur[s]})
    /\ th' = [th EXCEPT ![s] = "none"]
    /\ cur' = [cur EXCEPT ![s] = NoClient]
    /\ queue' = [queue EXCEPT ![s] = <<>>]
    /\ UNCHANGED <<path, cl, req, executed>>

-----------------------------------------------------------------------------
(***************************************************************************)
(* ControlServer::run and handle_client.                                   *)
(***************************************************************************)
Step(s, next) == th' = [th EXCEPT ![s] = next]

LoopTest(s) ==
    /\ th[s] = "check"
    /\ Step(s, IF Stopping(s) THEN "exit" ELSE "accept")
    /\ UNCHANGED <<path, pc, cur, queue, clientVars>>

\* accept4 fails because of shutdown(): stopping_ is already set.
AcceptFails(s) ==
    /\ th[s] = "accept"
    /\ queue[s] = <<>>
    /\ Shut(s)
    /\ Step(s, "exit")
    /\ UNCHANGED <<path, pc, cur, queue, clientVars>>

\* credentials.uid == geteuid()
SameUid(c) == c \notin Foreign

\* accept4, also of a connection that was in the queue before shutdown().
\* The credentials are those of the connect: checking them is the same step.
Pop(s) ==
    /\ th[s] = "accept"
    /\ queue[s] # <<>>
    /\ queue' = [queue EXCEPT ![s] = Tail(@)]

Accept(s) ==
    /\ Pop(s)
    /\ SameUid(Head(queue[s]))
    /\ cur' = [cur EXCEPT ![s] = Head(queue[s])]
    /\ Step(s, "recv")
    /\ UNCHANGED <<path, pc, clientVars>>

\* The rejection is sent, but closing with the request unread resets.
RejectPeer(s) ==
    /\ Pop(s)
    /\ LET c == Head(queue[s])
       IN  /\ ~SameUid(c)
           /\ reply' = [reply EXCEPT ![c] = IF req[c] = "none" THEN "protocol" ELSE "reset"]
    /\ Step(s, "check")
    /\ UNCHANGED <<path, pc, cur, cl, req, executed>>

\* send, and close(client) in run(): the connection is over.
Answer(s, packet) ==
    /\ reply' = [reply EXCEPT ![cur[s]] = packet]
    /\ cur' = [cur EXCEPT ![s] = NoClient]
    /\ Step(s, "check")

RecvAcks(s) ==                            \* mutant: answers before it acts
    /\ th[s] = "recv"
    /\ req[cur[s]] = "request"
    /\ Answer(s, "answer")
    /\ UNCHANGED <<path, pc, queue, cl, req, executed>>

\* recvmsg returns the whole packet
Recv(s) ==
    /\ th[s] = "recv"
    /\ req[cur[s]] = "request"
    /\ Step(s, "handle")
    /\ UNCHANGED <<path, pc, cur, queue, clientVars>>

\* MSG_TRUNC: "request exceeds 64 KiB"
RecvTruncated(s) ==
    /\ th[s] = "recv"
    /\ req[cur[s]] = "oversize"
    /\ Answer(s, "protocol")
    /\ UNCHANGED <<path, pc, queue, cl, req, executed>>

NoTimeout(s) ==                           \* mutant: no SO_RCVTIMEO
    /\ th[s] = "recv"
    /\ req[cur[s]] = "none"
    /\ cl[cur[s]] = "left"
    /\ Answer(s, "protocol")
    /\ UNCHANGED <<path, pc, queue, cl, req, executed>>

\* received <= 0: the client closed its end, or two seconds have passed.
RecvNothing(s) ==
    /\ th[s] = "recv"
    /\ req[cur[s]] = "none"
    /\ Answer(s, "protocol")
    /\ UNCHANGED <<path, pc, queue, cl, req, executed>>

\* handler_: Runtime::control_request
Handle(s) ==
    /\ th[s] = "handle"
    /\ executed' = [executed EXCEPT ![cur[s]] = @ + 1]
    /\ Step(s, "respond")
    /\ UNCHANGED <<path, pc, cur, queue, cl, req, reply>>

\* The handler's response, or error_packet for one above kMaxPacket.
Respond(s, packet) ==
    /\ th[s] = "respond"
    /\ packet \in {"answer", "protocol"}
    /\ Answer(s, packet)
    /\ UNCHANGED <<path, pc, queue, cl, req, executed>>

-----------------------------------------------------------------------------
(***************************************************************************)
(* ControlClient::connect and call, for palmodctl's one request.           *)
(***************************************************************************)
ClientTo(c, next) == cl' = [cl EXCEPT ![c] = next]

\* fs::metadata: something is at the path, and it is a socket.
Inspect(c) ==
    /\ cl[c] = "idle"
    /\ ClientTo(c, IF path \in Server THEN "connect" ELSE "refused")
    /\ UNCHANGED <<serverVars, req, reply, executed>>

\* connect: waits, without a time limit, while the accept queue is full.
Connect(c) ==
    /\ cl[c] = "connect"
    /\ path \in Server
    /\ Listening(path)
    /\ Len(queue[path]) <= Backlog
    /\ queue' = [queue EXCEPT ![path] = Append(@, c)]
    /\ ClientTo(c, "connected")
    /\ UNCHANGED <<path, pc, th, cur, req, reply, executed>>

ConnectRefused(c) ==
    /\ cl[c] = "connect"
    /\ path \in Server => ~Listening(path)
    /\ ClientTo(c, "refused")
    /\ UNCHANGED <<serverVars, req, reply, executed>>

\* send; palmodctl checks the size of its request before.
Send(c, packet) ==
    /\ cl[c] = "connected"
    /\ reply[c] = "none"
    /\ packet = "request" \/ (packet = "oversize" /\ c \in Raw)
    /\ req' = [req EXCEPT ![c] = packet]
    /\ ClientTo(c, "waiting")
    /\ UNCHANGED <<serverVars, reply, executed>>

SendFails(c) ==
    /\ cl[c] = "connected"
    /\ reply[c] # "none"
    /\ ClientTo(c, "unsent")
    /\ UNCHANGED <<serverVars, req, reply, executed>>

\* The client is interrupted before it sends.
Leave(c) ==
    /\ cl[c] \in {"connect", "connected"}
    /\ ClientTo(c, "left")
    /\ UNCHANGED <<serverVars, req, reply, executed>>

\* poll and recv; ControlResponse has a numeric id, which the null of an
\* error_packet is not.
Receive(c) ==
    /\ cl[c] = "waiting"
    /\ reply[c] # "none"
    /\ ClientTo(c, CASE reply[c] = "answer" -> "answered"
                     [] reply[c] = "protocol" -> "undecodable"
                     [] reply[c] = "reset" -> "lost")
    /\ UNCHANGED <<serverVars, req, reply, executed>>

\* poll times out (or the client is interrupted): its packet stays sent.
GiveUp(c) ==
    /\ cl[c] = "waiting"
    /\ reply[c] = "none"
    /\ ClientTo(c, "timeout")
    /\ UNCHANGED <<serverVars, req, reply, executed>>

-----------------------------------------------------------------------------
StartStep(s) == StartRemove(s) \/ StartBind(s) \/ StartListen(s)

StopStep(s) == StopShutdown(s) \/ StopJoin(s) \/ StopClose(s) \/ StopUnlink(s)

ThreadStep(s) ==
    \/ LoopTest(s) \/ Accept(s) \/ RejectPeer(s) \/ AcceptFails(s)
    \/ Recv(s) \/ RecvTruncated(s) \/ RecvNothing(s)
    \/ Handle(s)
    \/ \E packet \in {"answer", "protocol"} : Respond(s, packet)

ClientStep(c) ==
    \/ Connect(c) \/ ConnectRefused(c)
    \/ \E packet \in {"request", "oversize"} : Send(c, packet)
    \/ SendFails(c) \/ Receive(c) \/ GiveUp(c)

Next ==
    \/ \E s \in Server : \/ StartInspect(s) \/ StartStep(s)
                         \/ StopFlag(s) \/ StopStep(s)
                         \/ Crash(s)
                         \/ ThreadStep(s)
    \/ \E c \in Client : Inspect(c) \/ ClientStep(c) \/ Leave(c)

(***************************************************************************)
(* A started call of start(), stop(), run() or palmodctl goes on; the      *)
(* handler and recvmsg return.  Nothing obliges a server to be started or  *)
(* stopped, or any other client to do anything.                            *)
(***************************************************************************)
Fairness ==
    /\ \A s \in Server : /\ WF_vars(StartStep(s))
                         /\ WF_vars(StopStep(s))
                         /\ WF_vars(ThreadStep(s))
    /\ \A c \in Client \ Raw : WF_vars(ClientStep(c))

Spec == Init /\ [][Next]_vars /\ Fairness

-----------------------------------------------------------------------------
(***************************************************************************)
(* Properties.                                                             *)
(***************************************************************************)

\* Types; the accept loop has a connection open exactly while it serves it,
\* and so leaks none (close(client) in run()).
TypeOK ==
    /\ path \in Server \cup {Absent, NotOurs}
    /\ pc \in [Server -> Started \cup {"off"}]
    /\ th \in [Server -> ThreadPhases]
    /\ cur \in [Server -> Client \cup {NoClient}]
    /\ \A s \in Server : cur[s] # NoClient <=> th[s] \in Serving
    /\ \A s \in Server : queue[s] \in Seq(Client) /\ Len(queue[s]) <= Backlog + 1
    /\ cl \in [Client -> Outcomes \cup {"idle", "connect", "connected", "waiting"}]
    /\ req \in [Client -> {"none", "request", "oversize"}]
    /\ reply \in [Client -> {"none", "answer", "protocol", "reset"}]
    /\ executed \in [Client -> Nat]

\* The path leads to the server that is up: palmodctl can reach every running
\* server.  And a stale socket, left at any point of start() or stop() by a
\* process that died, never keeps a later server from starting: only a path
\* that is not the server's to replace does (safe_remove_stale).  Two servers
\* that run at a time break it: start() removes the live socket of the other
\* as stale, and stop() removes the path whoever's it is.
Reachable ==
    \A s \in Server :
        /\ pc[s] = "up" => path = s
        /\ OneAtATime /\ pc[s] = "failed" => path = NotOurs

\* One connection is one request and one response: a request is executed at
\* most once, palmodctl reports success only when it was executed, and a
\* client that was told its request was not sent, one whose packet was too
\* long and one of another user never had a request executed, and none will.
DoneAsTold ==
    \A c \in Client :
        /\ executed[c] <= 1
        /\ cl[c] = "answered" => executed[c] = 1
        /\ (cl[c] \in {"refused", "unsent", "left"} \/ req[c] = "oversize" \/ c \in Foreign)
              => executed[c] = 0

\* palmodctl always comes to an end, also the one that waits in connect()
\* for room behind clients that send nothing, in a server that is stopped or
\* crashes.
CallReturns ==
    \A c \in Client \ Raw : cl[c] \in {"connect", "connected", "waiting"} ~> cl[c] \in Outcomes

\* stop() returns although the thread may be blocked in accept4, in recvmsg
\* or in the handler when it begins.
StopReturns == \A s \in Server : pc[s] \in StopPhases ~> pc[s] \in {"stopped", "dead"}
=============================================================================
