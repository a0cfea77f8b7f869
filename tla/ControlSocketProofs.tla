------------------------ MODULE ControlSocketProofs -------------------------
(***************************************************************************)
(* Reachable and DoneAsTold of ControlSocket, for any number of servers,   *)
(* crashes and clients and any backlog.                                    *)
(*                                                                         *)
(* Reachable: when servers follow one another, at most one is between the  *)
(* start of start() and the end of stop(), and it alone touches the path.  *)
(*                                                                         *)
(* DoneAsTold: a connection is in one place.  It enters one accept queue,  *)
(* leaves it for one server's handle_client and never comes back, so the   *)
(* handler runs for it once, and before the response.                      *)
(***************************************************************************)
EXTENDS ControlSocket, TLAPS

Types ==
    /\ TypeOK
    /\ queue \in [Server -> Seq(Client)]
    /\ \A s \in Server : pc[s] \notin {"up", "flagged", "join"} => th[s] = "none"

Ended == EndPhases \cup {"off"}

(* Servers follow one another, and what the path leads to depends on where *)
(* the one that has begun and not ended is.                                *)
Succession ==
    /\ \A k, s \in Server : k < s /\ pc[s] # "off" => pc[k] \in EndPhases
    /\ \A s \in Server :
         /\ pc[s] = "remove" => path \in Server
         /\ pc[s] = "bind" => path = Absent
         /\ pc[s] \in {"listen", "up"} \cup StopPhases => path = s
         /\ pc[s] = "failed" => path = NotOurs

(* What has been done for a client. *)
Told ==
    \A c \in Client :
        /\ executed[c] \in {0, 1}
        /\ executed[c] = 1 => req[c] = "request" /\ c \notin Foreign
        /\ cl[c] \in {"idle", "connect", "connected", "refused", "unsent", "left"} => req[c] = "none"
        /\ reply[c] = "answer" \/ cl[c] = "answered" => executed[c] = 1

(* A client that waits in a queue has not been served, one that is served  *)
(* is the server's own user's, and has had the handler run once it is past *)
(* it.                                                                     *)
Waiting ==
    \A s \in Server : \A i \in 1..Len(queue[s]) :
        cl[queue[s][i]] \notin {"idle", "connect"} /\ executed[queue[s][i]] = 0

Served ==
    \A s \in Server : cur[s] # NoClient =>
        /\ cl[cur[s]] \notin {"idle", "connect"} /\ cur[s] \notin Foreign
        /\ executed[cur[s]] = IF th[s] = "respond" THEN 1 ELSE 0
        /\ th[s] = "handle" => req[cur[s]] = "request"

(* A connection is in one place. *)
OnePlace ==
    /\ \A s, t \in Server : \A i \in 1..Len(queue[s]), j \in 1..Len(queue[t]) :
         queue[s][i] = queue[t][j] => s = t /\ i = j
    /\ \A s, t \in Server : \A i \in 1..Len(queue[s]) : queue[s][i] # cur[t]
    /\ \A s, t \in Server : cur[s] = cur[t] /\ cur[s] # NoClient => s = t

Connections == Told /\ Waiting /\ Served /\ OnePlace

-----------------------------------------------------------------------------
LEMMA InitTypes == Init => Types
<1> SUFFICES ASSUME Init PROVE Types
  OBVIOUS
<1>1. queue \in [Server -> Seq(Client)] /\ \A s \in Server : queue[s] = <<>>
  BY DEF Init
<1>2. \A s \in Server : queue[s] \in Seq(Client) /\ Len(queue[s]) <= Backlog + 1
  BY <1>1, ControlSocketAssumption
<1>3. \A s \in Server : cur[s] # NoClient <=> th[s] \in Serving
  BY DEF Init, Serving
<1>4. /\ path \in Server \cup {Absent, NotOurs}
      /\ pc \in [Server -> Started \cup {"off"}] /\ th \in [Server -> ThreadPhases]
      /\ cur \in [Server -> Client \cup {NoClient}]
  BY DEF Init, ThreadPhases
<1>5. /\ cl \in [Client -> Outcomes \cup {"idle", "connect", "connected", "waiting"}]
      /\ req \in [Client -> {"none", "request", "oversize"}]
      /\ reply \in [Client -> {"none", "answer", "protocol", "reset"}]
      /\ executed \in [Client -> Nat]
  BY DEF Init
<1> QED
  BY <1>1, <1>2, <1>3, <1>4, <1>5 DEF Types, TypeOK, Init

(* start() and stop() of server s, seen from its thread and its connections. *)
LEMMA OwnerTypes ==
  ASSUME Types, NEW s \in Server, NEW p \in Started \cup {"off"}, NEW q \in ThreadPhases \ Serving,
         pc' = [pc EXCEPT ![s] = p], th' = [th EXCEPT ![s] = q],
         p \notin {"up", "flagged", "join"} => q = "none",
         th[s] \notin Serving, path' \in Server \cup {Absent, NotOurs},
         UNCHANGED <<cur, queue, clientVars>>
  PROVE  Types'
<1>1. pc' \in [Server -> Started \cup {"off"}] /\ th' \in [Server -> ThreadPhases]
  BY DEF Types, TypeOK
<1>2. \A k \in Server : cur[k] # NoClient <=> th'[k] \in Serving
  BY DEF Types, TypeOK
<1>3. \A k \in Server : pc'[k] \notin {"up", "flagged", "join"} => th'[k] = "none"
  BY DEF Types, TypeOK
<1> QED
  BY <1>1, <1>2, <1>3 DEF Types, TypeOK, clientVars

LEMMA StartTypes ==
  ASSUME Types, NEW s \in Server, StartInspect(s) \/ StartStep(s)
  PROVE  Types'
<1>1. /\ UNCHANGED <<cur, queue, clientVars>>
      /\ pc[s] \in {"off", "remove", "bind", "listen"}
  BY DEF StartInspect, StartStep, StartRemove, StartBind, StartListen
<1>2. path' \in Server \cup {Absent, NotOurs}
  <2>1. path \in Server \cup {Absent, NotOurs}
    BY DEF Types, TypeOK
  <2>2. path' = path \/ path' = Absent \/ path' = s
    BY DEF StartInspect, StartStep, StartRemove, StartBind, StartListen
  <2> QED
    BY <2>1, <2>2
<1>3. th[s] = "none" /\ th = [th EXCEPT ![s] = "none"] /\ "none" \in ThreadPhases \ Serving
  <2>1. th[s] = "none"
    BY <1>1 DEF Types
  <2>2. th = [th EXCEPT ![s] = "none"]
    BY <2>1 DEF Types, TypeOK
  <2> QED
    BY <2>1, <2>2 DEF ThreadPhases, Serving
<1>4. {"bind", "failed", "remove", "listen", "up"} \subseteq Started
  BY DEF Started, StartPhases, EndPhases
<1>5. CASE StartInspect(s)
  <2> DEFINE p == CASE path = Absent -> "bind" [] path = NotOurs -> "failed" [] OTHER -> "remove"
  <2>1. p \in {"bind", "failed", "remove"} /\ pc' = [pc EXCEPT ![s] = p]
    BY <1>5 DEF StartInspect, GoTo
  <2> HIDE DEF p
  <2>2. th' = [th EXCEPT ![s] = "none"]
    BY <1>3, <1>5 DEF StartInspect
  <2> QED
    BY <1>1, <1>2, <1>3, <1>4, <2>1, <2>2, OwnerTypes DEF Serving
<1>6. CASE StartRemove(s) \/ StartBind(s)
  <2>1. PICK p \in {"bind", "failed", "listen"} : pc' = [pc EXCEPT ![s] = p]
    BY <1>6 DEF StartRemove, StartBind, GoTo
  <2>2. th' = [th EXCEPT ![s] = "none"]
    BY <1>3, <1>6 DEF StartRemove, StartBind
  <2> QED
    BY <1>1, <1>2, <1>3, <1>4, <2>1, <2>2, OwnerTypes DEF Serving
<1>7. CASE StartListen(s)
  <2>1. CASE path = Absent
    <3>1. pc' = [pc EXCEPT ![s] = "failed"] /\ th' = [th EXCEPT ![s] = "none"]
      BY <1>3, <1>7, <2>1 DEF StartListen, GoTo
    <3> QED
      BY <1>1, <1>2, <1>3, <1>4, <3>1, OwnerTypes DEF Serving
  <2>2. CASE path # Absent
    <3>1. pc' = [pc EXCEPT ![s] = "up"] /\ th' = [th EXCEPT ![s] = "check"]
      BY <1>7, <2>2 DEF StartListen, GoTo
    <3>2. "check" \in ThreadPhases \ Serving
      BY DEF ThreadPhases, Serving
    <3> QED
      BY <1>1, <1>2, <1>3, <1>4, <3>1, <3>2, OwnerTypes DEF Serving
  <2> QED
    BY <2>1, <2>2
<1> QED
  BY <1>5, <1>6, <1>7 DEF StartStep

LEMMA StopTypes ==
  ASSUME Types, NEW s \in Server, StopFlag(s) \/ StopStep(s)
  PROVE  Types'
<1>1. {"flagged", "join", "close", "unlink", "stopped"} \subseteq Started
  BY DEF Started, StopPhases, EndPhases
<1>2. "none" \in ThreadPhases \ Serving
  BY DEF ThreadPhases, Serving
<1>3. /\ path \in Server \cup {Absent, NotOurs} /\ th \in [Server -> ThreadPhases]
      /\ pc \in [Server -> Started \cup {"off"}] /\ reply \in [Client -> {"none", "answer", "protocol", "reset"}]
  BY DEF Types, TypeOK
<1>4. CASE StopFlag(s) \/ StopShutdown(s)
  <2>1. /\ UNCHANGED <<path, th, cur, queue, clientVars>>
        /\ \A k \in Server : pc'[k] \notin {"up", "flagged", "join"} => pc[k] \notin {"up", "flagged", "join"}
    BY <1>3, <1>4 DEF StopFlag, StopShutdown, GoTo
  <2>2. pc' \in [Server -> Started \cup {"off"}]
    BY <1>1, <1>3, <1>4 DEF StopFlag, StopShutdown, GoTo
  <2> QED
    BY <2>1, <2>2 DEF Types, TypeOK, clientVars
<1>5. CASE StopJoin(s)
  <2>1. /\ pc' = [pc EXCEPT ![s] = "close"] /\ th' = [th EXCEPT ![s] = "none"]
        /\ UNCHANGED <<cur, queue, clientVars>> /\ th[s] \notin Serving /\ path' = path
    BY <1>5 DEF StopJoin, GoTo, Serving
  <2> QED
    BY <1>1, <1>2, <1>3, <2>1, OwnerTypes
<1>6. CASE StopUnlink(s)
  <2>1. /\ pc' = [pc EXCEPT ![s] = "stopped"] /\ path' = Absent
        /\ UNCHANGED <<th, cur, queue, clientVars>> /\ pc[s] = "unlink"
    BY <1>6 DEF StopUnlink, GoTo
  <2>2. th[s] = "none"
    BY <2>1 DEF Types
  <2>3. th' = [th EXCEPT ![s] = "none"]
    BY <1>3, <2>1, <2>2
  <2> QED
    BY <1>1, <1>2, <2>1, <2>2, <2>3, OwnerTypes
<1>7. CASE StopClose(s)
  <2>1. /\ pc' = [pc EXCEPT ![s] = "unlink"] /\ queue' = [queue EXCEPT ![s] = <<>>]
        /\ UNCHANGED <<path, th, cur, cl, req, executed>> /\ pc[s] = "close"
    BY <1>7 DEF StopClose, GoTo
  <2>2. reply' \in [Client -> {"none", "answer", "protocol", "reset"}]
    BY <1>3, <1>7 DEF StopClose, Reset
  <2>3. /\ queue' \in [Server -> Seq(Client)]
        /\ \A k \in Server : queue'[k] \in Seq(Client) /\ Len(queue'[k]) <= Backlog + 1
    BY <2>1, ControlSocketAssumption DEF Types, TypeOK
  <2>4. pc' \in [Server -> Started \cup {"off"}]
    BY <1>1, <1>3, <2>1
  <2>5. \A k \in Server : pc'[k] \notin {"up", "flagged", "join"} => th'[k] = "none"
    BY <1>3, <2>1 DEF Types
  <2> QED
    BY <2>1, <2>2, <2>3, <2>4, <2>5 DEF Types, TypeOK
<1> QED
  BY <1>4, <1>5, <1>6, <1>7 DEF StopStep

LEMMA CrashTypes ==
  ASSUME Types, NEW s \in Server, Crash(s)
  PROVE  Types'
<1>1. /\ pc' = [pc EXCEPT ![s] = "dead"] /\ th' = [th EXCEPT ![s] = "none"]
      /\ cur' = [cur EXCEPT ![s] = NoClient] /\ queue' = [queue EXCEPT ![s] = <<>>]
      /\ UNCHANGED <<path, cl, req, executed>>
  BY DEF Crash, GoTo
<1>2. /\ th \in [Server -> ThreadPhases] /\ pc \in [Server -> Started \cup {"off"}]
      /\ cur \in [Server -> Client \cup {NoClient}]
      /\ reply \in [Client -> {"none", "answer", "protocol", "reset"}]
  BY DEF Types, TypeOK
<1>3. reply' \in [Client -> {"none", "answer", "protocol", "reset"}]
  BY <1>2 DEF Crash, Reset
<1>4. /\ queue' \in [Server -> Seq(Client)]
      /\ \A k \in Server : queue'[k] \in Seq(Client) /\ Len(queue'[k]) <= Backlog + 1
  BY <1>1, ControlSocketAssumption DEF Types, TypeOK
<1>5. /\ pc' \in [Server -> Started \cup {"off"}] /\ th' \in [Server -> ThreadPhases]
      /\ cur' \in [Server -> Client \cup {NoClient}]
  BY <1>1, <1>2 DEF Started, EndPhases, ThreadPhases
<1>6. \A k \in Server : cur'[k] # NoClient <=> th'[k] \in Serving
  BY <1>1, <1>2 DEF Types, TypeOK, Serving
<1>7. \A k \in Server : pc'[k] \notin {"up", "flagged", "join"} => th'[k] = "none"
  BY <1>1, <1>2 DEF Types
<1> QED
  BY <1>1, <1>3, <1>4, <1>5, <1>6, <1>7 DEF Types, TypeOK

(* The accept loop of server s moves to q with connection x open. *)
LEMMA LoopTypes ==
  ASSUME Types, NEW s \in Server, NEW q \in ThreadPhases, NEW x \in Client \cup {NoClient},
         pc' = pc, path' = path, th[s] # "none",
         th' = [th EXCEPT ![s] = q], cur' = [cur EXCEPT ![s] = x], x # NoClient <=> q \in Serving,
         queue' \in [Server -> Seq(Client)], \A k \in Server : Len(queue'[k]) <= Backlog + 1,
         cl' = cl, req' = req, reply' \in [Client -> {"none", "answer", "protocol", "reset"}],
         executed' \in [Client -> Nat]
  PROVE  Types'
<1>1. /\ th \in [Server -> ThreadPhases] /\ cur \in [Server -> Client \cup {NoClient}]
  BY DEF Types, TypeOK
<1>2. th' \in [Server -> ThreadPhases] /\ cur' \in [Server -> Client \cup {NoClient}]
  BY <1>1
<1>3. \A k \in Server : cur'[k] # NoClient <=> th'[k] \in Serving
  BY <1>1 DEF Types, TypeOK
<1>4. \A k \in Server : pc'[k] \notin {"up", "flagged", "join"} => th'[k] = "none"
  BY <1>1 DEF Types
<1>5. \A k \in Server : queue'[k] \in Seq(Client)
  OBVIOUS
<1> QED
  BY <1>2, <1>3, <1>4, <1>5 DEF Types, TypeOK

LEMMA PopTypes ==
  ASSUME Types, NEW s \in Server, Pop(s)
  PROVE  /\ Head(queue[s]) \in Client
         /\ queue' \in [Server -> Seq(Client)] /\ \A k \in Server : Len(queue'[k]) <= Backlog + 1
<1>1. /\ queue[s] \in Seq(Client) /\ queue[s] # <<>> /\ queue \in [Server -> Seq(Client)]
      /\ queue' = [queue EXCEPT ![s] = Tail(queue[s])]
      /\ \A k \in Server : Len(queue[k]) <= Backlog + 1
  BY DEF Types, TypeOK, Pop
<1>2. Head(queue[s]) \in Client /\ Tail(queue[s]) \in Seq(Client) /\ Len(Tail(queue[s])) = Len(queue[s]) - 1
  BY <1>1
<1>3. Len(Tail(queue[s])) <= Backlog + 1
  BY <1>1, <1>2, ControlSocketAssumption
<1> QED
  BY <1>1, <1>2, <1>3

LEMMA ThreadTypes ==
  ASSUME Types, NEW s \in Server, ThreadStep(s)
  PROVE  Types'
<1>1. /\ cur \in [Server -> Client \cup {NoClient}] /\ th \in [Server -> ThreadPhases]
      /\ queue \in [Server -> Seq(Client)] /\ \A k \in Server : Len(queue[k]) <= Backlog + 1
      /\ reply \in [Client -> {"none", "answer", "protocol", "reset"}]
      /\ executed \in [Client -> Nat]
      /\ cur[s] # NoClient <=> th[s] \in Serving
      /\ cur = [cur EXCEPT ![s] = cur[s]]
  BY DEF Types, TypeOK
<1>2. /\ {"exit", "accept", "check"} \subseteq ThreadPhases \ Serving
      /\ {"recv", "handle", "respond"} \subseteq ThreadPhases \cap Serving
  BY DEF ThreadPhases, Serving
<1>3. CASE LoopTest(s) \/ AcceptFails(s)
  <2>1. /\ UNCHANGED <<path, pc, cur, queue, cl, req, reply, executed>> /\ th[s] \notin Serving
        /\ th[s] # "none"
    BY <1>3 DEF LoopTest, AcceptFails, clientVars, Serving
  <2>2. th' = [th EXCEPT ![s] = "exit"] \/ th' = [th EXCEPT ![s] = "accept"]
    BY <1>3 DEF LoopTest, AcceptFails, Step
  <2>3. cur' = [cur EXCEPT ![s] = NoClient]
    BY <1>1, <2>1
  <2> QED
    BY <1>1, <1>2, <2>1, <2>2, <2>3, LoopTypes
<1>4. CASE Accept(s)
  <2>1. /\ UNCHANGED <<path, pc, cl, req, reply, executed>> /\ th[s] # "none" /\ Pop(s)
        /\ cur' = [cur EXCEPT ![s] = Head(queue[s])] /\ th' = [th EXCEPT ![s] = "recv"]
    BY <1>4 DEF Accept, Pop, Step, clientVars
  <2>2. Head(queue[s]) \in Client /\ Head(queue[s]) # NoClient
    BY <2>1, PopTypes, ControlSocketAssumption
  <2> QED
    BY <1>1, <1>2, <2>1, <2>2, PopTypes, LoopTypes
<1>5. CASE RejectPeer(s)
  <2>1. /\ UNCHANGED <<path, pc, cur, cl, req, executed>> /\ th[s] = "accept" /\ Pop(s)
        /\ th' = [th EXCEPT ![s] = "check"]
        /\ reply' = [reply EXCEPT ![Head(queue[s])] =
                       IF req[Head(queue[s])] = "none" THEN "protocol" ELSE "reset"]
    BY <1>5 DEF RejectPeer, Pop, Step
  <2>2. reply' \in [Client -> {"none", "answer", "protocol", "reset"}]
    BY <1>1, <2>1
  <2>3. cur' = [cur EXCEPT ![s] = NoClient]
    BY <1>1, <2>1 DEF Serving
  <2> QED
    BY <1>1, <1>2, <2>1, <2>2, <2>3, PopTypes, LoopTypes
<1>6. CASE Recv(s)
  <2>1. /\ UNCHANGED <<path, pc, cur, queue, cl, req, reply, executed>> /\ th[s] = "recv"
        /\ th' = [th EXCEPT ![s] = "handle"]
    BY <1>6 DEF Recv, Step, clientVars
  <2>2. cur[s] # NoClient /\ cur[s] \in Client \cup {NoClient}
    BY <1>1, <1>2, <2>1
  <2> QED
    BY <1>1, <1>2, <2>1, <2>2, LoopTypes
<1>7. CASE Handle(s)
  <2>1. /\ UNCHANGED <<path, pc, cur, queue, cl, req, reply>> /\ th[s] = "handle"
        /\ executed' = [executed EXCEPT ![cur[s]] = @ + 1] /\ th' = [th EXCEPT ![s] = "respond"]
    BY <1>7 DEF Handle, Step
  <2>2. cur[s] # NoClient /\ cur[s] \in Client
    BY <1>1, <1>2, <2>1
  <2>3. executed' \in [Client -> Nat]
    BY <1>1, <2>1, <2>2
  <2> QED
    BY <1>1, <1>2, <2>1, <2>2, <2>3, LoopTypes
<1>8. ASSUME NEW packet \in {"answer", "protocol"}, Answer(s, packet), th[s] \in Serving,
             UNCHANGED <<path, pc, queue, cl, req, executed>>
      PROVE  Types'
  <2>1. /\ th' = [th EXCEPT ![s] = "check"] /\ cur' = [cur EXCEPT ![s] = NoClient]
        /\ reply' = [reply EXCEPT ![cur[s]] = packet]
    BY <1>8 DEF Answer, Step
  <2>2. reply' \in [Client -> {"none", "answer", "protocol", "reset"}]
    BY <1>1, <2>1
  <2>3. th[s] # "none"
    BY <1>8 DEF Serving
  <2> QED
    BY <1>1, <1>2, <1>8, <2>1, <2>2, <2>3, LoopTypes
<1>9. CASE RecvTruncated(s) \/ RecvNothing(s)
  BY <1>8, <1>9 DEF RecvTruncated, RecvNothing, Serving
<1>10. ASSUME NEW packet \in {"answer", "protocol"}, Respond(s, packet) PROVE Types'
  BY <1>8, <1>10 DEF Respond, Serving
<1> QED
  BY <1>3, <1>4, <1>5, <1>6, <1>7, <1>9, <1>10 DEF ThreadStep

LEMMA ClientTypes ==
  ASSUME Types, NEW c \in Client, Inspect(c) \/ ClientStep(c) \/ Leave(c)
  PROVE  Types'
<1>1. /\ cl \in [Client -> Outcomes \cup {"idle", "connect", "connected", "waiting"}]
      /\ req \in [Client -> {"none", "request", "oversize"}]
      /\ queue \in [Server -> Seq(Client)] /\ \A k \in Server : Len(queue[k]) <= Backlog + 1
      /\ reply[c] \in {"none", "answer", "protocol", "reset"}
  BY DEF Types, TypeOK
<1>2. ASSUME ClientStep(c) => ~Connect(c)
      PROVE  UNCHANGED serverVars /\ UNCHANGED <<reply, executed>>
  BY <1>2 DEF Inspect, ClientStep, ConnectRefused, Send, SendFails, Receive, GiveUp, Leave
<1>3. UNCHANGED <<path, pc, th, cur, reply, executed>>
  BY <1>2 DEF serverVars, Connect, ClientStep
<1>4. req' \in [Client -> {"none", "request", "oversize"}]
  BY <1>1 DEF Inspect, ClientStep, Connect, ConnectRefused, Send, SendFails, Receive, GiveUp, Leave
<1>5. \E p \in Outcomes \cup {"idle", "connect", "connected", "waiting"} : cl' = [cl EXCEPT ![c] = p]
  <2>1. CASE Inspect(c)
    BY <2>1 DEF Inspect, ClientTo, Outcomes
  <2>2. CASE Receive(c)
    BY <1>1, <2>2 DEF Receive, ClientTo, Outcomes
  <2>3. CASE ~Inspect(c) /\ ~Receive(c)
    BY <2>3 DEF ClientStep, Connect, ConnectRefused, Send, SendFails, GiveUp, Leave, ClientTo, Outcomes
  <2> QED
    BY <2>1, <2>2, <2>3
<1>6. cl' \in [Client -> Outcomes \cup {"idle", "connect", "connected", "waiting"}]
  BY <1>1, <1>5
<1>7. queue' \in [Server -> Seq(Client)] /\ \A k \in Server : Len(queue'[k]) <= Backlog + 1
  <2>1. CASE Connect(c)
    <3>1. /\ path \in Server /\ queue' = [queue EXCEPT ![path] = Append(queue[path], c)]
          /\ Len(queue[path]) <= Backlog
      BY <2>1 DEF Connect
    <3>2. Append(queue[path], c) \in Seq(Client) /\ Len(Append(queue[path], c)) = Len(queue[path]) + 1
      BY <1>1, <3>1
    <3> QED
      BY <1>1, <3>1, <3>2, ControlSocketAssumption
  <2>2. CASE ~Connect(c)
    BY <1>1, <1>2, <2>2 DEF serverVars
  <2> QED
    BY <2>1, <2>2
<1> QED
  BY <1>3, <1>4, <1>6, <1>7 DEF Types, TypeOK

LEMMA StepTypes == Types /\ [Next]_vars => Types'
<1> SUFFICES ASSUME Types, [Next]_vars PROVE Types'
  OBVIOUS
<1>1. CASE UNCHANGED vars
  BY <1>1 DEF Types, TypeOK, vars
<1>2. CASE Next
  BY <1>2, StartTypes, StopTypes, CrashTypes, ThreadTypes, ClientTypes DEF Next
<1> QED
  BY <1>1, <1>2

LEMMA TypesInvariant == Spec => []Types
BY InitTypes, StepTypes, PTL DEF Spec

-----------------------------------------------------------------------------
(* While a server has begun and not ended, the others do nothing. *)
LEMMA Alone ==
  ASSUME Types, Succession, NEW s \in Server, pc[s] \notin Ended
  PROVE  \A k \in Server : k # s => pc[k] \in {"off", "stopped", "dead"}
<1>1. path # NotOurs
  <2>1. pc[s] \in {"remove", "bind", "listen", "up"} \cup StopPhases
    BY DEF Types, TypeOK, Ended, Started, StartPhases
  <2>2. path \in Server \/ path = Absent
    BY <2>1 DEF Succession
  <2> QED
    BY <2>2, ControlSocketAssumption DEF Server
<1>2. ASSUME NEW k \in Server, k # s PROVE pc[k] \in Ended
  <2>1. k < s \/ s < k
    BY <1>2, ControlSocketAssumption DEF Server
  <2> QED
    BY <2>1 DEF Succession, Ended
<1> QED
  BY <1>1, <1>2 DEF Succession, Ended, EndPhases

(* The server that has begun moves on. *)
LEMMA Moves ==
  ASSUME Types, Succession, NEW s \in Server, pc[s] \notin Ended, NEW p \in Started,
         pc' = [pc EXCEPT ![s] = p],
         p = "remove" => path' \in Server, p = "bind" => path' = Absent,
         p \in {"listen", "up"} \cup StopPhases => path' = s, p = "failed" => path' = NotOurs
  PROVE  Succession'
<1>1. pc'[s] = p /\ \A k \in Server : k # s => pc'[k] = pc[k] /\ pc[k] \in {"off", "stopped", "dead"}
  BY Alone DEF Types, TypeOK
<1>2. ASSUME NEW k \in Server, NEW u \in Server, k < u, pc'[u] # "off" PROVE pc'[k] \in EndPhases
  <2>1. pc[u] # "off"
    BY <1>1, <1>2 DEF Ended
  <2>2. pc[k] \in EndPhases
    BY <1>2, <2>1 DEF Succession
  <2>3. k # s
    BY <2>2 DEF Ended
  <2> QED
    BY <1>1, <2>2, <2>3
<1>3. \A k \in Server :
        k # s => pc'[k] \notin {"remove", "bind", "failed", "listen", "up"} \cup StopPhases
  BY <1>1 DEF StopPhases
<1> QED
  BY <1>1, <1>2, <1>3 DEF Succession

(* A server starts after the last one ended. *)
LEMMA Begins ==
  ASSUME OneAtATime, Types, Succession, NEW s \in Server, StartInspect(s)
  PROVE  Succession'
<1> DEFINE p == CASE path = Absent -> "bind" [] path = NotOurs -> "failed" [] OTHER -> "remove"
<1>1. /\ pc' = [pc EXCEPT ![s] = p] /\ path' = path /\ pc[s] = "off"
      /\ \A k \in 1..s - 1 : pc[k] \in EndPhases
  BY DEF StartInspect, GoTo
<1>2. /\ p \in {"bind", "failed", "remove"} /\ (p = "bind" <=> path = Absent)
      /\ p = "failed" => path = NotOurs
      /\ p = "remove" => path \in Server
  <2>1. path \in Server \cup {Absent, NotOurs}
    BY DEF Types, TypeOK
  <2>2. p = IF path = Absent THEN "bind" ELSE IF path = NotOurs THEN "failed" ELSE "remove"
    BY ControlSocketAssumption
  <2> QED
    BY <2>1, <2>2
<1> HIDE DEF p
<1>3. pc'[s] = p /\ \A k \in Server : k # s => pc'[k] = pc[k]
  BY <1>1 DEF Types, TypeOK
<1>4. \A k \in Server : k < s => pc[k] \in EndPhases
  BY <1>1, ControlSocketAssumption DEF Server
<1>5. \A k \in Server : s < k => pc[k] = "off"
  BY <1>1 DEF Succession, EndPhases
<1>6. \A k, u \in Server : k < u /\ pc'[u] # "off" => pc'[k] \in EndPhases
  <2> SUFFICES ASSUME NEW k \in Server, NEW u \in Server, k < u, pc'[u] # "off"
               PROVE  pc'[k] \in EndPhases
    OBVIOUS
  <2>1. k \in Nat /\ u \in Nat /\ s \in Nat
    BY ControlSocketAssumption DEF Server
  <2>2. ~(s < u)
    BY <1>3, <1>5, <2>1
  <2>3. k < s
    BY <2>1, <2>2
  <2> QED
    BY <1>3, <1>4, <2>1, <2>3
<1>7. \A k \in Server :
        /\ pc'[k] = "remove" => path' \in Server
        /\ pc'[k] = "bind" => path' = Absent
        /\ pc'[k] \in {"listen", "up"} \cup StopPhases => path' = k
        /\ pc'[k] = "failed" => path' = NotOurs
  <2>1. p \notin {"listen", "up"} \cup StopPhases
    BY <1>2 DEF StopPhases
  <2> QED
    BY <1>1, <1>2, <1>3, <2>1 DEF Succession
<1> QED
  BY <1>6, <1>7 DEF Succession

LEMMA SuccessionKept ==
  ASSUME OneAtATime, Types, Succession, [Next]_vars
  PROVE  Succession'
<1>1. ASSUME NEW s \in Server, StartInspect(s) PROVE Succession'
  BY <1>1, Begins
<1>2. ASSUME NEW s \in Server, StartStep(s) PROVE Succession'
  <2>1. /\ pc[s] = "remove" => path \in Server
        /\ pc[s] = "bind" => path = Absent
        /\ pc[s] = "listen" => path = s
        /\ Absent \notin Server
        /\ {"remove", "bind", "listen"} \cap Ended = {}
        /\ {"bind", "listen", "up"} \subseteq Started
        /\ "bind" \notin StopPhases
    BY ControlSocketAssumption
    DEF Succession, Server, Ended, Started, StartPhases, EndPhases, StopPhases
  <2>2. CASE StartRemove(s)
    <3>1. pc[s] = "remove" /\ pc' = [pc EXCEPT ![s] = "bind"] /\ path' = Absent
      BY <2>1, <2>2 DEF StartRemove, GoTo
    <3> QED
      BY <2>1, <3>1, Moves
  <2>3. CASE StartBind(s)
    <3>1. pc[s] = "bind" /\ pc' = [pc EXCEPT ![s] = "listen"] /\ path' = s
      BY <2>1, <2>3 DEF StartBind, GoTo
    <3> QED
      BY <2>1, <3>1, Moves
  <2>4. CASE StartListen(s)
    <3>1. pc[s] = "listen" /\ pc' = [pc EXCEPT ![s] = "up"] /\ path' = path
      BY <2>1, <2>4 DEF StartListen, GoTo
    <3> QED
      BY <2>1, <3>1, Moves
  <2> QED
    BY <1>2, <2>2, <2>3, <2>4 DEF StartStep
<1>3. ASSUME NEW s \in Server, StopFlag(s) \/ StopStep(s) \/ Crash(s) PROVE Succession'
  <2>1. PICK p \in StopPhases \cup {"stopped", "dead"} : pc' = [pc EXCEPT ![s] = p]
    BY <1>3 DEF StopFlag, StopStep, StopShutdown, StopJoin, StopClose, StopUnlink, Crash, GoTo, StopPhases
  <2>2. p \in Started /\ p \notin {"remove", "bind", "failed", "listen", "up"}
    BY <2>1 DEF Started, StopPhases, EndPhases
  <2>3. pc[s] \notin Ended
    BY <1>3 DEF StopFlag, StopStep, StopShutdown, StopJoin, StopClose, StopUnlink, Crash,
                Ended, EndPhases, Started, StartPhases, StopPhases
  <2>4. CASE p \in StopPhases
    <3>1. path' = path /\ pc[s] \in {"up"} \cup StopPhases
      BY <1>3, <2>1, <2>4
      DEF StopFlag, StopStep, StopShutdown, StopJoin, StopClose, StopUnlink, Crash, GoTo, StopPhases,
          Types, TypeOK
    <3>2. path' = s
      BY <3>1 DEF Succession
    <3> QED
      BY <2>1, <2>2, <2>3, <3>2, Moves
  <2>5. CASE p \notin StopPhases
    BY <2>1, <2>2, <2>3, <2>5, Moves
  <2> QED
    BY <2>4, <2>5
<1>4. ASSUME UNCHANGED <<pc, path>> PROVE Succession'
  BY <1>4 DEF Succession
<1>5. ASSUME NEW s \in Server, ThreadStep(s) PROVE UNCHANGED <<pc, path>>
  BY <1>5 DEF ThreadStep, LoopTest, AcceptFails, Accept, RejectPeer, Recv, RecvTruncated,
              RecvNothing, Handle, Respond
<1>6. ASSUME NEW c \in Client, Inspect(c) \/ ClientStep(c) \/ Leave(c) PROVE UNCHANGED <<pc, path>>
  BY <1>6 DEF Inspect, ClientStep, Connect, ConnectRefused, Send, SendFails, Receive, GiveUp, Leave,
              serverVars
<1> QED
  BY <1>1, <1>2, <1>3, <1>4, <1>5, <1>6 DEF Next, vars

-----------------------------------------------------------------------------
LEMMA InitConnections == Init => Connections
<1> SUFFICES ASSUME Init PROVE Connections
  OBVIOUS
<1>1. \A s \in Server : Len(queue[s]) = 0 /\ 1..Len(queue[s]) = {} /\ cur[s] = NoClient
  BY DEF Init
<1>2. Told
  BY DEF Init, Told
<1>3. Waiting /\ Served
  BY <1>1 DEF Waiting, Served
<1>4. OnePlace
  BY <1>1 DEF OnePlace
<1> QED
  BY <1>2, <1>3, <1>4 DEF Connections

(* Connections are closed, or nothing happens to them: the steps of        *)
(* start(), stop() and the accept loop that neither accept nor handle.     *)
LEMMA Closes ==
  ASSUME Types, Connections, UNCHANGED <<cl, req, executed>>,
         \A k \in Server : queue'[k] = queue[k] \/ queue'[k] = <<>>,
         \A k \in Server : cur'[k] = cur[k] \/ cur'[k] = NoClient,
         \A k \in Server : cur'[k] # NoClient =>
            th'[k] = th[k] \/ (th[k] = "recv" /\ th'[k] = "handle" /\ req[cur[k]] = "request"),
         \A c \in Client : reply'[c] = "answer" => reply[c] = "answer" \/ executed[c] = 1
  PROVE  Connections'
<1>1. \A k \in Server : \A i \in 1..Len(queue'[k]) : i \in 1..Len(queue[k]) /\ queue'[k][i] = queue[k][i]
  BY DEF Types
<1>2. Told'
  BY DEF Connections, Told
<1>3. Waiting'
  BY <1>1 DEF Connections, Waiting
<1>4. Served'
  BY DEF Connections, Served
<1>5. OnePlace'
  <2>0. OnePlace
    BY DEF Connections
  <2>1. ASSUME NEW s \in Server, NEW t \in Server, NEW i \in 1..Len(queue'[s]),
               NEW j \in 1..Len(queue'[t]), queue'[s][i] = queue'[t][j]
        PROVE  s = t /\ i = j
    BY <1>1, <2>0, <2>1 DEF OnePlace
  <2>2. ASSUME NEW s \in Server, NEW t \in Server, NEW i \in 1..Len(queue'[s])
        PROVE  queue'[s][i] # cur'[t]
    <3>1. queue'[s][i] \in Client
      BY <1>1 DEF Types
    <3> QED
      BY <1>1, <2>0, <3>1, ControlSocketAssumption DEF OnePlace
  <2>3. \A s, t \in Server : cur'[s] = cur'[t] /\ cur'[s] # NoClient => s = t
    BY <2>0 DEF OnePlace
  <2> QED
    BY <2>1, <2>2, <2>3 DEF OnePlace
<1> QED
  BY <1>2, <1>3, <1>4, <1>5 DEF Connections

LEMMA OwnerConnections ==
  ASSUME Types, Connections, NEW s \in Server,
         StartInspect(s) \/ StartStep(s) \/ StopFlag(s) \/ StopStep(s) \/ Crash(s)
  PROVE  Connections'
<1>1. /\ th \in [Server -> ThreadPhases] /\ cur \in [Server -> Client \cup {NoClient}]
      /\ queue \in [Server -> Seq(Client)]
      /\ \A k \in Server : cur[k] # NoClient <=> th[k] \in Serving
  BY DEF Types, TypeOK
<1>2. CASE StartInspect(s) \/ StartStep(s) \/ StopFlag(s) \/ StopShutdown(s) \/ StopJoin(s) \/ StopUnlink(s)
  <2>1. UNCHANGED <<cur, queue, cl, req, reply, executed>>
    BY <1>2 DEF StartInspect, StartStep, StartRemove, StartBind, StartListen, StopFlag, StopShutdown,
                StopJoin, StopUnlink, clientVars
  <2>2. th' = th \/ (th[s] \notin Serving /\ \E q : th' = [th EXCEPT ![s] = q])
    <3>1. CASE StartListen(s)
      <4>1. th[s] = "none"
        BY <3>1 DEF StartListen, Types
      <4> QED
        BY <3>1, <4>1 DEF StartListen, Serving
    <3>2. CASE ~StartListen(s)
      BY <1>2, <3>2 DEF StartInspect, StartStep, StartRemove, StartBind, StopFlag, StopShutdown,
                  StopJoin, StopUnlink, Serving
    <3> QED
      BY <3>1, <3>2
  <2>3. \A k \in Server : cur'[k] # NoClient => th'[k] = th[k]
    BY <1>1, <2>1, <2>2
  <2> QED
    BY <2>1, <2>3, Closes
<1>3. CASE StopClose(s)
  <2>1. /\ UNCHANGED <<th, cur, cl, req, executed>> /\ queue' = [queue EXCEPT ![s] = <<>>]
        /\ \A c \in Client : reply'[c] \in {reply[c], "reset"}
    BY <1>3 DEF StopClose, Reset
  <2> QED
    BY <1>1, <2>1, Closes
<1>4. CASE Crash(s)
  <2>1. /\ UNCHANGED <<cl, req, executed>> /\ queue' = [queue EXCEPT ![s] = <<>>]
        /\ cur' = [cur EXCEPT ![s] = NoClient] /\ th' = [th EXCEPT ![s] = "none"]
        /\ \A c \in Client : reply'[c] \in {reply[c], "reset"}
    BY <1>4 DEF Crash, Reset
  <2>2. \A k \in Server : cur'[k] # NoClient => th'[k] = th[k]
    BY <1>1, <2>1
  <2> QED
    BY <1>1, <2>1, <2>2, Closes
<1> QED
  BY <1>2, <1>3, <1>4 DEF StopStep

(* The accept loop, but for accept4 and the handler. *)
LEMMA LoopConnections ==
  ASSUME Types, Connections, NEW s \in Server,
         \/ LoopTest(s) \/ AcceptFails(s) \/ Recv(s) \/ RecvTruncated(s) \/ RecvNothing(s)
         \/ \E packet \in {"answer", "protocol"} : Respond(s, packet)
  PROVE  Connections'
<1>1. /\ th \in [Server -> ThreadPhases] /\ cur \in [Server -> Client \cup {NoClient}]
      /\ reply \in [Client -> {"none", "answer", "protocol", "reset"}]
      /\ \A k \in Server : cur[k] # NoClient <=> th[k] \in Serving
  BY DEF Types, TypeOK
<1>2. CASE LoopTest(s) \/ AcceptFails(s)
  <2>1. UNCHANGED <<cur, queue, cl, req, reply, executed>> /\ th[s] \notin Serving
    BY <1>2 DEF LoopTest, AcceptFails, clientVars, Serving
  <2>2. \A k \in Server : k # s => th'[k] = th[k]
    BY <1>1, <1>2 DEF LoopTest, AcceptFails, Step
  <2>3. \A k \in Server : cur'[k] # NoClient => th'[k] = th[k]
    BY <1>1, <2>1, <2>2
  <2> QED
    BY <2>1, <2>3, Closes
<1>3. CASE Recv(s)
  <2>1. UNCHANGED <<cur, queue, cl, req, reply, executed>> /\ th[s] = "recv" /\ req[cur[s]] = "request"
    BY <1>3 DEF Recv, clientVars
  <2>2. th'[s] = "handle" /\ \A k \in Server : k # s => th'[k] = th[k]
    BY <1>1, <1>3 DEF Recv, Step
  <2> QED
    BY <2>1, <2>2, Closes
<1>4. ASSUME NEW packet \in {"answer", "protocol"}, Answer(s, packet), th[s] \in Serving,
             UNCHANGED <<queue, cl, req, executed>>, packet = "answer" => th[s] = "respond"
      PROVE  Connections'
  <2>1. /\ reply' = [reply EXCEPT ![cur[s]] = packet] /\ cur' = [cur EXCEPT ![s] = NoClient]
        /\ \A k \in Server : k # s => th'[k] = th[k]
    BY <1>1, <1>4 DEF Answer, Step
  <2>2. cur[s] # NoClient /\ (packet = "answer" => executed[cur[s]] = 1)
    BY <1>1, <1>4 DEF Connections, Served
  <2>3. \A c \in Client : reply'[c] = "answer" => reply[c] = "answer" \/ executed[c] = 1
    BY <1>1, <1>4, <2>1, <2>2
  <2>4. \A k \in Server : cur'[k] # NoClient => cur'[k] = cur[k] /\ th'[k] = th[k]
    BY <1>1, <2>1
  <2> QED
    BY <1>1, <1>4, <2>1, <2>3, <2>4, Closes
<1>5. CASE RecvTruncated(s) \/ RecvNothing(s)
  BY <1>4, <1>5 DEF RecvTruncated, RecvNothing, Serving
<1>6. ASSUME NEW packet \in {"answer", "protocol"}, Respond(s, packet) PROVE Connections'
  BY <1>4, <1>6 DEF Respond, Serving
<1> QED
  BY <1>2, <1>3, <1>5, <1>6

(* accept4 takes the head of the queue. *)
LEMMA PopPlaces ==
  ASSUME Types, Connections, NEW s \in Server, Pop(s)
  PROVE  /\ 1 \in 1..Len(queue[s]) /\ Head(queue[s]) = queue[s][1] /\ Head(queue[s]) \in Client
         /\ \A k \in Server : k # s => queue'[k] = queue[k]
         /\ Len(queue'[s]) = Len(queue[s]) - 1 /\ Len(queue[s]) \in Nat
         /\ \A i \in 1..Len(queue'[s]) : i + 1 \in 1..Len(queue[s]) /\ queue'[s][i] = queue[s][i + 1]
<1>1. /\ queue[s] \in Seq(Client) /\ queue[s] # <<>> /\ queue \in [Server -> Seq(Client)]
      /\ queue' = [queue EXCEPT ![s] = Tail(queue[s])]
  BY DEF Types, Pop
<1>2. queue'[s] = Tail(queue[s]) /\ \A k \in Server : k # s => queue'[k] = queue[k]
  BY <1>1
<1> QED
  BY <1>1, <1>2

(* Who is still in a queue was in one, not at the head of queue s. *)
LEMMA StillWaiting ==
  ASSUME Types, Connections, NEW s \in Server, Pop(s)
  PROVE  /\ \A k \in Server : \A i \in 1..Len(queue'[k]) :
              /\ queue'[k][i] \in Client
              /\ queue'[k][i] # Head(queue[s])
              /\ \A u \in Server : queue'[k][i] # cur[u]
              /\ cl[queue'[k][i]] \notin {"idle", "connect"} /\ executed[queue'[k][i]] = 0
         /\ \A k, u \in Server : \A i \in 1..Len(queue'[k]), j \in 1..Len(queue'[u]) :
              queue'[k][i] = queue'[u][j] => k = u /\ i = j
<1>1. OnePlace /\ Waiting
  BY DEF Connections
<1>2. \A k \in Server : queue[k] \in Seq(Client)
  BY DEF Types
<1>3. ASSUME NEW k \in Server, NEW i \in 1..Len(queue'[k])
      PROVE  \E m \in 1..Len(queue[k]) :
               /\ queue'[k][i] = queue[k][m]
               /\ m = IF k = s THEN i + 1 ELSE i
  BY PopPlaces, <1>3
<1>4. ASSUME NEW k \in Server, NEW i \in 1..Len(queue'[k])
      PROVE  /\ queue'[k][i] \in Client
             /\ queue'[k][i] # Head(queue[s])
             /\ \A u \in Server : queue'[k][i] # cur[u]
             /\ cl[queue'[k][i]] \notin {"idle", "connect"} /\ executed[queue'[k][i]] = 0
  <2>1. PICK m \in 1..Len(queue[k]) : queue'[k][i] = queue[k][m] /\ m = IF k = s THEN i + 1 ELSE i
    BY <1>3, <1>4
  <2>2. queue[k][m] \in Client
    BY <1>2, <2>1
  <2>3. queue[k][m] # queue[s][1]
    <3>1. k = s => m # 1
      BY <1>4, <2>1
    <3> QED
      BY <1>1, <3>1, PopPlaces DEF OnePlace
  <2>4. /\ \A u \in Server : queue[k][m] # cur[u]
        /\ cl[queue[k][m]] \notin {"idle", "connect"} /\ executed[queue[k][m]] = 0
    BY <1>1 DEF OnePlace, Waiting
  <2> QED
    BY <2>1, <2>2, <2>3, <2>4, PopPlaces
<1>5. ASSUME NEW k \in Server, NEW u \in Server, NEW i \in 1..Len(queue'[k]),
             NEW j \in 1..Len(queue'[u]), queue'[k][i] = queue'[u][j]
      PROVE  k = u /\ i = j
  <2>1. PICK m \in 1..Len(queue[k]) : queue'[k][i] = queue[k][m] /\ m = IF k = s THEN i + 1 ELSE i
    BY <1>3, <1>5
  <2>2. PICK n \in 1..Len(queue[u]) : queue'[u][j] = queue[u][n] /\ n = IF u = s THEN j + 1 ELSE j
    BY <1>3, <1>5
  <2>3. queue[k][m] = queue[u][n]
    BY <1>5, <2>1, <2>2
  <2>4. k = u /\ m = n
    BY <1>1, <2>3 DEF OnePlace
  <2> QED
    BY <2>1, <2>2, <2>4
<1> QED
  BY <1>4, <1>5

LEMMA RejectConnections ==
  ASSUME Types, Connections, NEW s \in Server, RejectPeer(s)
  PROVE  Connections'
<1>1. /\ Pop(s) /\ UNCHANGED <<cur, cl, req, executed>> /\ th[s] = "accept"
      /\ th' = [th EXCEPT ![s] = "check"]
      /\ \E p \in {"protocol", "reset"} : reply' = [reply EXCEPT ![Head(queue[s])] = p]
  BY DEF RejectPeer, Step, Pop
<1>2. /\ th \in [Server -> ThreadPhases] /\ reply \in [Client -> {"none", "answer", "protocol", "reset"}]
      /\ \A k \in Server : cur[k] # NoClient <=> th[k] \in Serving
  BY DEF Types, TypeOK
<1>3. Told'
  <2>1. \A c \in Client : reply'[c] = "answer" => reply[c] = "answer"
    BY <1>1, <1>2
  <2> QED
    BY <1>1, <2>1 DEF Connections, Told
<1>4. Waiting'
  BY <1>1, StillWaiting DEF Waiting
<1>5. Served'
  <2>1. \A k \in Server : cur[k] # NoClient => th'[k] = th[k]
    BY <1>1, <1>2 DEF Serving
  <2> QED
    BY <1>1, <2>1 DEF Connections, Served
<1>6. OnePlace'
  BY <1>1, StillWaiting DEF Connections, OnePlace
<1> QED
  BY <1>3, <1>4, <1>5, <1>6 DEF Connections

LEMMA AcceptConnections ==
  ASSUME Types, Connections, NEW s \in Server, Accept(s)
  PROVE  Connections'
<1> DEFINE h == Head(queue[s])
<1>1. /\ Pop(s) /\ UNCHANGED <<cl, req, reply, executed>> /\ th[s] = "accept" /\ h \notin Foreign
      /\ th' = [th EXCEPT ![s] = "recv"] /\ cur' = [cur EXCEPT ![s] = h]
  BY DEF Accept, Step, Pop, SameUid, clientVars
<1>2. /\ th \in [Server -> ThreadPhases] /\ cur \in [Server -> Client \cup {NoClient}]
  BY DEF Types, TypeOK
<1>3. /\ h \in Client /\ cl[h] \notin {"idle", "connect"} /\ executed[h] = 0
      /\ \A u \in Server : h # cur[u]
  <2>1. h = queue[s][1] /\ 1 \in 1..Len(queue[s]) /\ h \in Client
    BY <1>1, PopPlaces
  <2> QED
    BY <2>1 DEF Connections, Waiting, OnePlace
<1>4. \A k \in Server : \A i \in 1..Len(queue'[k]) : queue'[k][i] # h
  BY <1>1, StillWaiting
<1>5. /\ cur'[s] = h /\ th'[s] = "recv"
      /\ \A k \in Server : k # s => cur'[k] = cur[k] /\ th'[k] = th[k]
  BY <1>1, <1>2
<1> HIDE DEF h
<1>6. Told'
  BY <1>1 DEF Connections, Told
<1>7. Waiting'
  BY <1>1, StillWaiting DEF Waiting
<1>8. Served'
  BY <1>1, <1>3, <1>5 DEF Connections, Served
<1>9. OnePlace'
  <2>1. \A k, u \in Server : \A i \in 1..Len(queue'[k]) : queue'[k][i] # cur'[u]
    BY <1>1, <1>4, <1>5, StillWaiting
  <2>2. \A k, u \in Server : cur'[k] = cur'[u] /\ cur'[k] # NoClient => k = u
    BY <1>3, <1>5 DEF Connections, OnePlace
  <2> QED
    BY <1>1, <2>1, <2>2, StillWaiting DEF OnePlace
<1> QED
  BY <1>6, <1>7, <1>8, <1>9 DEF Connections

(* The handler runs for the connection that is open, and for no other. *)
LEMMA HandleConnections ==
  ASSUME Types, Connections, NEW s \in Server, Handle(s)
  PROVE  Connections'
<1> DEFINE h == cur[s]
<1>1. /\ UNCHANGED <<cur, queue, cl, req, reply>> /\ th[s] = "handle"
      /\ executed' = [executed EXCEPT ![h] = @ + 1] /\ th' = [th EXCEPT ![s] = "respond"]
  BY DEF Handle, Step
<1>2. /\ th \in [Server -> ThreadPhases] /\ executed \in [Client -> Nat]
      /\ h \in Client /\ h # NoClient
  BY <1>1 DEF Types, TypeOK, Serving
<1>3. executed[h] = 0 /\ req[h] = "request" /\ h \notin Foreign
  BY <1>1, <1>2 DEF Connections, Served
<1>4. executed'[h] = 1 /\ \A c \in Client : c # h => executed'[c] = executed[c]
  BY <1>1, <1>2, <1>3
<1>5. /\ \A k \in Server : k # s => cur[k] # h
      /\ \A k \in Server : \A i \in 1..Len(queue[k]) : queue[k][i] # h /\ queue[k][i] \in Client
  BY <1>2 DEF Connections, OnePlace, Types
<1>6. th'[s] = "respond" /\ \A k \in Server : k # s => th'[k] = th[k]
  BY <1>1, <1>2
<1>7. cur \in [Server -> Client \cup {NoClient}]
  BY DEF Types, TypeOK
<1> HIDE DEF h
<1>8. Told'
  BY <1>1, <1>3, <1>4 DEF Connections, Told
<1>9. Waiting'
  BY <1>1, <1>4, <1>5 DEF Connections, Waiting
<1>10. Served'
  <2> SUFFICES ASSUME NEW k \in Server, cur[k] # NoClient
               PROVE  /\ cl[cur[k]] \notin {"idle", "connect"} /\ cur[k] \notin Foreign
                      /\ executed'[cur[k]] = IF th'[k] = "respond" THEN 1 ELSE 0
                      /\ th'[k] = "handle" => req[cur[k]] = "request"
    BY <1>1 DEF Served
  <2>1. CASE k = s
    BY <1>4, <1>6, <2>1 DEF Connections, Served, h
  <2>2. CASE k # s
    <3>1. executed'[cur[k]] = executed[cur[k]] /\ th'[k] = th[k]
      BY <1>4, <1>5, <1>6, <1>7, <2>2
    <3> QED
      BY <3>1 DEF Connections, Served
  <2> QED
    BY <2>1, <2>2
<1>11. OnePlace'
  BY <1>1 DEF Connections, OnePlace
<1> QED
  BY <1>8, <1>9, <1>10, <1>11 DEF Connections

(* A client's own steps, but for connect(). *)
LEMMA ClientConnections ==
  ASSUME Types, Connections, NEW c \in Client,
         Inspect(c) \/ (ClientStep(c) /\ ~Connect(c)) \/ Leave(c)
  PROVE  Connections'
<1>1. /\ cl \in [Client -> Outcomes \cup {"idle", "connect", "connected", "waiting"}]
      /\ req \in [Client -> {"none", "request", "oversize"}]
      /\ reply[c] \in {"none", "answer", "protocol", "reset"}
  BY DEF Types, TypeOK
<1>2. UNCHANGED <<path, pc, th, cur, queue, reply, executed>>
  BY DEF Inspect, ClientStep, ConnectRefused, Send, SendFails, Receive, GiveUp, Leave, serverVars
<1>3. \A d \in Client : d # c => cl'[d] = cl[d] /\ req'[d] = req[d]
  BY <1>1 DEF Inspect, ClientStep, ConnectRefused, Send, SendFails, Receive, GiveUp, Leave, ClientTo
<1>4. /\ cl[c] \notin {"idle", "connect"} => cl'[c] \notin {"idle", "connect"}
      /\ req'[c] = req[c] \/ (cl[c] = "connected" /\ cl'[c] = "waiting")
      /\ cl'[c] \in {"idle", "connect", "connected", "refused", "unsent", "left"} =>
           req'[c] = req[c] /\ cl[c] \in {"idle", "connect", "connected"}
      /\ cl'[c] = "answered" => reply[c] = "answer"
  <2>1. CASE Inspect(c)
    BY <1>1, <2>1 DEF Inspect, ClientTo
  <2>2. CASE ConnectRefused(c)
    BY <1>1, <2>2 DEF ConnectRefused, ClientTo
  <2>3. ASSUME NEW packet \in {"request", "oversize"}, Send(c, packet)
        PROVE  cl[c] = "connected" /\ cl'[c] = "waiting"
    BY <1>1, <2>3 DEF Send, ClientTo
  <2>4. CASE SendFails(c) \/ GiveUp(c) \/ Leave(c)
    BY <1>1, <2>4 DEF SendFails, GiveUp, Leave, ClientTo
  <2>5. CASE Receive(c)
    <3>1. cl[c] = "waiting" /\ req' = req /\ cl'[c] \in {"answered", "undecodable", "lost"}
      BY <1>1, <2>5 DEF Receive, ClientTo
    <3>2. cl'[c] = "answered" => reply[c] = "answer"
      BY <1>1, <2>5 DEF Receive, ClientTo
    <3> QED
      BY <3>1, <3>2
  <2> QED
    BY <2>1, <2>2, <2>3, <2>4, <2>5 DEF ClientStep
<1>5. \A d \in Client : cl[d] \notin {"idle", "connect"} => cl'[d] \notin {"idle", "connect"}
  BY <1>3, <1>4
<1>6. Told'
  <2> SUFFICES ASSUME NEW d \in Client
               PROVE  /\ executed[d] \in {0, 1}
                      /\ executed[d] = 1 => req'[d] = "request" /\ d \notin Foreign
                      /\ cl'[d] \in {"idle", "connect", "connected", "refused", "unsent", "left"}
                           => req'[d] = "none"
                      /\ reply[d] = "answer" \/ cl'[d] = "answered" => executed[d] = 1
    BY <1>2 DEF Told
  <2>1. CASE d = c
    BY <1>4, <2>1 DEF Connections, Told
  <2>2. CASE d # c
    BY <1>3, <2>2 DEF Connections, Told
  <2> QED
    BY <2>1, <2>2
<1>7. Waiting'
  <2>1. \A s \in Server : \A i \in 1..Len(queue[s]) : queue[s][i] \in Client
    BY DEF Types
  <2> QED
    BY <1>2, <1>5, <2>1 DEF Connections, Waiting
<1>8. Served'
  <2> SUFFICES ASSUME NEW s \in Server, cur[s] # NoClient
               PROVE  /\ cl'[cur[s]] \notin {"idle", "connect"}
                      /\ th[s] = "handle" => req'[cur[s]] = "request"
    BY <1>2 DEF Connections, Served
  <2>1. /\ cur[s] \in Client /\ cl[cur[s]] \notin {"idle", "connect"}
        /\ th[s] = "handle" => req[cur[s]] = "request"
    BY DEF Types, TypeOK, Connections, Served
  <2>2. req[cur[s]] = "request" => req'[cur[s]] = "request"
    <3>1. req[cur[s]] = "request" => cl[cur[s]] # "connected"
      BY <2>1 DEF Connections, Told
    <3> QED
      BY <1>3, <1>4, <2>1, <3>1
  <2> QED
    BY <1>5, <2>1, <2>2
<1>9. OnePlace'
  BY <1>2 DEF Connections, OnePlace
<1> QED
  BY <1>6, <1>7, <1>8, <1>9 DEF Connections

(* connect() puts the client at the end of one queue; it was in none. *)
LEMMA ConnectConnections ==
  ASSUME Types, Connections, NEW c \in Client, Connect(c)
  PROVE  Connections'
<1> DEFINE q == queue[path]
<1>1. /\ UNCHANGED <<th, cur, req, reply, executed>> /\ cl[c] = "connect" /\ path \in Server
      /\ cl' = [cl EXCEPT ![c] = "connected"] /\ queue' = [queue EXCEPT ![path] = Append(q, c)]
  BY DEF Connect, ClientTo
<1>2. /\ cl \in [Client -> Outcomes \cup {"idle", "connect", "connected", "waiting"}]
      /\ queue \in [Server -> Seq(Client)] /\ q \in Seq(Client)
      /\ cur \in [Server -> Client \cup {NoClient}]
  BY <1>1 DEF Types, TypeOK
<1>3. /\ \A k \in Server : \A i \in 1..Len(queue[k]) : queue[k][i] # c /\ queue[k][i] \in Client
      /\ \A k \in Server : cur[k] # c
      /\ executed[c] = 0 /\ req[c] = "none"
  <2>1. c # NoClient
    BY ControlSocketAssumption
  <2>2. \A k \in Server : \A i \in 1..Len(queue[k]) : queue[k][i] # c /\ queue[k][i] \in Client
    BY <1>1, <1>2 DEF Connections, Waiting
  <2> QED
    BY <1>1, <2>1, <2>2 DEF Connections, Served, Told
<1>4. cl'[c] = "connected" /\ \A d \in Client : d # c => cl'[d] = cl[d]
  BY <1>1, <1>2
<1>5. /\ \A k \in Server : k # path => queue'[k] = queue[k]
      /\ queue'[path] = Append(q, c) /\ Len(queue'[path]) = Len(q) + 1 /\ Len(q) \in Nat
      /\ queue'[path][Len(q) + 1] = c
      /\ \A i \in 1..Len(q) : queue'[path][i] = q[i]
  BY <1>1, <1>2
<1>6. ASSUME NEW k \in Server, NEW i \in 1..Len(queue'[k])
      PROVE  \/ i \in 1..Len(queue[k]) /\ queue'[k][i] = queue[k][i]
             \/ k = path /\ i = Len(q) + 1 /\ queue'[k][i] = c
  BY <1>5
<1>7. Told'
  BY <1>1, <1>3, <1>4 DEF Connections, Told
<1>8. Waiting'
  <2> SUFFICES ASSUME NEW k \in Server, NEW i \in 1..Len(queue'[k])
               PROVE  cl'[queue'[k][i]] \notin {"idle", "connect"} /\ executed[queue'[k][i]] = 0
    BY <1>1 DEF Waiting
  <2>1. CASE queue'[k][i] = c
    BY <1>3, <1>4, <2>1
  <2>2. CASE queue'[k][i] # c
    <3>1. i \in 1..Len(queue[k]) /\ queue'[k][i] = queue[k][i] /\ queue[k][i] \in Client
      BY <1>3, <1>6, <2>2
    <3>2. cl'[queue[k][i]] = cl[queue[k][i]]
      BY <1>4, <2>2, <3>1
    <3> QED
      BY <3>1, <3>2 DEF Connections, Waiting
  <2> QED
    BY <2>1, <2>2
<1>9. Served'
  <2> SUFFICES ASSUME NEW s \in Server, cur[s] # NoClient
               PROVE  cl'[cur[s]] \notin {"idle", "connect"}
    BY <1>1 DEF Connections, Served
  <2>1. cl'[cur[s]] = cl[cur[s]]
    BY <1>2, <1>3, <1>4
  <2> QED
    BY <2>1 DEF Connections, Served
<1>10. OnePlace'
  <2>0. OnePlace
    BY DEF Connections
  <2>1. ASSUME NEW k \in Server, NEW u \in Server, NEW i \in 1..Len(queue'[k]),
               NEW j \in 1..Len(queue'[u]), queue'[k][i] = queue'[u][j]
        PROVE  k = u /\ i = j
    <3>1. CASE queue'[k][i] = c
      <4>1. k = path /\ i = Len(q) + 1
        BY <1>3, <1>6, <3>1
      <4>2. u = path /\ j = Len(q) + 1
        BY <1>3, <1>6, <2>1, <3>1
      <4> QED
        BY <4>1, <4>2
    <3>2. CASE queue'[k][i] # c
      <4>1. /\ i \in 1..Len(queue[k]) /\ queue'[k][i] = queue[k][i]
            /\ j \in 1..Len(queue[u]) /\ queue'[u][j] = queue[u][j]
        BY <1>6, <2>1, <3>2
      <4>2. queue[k][i] = queue[u][j]
        BY <2>1, <4>1
      <4> QED
        BY <2>0, <4>1, <4>2 DEF OnePlace
    <3> QED
      BY <3>1, <3>2
  <2>2. ASSUME NEW k \in Server, NEW u \in Server, NEW i \in 1..Len(queue'[k])
        PROVE  queue'[k][i] # cur[u]
    <3>1. CASE queue'[k][i] = c
      BY <1>3, <3>1
    <3>2. CASE queue'[k][i] # c
      <4>1. i \in 1..Len(queue[k]) /\ queue'[k][i] = queue[k][i]
        BY <1>6, <3>2
      <4> QED
        BY <2>0, <4>1 DEF OnePlace
    <3> QED
      BY <3>1, <3>2
  <2> QED
    BY <1>1, <2>0, <2>1, <2>2 DEF OnePlace
<1> QED
  BY <1>7, <1>8, <1>9, <1>10 DEF Connections

LEMMA ConnectionsKept == Types /\ Connections /\ [Next]_vars => Connections'
<1> SUFFICES ASSUME Types, Connections, [Next]_vars PROVE Connections'
  OBVIOUS
<1>1. CASE UNCHANGED vars
  BY <1>1 DEF vars, Connections, Told, Waiting, Served, OnePlace
<1>2. ASSUME NEW s \in Server, ThreadStep(s) PROVE Connections'
  BY <1>2, LoopConnections, AcceptConnections, RejectConnections, HandleConnections DEF ThreadStep
<1>3. ASSUME NEW s \in Server,
             StartInspect(s) \/ StartStep(s) \/ StopFlag(s) \/ StopStep(s) \/ Crash(s)
      PROVE  Connections'
  BY <1>3, OwnerConnections
<1>4. ASSUME NEW c \in Client, Inspect(c) \/ ClientStep(c) \/ Leave(c) PROVE Connections'
  BY <1>4, ClientConnections, ConnectConnections
<1> QED
  BY <1>1, <1>2, <1>3, <1>4 DEF Next

-----------------------------------------------------------------------------
(***************************************************************************)
(* Types, and every accept loop has a connection open exactly while it     *)
(* serves one: close(client) in run() is reached on every path.            *)
(***************************************************************************)
THEOREM TypeCorrect == Spec => []TypeOK
<1>1. Types => TypeOK
  BY DEF Types
<1> QED
  BY <1>1, TypesInvariant, PTL

(***************************************************************************)
(* When a server is started after the last one ended, the path leads to    *)
(* the server that is up, and start() fails only where the path is not the *)
(* server's to replace, whatever earlier processes left behind when they   *)
(* died.                                                                   *)
(***************************************************************************)
THEOREM ReachableHolds ==
  ASSUME OneAtATime
  PROVE  Spec => []Reachable
<1>1. Init => Succession
  BY DEF Init, Succession, StopPhases
<1>2. Types /\ Succession /\ [Next]_vars => Succession'
  BY SuccessionKept
<1>3. Succession => Reachable
  BY DEF Succession, Reachable
<1> QED
  BY <1>1, <1>2, <1>3, TypesInvariant, PTL DEF Spec

(***************************************************************************)
(* One connection is one request: the handler runs at most once for it,    *)
(* before palmodctl reports success, and never for a client that was told  *)
(* its request was not sent, for an oversized packet or for another user.  *)
(***************************************************************************)
THEOREM DoneAsToldHolds == Spec => []DoneAsTold
<1>1. Connections => DoneAsTold
  BY DEF Connections, Told, DoneAsTold
<1> QED
  BY <1>1, InitConnections, ConnectionsKept, TypesInvariant, PTL DEF Spec
=============================================================================
