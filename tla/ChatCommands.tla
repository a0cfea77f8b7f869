---------------------------- MODULE ChatCommands ----------------------------
(***************************************************************************)
(* The way of a command: a chat line (BroadcastChatMessage, hooked) or a   *)
(* command.invoke request becomes an invocation in the queue of the plugin *)
(* that declared the command, whose callback may call game functions; the  *)
(* resulting action carries who is behind it (the actor).                  *)
(*                                                                         *)
(* Composes chat_hook.cpp, chat_message.cpp, make_chat_deliver of          *)
(* reflection_backend.cpp, player_auth.cpp, player_directory.cpp, the      *)
(* router of command_router.cpp, on_chat and control_request of            *)
(* runtime.cpp, the registration in load_directory_report and the          *)
(* callbacks of plugin_runtime.cpp.  The game's controllers, which the     *)
(* authorization reads, come and go.  One plugin set: reloading is in      *)
(* Runtime; the queues' life cycle is in PluginInstance, their waits are   *)
(* left out here.                                                          *)
(***************************************************************************)
EXTENDS SlashCommand, FiniteSets

CONSTANTS
  Sets,        \* plugin directories: for each plugin, in load order, the
               \* commands of its manifest
  Listeners,   \* the plugins that subscribe to "chat"
  Players,     \* player ids (the 16-byte uid)
  Names,       \* display names players choose
  Lines,       \* chat texts that are sent
  Requests,    \* command.invoke requests: [command, args]
  MaxQueue,    \* kMaxCommandQueue
  MaxInputs,   \* bound: chat lines and requests
  MaxLogins    \* bound: connections of players

Operator == "local-operator"

(* A command of a manifest, without its description. *)
CommandSpec == [name : Seq(Byte), admin : BOOLEAN, suppress : BOOLEAN]

ASSUME ChatAssumptions ==
  /\ \A d \in Sets : d \in Seq(Seq(CommandSpec)) /\ Listeners \subseteq DOMAIN d
  /\ \A r \in Requests : r.command \in Seq(Byte) /\ r.args \in Seq(Seq(Byte))
  /\ MaxQueue \in Nat \ {0} /\ MaxInputs \in Nat /\ MaxLogins \in Nat
  /\ Operator \notin Names

VARIABLES
  declared,     \* the plugin directory that is loaded
  loaded,       \* how many plugins load_directory_report has dealt with
  registered,   \* how many commands of the next one are in the router
  errors,       \* whether its report has errors
  commands,     \* commands_: the router's entries, by canonical name
  controllers,  \* the game's player controllers, in the order of GUObjectArray
  admins,       \* players who have logged in as administrator and are connected
  directory,    \* by_id_: the display name of each registered player
  queue,        \* queue_ of each plugin: accepted invocations
  events,       \* event_queue_ of each plugin
  current,      \* current_ of each plugin
  currentEvent, \* current_event_ of each plugin
  running,      \* what each plugin's worker is running a callback for
  actions,      \* SemanticActions pushed: the actor, and whose callback it was
  broadcast,    \* chat lines the game was let broadcast
  inputs, logins

session == <<controllers, admins, logins>>
worker == <<current, currentEvent, running, actions>>
registry == <<declared, loaded, registered, errors, commands>>
chatVars == <<registry, session, directory, queue, events, worker, broadcast, inputs>>

Plugins == DOMAIN declared
Idle == [kind |-> "none"]

ChatInit ==
  /\ declared \in Sets /\ loaded = 0 /\ registered = 0 /\ errors = FALSE
  /\ commands = <<>>
  /\ controllers = <<>> /\ admins = {} /\ logins = 0
  /\ directory = <<>>
  /\ queue = [p \in Plugins |-> <<>>] /\ events = [p \in Plugins |-> <<>>]
  /\ current = [p \in Plugins |-> Idle] /\ currentEvent = [p \in Plugins |-> Idle]
  /\ running = [p \in Plugins |-> Idle]
  /\ actions = {} /\ broadcast = {} /\ inputs = 0

-----------------------------------------------------------------------------
(* Mutants of Free and AuthOf. *)
FreeAsWritten(table, spec) == spec.name # <<>> /\ spec.name \notin DOMAIN table
AnyController(u) ==
  LET own == SelectInSeq(controllers, LAMBDA c : c.uid = u)
  IN CASE own = 0 -> "unknown" [] OTHER -> IF controllers[own].admin THEN "admin" ELSE "player"

(* load_directory_report takes up the plugins in order and registers the   *)
(* commands of each one by one (register_command: emplace); whatever fails *)
(* fails the report and ends the plugin's turn.                            *)
ValidName(name) ==
  name # <<>> /\ Len(name) <= MaxName /\ \A i \in DOMAIN name : name[i] \in Letters
Free(table, spec) == ValidName(spec.name) /\ Canonical(spec.name) \notin DOMAIN table

Loading == loaded + 1
Pending == loaded < Len(declared) /\ registered < Len(declared[Loading])
NextSpec == declared[Loading][registered + 1]
Key == Canonical(NextSpec.name)

RegisterCommand ==
  /\ Pending /\ Free(commands, NextSpec)
  /\ commands' = [k \in DOMAIN commands \cup {Key} |->
                    IF k = Key THEN [plugin |-> Loading, spec |-> NextSpec] ELSE commands[k]]
  /\ registered' = registered + 1
  /\ UNCHANGED <<declared, loaded, errors, session, directory, queue, events, worker,
                 broadcast, inputs>>

(* The manifest is rejected or start() fails; a command is refused; the id *)
(* is taken.                                                               *)
PluginFails ==
  /\ loaded < Len(declared)
  /\ \/ registered = 0
     \/ Pending /\ ~Free(commands, NextSpec)
     \/ ~Pending
  /\ errors' = TRUE /\ loaded' = Loading /\ registered' = 0
  /\ UNCHANGED <<declared, commands, session, directory, queue, events, worker,
                 broadcast, inputs>>

PluginLoaded ==
  /\ loaded < Len(declared) /\ ~Pending
  /\ loaded' = Loading /\ registered' = 0
  /\ UNCHANGED <<declared, errors, commands, session, directory, queue, events, worker,
                 broadcast, inputs>>

(* The report is complete and clean: reload_plugins made the set active. *)
Committed == loaded = Len(declared) /\ ~errors

-----------------------------------------------------------------------------
(* The game: a player connects, logs in as administrator, disconnects (the *)
(* controller loses its player state), and the controller is collected.    *)
Connected(u) == \E i \in DOMAIN controllers : controllers[i].uid = u /\ controllers[i].attached

Login(u) ==
  /\ logins < MaxLogins /\ ~Connected(u)
  /\ logins' = logins + 1
  /\ controllers' = Append(controllers, [uid |-> u, attached |-> TRUE, admin |-> FALSE])
  /\ UNCHANGED <<registry, admins, directory, queue, events, worker, broadcast, inputs>>

AdminLogin(i) ==
  /\ controllers[i].attached /\ ~controllers[i].admin
  /\ controllers' = [controllers EXCEPT ![i].admin = TRUE]
  /\ admins' = admins \cup {controllers[i].uid}
  /\ UNCHANGED <<registry, logins, directory, queue, events, worker, broadcast, inputs>>

Logout(i) ==
  /\ controllers[i].attached
  /\ controllers' = [controllers EXCEPT ![i].attached = FALSE]
  /\ admins' = admins \ {controllers[i].uid}
  /\ UNCHANGED <<registry, logins, directory, queue, events, worker, broadcast, inputs>>

Collect(i) ==
  /\ ~controllers[i].attached
  /\ controllers' = RemoveAt(controllers, i)
  /\ UNCHANGED <<registry, admins, logins, directory, queue, events, worker, broadcast,
                 inputs>>

-----------------------------------------------------------------------------
(* resolve_player_auth: the first controller whose player state has uid u. *)
AuthOf(u) ==
  LET own == SelectInSeq(controllers, LAMBDA c : c.attached /\ c.uid = u)
  IN CASE own = 0 -> "unknown" [] OTHER -> IF controllers[own].admin THEN "admin" ELSE "player"

(* CommandRouter::route and PluginRuntime::dispatch.  tokens is the parsed *)
(* line; sender holds who sent it.  Matched says whether there is such a   *)
(* command, Accepts whether its invocation enters the plugin's queue.      *)
Matched(tokens) == tokens # <<>> /\ Canonical(Head(tokens)) \in DOMAIN commands
Owner(tokens) == commands[Canonical(Head(tokens))].plugin
SpecOf(tokens) == commands[Canonical(Head(tokens))].spec
Allowed(spec, auth) == spec.admin => auth = "admin"
Accepts(tokens, auth) ==
  /\ Matched(tokens)
  /\ Allowed(SpecOf(tokens), auth)
  /\ Len(queue[Owner(tokens)]) < MaxQueue
Invocation(tokens, sender) ==
  [kind |-> "command", name |-> SpecOf(tokens).name, args |-> Tail(tokens),
   admin |-> SpecOf(tokens).admin, actor |-> sender.actor, sender |-> sender]

Route(tokens, auth, sender) ==
  IF Accepts(tokens, auth)
  THEN queue' = [queue EXCEPT ![Owner(tokens)] =
                   Append(@, Invocation(tokens, sender))]
  ELSE UNCHANGED queue

(* What the chat hook makes of the message, to whom deliver_event passes   *)
(* it, when a line is a command, and when on_chat keeps it from the game.  *)
Decoded(name) == [kind |-> "event", actor |-> name]
DeliverEvent(event) ==
  LET hears(p) == p \in Listeners /\ Len(events[p]) < MaxQueue
  IN events' = [p \in Plugins |->
                  IF hears(p) THEN Append(events[p], event) ELSE events[p]]
IsCommand(line) == Len(line) >= 2 /\ Head(line) = "bang"
Suppressed(tokens) == Matched(tokens) /\ SpecOf(tokens).suppress
Upsert(u, name) == directory' = (u :> name) @@ directory

(* The hooked BroadcastChatMessage: the event is delivered, a known sender *)
(* of a command is registered, the command is routed, and the line is      *)
(* broadcast unless suppressed.  hasUid is whether the sender's uid could  *)
(* be read.                                                                *)
Chat(u, name, line, hasUid) ==
  /\ Committed /\ Connected(u) /\ inputs < MaxInputs
  /\ inputs' = inputs + 1
  /\ LET auth == IF IsCommand(line) /\ hasUid THEN AuthOf(u) ELSE "unknown"
         tokens == IF IsCommand(line) THEN Parse(<<"slash">> \o Tail(line)) ELSE <<>>
     IN /\ DeliverEvent(Decoded(name))
        /\ IF auth # "unknown" THEN Upsert(u, name) ELSE UNCHANGED directory
        /\ Route(tokens, auth, [actor |-> name, by |-> "player",
                                entitled |-> u \in admins])
        /\ broadcast' = IF Suppressed(tokens) THEN broadcast ELSE broadcast \cup {line}
  /\ UNCHANGED <<registry, session, worker>>

(* command.invoke on the control socket, as administrator. *)
Invoke(r) ==
  /\ Committed /\ inputs < MaxInputs
  /\ inputs' = inputs + 1
  /\ Route(Parse(ControlCommandLine(r.command, r.args)), "admin",
           [actor |-> Operator, by |-> "operator", sent |-> r, entitled |-> TRUE])
  /\ UNCHANGED <<registry, session, directory, events, worker, broadcast>>

-----------------------------------------------------------------------------
(* Mutant of ResetCurrent. *)
KeepCurrent(p) == current

(* The worker pops commands first and enters the callback (invoke,         *)
(* invoke_event) with current_ or current_event_ set.                      *)
RunCommand(p) ==
  /\ running[p] = Idle /\ queue[p] # <<>>
  /\ queue' = [queue EXCEPT ![p] = Tail(@)]
  /\ running' = [running EXCEPT ![p] = Head(queue[p])]
  /\ current' = [current EXCEPT ![p] = Head(queue[p])]
  /\ UNCHANGED <<registry, session, directory, events, currentEvent, actions, broadcast,
                 inputs>>

RunEvent(p) ==
  /\ running[p] = Idle /\ queue[p] = <<>> /\ events[p] # <<>>
  /\ events' = [events EXCEPT ![p] = Tail(@)]
  /\ running' = [running EXCEPT ![p] = Head(events[p])]
  /\ currentEvent' = [currentEvent EXCEPT ![p] = Head(events[p])]
  /\ UNCHANGED <<registry, session, directory, queue, current, actions, broadcast, inputs>>

(* lua_pal_call inside the callback: the actor is that of current_, else   *)
(* that of current_event_.                                                 *)
ActorOf(p) == IF current[p] # Idle THEN current[p].actor ELSE currentEvent[p].actor

PalCall(p) ==
  /\ running[p] # Idle
  /\ current[p] # Idle \/ currentEvent[p] # Idle
  /\ actions' = actions \cup {[actor |-> ActorOf(p), issuer |-> running[p].actor]}
  /\ UNCHANGED <<registry, session, directory, queue, events, current, currentEvent,
                 running, broadcast, inputs>>

(* The callback returns, with or without an error. *)
ResetCurrent(p) == [current EXCEPT ![p] = Idle]

Return(p) ==
  /\ running[p] # Idle
  /\ running' = [running EXCEPT ![p] = Idle]
  /\ current' = ResetCurrent(p)
  /\ currentEvent' = [currentEvent EXCEPT ![p] = Idle]
  /\ UNCHANGED <<registry, session, directory, queue, events, actions, broadcast, inputs>>

ChatNext ==
  \/ RegisterCommand \/ PluginFails \/ PluginLoaded
  \/ \E u \in Players : Login(u)
  \/ \E i \in DOMAIN controllers : AdminLogin(i) \/ Logout(i) \/ Collect(i)
  \/ \E u \in Players, name \in Names, line \in Lines, hasUid \in BOOLEAN :
       Chat(u, name, line, hasUid)
  \/ \E r \in Requests : Invoke(r)
  \/ \E p \in Plugins : RunCommand(p) \/ RunEvent(p) \/ PalCall(p) \/ Return(p)

ChatSpec == ChatInit /\ [][ChatNext]_chatVars

-----------------------------------------------------------------------------
Invocations ==
  (UNION {Range(queue[p]) : p \in Plugins})
    \cup {running[p] : p \in {q \in Plugins : running[q].kind = "command"}}

(* Once a set is active, every command a plugin of it declared leads to    *)
(* that plugin, under any case; two plugins can never share a name         *)
(* (register_command and the report's errors).                             *)
EveryDeclaredRoutes ==
  Committed => \A p \in Plugins : \A i \in DOMAIN declared[p] :
    LET key == Canonical(declared[p][i].name)
    IN key \in DOMAIN commands /\ commands[key].plugin = p

(* An administrator's command that reaches a plugin was sent by the local  *)
(* operator or by a player who was an administrator when it was sent,      *)
(* whatever controllers of earlier connections are still in the object     *)
(* array (resolve_player_auth, route).                                     *)
AdminOnly == \A i \in Invocations : i.admin => i.sender.entitled

KeepNonEmpty(kept, arg) == IF arg = <<>> THEN kept ELSE Append(kept, arg)
NonEmpty(args) == Loop(KeepNonEmpty, <<>>, args)

(* The arguments of a command.invoke request arrive at the plugin as they  *)
(* were sent, whatever quotes, blanks and backslashes they contain: only   *)
(* empty ones are dropped (control_command_line, parse_slash_command).     *)
ArgumentsArrive ==
  \A i \in Invocations :
    i.sender.by = "operator" /\ ValidName(i.sender.sent.command) =>
      /\ i.args = NonEmpty(i.sender.sent.args)
      /\ Canonical(i.name) = Canonical(i.sender.sent.command)

(* A game call carries the actor behind the callback that made it: a       *)
(* plugin's event callbacks never act for the sender of an earlier command *)
(* (lua_pal_call, invoke, invoke_event).                                   *)
ActorIsIssuer == \A a \in actions : a.actor = a.issuer
=============================================================================
