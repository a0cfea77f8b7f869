# Palmod: TLA+ models, checks and proofs

Palmod is a native mod loader for the Palworld dedicated server. `palmod-run`
starts the server with `libpalmod.so` preloaded if its build has a verified
profile; inside the server, a bootstrap thread passes the profile gate, loads
Lua plugins, swaps function pointers of the game to observe it, and carries the
plugins' calls to the game thread. The modules here model the concurrent and
the persistent parts of it, and the conversions a command or a call of the game
goes through on its way. Line numbers refer to the repository's files.

## 1. Inventory

| component | state | operations | talks to | what is hard |
|---|---|---|---|---|
| action queue (`native/src/action_queue.cpp`) | a bounded deque, the game thread's id, a drop counter | `bind_game_thread`, `push`, `drain` | plugin workers push, the tick hook drains | `drain` releases the lock around every action |
| plugin instance (`plugin_runtime.cpp`, `Instance`) | two bounded queues, four flags, Lua handlers, three condition variables | `start`, `stop`, `enqueue`, `enqueue_event`, `wait_idle`, the worker loop, `palmod.on_command/on_event/hook/call` | its set, the action queue | lost wakeups, stop racing enqueue, the callback that is neither queued nor done |
| plugin set (`PluginRuntime`) | plugins by id | `load_directory_report`, `dispatch`, `deliver_event`, `stop` | instances, router | one plugin of several fails |
| runtime (`runtime.cpp`) | `state_`, `plugin_set_` under a shared mutex, the watch thread | `start`, `stop`, `reload_plugins`, `on_chat`, `deliver_event`, `control_request` | everything | three threads reload, four use the set, stop joins them all |
| control server (`control_server.cpp`), client (`palmodctl`) | the socket's path, the accept queue, one thread | `start`, `stop`, accept, one request per connection; `connect`, `call` | runtime | stale sockets, silent clients, a client that gives up, stop while a client is served |
| command router (`command_router.cpp`) | commands by name | `register_command`, `route`, the slash parser; `control_command_line` | runtime, set | names that differ in case, quoting, authorization |
| player directory, authorization (`player_directory.cpp`, `player_auth.cpp`) | players by id and name; the game's controllers | `upsert`, `remove`, lookups; `resolve_player_auth` | chat hook, runtime | controllers of connections that are over stay in the object array |
| hooks (`reflection_backend.cpp`, `chat_hook.cpp`, `generic_hook.cpp`) | pointer slots of the game, what they replaced, a fixed table of stubs | install, trampolines, uninstall, `execute_call` | the game, runtime | the game calls through a slot while it is swapped |
| reflection reader, object array (`reflection_reader.cpp`, `object_array.cpp`) | none (reads of game memory) | `find_object`, `find_all_of`, `class_of`, `get`, `find_function` | plugins on their workers, calls on the game thread | objects come and go during a walk |
| parameter codec (`parms_encode.cpp`, `parms_decode.cpp`, `reflect_layout.cpp`, `fname_pool.cpp`, `utf16.cpp`) | none | `parse_param`, `encode_parms`, `decode_parms`, `resolve`, `lookup`, conversions | calls, hooks | widths, signs, strides, nesting limits, surrogates |
| build profile gate (`build_profile.cpp`, `fingerprint.cpp`, `palmod-profile`) | a sealed memfd, the file of the game | select, verify, hand over; match again in the process | runtime, launcher | updates between any two reads, children that inherit everything; must fail closed |
| launcher (`crates/palmod-run`) | `quarantine.json`, the copy of `steamclient.so`, one process per launch | copy, select, launch, wait, record, save | the server process, other launchers | crashes between two steps, stale copies |
| reverse-engineering tools (`reverse/`, `palrev`), JSON, SHA-256, logging | - | - | - | not part of the running system's logic |

What makes each modelled component correct:

* action queue: what was accepted executes once, in order, on one thread, and
  the bound holds;
* plugin instance: what was accepted runs once, in order, with its handler
  present; stop drains; idle means idle; nobody sleeps for ever;
* runtime: the active set is always a complete one (one plugin that does not load
  keeps the others out, against what `plugin-api.md:49` says); nobody uses a set that is
  being destroyed; nothing accepted is destroyed; edits take effect; stop returns;
* hooks: the game's own function always runs, every hook that finds the call's
  arguments observes it once, removal restores the game;
* control socket: the running server is reachable; a request is executed at most
  once and the client knows which failures mean it was not; nobody hangs;
* commands: a declared command reaches the plugin that declared it, an
  administrator's command comes from an administrator, arguments arrive as they
  were sent, and a call of the game names who is behind it;
* profile gate: nothing acts in a process whose build has no profile, the offsets
  that the launcher or the loader limits are small when they are used, whichever
  of the two sees to it, and a supported server gets through;
* searches and calls: a search returns what matched during it and misses nothing
  that was there throughout; callee and hook see the values the caller wrote (the
  hook not those of bytes from 128 up);
* launcher: a profile is quarantined exactly when it earned it and until it is
  cleared, and no server starts beside a torn file, whatever is killed on the way.

`PROJECT.json` lists all components, also those not modelled, and, under
`hazards`, each place where the code could go wrong in a way a test hardly
reaches, with the property that covers it.

## 2. Modules

| module | models | its state and actions |
|---|---|---|
| `ActionChannel` | what the action queue promises: a bounded lossless channel | `Submit`, `Refuse`, `Perform` are atomic |
| `ActionQueue` | `action_queue.cpp` | one action per critical section of `push` and `drain`; instantiates `ActionChannel` for the refinement |
| `PluginInstance` | `PluginRuntime::Instance` | one action per critical section; `asleep` is the set of threads blocked in a condition variable, so that a missing notify is visible; `LuaOnCommand` and `LuaOnEvent` may happen wherever Lua code runs |
| `Runtime` | `runtime.cpp`, `load_directory_report`, `PluginRuntime::stop` | three reloading threads with their own program counters, two calling threads, one stopping thread, which may begin to stop at any time after the start; a plugin's files are the number of the edit that wrote them; uses what `PluginInstance` promises (a stopped instance has run all it accepted) |
| `HookSlots` | the pointer-slot hooks | the three stores of `PointerSlotHook::install` are separate steps, the game thread runs between them, hooks on one slot chain; with each call comes whether the chat hook and generic hooks find its arguments (`legible`: a null `FFrame` or null `Locals`, `Locals` that cannot be read or decoded), without which a trampoline makes no event and chains on |
| `Launcher` | `prepare_steamclient` and the quarantine of `palmod-run` | every process id is a launcher with its own memory; `CopyCreate` and `CopyEnd` of `steamclient.so`, and create, write and rename of the temporary file are separate steps; `Kill` may come anywhere |
| `ControlSocket` | `control_server.cpp` and its client `palmodctl` | one action per system call of `start`, `stop` and the accept loop; several processes share one path, which leads to the socket bound last; a client is palmodctl, which goes through `connect` and `call`, or any program (`Raw`), of the same user or of another one (`Foreign`); the kernel's accept queue and resets are modelled from the calls made |
| `SlashCommand` | `parse_slash_command` and `control_command_line` | operators on lines; a byte is its class (letters of either case, blanks, quote, backslash, control, others as `Byte` adds them); the loops of the code are folds (`Loop`) |
| `ChatCommands` | the way of a command: chat hook, authorization, router, plugin queue, callback, `pal.call` | extends `SlashCommand`; the commands of a directory's plugins are registered one by one, players connect, become administrators and leave controllers behind which the game collects later; `Chat` is the whole hooked call, `Invoke` the whole request |
| `ProfileGate` | `palmod-run` with `palmod-profile`, and the gate of `Runtime::start` | a launcher, and launched, child and manual processes that each go through the steps of the start; the three reads of `fingerprint_self` are separate steps, and the game's file may be replaced between any two |
| `Utf` | `utf16.cpp` | operators; the thresholds of both encodings are constants |
| `Parms` | the codec, the layout, the name pool, `parse_param` | operators; memory is a sequence of buffers of cells, so that offsets, strides and pools that alias are visible |
| `ObjectArray` | `object_array.cpp` and the search of `reflection_reader.cpp` | a worker's walk reads the slot, the object's class and its name in three steps while the game creates and destroys objects and reuses addresses |
| `GameCalls` | `execute_call`, the decoding in generic hooks | extends `Parms` and `ObjectArray`; calls of plugins and of the game run through layout, encoder, callee and hook, between the steps of a search |
| `...Proofs` | | the theorems about the module they are named after; `ReflectionProofs` those about `HookSlots` and `ObjectArray` |
| `MC...` | | constants for TLC; `MCBackend` (`HookSlots`, `ProfileGate`) and `MCOperator` (`Launcher`, `ChatCommands`) check two components that share no state in one run |

Definitions that stand next to another one and are marked as a mutant are never
used: they are deliberately wrong variants that show that a property can fail.

Abstractions:

* Payloads, JSON, paths and log lines are left out, and texts except where a
  property is about them (command lines, strings and names of the codec).
* A Lua callback is a step that returns, with or without an error
  (`instruction_hook` ends a runaway one). A plugin's files are read in one step
  per plugin. Edits get increasing time stamps.
* The launcher's list of crash times is a set of times, each with the launch that
  pushed it: nothing depends on the list's order. Its clock does not run backwards. What is on the disk survives a
  kill; a loss of power is not modelled.
* On the control socket a packet is a request, one that is too long or an error
  packet; that the path is absolute and short enough was settled before, and
  `socket`, `listen` and `send` do not fail for want of resources.
* `ChatCommands` has one plugin set, as reloading is in `Runtime`; the waits and
  the shutdown of the queues are in `PluginInstance`.
* In `ProfileGate` a build stands for its SHA-256, and a number of a profile is
  absent, zero, small or large, as the ranges tell them apart; a running
  executable is replaced, never written. The ranges have all facts of the
  `[reflection]` table and its three sub-tables. Neither side limits
  `message_sender_offset`, `player_state_offset`, `player_uid_offset`,
  `sender_player_uid_offset` and `badmin_offset` (which must not be zero);
  `player_auth.cpp` uses them as they are. The profiles of the run have them large,
  and `OffsetsBounded` says nothing of them.
* In `Parms` a byte is a digit to a small base, a pointer and a count take one
  cell. The rounding of floating-point fields, and casts of numbers that do not
  fit, which C++ leaves undefined, are left out.
* In `ObjectArray`, reading an object that was destroyed gives what it was,
  garbage, or a fault. The class and the name of an object are read at two
  times, so an object that took the address in between may be returned for the
  class of its predecessor; `FindExact` claims no more than the two reads show.
  A chain of superclasses is followed up to `MaxSuperDepth` links.
* In `GameCalls` a call of a function on a handle uses whatever is at the
  address.

## 3. Runs

| run | bounds | shows |
|---|---|---|
| `action_queue` | 2 workers x 3 actions, 2 draining threads, capacity 2, 2 actions per drain | a full queue, a drain that stops at its limit and a stray thread all occur; safety, liveness and the refinement hold |
| `plugin_instance` | 3 commands and 2 events, queue limit below what is offered, spurious wakeups, timeouts | no order of the loader, the callers, the waiter and the worker loses work or a wakeup |
| `runtime_reload` | 2 plugins, 2 edits of which one does not load, also during the start, 1 control reload, 2 calls | races of two reloads with each other, with calls and with stop, which returns whatever the others are doing; the watcher's own reloads bring every edit in that it can see |
| `backend`, hooks | 3 functions, 2 stubs, 3 calls | two hooks on one slot, a full table, calls between any two steps of an installation, calls whose arguments one hook or both cannot find |
| `backend`, gate | 3 server builds (two of them alike but for the digest), a child's program, 16 contents of the profile directory, 2 updates, 2 processes | updates between any two steps, children, manual starts, each kind of bad profile, a profile whose unlimited offsets are large |
| `operator`, launcher | 2 process ids, 2 profiles, limit 2, window 1, clock to 2, 3 launches (each may first clear), 1 kill | crashes inside and outside the window, a kill in every phase, a left temporary file or torn copy met again |
| `control_socket` | 2 server processes one after the other, 1 crash, palmodctl, palmodctl of another user, 1 raw client, a queue of 1 | crashes in every phase of `start` and `stop`, stale sockets, a path that is not the server's, clients that leave, time out, send late, too much or nothing, and one that waits behind a full queue |
| `operator`, commands | 2 plugins, 3 directories (a clean one, a clash, a name too long), 2 players, 2 logins, 2 inputs, a queue of 1, tokens of 3 bytes | arguments with every kind of byte, a full queue, an administrator who leaves and comes back, a callback that fails |
| `game_calls` | 3 objects of 2 classes, 1 search, 1 call of one of 4 functions (28 of plugins, 4 of the game), base 4, arrays of 2, texts of 2 units, depth 3 | objects destroyed and addresses reused during a search; numbers at their limits, broken and astral text, names the pool has not, values at the depth limit and beyond |

`backend` and `operator` each check two components that share no state. A
behaviour is one of either component, as `subject` says from the start, and the
other component rests in its initial state: what is checked is what two runs would
check, and no interleaving of the two is lost, as neither reads what the other
writes. The fairness of a resting component asks for nothing, because none of its
fair steps is enabled initially.

In `game_calls` the addresses of objects other than the default one are
interchangeable (symmetry), as are process ids, profiles and players in `operator`;
these runs check safety only.

Two of each kind are enough for the races the properties are about: each
involves at most two threads of a kind and one object of contention, and the
bounds are above the limits (capacity, window, crash limit, depth, lengths), so
the limits are reached. The codec treats the elements of an array and the fields
of a struct alike, so two of them show a wrong stride or offset.

`control_socket` is about one server at a time, as the launcher's wait for its
server makes them; with `OneAtATime = FALSE` TLC finds `Reachable` violated at
once, because `safe_remove_stale` takes the live socket of another server of the
same user for a stale one (no document promises that two may share a path). In
the same way `operator` has launchers one after the other: with
`OneAtATime = FALSE` one launcher quarantines the profile and another, which
loaded before, saves its old copy and lifts it (`QuarantineSticks`).

Two more gaps of the code are known and stated in the models, without a run: an
edit between the first load and the watcher's first scan is taken as the starting
point and stays out until the next edit (`WatcherApplies` excludes it), and
`install_generic_hooks` runs in `start()` only, so that a function that only a
reloaded plugin subscribes to is not hooked.

Runs that end in a counterexample record where code and documents disagree:

| run | what happens |
|---|---|
| `runtime_stale_reload` | `plugins.reload` loads version 0, the file is edited, the watcher loads and commits version 1, then the control thread commits version 0. The watcher has already seen the time stamp: version 1 stays out for good. |
| `runtime_rest_loads` | one of two plugins does not load; `load_directory_report` loads the other, but `reload_plugins` drops the whole set because the report has an error, and `start()` fails: the fit plugin is never active, where `plugin-api.md:49-51` says that a bad plugin is rejected and "the rest still load". The same document (100-103), `architecture.md` and `security.md` describe the transaction that the code implements and `Transactional` checks |
| `launcher_reused_pid` | a launcher killed between the creation and the rename of `.quarantine-<pid>.tmp` leaves a file with which every later save under that process id fails; crashes are not counted any more |
| `game_calls_fault` | a search on a plugin's worker reads a slot of the object array, the game destroys the object, the search reads its fields: the object array's reads are plain copies, where `reflection_reader.hpp` promises fault-safe ones |
| `game_calls_bytes` | a call passes a byte in the upper half of its range; `decode_scalar` reads a `ByteProperty` as `int8_t`, and the event shows a negative number, where `plugin-api.md:225` says that parameters decode by type, "integers (signed/unsigned 8–64-bit)". `HookSeesLowBytes`, in `game_calls`, is the same property for calls without such a byte |

## 4. Fairness

Only threads that exist to make progress are fair, and only weakly:

* `ActionQueue`: every thread that drains keeps draining: the engine ticks every
  frame. Nothing makes a plugin push.
* `PluginInstance`: `start()`'s and `wait_idle()`'s waits, the join and the
  worker proceed when they can. Nothing makes anyone call; timeouts and spurious
  wakeups are never relied upon, so a missing notify is a liveness violation.
* `Runtime`: every reloading thread, the workers, the bootstrap, the watcher
  (which polls each second), callers inside a call and the stopping thread. Edits,
  requests and stop are free. A shared mutex may prefer readers, but with finitely
  many calls the writer gets in; starvation of the writer by an endless stream of
  calls is out of the model.
* `HookSlots`: the game thread inside a call.
* `ControlSocket`: a `start()` or `stop()` that was called, the accept thread (the
  handler returns, `recvmsg` returns after two seconds) and palmodctl. Nothing
  makes a server start or stop, or a raw client send.
* `ProfileGate`: the bootstrap thread of each process, which runs `Runtime::start`
  without waiting for anyone. Nothing makes the launcher or an update happen.
* `Launcher`, `ChatCommands`, `GameCalls`: safety only, no fairness.

## 5. Proofs

`ActionQueueProofs` proves for every set of workers and threads, every capacity
and every drain limit: type correctness, `ExecutionOrder`, `OneGameThread`,
`Backlog`, `PluginOrder`, and that the queue implements `ActionChannel`. None of
these is inductive alone: `ExecutionOrder` needs that the thread in `execute` is
the game thread and holds a real action, `PluginOrder` needs that the *accepted*
history is in issue order and below the number issued (then the executed prefix
is too). `IInv` collects them; `Invariance` shows it is kept by every action, and
the refinement uses it at `DrainExecute`, which is the channel's `Perform`.

`PluginInstanceProofs` proves for every set of commands, events, names and kinds
and every queue limit: type correctness, `NothingLost`, `HandlersReady`,
`JoinedClean` and `WaitIdleSound`. The inductive invariant adds `Phases`: how the
flags and queues follow the positions of the loader and the worker. In
particular the queues are empty once the worker has left its loop, because it
leaves in the same critical section in which it saw both empty with `stopping_`
up, after which `enqueue` refuses. That is the argument for `JoinedClean`.

`ProfileGateProofs` proves `GateSound` for every set of builds and profiles and
any number of updates and processes. `GateSound` speaks of processes that act;
`GateInv` says what is known of a process at every step before (`Fit`): until its
file is replaced, what is at its path is what it runs; a replacement before
`readlink` ends the start, and one while the file is read is remembered; so an
undisturbed digest is the image's, and the match carries it over to the profile.
Each action changes one process, appends one, or replaces the file, and has a
lemma of its own.

`OffsetsBounded` needs what each reader of a profile checked (`Checks`): the
launcher's ranges hold from the selection on, the loader's from the parse on. Only
together do they limit the seven offsets of `LimitedOffsets`: the launcher leaves
the ProcessEvent slot and SuperStruct alone, the loader two offsets of the chat
table. The theorem is for every directory of profiles, whatever they say of the
five offsets that neither side limits.

`RuntimeProofs` proves `Transactional`, `CallsLiveSet`, `DestroyedDrained` and
`OneOwner` for any number of plugins, edits, reloads and calls. The argument is
ownership: a set's phase says which kind of owner it has (the active pointer, a
reload's `fresh`, its `old`), so no set has two. `RuntimeInv` adds how the locals
of `reload_plugins` follow the thread's position (`Locals`), that only the active
set is ever given work (`Work`), because a commit needs the lock alone while calls
share it, and what a set under construction has loaded so far (`LoadedSoFar`),
which becomes `Transactional` at the commit.

`ReflectionProofs` proves `OriginalRuns`, `Observation` and `Restored` for any
functions, table size and number of calls. The three properties speak of the end
of a call or of the removal; `HookInv` says why they come out: the hooks on a slot
form a chain of at most two that ends in the game's function (`Chain`, with `Home`
counting a hook from the swap on, before `slot_` says so), the installation is at
a known step (`Installs`, `Ahead`), and a call inside a hook has exactly the rest
of its chain to go (`Inside`, `Outside`). Which hooks find the arguments of a call is
arbitrary and fixed with the call; the events so far are those of the hooks passed
that found them, which is what `Observation` needs at the end.

The same module proves `FindExact` for any number of objects, addresses, classes
and names and any depth of the class tree. What the search decides upon was read
at three different times. `SearchInv` says why the result is right nevertheless:
slots in use hold live objects and no object is in two of them (`Housed`); what
was found, and the object in hand, have lived during the search (`Recorded`,
`Reading`); and an object that matches and was there all the time is found, or
still ahead in a slot the walk will visit, or the one in hand (`Seeing`), so that
none is missing at the end (`Ended`). The theorem is about `SearchSpec`, the search
with the game's changes. In `GameCalls` every step is one of these or leaves
`searchVars` alone, so what holds of `SearchSpec` holds there.

`ControlSocketProofs` proves `DoneAsTold` for any servers, clients and backlog, and
`Reachable` for servers one after the other (`OneAtATime`; without it the property
is false, see above). A connection is in one place (`OnePlace`): one accept queue
or one server's `handle_client`, and once served it does not come back, so the
handler runs once and before the response (`Told`, `Waiting`, `Served`). For
`Reachable`, at most one server is between the start of `start()` and the end of
`stop()` and it alone touches the path (`Succession`).

`LauncherProofs` proves `Loadable` and `ClientWhole` for any number of launchers,
side by side too, and `QuarantineExact` and `QuarantineSticks` for launchers one
at a time, for any limit, window, clock, number of launches and of kills. The
inductive invariant of the latter states what the file is a function of (`Exact`):
its crashes of a profile are the last run of crashes in the profile's history cut
to the window of the last one, and its flag is whether some crash earned it; `Copy`
relates the memory of the launcher that is running to the file, `Fresh` and the
`Dated` parts keep crashes of different launches apart and in time order. That the
code prunes at load and again at the crash, and yet counts what the whole history
says, is the content of the proof.

`ChatCommandsProofs` proves `EveryDeclaredRoutes`, `AdminOnly`, `ActorIsIssuer` and
`ArgumentsArrive` for every directory, any players, texts and limits.
`AdminOnly` rests on `Session`: a player has one controller with a player
state, and its admin flag is current, so `resolve_player_auth`, which skips the
others, cannot meet a stale one first. `EveryDeclaredRoutes` needs that
`register_command` never replaces an entry (`Registry`), `ActorIsIssuer` that
`current_` and `current_event_` are those of the callback that runs (`Callback`).

`ArgumentsArrive` is about two loops that must undo each other, and needs what
they compute for lines of every length. The library's induction theorems cannot
be instantiated here, so `NumberInduction` and `SequenceInduction` state induction
for *sets* (a set of numbers that contains 0 and successors, a set of sequences
that contains the empty one and extensions), proved from the least counterexample.
With them `LoopEmpty` and `LoopAppend` say what a loop does for no element and
for one more. Then come the parser's steps, byte by byte (`PushByte`, `QuoteByte`,
`SpaceByte`, `EscapeBytes`, where `At` describes the parser's state), the bytes of
one argument between its quotes (`EscapedRead`), and the arguments of a line
(`LineRead`): after each the parser has failed or holds exactly the tokens so far,
so a line that is accepted has exactly those (`ParseLine`). The invariant carries
this from `Invoke` through the queue to the callback (`Arrives`), and needs that
entries are filed under their own name (`Filed`).

Otherwise the assumptions are those of the modules' `ASSUME`s: distinct model
values, positive limits, and command specifications and requests of the right
shape.

Only model-checked: `CalleeSees` and `HookSeesLowBytes`, the codec of `Parms` and `Utf`,
whose operators recurse over trees of values and go through memory cells, with
`RECURSIVE` declarations that the prover does not accept; every liveness property,
as the prover has no support for fairness and ENABLED. The bounds on launches, calls, edits and inputs that
make the runs finite are constants, so the theorems hold for every bound.

## 6. Not modelled, and the plan

Left out for good: JSON, SHA-256, logging, the reverse-engineering tools, the
Frida backend and the choice of a backend (an alternative for development), the
search for slots by memory scan (`reflection_resolver.cpp`, `object_walk.cpp`:
raw reads of the game's memory), `generic_call.cpp` and `handle_table.hpp` (used
by their tests only), `get_property` and `datatable_rows` (reads of one object with
the decoder `Parms` has), the Lua interpreter's memory and instruction budgets,
`remove` and `resolve` of the player directory (no hook of this build calls them),
`stop()` while `start()` still runs.

What a continuation would take up:

1. `Launcher`: what can be said of the quarantine when launchers run side by side;
2. `HookSlots`: an abstract specification of an observed call (the game's function
   runs once, every hook on the slot sees it once) that the slots implement;
3. `Utf` as recursive functions, and the round trip of a text proved with the
   inductions of `ChatCommandsProofs`.
