---------------------------- MODULE ProfileGate -----------------------------
(***************************************************************************)
(* The gate between palmod and a game build: the launcher (palmod-run with *)
(* the palmod-profile crate) chooses the profile for the server's file,    *)
(* seals it into a memfd and starts the server with the library preloaded; *)
(* in every process that loads the library, Runtime::start reads the       *)
(* profile again and compares it with the process before it binds the      *)
(* control socket, loads plugins and installs hooks.                       *)
(*                                                                         *)
(* Meanwhile the game may be updated: the file at the server's path is     *)
(* replaced (a running executable cannot be written), by any build, older  *)
(* ones included.  Child processes of the server, such as the crash        *)
(* reporter, inherit the preload, the environment and the memfd.           *)
(*                                                                         *)
(* A build stands for its SHA-256.  Numbers in a profile are told apart as *)
(* absent, zero, small (at most 0x1000) and large.  The quarantine, which  *)
(* may turn a verified profile into a vanilla start, is in Launcher, the   *)
(* rest of the runtime's life in Runtime.                                  *)
(***************************************************************************)
EXTENDS Naturals, Sequences, FiniteSets

CONSTANTS
  ServerBuilds,  \* versions of PalServer-Linux-Shipping
  HelperBuild,   \* the program of the child processes
  Elf,           \* per build: buildId, size, type, base and segments
  Directories,   \* contents of the profile directory: sets of profiles
  MaxPattern,    \* 256: bytes of an anchor's pattern
  RequireProfile,\* --require-profile
  MaxUpdates,    \* bound: replacements of the server's file
  MaxProcs       \* bound: processes

Wild == "any"    \* a wildcard of a byte pattern

ASSUME GateAssumptions ==
  /\ HelperBuild \notin ServerBuilds
  /\ DOMAIN Elf = ServerBuilds \cup {HelperBuild}
  /\ MaxUpdates \in Nat /\ MaxProcs \in Nat /\ RequireProfile \in BOOLEAN

VARIABLES
  exe,        \* the build at the server's path
  directory,  \* the profiles, as read_toml finds them
  launcher,   \* palmod-run: its step, the fingerprint and the profile
  procs,      \* the processes, in the order they were started
  updates

gateVars == <<exe, directory, launcher, procs, updates>>

-----------------------------------------------------------------------------
(* The facts of a profile.                                                 *)

NonZero == {"small", "large"}
Small == {"zero", "small"}
Optional(range) == {"absent"} \cup range

Unlimited == Optional(Small \cup NonZero)

(* A fact of the [reflection] table, or "absent". *)
Fact(reflection, f) == IF f \in DOMAIN reflection THEN reflection[f] ELSE "absent"

(* ReflectionProfile::validate, which leaves most offsets as they are. *)
LauncherRange ==
  [ufunction_func_offset |-> {"small"},
   ufunction_vtable_va |-> NonZero,
   fframe_locals_offset |-> Optional({"small"}),
   fname_pool_blocks_va |-> Optional(NonZero),
   process_event_vtable_slot |-> Unlimited,
   guobjectarray_objects_va |-> Optional(NonZero),
   super_struct_offset |-> Unlimited,
   gengine_global_va |-> Optional(NonZero),
   tick_vtable_slot |-> Optional(Small),
   broadcast_thunk_rva |-> Optional(NonZero),
   chat_fframe_locals_offset |-> Optional(Small),
   message_sender_offset |-> Unlimited,
   message_text_offset |-> Optional(Small),
   badmin_offset |-> Optional(NonZero),
   player_state_offset |-> Unlimited,
   player_uid_offset |-> Unlimited,
   sender_player_uid_offset |-> Unlimited]

(* Mutant of LoaderRange: what the launcher has let through is good enough. *)
LoaderRangeAsLauncher == LauncherRange

(* The reflection part of BuildProfile::parse_json. *)
LoaderRange ==
  [ufunction_func_offset |-> {"small"},
   ufunction_vtable_va |-> NonZero,
   fframe_locals_offset |-> Optional(Small),
   fname_pool_blocks_va |-> Optional(NonZero),
   process_event_vtable_slot |-> Optional(Small),
   guobjectarray_objects_va |-> Optional(NonZero),
   super_struct_offset |-> Optional(Small),
   gengine_global_va |-> Optional(NonZero),
   tick_vtable_slot |-> Optional(Small),
   broadcast_thunk_rva |-> Optional(NonZero),
   chat_fframe_locals_offset |-> Unlimited,
   message_sender_offset |-> Unlimited,
   message_text_offset |-> Unlimited,
   badmin_offset |-> Optional(NonZero),
   player_state_offset |-> Unlimited,
   player_uid_offset |-> Unlimited,
   sender_player_uid_offset |-> Unlimited]

(* The tables engine_tick, chat and admin: all their facts or none. *)
Tables ==
  {{"gengine_global_va", "tick_vtable_slot"},
   {"broadcast_thunk_rva", "chat_fframe_locals_offset", "message_sender_offset",
    "message_text_offset"},
   {"badmin_offset", "player_state_offset", "player_uid_offset", "sender_player_uid_offset"}}

(* A profile may be without the [reflection] table; no hook is possible    *)
(* then.                                                                   *)
InRange(reflection, range) ==
  \/ DOMAIN reflection = {}
  \/ /\ \A f \in DOMAIN range : Fact(reflection, f) \in range[f]
     /\ \A table \in Tables : table \subseteq DOMAIN reflection
                              \/ table \cap DOMAIN reflection = {}

(* BuildProfile::validate (Rust): textual says whether its schema, names,  *)
(* identifiers and hex strings are well formed; unknown fields are denied. *)
LauncherAccepts(pr) ==
  /\ pr.textual
  /\ pr.elf.type \in {"ET_EXEC", "ET_DYN"}
  /\ \A a \in pr.anchors : Len(a.pattern) \in 1 .. MaxPattern
  /\ pr.status = "validated" => pr.anchors # {}
  /\ DOMAIN pr.reflection \subseteq DOMAIN LauncherRange
  /\ InRange(pr.reflection, LauncherRange)

(* BuildProfile::parse_json (C++). *)
LoaderAccepts(pr) ==
  /\ pr.elf.type = "ET_EXEC"
  /\ pr.anchors # {}
  /\ InRange(pr.reflection, LoaderRange)

-----------------------------------------------------------------------------
(* Byte patterns against the segments of a build.                          *)

Matches(pattern, bytes, at) ==
  /\ at + Len(pattern) - 1 <= Len(bytes)
  /\ \A i \in DOMAIN pattern : pattern[i] \in {Wild, bytes[at + i - 1]}

(* An anchor's address is its rva from the image base of the profile. *)
At(pr, b, rva) ==
  {s \in Elf[b].segments : pr.elf.base + rva \in s.start .. s.start + Len(s.bytes) - 1}

MatchesHere(a, pr, s) == Matches(a.pattern, s.bytes, pr.elf.base + a.rva - s.start + 1)

(* verify_anchor_bytes on the file. *)
AnchorsVerified(pr, b) ==
  \A a \in pr.anchors :
    /\ \E s \in At(pr, b, a.rva) :
         MatchesHere(a, pr, s) /\ ("executable" \in a.validators => s.exec)
    /\ "unique" \in a.validators =>
         Cardinality(UNION {{<<s, i>> : i \in {j \in DOMAIN s.bytes : Matches(a.pattern, s.bytes, j)}} :
                              s \in Elf[b].segments}) = 1

(* Mutant of AnchorsLive: the rva is taken for the address. *)
AnchorsAtRva(pr, b) ==
  \A a \in pr.anchors : \E s \in Elf[b].segments :
    /\ a.rva \in s.start .. s.start + Len(s.bytes) - 1
    /\ Matches(a.pattern, s.bytes, a.rva - s.start + 1)

(* verify_anchors on the live image. *)
AnchorsLive(pr, b) == \A a \in pr.anchors : \E s \in At(pr, b, a.rva) : MatchesHere(a, pr, s)

(* fingerprint_bytes; a file that is not a 64-bit little-endian x86-64 ELF *)
(* with a build id has none.                                               *)
FingerprintOf(b) ==
  [sha256 |-> b, buildId |-> Elf[b].buildId, type |-> Elf[b].type, base |-> Elf[b].base,
   size |-> Elf[b].size]

-----------------------------------------------------------------------------
NoProfile == [textual |-> FALSE]
Unread == [size |-> 0, sha256 |-> NoProfile, buildId |-> NoProfile]

(* A new process: its image is the file at that moment.  kind is who       *)
(* started it; the memfd holds profile pr if there is one.                 *)
Started(kind, image, pr, env) ==
  [kind |-> kind, image |-> image, profile |-> pr, env |-> env, pc |-> "begin",
   deleted |-> FALSE, disturbed |-> FALSE, seen |-> Unread, acts |-> {}]

GateInit ==
  /\ exe \in ServerBuilds
  /\ directory \in Directories
  /\ launcher = [pc |-> "fingerprint", print |-> NoProfile, profile |-> NoProfile]
  /\ procs = <<>> /\ updates = 0

(* The file at the server's path is replaced. *)
Update(b) ==
  /\ updates < MaxUpdates /\ b # exe
  /\ exe' = b /\ updates' = updates + 1
  /\ procs' = [i \in DOMAIN procs |->
                 IF procs[i].image = HelperBuild THEN procs[i]
                 ELSE [procs[i] EXCEPT !.deleted = TRUE,
                                       !.disturbed = @ \/ procs[i].pc \in {"size", "sha256", "buildId"}]]
  /\ UNCHANGED <<directory, launcher>>

-----------------------------------------------------------------------------
(* palmod-run.                                                             *)

LauncherAt(pc) == launcher.pc = pc
Fingerprint ==
  /\ LauncherAt("fingerprint")
  /\ launcher' = [launcher EXCEPT !.pc = "select", !.print = FingerprintOf(exe)]
  /\ UNCHANGED <<exe, directory, procs, updates>>

(* select_profile, and the quarantine's decision about a verified one. *)
Select ==
  /\ LauncherAt("select")
  /\ LET found == {pr \in directory : pr.elf = launcher.print}
         Stop(pc) == launcher' = [launcher EXCEPT !.pc = pc]
     IN IF \E pr \in directory : ~LauncherAccepts(pr) THEN Stop("error")
        ELSE IF found = {} THEN Stop(IF RequireProfile THEN "error" ELSE "vanilla")
        ELSE IF \/ Cardinality(found) > 1
                \/ \E pr \in found : pr.status # "validated" THEN Stop("error")
        ELSE \E pr \in found :
               \/ launcher' = [launcher EXCEPT !.pc = "verify", !.profile = pr]
               \/ Stop("vanilla")
  /\ UNCHANGED <<exe, directory, procs, updates>>

(* The recheck immediately before the handoff. *)
Verify ==
  /\ LauncherAt("verify")
  /\ launcher' = [launcher EXCEPT !.pc =
                    IF AnchorsVerified(launcher.profile, exe) THEN "spawn" ELSE "error"]
  /\ UNCHANGED <<exe, directory, procs, updates>>

(* sealed_profile_memfd and the spawn with LD_PRELOAD and the environment. *)
Spawn ==
  /\ LauncherAt("spawn") /\ Len(procs) < MaxProcs
  /\ procs' = Append(procs, Started("launched", exe, launcher.profile, "full"))
  /\ launcher' = [launcher EXCEPT !.pc = "wait"]
  /\ UNCHANGED <<exe, directory, updates>>

(* The vanilla server has no library: nothing of palmod runs in it. *)
SpawnVanilla ==
  /\ LauncherAt("vanilla")
  /\ launcher' = [launcher EXCEPT !.pc = "wait"]
  /\ UNCHANGED <<exe, directory, procs, updates>>

(* The server starts a child; descriptors may have been closed for it. *)
StartHelper(i) ==
  /\ procs[i].kind = "launched" /\ Len(procs) < MaxProcs
  /\ \E pr \in {procs[i].profile, NoProfile} :
       procs' = Append(procs, Started("helper", HelperBuild, pr, "full"))
  /\ UNCHANGED <<exe, directory, launcher, updates>>

(* The operator preloads the library by hand: without the environment,     *)
(* with the forbidden PALMOD_PROFILE, or with PALMOD_DISABLE_AUTOLOAD.     *)
ManualStart ==
  /\ Len(procs) < MaxProcs
  /\ \E env \in {"bare", "bypass", "disabled"} :
       procs' = Append(procs, Started("manual", exe, NoProfile, env))
  /\ UNCHANGED <<exe, directory, launcher, updates>>

-----------------------------------------------------------------------------
(* Runtime::start in process i.                                            *)

Is(i, pc) == procs[i].pc = pc
Become(i, pc) == procs' = [procs EXCEPT ![i].pc = pc]
Steps == UNCHANGED <<exe, directory, launcher, updates>>

(* The bootstrap, the environment, read_sealed_profile and parse_json. *)
Begin(i) ==
  /\ Is(i, "begin")
  /\ Become(i, IF procs[i].env = "disabled" THEN "off"
               ELSE IF procs[i].env = "full" /\ procs[i].profile # NoProfile
                       /\ LoaderAccepts(procs[i].profile) THEN "readlink"
               ELSE "refused")
  /\ Steps

(* fingerprint_self: the path of the executable, which names no file once  *)
(* the executable was replaced, and then its size, digest and build id,    *)
(* each read from the file that is there.                                  *)
Readlink(i) ==
  /\ Is(i, "readlink")
  /\ Become(i, IF procs[i].deleted THEN "refused" ELSE "size")
  /\ Steps

FileOf(i) == IF procs[i].image = HelperBuild THEN HelperBuild ELSE exe
ReadFile(i, field, next) ==
  /\ Is(i, field)
  /\ procs' = [procs EXCEPT ![i].pc = next, ![i].seen[field] = FingerprintOf(FileOf(i))[field]]
  /\ Steps

ReadSize(i) == ReadFile(i, "size", "sha256")
ReadSha(i) == ReadFile(i, "sha256", "buildId")
ReadBuildId(i) == ReadFile(i, "buildId", "match")

(* Mutant of ExactlyMatches: the digest is left to the launcher. *)
MatchesIds(pr, seen) ==
  pr.status = "validated" /\ pr.elf.buildId = seen.buildId /\ pr.elf.size = seen.size

ExactlyMatches(pr, seen) ==
  pr.status = "validated" /\ \A f \in DOMAIN seen : pr.elf[f] = seen[f]

Match(i) ==
  /\ Is(i, "match")
  /\ Become(i, IF /\ ExactlyMatches(procs[i].profile, procs[i].seen)
                  /\ AnchorsLive(procs[i].profile, procs[i].image)
               THEN "control" ELSE "refused")
  /\ Steps

(* The control server, the plugins and the hooks, each of which may fail;  *)
(* failing hooks stop the plugins, the control socket stays.               *)
Acquire(i, pc, what, next, lost) ==
  /\ Is(i, pc)
  /\ \/ procs' = [procs EXCEPT ![i].pc = next, ![i].acts = @ \cup {what}]
     \/ procs' = [procs EXCEPT ![i].pc = "failed", ![i].acts = @ \ lost]
  /\ Steps

BindControl(i) == Acquire(i, "control", "control", "plugins", {})
LoadPlugins(i) == Acquire(i, "plugins", "plugins", "hooks", {})
InstallHooks(i) == Acquire(i, "hooks", "hooks", "running", {"plugins"})

LauncherStep == Fingerprint \/ Select \/ Verify \/ Spawn \/ SpawnVanilla
Process(i) ==
  \/ Begin(i) \/ Readlink(i) \/ ReadSize(i) \/ ReadSha(i) \/ ReadBuildId(i) \/ Match(i)
  \/ BindControl(i) \/ LoadPlugins(i) \/ InstallHooks(i)

GateNext ==
  \/ \E b \in ServerBuilds : Update(b)
  \/ LauncherStep \/ ManualStart
  \/ \E i \in DOMAIN procs : StartHelper(i) \/ Process(i)

GateSpec ==
  /\ GateInit /\ [][GateNext]_gateVars
  /\ \A i \in 1 .. MaxProcs : WF_gateVars(i \in DOMAIN procs /\ Process(i))

-----------------------------------------------------------------------------
(* Whatever a process does in the game's address space or on the control   *)
(* socket, it does as the build its profile was made for: never in a child *)
(* that inherited the preload and the memfd, nor after an update between   *)
(* the launcher's checks and the start.  Only a file replaced while the    *)
(* process reads its own fingerprint can mislead the gate, and then the    *)
(* live image still has the bytes of every anchor (Runtime::start).        *)
GateSound ==
  \A i \in DOMAIN procs : procs[i].acts # {} =>
    /\ procs[i].profile.status = "validated"
    /\ AnchorsLive(procs[i].profile, procs[i].image)
    /\ procs[i].image = procs[i].profile.elf.sha256 \/ procs[i].disturbed

(* When hooks are installed, seven offsets of the profile are small and    *)
(* the five addresses are not zero, whichever side saw to it: the launcher *)
(* does not look at the ProcessEvent slot and at SuperStruct, the loader   *)
(* not at two of the chat offsets (ReflectionProfile::validate,            *)
(* BuildProfile::parse_json).  Nobody limits the offsets of the admin      *)
(* table and message_sender_offset, and nothing is said of them.           *)
LimitedOffsets ==
  {"ufunction_func_offset", "fframe_locals_offset", "process_event_vtable_slot",
   "super_struct_offset", "tick_vtable_slot", "chat_fframe_locals_offset",
   "message_text_offset"}
Addresses ==
  {"ufunction_vtable_va", "fname_pool_blocks_va", "guobjectarray_objects_va",
   "gengine_global_va", "broadcast_thunk_rva"}
OffsetsBounded ==
  \A i \in DOMAIN procs : "hooks" \in procs[i].acts =>
    /\ \A f \in LimitedOffsets : Fact(procs[i].profile.reflection, f) # "large"
    /\ \A f \in Addresses : Fact(procs[i].profile.reflection, f) # "zero"

(* A server that was started with a profile of its build, whose anchors    *)
(* the launcher would verify and whose facts are in the loader's ranges,   *)
(* gets through the gate unless its file is replaced meanwhile: the two    *)
(* fingerprints and the two checks of anchors agree.                       *)
Supported(i) ==
  /\ i \in DOMAIN procs /\ procs[i].kind = "launched" /\ ~procs[i].deleted
  /\ procs[i].image = procs[i].profile.elf.sha256
  /\ AnchorsVerified(procs[i].profile, procs[i].image)
  /\ LoaderAccepts(procs[i].profile)
Through(i) ==
  i \in DOMAIN procs /\ procs[i].pc \in {"plugins", "hooks", "running", "failed"}
SupportedRuns == \A i \in 1 .. MaxProcs : <>[]Supported(i) => <>Through(i)
=============================================================================
