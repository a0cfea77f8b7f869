------------------------------ MODULE Launcher ------------------------------
(***************************************************************************)
(* palmod-run: the launcher's crash quarantine (crates/palmod-run,         *)
(* src/main.rs) and the copy of steamclient.so it makes for the server.    *)
(*                                                                         *)
(* Every launch reads quarantine.json, decides whether the profile of this *)
(* server build may be injected, starts the server, waits for it, records  *)
(* how it ended and saves the file through a private temporary file and a  *)
(* rename.  The decision is taken from a copy read before the server       *)
(* starts, and the same copy is written back when it ends, hours later.    *)
(*                                                                         *)
(* A member of Pid is a process id: the temporary file is named after it,  *)
(* and a later launch may be given the id of an earlier one (always, where *)
(* the launcher is the first process of a container).  Kill is a SIGKILL,  *)
(* a signal that arrives before the handlers are installed, or a save that *)
(* fails halfway (a full disk).                                            *)
(*                                                                         *)
(* The depot's own steamclient.so does not change here; its copy is made   *)
(* once, in place, and never overwritten.                                  *)
(*                                                                         *)
(* The clock only moves forward.  The crash limit and the window are       *)
(* command-line options, the same for every launch here.                   *)
(***************************************************************************)
EXTENDS Integers, Sequences, FiniteSets

CONSTANTS
    Pid,          \* process ids of launchers
    Profile,      \* profile ids
    Unsupported,  \* select_profile found no exact profile for the server
    Absent,       \* the file does not exist
    Torn,         \* the file exists and is not complete
    Whole,        \* steamclient.so, when it has the depot's hash
    Limit,        \* --crash-limit
    Window,       \* --crash-window-seconds
    OneAtATime,   \* TRUE when no two launchers share the state directory
    MaxTime,      \* bound on the clock
    MaxLaunches,  \* bound on the number of launches
    MaxKills      \* bound on the number of launchers killed

ASSUME LauncherAssumption ==
    /\ Limit \in Nat \ {0}
    /\ Window \in Nat \ {0}
    /\ MaxTime \in Nat
    /\ MaxLaunches \in Nat
    /\ MaxKills \in Nat
    /\ OneAtATime \in BOOLEAN
    /\ Unsupported \notin Profile
    /\ Absent # Torn /\ Absent # Whole /\ Torn # Whole

VARIABLES
    now,       \* unix_seconds()
    file,      \* quarantine.json: a CrashRecord for every profile, or Torn
    client,    \* Pal/Binaries/Linux/steamclient.so: Absent, Torn or Whole
    tmp,       \* .quarantine-<pid>.tmp: Absent, Torn or the saved state
    mem,       \* QuarantineState in the memory of a launcher
    phase,     \* where run() is
    job,       \* what the launch is about: its profile, whether it injects...
    history,   \* for every profile, what its launches came to (history variable)
    unsaved,   \* some launch ended without saving (history variable)
    launches,  \* launches that have read quarantine.json so far
    kills      \* launchers killed so far

vars == <<now, file, client, tmp, mem, phase, job, history, unsaved, launches, kills>>

Time == 0..MaxTime

\* struct CrashRecord and its default; an absent entry is the default one.
\* The vector of time stamps is the set of its elements, each with the launch
\* that pushed it, which keeps equal stamps apart: nothing depends on their
\* order, and a launch pushes at most one.
Failure == [launch : 1..MaxLaunches, at : Time]
CrashRecord == [failures : SUBSET Failure, quarantined : BOOLEAN]
NoCrashes == [failures |-> {}, quarantined |-> FALSE]
QuarantineState == [Profile -> CrashRecord]
Empty == [p \in Profile |-> NoCrashes]

\* A file that is absent or not complete is no saved state.
ASSUME NoState == Absent \notin QuarantineState /\ Torn \notin QuarantineState

\* select_profile: the verified profile of this server build, if there is one.
Selection == Profile \cup {Unsupported}

\* What a save is for: the --clear-quarantine before a launch, or the end of
\* an injected server.
Event == {"clear", "good", "crash"}
Phases == {"idle", "copy", "copied", "ready", "running", "create", "write", "rename"}
Job == [profile : Selection, launch : 0..MaxLaunches, inject : BOOLEAN,
        planned : BOOLEAN, event : Event \cup {"none"}, at : Time]
NoJob == [profile |-> Unsupported, launch |-> 0, inject |-> FALSE, planned |-> FALSE,
          event |-> "none", at |-> 0]

\* What a launch came to.
Outcome == [event : Event, at : Time, launch : 1..MaxLaunches]

Init ==
    /\ now = 0
    /\ file = Empty
    /\ client \in {Absent, Whole}
    /\ tmp = [l \in Pid |-> Absent]
    /\ mem = [l \in Pid |-> Empty]
    /\ phase = [l \in Pid |-> "idle"]
    /\ job = [l \in Pid |-> NoJob]
    /\ history = [p \in Profile |-> <<>>]
    /\ unsaved = FALSE
    /\ launches = 0
    /\ kills = 0

Tick ==
    /\ now < MaxTime
    /\ now' = now + 1
    /\ UNCHANGED <<file, client, tmp, mem, phase, job, history, unsaved, launches, kills>>

\* The process ends, and its memory with it.
Exit(l) ==
    /\ phase' = [phase EXCEPT ![l] = "idle"]
    /\ job' = [job EXCEPT ![l] = NoJob]
    /\ mem' = [mem EXCEPT ![l] = Empty]

(***************************************************************************)
(* prune_failures: now.saturating_sub(window) is at least 0, as every      *)
(* timestamp is.                                                           *)
(***************************************************************************)
InWindowLoose(t, at) == t > at - Window /\ t <= at   \* mutant: > for >=

InWindow(t, at) == t >= at - Window /\ t <= at

PrunedWithFlag(record, at) ==                         \* mutant: expires the flag
    LET kept == {f \in record.failures : InWindow(f.at, at)}
    IN  [failures |-> kept, quarantined |-> record.quarantined /\ kept # {}]

Pruned(record, at) ==
    [record EXCEPT !.failures = {f \in @ : InWindow(f.at, at)}]

\* load_quarantine: an absent file is the default state, a file that does not
\* parse is an error.
Readable == file # Torn

\* record.quarantined_at_unix_seconds.is_some()
Quarantined(record) == record.quarantined

\* record.failures_unix_seconds.len() >= cli.crash_limit
TooMany(record) == Cardinality(record.failures) >= Limit

(***************************************************************************)
(* prepare_steamclient: an existing file must have the depot's hash; an    *)
(* absent one is created and filled.  A file that differs is refused, and  *)
(* nothing changes.                                                        *)
(***************************************************************************)
Starts(l) ==
    /\ phase[l] = "idle"
    /\ OneAtATime => \A k \in Pid : phase[k] = "idle"
    /\ launches < MaxLaunches

CopyCreate(l) ==
    /\ Starts(l)
    /\ client = Absent
    /\ client' = Torn
    /\ phase' = [phase EXCEPT ![l] = "copy"]
    /\ UNCHANGED <<now, file, tmp, mem, job, history, unsaved, launches, kills>>

CopyEnd(l) ==
    /\ phase[l] = "copy"
    /\ client' = Whole
    /\ phase' = [phase EXCEPT ![l] = "copied"]
    /\ UNCHANGED <<now, file, tmp, mem, job, history, unsaved, launches, kills>>

UsableIfThere(c) == c # Absent                        \* mutant: no hash

\* The hashes of the file and of the depot's are equal.
Usable(c) == c = Whole

(***************************************************************************)
(* run(), first part: select_profile, load_quarantine and the decision.    *)
(* A file that does not parse is an error: the launch is refused.          *)
(***************************************************************************)
Load(l, p, clear) ==
    /\ \/ Starts(l) /\ Usable(client)
       \/ phase[l] = "copied" /\ launches < MaxLaunches
    /\ Readable
    /\ launches' = launches + 1
    /\ LET record == IF clear THEN NoCrashes ELSE Pruned(file[p], now)
           loaded == IF p = Unsupported THEN file ELSE [file EXCEPT ![p] = record]
           save == clear /\ p # Unsupported
       IN  /\ mem' = [mem EXCEPT ![l] = loaded]
           /\ job' = [job EXCEPT ![l] =
                        [NoJob EXCEPT !.profile = p, !.launch = launches + 1,
                                      !.inject = p # Unsupported /\ ~Quarantined(record),
                                      !.event = IF save THEN "clear" ELSE "none",
                                      !.at = now]]
           /\ phase' = [phase EXCEPT ![l] = IF save THEN "create" ELSE "ready"]
    /\ UNCHANGED <<now, file, client, tmp, history, unsaved, kills>>

\* The server is spawned, with libpalmod.so preloaded or vanilla.
Spawn(l) ==
    /\ phase[l] = "ready"
    /\ phase' = [phase EXCEPT ![l] = "running"]
    /\ UNCHANGED <<now, file, client, tmp, mem, job, history, unsaved, launches, kills>>

\* The selection, an anchor, the library, the plugin directory or the spawn
\* fails: run() returns the error.
Refuse(l) ==
    /\ phase[l] \in {"copied", "ready"}
    /\ Exit(l)
    /\ UNCHANGED <<now, file, client, tmp, history, unsaved, launches, kills>>

\* SIGINT or SIGTERM is forwarded, and the stop is remembered as planned.
\* (A forwarded SIGHUP changes nothing in the launcher.)
PlannedSignal(l) ==
    /\ phase[l] = "running"
    /\ ~job[l].planned
    /\ job' = [job EXCEPT ![l].planned = TRUE]
    /\ UNCHANGED <<now, file, client, tmp, mem, phase, history, unsaved, launches, kills>>

(***************************************************************************)
(* wait_with_signal_forwarding returns: the outcome is recorded in memory. *)
(***************************************************************************)
ServerExit(l, success) ==
    /\ phase[l] = "running"
    /\ IF job[l].inject
       THEN LET p == job[l].profile
                old == mem[l][p]
                good == success \/ job[l].planned
                failure == [launch |-> job[l].launch, at |-> now]
                crashed == Pruned([old EXCEPT !.failures = @ \cup {failure}], now)
            IN  /\ mem' = [mem EXCEPT ![l][p] =
                      IF good THEN [old EXCEPT !.failures = {}]
                      ELSE [crashed EXCEPT !.quarantined = @ \/ TooMany(crashed)]]
                /\ job' = [job EXCEPT ![l].event = IF good THEN "good" ELSE "crash",
                                      ![l].at = now]
                /\ phase' = [phase EXCEPT ![l] = "create"]
       ELSE Exit(l)
    /\ UNCHANGED <<now, file, client, tmp, history, unsaved, launches, kills>>

(***************************************************************************)
(* save_quarantine: create_new the temporary file, write it, rename it.    *)
(***************************************************************************)
SaveInPlace(l) ==                                     \* mutant: no temporary
    /\ phase[l] = "create"
    /\ tmp[l] = Absent
    /\ file' = Torn
    /\ tmp' = [tmp EXCEPT ![l] = Torn]
    /\ phase' = [phase EXCEPT ![l] = "write"]
    /\ UNCHANGED <<now, client, mem, job, history, unsaved, launches, kills>>

SaveCreate(l) ==
    /\ phase[l] = "create"
    /\ tmp[l] = Absent
    /\ tmp' = [tmp EXCEPT ![l] = Torn]
    /\ phase' = [phase EXCEPT ![l] = "write"]
    /\ UNCHANGED <<now, file, client, mem, job, history, unsaved, launches, kills>>

\* What a launch came to, as its profile's history has it.
Remember(l) ==
    history' = [history EXCEPT ![job[l].profile] =
                  Append(@, [event |-> job[l].event, at |-> job[l].at, launch |-> job[l].launch])]

\* create_new finds the temporary file of a killed launcher that had the
\* same process id: run() returns the error.  A launch that was only to
\* clear the quarantine did not happen; a server that ended did.
SaveFails(l) ==
    /\ phase[l] = "create"
    /\ tmp[l] # Absent
    /\ Exit(l)
    /\ IF job[l].event = "clear"
       THEN UNCHANGED <<history, unsaved>>
       ELSE Remember(l) /\ unsaved' = TRUE
    /\ UNCHANGED <<now, file, client, tmp, launches, kills>>

\* write_all and sync_all
SaveWrite(l) ==
    /\ phase[l] = "write"
    /\ tmp' = [tmp EXCEPT ![l] = mem[l]]
    /\ phase' = [phase EXCEPT ![l] = "rename"]
    /\ UNCHANGED <<now, file, client, mem, job, history, unsaved, launches, kills>>

SaveRename(l) ==
    /\ phase[l] = "rename"
    /\ file' = tmp[l]
    /\ tmp' = [tmp EXCEPT ![l] = Absent]
    /\ Remember(l)
    /\ IF job[l].event = "clear"
       THEN /\ phase' = [phase EXCEPT ![l] = "ready"]
            /\ job' = [job EXCEPT ![l].event = "none"]
            /\ UNCHANGED mem
       ELSE Exit(l)
    /\ UNCHANGED <<now, client, unsaved, launches, kills>>

\* The launcher dies, or a write, the sync or the rename fails and run()
\* returns the error: what was written so far stays, and nothing is recorded.
Kill(l) ==
    /\ phase[l] # "idle"
    /\ kills < MaxKills
    /\ kills' = kills + 1
    /\ Exit(l)
    /\ UNCHANGED <<now, file, client, tmp, history, unsaved, launches>>

Next ==
    \/ Tick
    \/ \E l \in Pid : CopyCreate(l)
    \/ \E l \in Pid : CopyEnd(l)
    \/ \E l \in Pid, p \in Selection, clear \in BOOLEAN : Load(l, p, clear)
    \/ \E l \in Pid : Spawn(l)
    \/ \E l \in Pid : Refuse(l)
    \/ \E l \in Pid : PlannedSignal(l)
    \/ \E l \in Pid, success \in BOOLEAN : ServerExit(l, success)
    \/ \E l \in Pid : SaveCreate(l)
    \/ \E l \in Pid : SaveFails(l)
    \/ \E l \in Pid : SaveWrite(l)
    \/ \E l \in Pid : SaveRename(l)
    \/ \E l \in Pid : Kill(l)

Spec == Init /\ [][Next]_vars

-----------------------------------------------------------------------------
(***************************************************************************)
(* Properties.                                                             *)
(***************************************************************************)

\* Types of the files, the memories and the launches.
TypeOK ==
    /\ now \in Time
    /\ file \in QuarantineState \cup {Torn}
    /\ client \in {Absent, Torn, Whole}
    /\ tmp \in [Pid -> QuarantineState \cup {Absent, Torn}]
    /\ mem \in [Pid -> QuarantineState]
    /\ phase \in [Pid -> Phases]
    /\ job \in [Pid -> Job]
    /\ history \in [Profile -> Seq(Outcome)]
    /\ unsaved \in BOOLEAN
    /\ launches \in 0..MaxLaunches
    /\ kills \in 0..MaxKills

\* A launcher killed at any point of save_quarantine leaves a quarantine.json
\* that the next launch can parse: the rename puts a complete file in place.
Loadable == file # Torn

\* What "--crash-limit failures within --crash-window-seconds" means, said of
\* the whole history instead of the pruned list the code keeps: some crash
\* ended a run of crashes with no good exit between them, Limit of which are
\* within Window of it, and the quarantine was not cleared since.
Earned(h) ==
    \E j \in DOMAIN h :
        /\ \A i \in j + 1..Len(h) : h[i].event # "clear"
        /\ Cardinality({i \in 1..j : /\ h[j].at - h[i].at <= Window
                                     /\ \A k \in i..j : h[k].event = "crash"}) >= Limit

\* With every outcome saved, quarantine.json quarantines exactly the profiles
\* whose history earned it: pruning at load and at exit, saving the records
\* of the other profiles along, and launchers killed on the way neither lose
\* a crash that counts nor count one that does not.
QuarantineExact ==
    (OneAtATime /\ ~unsaved /\ file # Torn) =>
        \A p \in Profile : file[p].quarantined = Earned(history[p])

\* No server is started, nor runs, beside a steamclient.so that is not whole,
\* although it is copied in place and a launcher may be killed meanwhile
\* (prepare_steamclient; a partial copy is refused from then on).
ClientWhole ==
    \A l \in Pid : phase[l] \in {"ready", "running"} => client = Whole

\* A quarantine in the file ends only by the save of a launch that was given
\* --clear-quarantine for that profile.
QuarantineSticks ==
    [][\A p \in Profile :
          (file # Torn /\ file'# Torn /\ file[p].quarantined /\ ~file'[p].quarantined) =>
              \E l \in Pid : job[l].profile = p /\ job[l].event = "clear"]_vars

\* Reaching the crash limit within the window quarantines the profile: every
\* server crash a launcher lived to see counts (security.md, Crash
\* quarantine).  A temporary file left by a killed launcher breaks it.
CrashesCount ==
    OneAtATime => \A p \in Profile :
        (file # Torn /\ Earned(history[p])) => file[p].quarantined
=============================================================================
