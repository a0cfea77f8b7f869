--------------------------- MODULE LauncherProofs ---------------------------
(***************************************************************************)
(* Loadable and ClientWhole of Launcher for any number of launchers,       *)
(* profiles, launches and kills, also for launchers that run side by side; *)
(* QuarantineSticks and QuarantineExact for launchers one at a time.       *)
(*                                                                         *)
(* The first two follow one launcher through its phases.  For the others   *)
(* the copy that a launcher holds while its server runs is still what the  *)
(* file says, pruned; and what the file says of a profile is a function of *)
(* the profile's whole history: the crashes of the last run of crashes     *)
(* that are within the window of the last one, and whether some crash      *)
(* earned the quarantine.                                                  *)
(***************************************************************************)
EXTENDS Launcher, FiniteSetTheorems, TLAPS

Saving == {"create", "write", "rename"}
Started == {"ready", "running"} \cup Saving

(* A launcher in its phase. *)
InPhase(l) ==
  /\ phase[l] \in Started \cup {"copied"} => client = Whole
  /\ phase[l] = "copy" => client # Absent
  /\ phase[l] \in Started => job[l].launch \in 1..launches /\ job[l].at <= now
  /\ phase[l] \in {"ready", "running"} => job[l].event = "none"
  /\ phase[l] \in {"ready", "running"} /\ job[l].inject => job[l].profile \in Profile
  /\ phase[l] \in Saving => job[l].profile \in Profile /\ job[l].event \in Event
  /\ phase[l] = "rename" => tmp[l] = mem[l]

Progress == TypeOK /\ Loadable /\ \A l \in Pid : InPhase(l)

-----------------------------------------------------------------------------
(* Launchers one at a time. *)
Alone == \A k, l \in Pid : phase[k] # "idle" /\ phase[l] # "idle" => k = l

(* Nothing recorded is later than the clock, and no two crashes are of one *)
(* launch.                                                                 *)
FilesDated == \A p \in Profile : \A f \in file[p].failures : f.at <= now

HistoryDated ==
  \A p \in Profile :
    /\ \A i \in DOMAIN history[p] : history[p][i].at <= now /\ history[p][i].launch <= launches
    /\ \A i, j \in DOMAIN history[p] :
         (/\ history[p][i].event = "crash" /\ history[p][j].event = "crash"
          /\ history[p][i].launch = history[p][j].launch) => i = j

(* Nor later than the launch that runs or saves. *)
Fresh(l, p) ==
  /\ phase[l] \in Started => \A i \in DOMAIN history[p] :
       history[p][i].event = "crash" => history[p][i].launch # job[l].launch
  /\ phase[l] \in {"ready", "running"} /\ job[l].profile = p =>
       \A f \in file[p].failures : f.at <= job[l].at
  /\ phase[l] \in Saving /\ job[l].profile = p =>
       \A i \in DOMAIN history[p] : history[p][i].at <= job[l].at

Pushed(l) == [launch |-> job[l].launch, at |-> job[l].at]
Kept(failures, at) == {f \in failures : InWindow(f.at, at)}

(* What a launcher has in memory, compared with the file. *)
Copy(l, p) ==
  phase[l] \in Started =>
    /\ job[l].profile # p => mem[l][p] = file[p]
    /\ job[l].profile = p /\ job[l].event # "clear" =>
         (file[p].quarantined => mem[l][p].quarantined)
    /\ job[l].profile = p /\ job[l].event = "none" =>
         /\ mem[l][p].failures = Kept(file[p].failures, job[l].at)
         /\ mem[l][p].quarantined => file[p].quarantined
    /\ job[l].profile = p /\ job[l].event = "clear" => mem[l][p] = NoCrashes
    /\ job[l].profile = p /\ job[l].event = "good" =>
         /\ mem[l][p].failures = {}
         /\ mem[l][p].quarantined => file[p].quarantined
    /\ job[l].profile = p /\ job[l].event = "crash" =>
         /\ mem[l][p].failures = Kept(file[p].failures \cup {Pushed(l)}, job[l].at)
         /\ mem[l][p].quarantined =>
              file[p].quarantined \/ Cardinality(mem[l][p].failures) >= Limit
         /\ Cardinality(mem[l][p].failures) >= Limit => mem[l][p].quarantined

Current == \A l \in Pid, p \in Profile : Fresh(l, p) /\ Copy(l, p)

(* The crashes that count when the one at j is recorded. *)
Span(h, j) == {i \in 1..j : h[j].at - h[i].at <= Window /\ \A k \in i..j : h[k].event = "crash"}
FailureAt(h, i) == [launch |-> h[i].launch, at |-> h[i].at]
Recent(h) == {FailureAt(h, i) : i \in Span(h, Len(h))}

Exact == ~unsaved => \A p \in Profile : /\ file[p].failures = Recent(history[p])
                                        /\ file[p].quarantined = Earned(history[p])

OneInv == Progress /\ Alone /\ FilesDated /\ HistoryDated /\ Current /\ Exact

-----------------------------------------------------------------------------
(* The values the actions make.                                            *)
LEMMA Defaults ==
  /\ NoCrashes \in CrashRecord /\ NoCrashes.failures = {} /\ NoCrashes.quarantined = FALSE
  /\ Empty \in QuarantineState /\ NoJob \in Job /\ 0 \in Time
<1>1. 0 \in Time /\ 0 \in 0..MaxLaunches
  BY LauncherAssumption DEF Time
<1>2. NoCrashes \in CrashRecord /\ NoCrashes.failures = {} /\ NoCrashes.quarantined = FALSE
  BY DEF NoCrashes, CrashRecord
<1>3. Empty \in QuarantineState
  BY <1>2 DEF Empty, QuarantineState
<1>4. NoJob \in Job
  BY <1>1 DEF NoJob, Job, Selection
<1> QED
  BY <1>1, <1>2, <1>3, <1>4

LEMMA PrunedIs ==
  ASSUME NEW r \in CrashRecord, NEW t
  PROVE  /\ Pruned(r, t) \in CrashRecord
         /\ Pruned(r, t).failures = Kept(r.failures, t)
         /\ Pruned(r, t).quarantined = r.quarantined
<1>1. r.failures \subseteq Failure /\ Kept(r.failures, t) \subseteq r.failures
  BY DEF CrashRecord, Kept
<1>2. Pruned(r, t) = [r EXCEPT !.failures = Kept(r.failures, t)]
  BY DEF Pruned, Kept
<1> QED
  BY <1>1, <1>2 DEF CrashRecord

(* The process ends. *)
LEMMA ExitIs ==
  ASSUME TypeOK, NEW l \in Pid, Exit(l)
  PROVE  /\ phase' \in [Pid -> Phases] /\ job' \in [Pid -> Job] /\ mem' \in [Pid -> QuarantineState]
         /\ phase'[l] = "idle"
         /\ \A k \in Pid : k # l => phase'[k] = phase[k] /\ job'[k] = job[k] /\ mem'[k] = mem[k]
<1>1. /\ phase \in [Pid -> Phases] /\ job \in [Pid -> Job] /\ mem \in [Pid -> QuarantineState]
      /\ "idle" \in Phases
  BY DEF TypeOK, Phases
<1>2. /\ phase' = [phase EXCEPT ![l] = "idle"] /\ job' = [job EXCEPT ![l] = NoJob]
      /\ mem' = [mem EXCEPT ![l] = Empty]
  BY DEF Exit
<1> QED
  BY <1>1, <1>2, Defaults

(* A step of launcher l leaves the others in their phases. *)
LEMMA OthersKeep ==
  ASSUME Progress, NEW l \in Pid,
         \A k \in Pid : k # l => /\ phase'[k] = phase[k] /\ job'[k] = job[k]
                                 /\ mem'[k] = mem[k] /\ tmp'[k] = tmp[k],
         client = Whole => client' = Whole,
         client # Absent => client' # Absent,
         launches' \in {launches, launches + 1}, now' = now
  PROVE  \A k \in Pid : k # l => InPhase(k)'
<1> SUFFICES ASSUME NEW k \in Pid, k # l PROVE InPhase(k)'
  OBVIOUS
<1>1. InPhase(k) /\ launches \in Nat
  BY LauncherAssumption DEF Progress, TypeOK
<1>2. job[k].launch \in 1..launches => job[k].launch \in 1..launches'
  BY <1>1
<1> QED
  BY <1>1, <1>2 DEF InPhase

LEMMA ProgressInit == Init => Progress
<1> SUFFICES ASSUME Init PROVE Progress
  OBVIOUS
<1>1. /\ now \in Time /\ file \in QuarantineState /\ file # Torn
      /\ client \in {Absent, Torn, Whole}
  BY Defaults, NoState DEF Init
<1>2. /\ tmp \in [Pid -> QuarantineState \cup {Absent, Torn}] /\ mem \in [Pid -> QuarantineState]
      /\ phase \in [Pid -> Phases] /\ job \in [Pid -> Job]
      /\ history \in [Profile -> Seq(Outcome)]
  BY Defaults DEF Init, Phases
<1>3. unsaved \in BOOLEAN
  BY DEF Init
<1>4. launches \in 0..MaxLaunches /\ kills \in 0..MaxKills
  BY LauncherAssumption DEF Init
<1>5. \A l \in Pid : phase[l] = "idle"
  BY DEF Init
<1>6. \A l \in Pid : InPhase(l)
  BY <1>5 DEF InPhase, Started, Saving
<1> QED
  BY <1>1, <1>2, <1>3, <1>4, <1>6 DEF Progress, TypeOK, Loadable

LEMMA TickProgress == ASSUME Progress, Tick PROVE Progress'
<1>1. now \in Nat /\ now' = now + 1 /\ now' \in Time /\ MaxTime \in Nat
  BY LauncherAssumption DEF Progress, TypeOK, Tick, Time
<1>2. UNCHANGED <<file, client, tmp, mem, phase, job, history, unsaved, launches, kills>>
  BY DEF Tick
<1>3. TypeOK' /\ Loadable'
  BY <1>1, <1>2 DEF Progress, TypeOK, Loadable
<1>4. ASSUME NEW l \in Pid PROVE InPhase(l)'
  <2>1. InPhase(l) /\ job[l].at \in Nat
    BY LauncherAssumption DEF Progress, TypeOK, Job, Time
  <2>2. job[l].at <= now => job[l].at <= now'
    BY <1>1, <2>1
  <2> QED
    BY <1>2, <2>1, <2>2 DEF InPhase
<1> QED
  BY <1>3, <1>4 DEF Progress

(* The steps that only move to another phase, and may change the client or *)
(* plan the stop.                                                          *)
LEMMA MoveProgress ==
  ASSUME Progress, NEW l \in Pid, CopyCreate(l) \/ CopyEnd(l) \/ Spawn(l) \/ PlannedSignal(l)
  PROVE  Progress'
<1>1. /\ phase \in [Pid -> Phases] /\ job \in [Pid -> Job] /\ job[l] \in Job /\ InPhase(l) /\ TypeOK
  BY DEF Progress, TypeOK
<1>2. UNCHANGED <<now, file, tmp, mem, history, unsaved, launches, kills>>
  BY DEF CopyCreate, CopyEnd, Spawn, PlannedSignal
<1>3. Loadable'
  BY <1>2 DEF Progress, Loadable
<1>4. CASE PlannedSignal(l)
  <2>1. /\ phase' = phase /\ client' = client
        /\ job' = [job EXCEPT ![l] = [job[l] EXCEPT !.planned = TRUE]]
    BY <1>4 DEF PlannedSignal
  <2> DEFINE j == [job[l] EXCEPT !.planned = TRUE]
  <2>2. /\ j \in Job /\ j.launch = job[l].launch /\ j.at = job[l].at /\ j.event = job[l].event
        /\ j.inject = job[l].inject /\ j.profile = job[l].profile
    BY <1>1 DEF Job
  <2>3. job' = [job EXCEPT ![l] = j]
    BY <2>1
  <2> HIDE DEF j
  <2>4. job' \in [Pid -> Job] /\ job'[l] = j /\ \A k \in Pid : k # l => job'[k] = job[k]
    BY <1>1, <2>2, <2>3
  <2>5. TypeOK'
    BY <1>1, <1>2, <2>1, <2>4 DEF TypeOK
  <2>6. InPhase(l)'
    BY <1>1, <1>2, <2>1, <2>2, <2>4 DEF InPhase
  <2>7. \A k \in Pid : k # l => InPhase(k)'
    BY <1>2, <2>1, <2>4, OthersKeep
  <2> QED
    BY <1>3, <2>5, <2>6, <2>7 DEF Progress
<1>5. CASE ~PlannedSignal(l)
  <2>1. PICK ph \in {"copy", "copied", "running"} :
          /\ phase' = [phase EXCEPT ![l] = ph] /\ job' = job
          /\ ph = "copy" => client' = Torn /\ client = Absent
          /\ ph = "copied" => client' = Whole
          /\ ph = "running" => client' = client /\ phase[l] = "ready"
    BY <1>5 DEF CopyCreate, CopyEnd, Spawn
  <2>2. phase' \in [Pid -> Phases] /\ phase'[l] = ph /\ \A k \in Pid : k # l => phase'[k] = phase[k]
    BY <1>1, <2>1 DEF Phases
  <2>3. /\ client' \in {Absent, Torn, Whole} /\ (client = Whole => client' = Whole)
        /\ client # Absent => client' # Absent
    BY <1>1, <2>1, LauncherAssumption DEF TypeOK
  <2>4. TypeOK'
    BY <1>1, <1>2, <2>1, <2>2, <2>3 DEF TypeOK
  <2>5. InPhase(l)'
    BY <1>1, <1>2, <2>1, <2>2, LauncherAssumption DEF InPhase, Started, Saving
  <2>6. \A k \in Pid : k # l => InPhase(k)'
    BY <1>2, <2>1, <2>2, <2>3, OthersKeep
  <2> QED
    BY <1>3, <2>4, <2>5, <2>6 DEF Progress
<1> QED
  BY <1>4, <1>5

LEMMA LoadIs ==
  ASSUME Progress, NEW l \in Pid, NEW p \in Selection, NEW clear \in BOOLEAN, Load(l, p, clear)
  PROVE  /\ phase[l] \in {"idle", "copied"} /\ client = Whole
         /\ OneAtATime => phase[l] = "copied" \/ \A k \in Pid : phase[k] = "idle"
         /\ launches' = launches + 1 /\ launches < MaxLaunches
         /\ UNCHANGED <<now, file, client, tmp, history, unsaved, kills>>
         /\ phase' \in [Pid -> Phases] /\ job' \in [Pid -> Job] /\ mem' \in [Pid -> QuarantineState]
         /\ \A k \in Pid : k # l => phase'[k] = phase[k] /\ job'[k] = job[k] /\ mem'[k] = mem[k]
         /\ job'[l].profile = p /\ job'[l].launch = launches + 1 /\ job'[l].at = now
         /\ job'[l].inject => p \in Profile
         /\ p \in Profile /\ clear =>
              phase'[l] = "create" /\ job'[l].event = "clear" /\ mem'[l][p] = NoCrashes
         /\ ~(p \in Profile /\ clear) => phase'[l] = "ready" /\ job'[l].event = "none"
         /\ p \in Profile /\ ~clear => mem'[l][p] = Pruned(file[p], now)
         /\ \A q \in Profile : q # p => mem'[l][q] = file[q]
<1>1. /\ phase \in [Pid -> Phases] /\ job \in [Pid -> Job] /\ mem \in [Pid -> QuarantineState]
      /\ now \in Time /\ launches \in 0..MaxLaunches /\ file \in QuarantineState
  BY DEF Progress, TypeOK, Loadable
<1>2. p \in Profile <=> p # Unsupported
  BY LauncherAssumption DEF Selection
<1> DEFINE record == IF clear THEN NoCrashes ELSE Pruned(file[p], now)
           loaded == IF p = Unsupported THEN file ELSE [file EXCEPT ![p] = record]
           save == clear /\ p # Unsupported
           inject == p # Unsupported /\ ~Quarantined(record)
           event == IF save THEN "clear" ELSE "none"
           j == [NoJob EXCEPT !.profile = p, !.launch = launches + 1, !.inject = inject,
                              !.event = event, !.at = now]
           ph == IF save THEN "create" ELSE "ready"
<1>3. /\ mem' = [mem EXCEPT ![l] = loaded] /\ job' = [job EXCEPT ![l] = j]
      /\ phase' = [phase EXCEPT ![l] = ph] /\ launches' = launches + 1
      /\ UNCHANGED <<now, file, client, tmp, history, unsaved, kills>>
  BY DEF Load
<1>4. /\ phase[l] \in {"idle", "copied"} /\ client = Whole /\ launches < MaxLaunches
      /\ OneAtATime => phase[l] = "copied" \/ \A k \in Pid : phase[k] = "idle"
  BY DEF Load, Starts, Usable, Progress, InPhase
<1>5. p \in Profile => record \in CrashRecord
  BY <1>1, Defaults, PrunedIs DEF QuarantineState
<1>6. /\ loaded \in QuarantineState
      /\ p \in Profile => loaded[p] = record
      /\ \A q \in Profile : q # p => loaded[q] = file[q]
  BY <1>1, <1>2, <1>5 DEF QuarantineState
<1>7. inject \in BOOLEAN /\ (inject => p \in Profile)
  BY <1>2
<1>8. event \in {"clear", "none"} /\ ph \in {"create", "ready"}
  OBVIOUS
<1>9. launches + 1 \in 0..MaxLaunches
  BY <1>1, <1>4, LauncherAssumption
<1> HIDE DEF loaded, inject, event, ph
<1>10. /\ j \in Job /\ j.profile = p /\ j.launch = launches + 1 /\ j.at = now /\ j.inject = inject
       /\ j.event = event
  BY <1>1, <1>7, <1>8, <1>9, Defaults DEF Job, Event
<1> HIDE DEF j
<1>11. /\ phase' \in [Pid -> Phases] /\ phase'[l] = ph
       /\ job' \in [Pid -> Job] /\ job'[l] = j
       /\ mem' \in [Pid -> QuarantineState] /\ mem'[l] = loaded
       /\ \A k \in Pid : k # l => phase'[k] = phase[k] /\ job'[k] = job[k] /\ mem'[k] = mem[k]
  BY <1>1, <1>3, <1>6, <1>8, <1>10 DEF Phases
<1>12. /\ p \in Profile /\ clear => ph = "create" /\ event = "clear" /\ record = NoCrashes
       /\ ~(p \in Profile /\ clear) => ph = "ready" /\ event = "none"
       /\ p \in Profile /\ ~clear => record = Pruned(file[p], now)
  BY <1>2 DEF ph, event
<1> HIDE DEF record
<1> QED
  BY <1>3, <1>4, <1>6, <1>7, <1>10, <1>11, <1>12

LEMMA LoadProgress ==
  ASSUME Progress, NEW l \in Pid, NEW p \in Selection, NEW clear \in BOOLEAN, Load(l, p, clear)
  PROVE  Progress'
<1>1. TypeOK /\ launches \in Nat /\ now \in Nat /\ MaxLaunches \in Nat /\ launches \in 0..MaxLaunches
  BY LauncherAssumption DEF Progress, TypeOK, Time
<1>2. /\ phase' \in [Pid -> Phases] /\ job' \in [Pid -> Job] /\ mem' \in [Pid -> QuarantineState]
      /\ launches' = launches + 1 /\ launches < MaxLaunches
      /\ UNCHANGED <<now, file, client, tmp, history, unsaved, kills>>
  BY LoadIs
<1>3. launches' \in 0..MaxLaunches
  BY <1>1, <1>2
<1>4. TypeOK' /\ Loadable'
  BY <1>1, <1>2, <1>3 DEF TypeOK, Loadable, Progress
<1>5. /\ client = Whole /\ job'[l].profile = p /\ job'[l].launch = launches + 1 /\ job'[l].at = now
      /\ job'[l].inject => p \in Profile
      /\ \/ phase'[l] = "create" /\ job'[l].event = "clear" /\ p \in Profile
         \/ phase'[l] = "ready" /\ job'[l].event = "none"
  BY LoadIs
<1>6. InPhase(l)'
  BY <1>1, <1>2, <1>5 DEF InPhase, Started, Saving, Event
<1>7. \A k \in Pid : k # l => InPhase(k)'
  <2>1. \A k \in Pid : k # l => phase'[k] = phase[k] /\ job'[k] = job[k] /\ mem'[k] = mem[k]
    BY LoadIs
  <2> QED
    BY <1>2, <2>1, OthersKeep
<1> QED
  BY <1>4, <1>6, <1>7 DEF Progress

(* The steps that end the process without touching the files, or record    *)
(* only its outcome.                                                       *)
LEMMA LeaveProgress ==
  ASSUME Progress, NEW l \in Pid, Exit(l), UNCHANGED <<now, client, launches>>,
         file' \in QuarantineState, kills' \in 0..MaxKills,
         tmp' \in [Pid -> QuarantineState \cup {Absent, Torn}],
         \A k \in Pid : k # l => tmp'[k] = tmp[k],
         history' \in [Profile -> Seq(Outcome)], unsaved' \in BOOLEAN
  PROVE  Progress'
<1>1. /\ phase' \in [Pid -> Phases] /\ job' \in [Pid -> Job] /\ mem' \in [Pid -> QuarantineState]
      /\ phase'[l] = "idle"
      /\ \A k \in Pid : k # l => phase'[k] = phase[k] /\ job'[k] = job[k] /\ mem'[k] = mem[k]
  BY ExitIs DEF Progress
<1>2. TypeOK' /\ Loadable'
  BY <1>1, NoState DEF Progress, TypeOK, Loadable
<1>3. InPhase(l)'
  BY <1>1 DEF InPhase, Started, Saving
<1>4. \A k \in Pid : k # l => InPhase(k)'
  BY <1>1, OthersKeep
<1> QED
  BY <1>2, <1>3, <1>4 DEF Progress

LEMMA RememberIs ==
  ASSUME Progress, NEW l \in Pid, phase[l] \in Saving, Remember(l)
  PROVE  LET p == job[l].profile
             e == [event |-> job[l].event, at |-> job[l].at, launch |-> job[l].launch]
         IN  /\ e \in Outcome /\ p \in Profile
             /\ history' \in [Profile -> Seq(Outcome)]
             /\ history'[p] = Append(history[p], e)
             /\ \A q \in Profile : q # p => history'[q] = history[q]
<1> DEFINE p == job[l].profile
           e == [event |-> job[l].event, at |-> job[l].at, launch |-> job[l].launch]
<1>1. /\ p \in Profile /\ job[l].event \in Event /\ job[l].launch \in 1..launches
      /\ history \in [Profile -> Seq(Outcome)] /\ history[p] \in Seq(Outcome)
  BY DEF Progress, TypeOK, InPhase, Started, Saving
<1>2. job[l].at \in Time /\ job[l].launch \in 1..MaxLaunches
  BY <1>1, LauncherAssumption DEF Progress, TypeOK, Job
<1>3. e \in Outcome
  BY <1>1, <1>2 DEF Outcome
<1>4. history' = [history EXCEPT ![p] = Append(history[p], e)]
  BY DEF Remember
<1> HIDE DEF p, e
<1>5. Append(history[p], e) \in Seq(Outcome)
  BY <1>1, <1>3
<1>6. history' \in [Profile -> Seq(Outcome)] /\ history'[p] = Append(history[p], e)
      /\ \A q \in Profile : q # p => history'[q] = history[q]
  BY <1>1, <1>4, <1>5
<1> QED
  BY <1>1, <1>3, <1>6 DEF p, e

LEMMA EndProgress ==
  ASSUME Progress, NEW l \in Pid, Refuse(l) \/ Kill(l) \/ SaveFails(l)
  PROVE  Progress'
<1>1. TypeOK /\ file \in QuarantineState /\ kills \in 0..MaxKills /\ MaxKills \in Nat
  BY LauncherAssumption DEF Progress, TypeOK, Loadable
<1>2. Exit(l) /\ UNCHANGED <<now, client, launches, file, tmp>>
  BY DEF Refuse, Kill, SaveFails
<1>3. kills' \in 0..MaxKills
  BY <1>1 DEF Refuse, Kill, SaveFails
<1>4. history' \in [Profile -> Seq(Outcome)] /\ unsaved' \in BOOLEAN
  <2>1. CASE history' = history /\ unsaved' = unsaved
    BY <1>1, <2>1 DEF TypeOK
  <2>2. CASE SaveFails(l) /\ Remember(l) /\ unsaved' = TRUE
    <3>1. phase[l] \in Saving
      BY <2>2 DEF SaveFails, Saving
    <3>2. history' \in [Profile -> Seq(Outcome)]
      BY <2>2, <3>1, RememberIs
    <3> QED
      BY <2>2, <3>2
  <2> QED
    BY <2>1, <2>2 DEF Refuse, Kill, SaveFails
<1> QED
  BY <1>1, <1>2, <1>3, <1>4, LeaveProgress DEF TypeOK

(* The end of an injected server, as it is recorded in memory. *)
LEMMA ServerExitIs ==
  ASSUME Progress, NEW l \in Pid, NEW success \in BOOLEAN, ServerExit(l, success), job[l].inject
  PROVE  LET p == job[l].profile
             failure == [launch |-> job[l].launch, at |-> now]
         IN  /\ phase[l] = "running" /\ p \in Profile /\ failure \in Failure
             /\ UNCHANGED <<now, file, client, tmp, history, unsaved, launches, kills>>
             /\ phase' \in [Pid -> Phases] /\ job' \in [Pid -> Job]
             /\ mem' \in [Pid -> QuarantineState]
             /\ \A k \in Pid : k # l =>
                  phase'[k] = phase[k] /\ job'[k] = job[k] /\ mem'[k] = mem[k]
             /\ phase'[l] = "create" /\ job'[l].at = now
             /\ job'[l].profile = p /\ job'[l].launch = job[l].launch
             /\ \A q \in Profile : q # p => mem'[l][q] = mem[l][q]
             /\ \/ /\ job'[l].event = "good"
                   /\ mem'[l][p].failures = {}
                   /\ mem'[l][p].quarantined = mem[l][p].quarantined
                \/ /\ job'[l].event = "crash"
                   /\ mem'[l][p].failures = Kept(mem[l][p].failures \cup {failure}, now)
                   /\ mem'[l][p].quarantined =
                        (mem[l][p].quarantined \/ Cardinality(mem'[l][p].failures) >= Limit)
<1> DEFINE p == job[l].profile
           old == mem[l][p]
           failure == [launch |-> job[l].launch, at |-> now]
           good == success \/ job[l].planned
           pushed == [old EXCEPT !.failures = @ \cup {failure}]
           crashed == Pruned(pushed, now)
           over == [crashed EXCEPT !.quarantined = @ \/ TooMany(crashed)]
           new == IF good THEN [old EXCEPT !.failures = {}] ELSE over
           event == IF good THEN "good" ELSE "crash"
           j == [job[l] EXCEPT !.event = event, !.at = now]
<1>1. /\ phase[l] = "running"
      /\ mem' = [mem EXCEPT ![l] = [mem[l] EXCEPT ![p] = new]]
      /\ job' = [job EXCEPT ![l] = j] /\ phase' = [phase EXCEPT ![l] = "create"]
      /\ UNCHANGED <<now, file, client, tmp, history, unsaved, launches, kills>>
  BY DEF ServerExit
<1>2. /\ phase \in [Pid -> Phases] /\ job \in [Pid -> Job] /\ mem \in [Pid -> QuarantineState]
      /\ now \in Time /\ job[l] \in Job /\ mem[l] \in QuarantineState /\ launches \in 0..MaxLaunches
  BY DEF Progress, TypeOK
<1>3. p \in Profile /\ job[l].launch \in 1..launches
  BY <1>1 DEF Progress, InPhase, Started
<1>4. failure \in Failure
  BY <1>2, <1>3, LauncherAssumption DEF Failure
<1>5. old \in CrashRecord /\ old.failures \subseteq Failure /\ old.quarantined \in BOOLEAN
  BY <1>2, <1>3 DEF QuarantineState, CrashRecord
<1> HIDE DEF failure, good, old, p
<1>6. /\ pushed \in CrashRecord /\ pushed.failures = old.failures \cup {failure}
      /\ pushed.quarantined = old.quarantined
  BY <1>4, <1>5 DEF CrashRecord
<1> HIDE DEF pushed
<1>7. /\ crashed \in CrashRecord /\ crashed.failures = Kept(old.failures \cup {failure}, now)
      /\ crashed.quarantined = old.quarantined
  BY <1>6, PrunedIs
<1> HIDE DEF crashed
<1>8. /\ over \in CrashRecord /\ over.failures = crashed.failures
      /\ over.quarantined = (old.quarantined \/ Cardinality(crashed.failures) >= Limit)
  <2> DEFINE b == crashed.quarantined \/ TooMany(crashed)
  <2>1. b \in BOOLEAN
    OBVIOUS
  <2>2. b = (old.quarantined \/ Cardinality(crashed.failures) >= Limit)
    BY <1>7 DEF TooMany
  <2>3. over = [crashed EXCEPT !.quarantined = b]
    OBVIOUS
  <2> HIDE DEF b, over
  <2>4. over \in CrashRecord /\ over.failures = crashed.failures /\ over.quarantined = b
    BY <1>7, <2>1, <2>3 DEF CrashRecord
  <2> QED
    BY <2>2, <2>4
<1> HIDE DEF over
<1>9. /\ new \in CrashRecord
      /\ \/ event = "good" /\ new.failures = {} /\ new.quarantined = old.quarantined
         \/ /\ event = "crash" /\ new.failures = Kept(old.failures \cup {failure}, now)
            /\ new.quarantined = (old.quarantined \/ Cardinality(new.failures) >= Limit)
  <2>1. CASE good
    BY <1>5, <2>1 DEF CrashRecord
  <2>2. CASE ~good
    BY <1>7, <1>8, <2>2
  <2> QED
    BY <2>1, <2>2
<1>10. event \in {"good", "crash"}
  OBVIOUS
<1> HIDE DEF new, event
<1>11. /\ j \in Job /\ j.event = event /\ j.at = now /\ j.profile = p /\ j.launch = job[l].launch
  BY <1>2, <1>10 DEF Job, Event, p
<1> HIDE DEF j
<1> DEFINE m == [mem[l] EXCEPT ![p] = new]
<1>12. /\ m \in QuarantineState /\ m[p] = new /\ \A q \in Profile : q # p => m[q] = mem[l][q]
  BY <1>2, <1>3, <1>9 DEF QuarantineState
<1>13. mem' = [mem EXCEPT ![l] = m]
  BY <1>1
<1> HIDE DEF m
<1>14. /\ phase' \in [Pid -> Phases] /\ job' \in [Pid -> Job] /\ mem' \in [Pid -> QuarantineState]
       /\ phase'[l] = "create" /\ job'[l] = j /\ mem'[l] = m
       /\ \A k \in Pid : k # l => phase'[k] = phase[k] /\ job'[k] = job[k] /\ mem'[k] = mem[k]
  BY <1>1, <1>2, <1>11, <1>12, <1>13 DEF Phases
<1>15. \/ /\ job'[l].event = "good" /\ mem'[l][p].failures = {}
          /\ mem'[l][p].quarantined = mem[l][p].quarantined
       \/ /\ job'[l].event = "crash"
          /\ mem'[l][p].failures = Kept(mem[l][p].failures \cup {failure}, now)
          /\ mem'[l][p].quarantined =
               (mem[l][p].quarantined \/ Cardinality(mem'[l][p].failures) >= Limit)
  BY <1>9, <1>11, <1>12, <1>14 DEF old
<1> QED
  BY <1>1, <1>3, <1>4, <1>11, <1>12, <1>14, <1>15 DEF p, failure

LEMMA ServerExitProgress ==
  ASSUME Progress, NEW l \in Pid, NEW success \in BOOLEAN, ServerExit(l, success)
  PROVE  Progress'
<1>1. CASE ~job[l].inject
  <2>1. Exit(l) /\ UNCHANGED <<now, file, client, tmp, history, unsaved, launches, kills>>
    BY <1>1 DEF ServerExit
  <2>2. TypeOK /\ file \in QuarantineState
    BY DEF Progress, TypeOK, Loadable
  <2> QED
    BY <2>1, <2>2, LeaveProgress DEF TypeOK
<1>2. CASE job[l].inject
  <2>1. /\ phase[l] = "running" /\ job[l].profile \in Profile
        /\ UNCHANGED <<now, file, client, tmp, history, unsaved, launches, kills>>
        /\ phase' \in [Pid -> Phases] /\ job' \in [Pid -> Job] /\ mem' \in [Pid -> QuarantineState]
        /\ \A k \in Pid : k # l => phase'[k] = phase[k] /\ job'[k] = job[k] /\ mem'[k] = mem[k]
        /\ phase'[l] = "create" /\ job'[l].at = now
        /\ job'[l].profile = job[l].profile /\ job'[l].launch = job[l].launch
        /\ job'[l].event \in {"good", "crash"}
    BY <1>2, ServerExitIs
  <2>2. TypeOK' /\ Loadable'
    BY <2>1 DEF Progress, TypeOK, Loadable
  <2>3. InPhase(l)'
    <3>1. now \in Nat /\ InPhase(l)
      BY LauncherAssumption DEF Progress, TypeOK, Time
    <3> QED
      BY <2>1, <3>1 DEF InPhase, Started, Saving, Event
  <2>4. \A k \in Pid : k # l => InPhase(k)'
    BY <2>1, OthersKeep
  <2> QED
    BY <2>2, <2>3, <2>4 DEF Progress
<1> QED
  BY <1>1, <1>2

LEMMA SaveProgress ==
  ASSUME Progress, NEW l \in Pid, SaveCreate(l) \/ SaveWrite(l)
  PROVE  Progress'
<1>1. TypeOK /\ InPhase(l) /\ mem[l] \in QuarantineState
  BY DEF Progress, TypeOK
<1>2. UNCHANGED <<now, file, client, mem, job, history, unsaved, launches, kills>>
  BY DEF SaveCreate, SaveWrite
<1>3. PICK ph \in {"write", "rename"}, x \in QuarantineState \cup {Torn} :
        /\ phase' = [phase EXCEPT ![l] = ph] /\ tmp' = [tmp EXCEPT ![l] = x]
        /\ ph = "rename" => x = mem[l]
        /\ phase[l] \in {"create", "write"}
  BY <1>1 DEF SaveCreate, SaveWrite
<1>4. /\ phase' \in [Pid -> Phases] /\ tmp' \in [Pid -> QuarantineState \cup {Absent, Torn}]
      /\ phase'[l] = ph /\ tmp'[l] = x
      /\ \A k \in Pid : k # l => phase'[k] = phase[k] /\ tmp'[k] = tmp[k]
  BY <1>1, <1>3 DEF TypeOK, Phases
<1>5. TypeOK' /\ Loadable'
  BY <1>1, <1>2, <1>4 DEF Progress, TypeOK, Loadable
<1>6. InPhase(l)'
  BY <1>1, <1>2, <1>3, <1>4 DEF InPhase, Started, Saving
<1>7. \A k \in Pid : k # l => InPhase(k)'
  BY <1>2, <1>4, OthersKeep
<1> QED
  BY <1>5, <1>6, <1>7 DEF Progress

LEMMA RenameIs ==
  ASSUME Progress, NEW l \in Pid, SaveRename(l)
  PROVE  /\ phase[l] = "rename" /\ file' = mem[l] /\ file' \in QuarantineState
         /\ Remember(l) /\ UNCHANGED <<now, client, unsaved, launches, kills>>
         /\ tmp' \in [Pid -> QuarantineState \cup {Absent, Torn}]
         /\ \A k \in Pid : k # l => /\ phase'[k] = phase[k] /\ job'[k] = job[k]
                                    /\ mem'[k] = mem[k] /\ tmp'[k] = tmp[k]
         /\ job[l].event # "clear" => Exit(l) /\ phase'[l] = "idle"
         /\ job[l].event = "clear" =>
              /\ phase' \in [Pid -> Phases] /\ job' \in [Pid -> Job] /\ mem' = mem
              /\ phase'[l] = "ready" /\ job'[l].event = "none" /\ job'[l].profile = job[l].profile
              /\ job'[l].launch = job[l].launch /\ job'[l].at = job[l].at
<1>1. TypeOK /\ InPhase(l) /\ mem[l] \in QuarantineState /\ job[l] \in Job
  BY DEF Progress, TypeOK
<1>2. /\ phase[l] = "rename" /\ file' = tmp[l] /\ tmp' = [tmp EXCEPT ![l] = Absent]
      /\ Remember(l) /\ UNCHANGED <<now, client, unsaved, launches, kills>>
  BY DEF SaveRename
<1>3. tmp[l] = mem[l]
  BY <1>1, <1>2 DEF InPhase
<1>4. /\ tmp' \in [Pid -> QuarantineState \cup {Absent, Torn}]
      /\ \A k \in Pid : k # l => tmp'[k] = tmp[k]
  BY <1>1, <1>2 DEF TypeOK
<1>5. CASE job[l].event # "clear"
  <2>1. Exit(l)
    BY <1>5 DEF SaveRename
  <2> QED
    BY <1>1, <1>2, <1>3, <1>4, <1>5, <2>1, ExitIs
<1>6. CASE job[l].event = "clear"
  <2> DEFINE j == [job[l] EXCEPT !.event = "none"]
  <2>1. phase' = [phase EXCEPT ![l] = "ready"] /\ job' = [job EXCEPT ![l] = j] /\ mem' = mem
    BY <1>6 DEF SaveRename
  <2>2. /\ j \in Job /\ j.event = "none" /\ j.profile = job[l].profile
        /\ j.launch = job[l].launch /\ j.at = job[l].at
    BY <1>1 DEF Job
  <2> HIDE DEF j
  <2>3. /\ phase' \in [Pid -> Phases] /\ job' \in [Pid -> Job]
        /\ phase'[l] = "ready" /\ job'[l] = j
        /\ \A k \in Pid : k # l => phase'[k] = phase[k] /\ job'[k] = job[k]
    BY <1>1, <2>1, <2>2 DEF TypeOK, Phases
  <2> QED
    BY <1>1, <1>2, <1>3, <1>4, <1>6, <2>1, <2>2, <2>3
<1> QED
  BY <1>5, <1>6

LEMMA RenameProgress == ASSUME Progress, NEW l \in Pid, SaveRename(l) PROVE Progress'
<1>1. /\ phase[l] = "rename" /\ file' \in QuarantineState
      /\ Remember(l) /\ UNCHANGED <<now, client, unsaved, launches, kills>>
      /\ tmp' \in [Pid -> QuarantineState \cup {Absent, Torn}]
      /\ \A k \in Pid : k # l => /\ phase'[k] = phase[k] /\ job'[k] = job[k]
                                 /\ mem'[k] = mem[k] /\ tmp'[k] = tmp[k]
  BY RenameIs
<1>2. history' \in [Profile -> Seq(Outcome)] /\ job[l].profile \in Profile
  BY <1>1, RememberIs DEF Saving
<1>3. TypeOK /\ InPhase(l)
  BY DEF Progress
<1>4. CASE job[l].event # "clear"
  <2>1. Exit(l)
    BY <1>4, RenameIs
  <2>2. unsaved' \in BOOLEAN /\ kills' \in 0..MaxKills
    BY <1>1, <1>3 DEF TypeOK
  <2> QED
    BY <1>1, <1>2, <2>1, <2>2, LeaveProgress
<1>5. CASE job[l].event = "clear"
  <2>1. /\ phase' \in [Pid -> Phases] /\ job' \in [Pid -> Job] /\ mem' = mem
        /\ phase'[l] = "ready" /\ job'[l].event = "none" /\ job'[l].profile = job[l].profile
        /\ job'[l].launch = job[l].launch /\ job'[l].at = job[l].at
    BY <1>5, RenameIs
  <2>2. TypeOK' /\ Loadable'
    BY <1>1, <1>2, <1>3, <2>1, NoState DEF TypeOK, Loadable
  <2>3. InPhase(l)'
    BY <1>1, <1>2, <1>3, <2>1 DEF InPhase, Started, Saving
  <2>4. \A k \in Pid : k # l => InPhase(k)'
    BY <1>1, OthersKeep
  <2> QED
    BY <2>2, <2>3, <2>4 DEF Progress
<1> QED
  BY <1>4, <1>5

LEMMA NextProgress == Progress /\ [Next]_vars => Progress'
<1> SUFFICES ASSUME Progress, [Next]_vars PROVE Progress'
  OBVIOUS
<1>1. CASE UNCHANGED vars
  BY <1>1 DEF vars, Progress, TypeOK, Loadable, InPhase
<1>2. CASE Next
  BY <1>2, TickProgress, MoveProgress, LoadProgress, ServerExitProgress, EndProgress,
     SaveProgress, RenameProgress DEF Next
<1> QED
  BY <1>1, <1>2

(***************************************************************************)
(* The types of the files, the memories and the launches, for any number   *)
(* of launchers, also side by side.                                        *)
(***************************************************************************)
THEOREM TypeCorrect == Spec => []TypeOK
<1>1. Progress => TypeOK
  BY DEF Progress
<1> QED
  BY <1>1, ProgressInit, NextProgress, PTL DEF Spec

(***************************************************************************)
(* However many launchers share the state directory and wherever one of    *)
(* them is killed, quarantine.json can be parsed (save_quarantine).        *)
(***************************************************************************)
THEOREM LoadableHolds == Spec => []Loadable
<1>1. Progress => Loadable
  BY DEF Progress
<1> QED
  BY <1>1, ProgressInit, NextProgress, PTL DEF Spec

(***************************************************************************)
(* No server is started, nor runs, beside a steamclient.so that is not     *)
(* whole, whoever copied it and was killed (prepare_steamclient).          *)
(***************************************************************************)
THEOREM ClientWholeHolds == Spec => []ClientWhole
<1>1. Progress => ClientWhole
  BY DEF Progress, InPhase, ClientWhole, Started
<1> QED
  BY <1>1, ProgressInit, NextProgress, PTL DEF Spec

-----------------------------------------------------------------------------
(* What one more outcome makes of a history.                               *)
LEMMA OneMore ==
  ASSUME NEW h \in Seq(Outcome), NEW e \in Outcome
  PROVE  /\ Append(h, e) \in Seq(Outcome) /\ Len(h) \in Nat
         /\ Len(Append(h, e)) = Len(h) + 1 /\ Append(h, e)[Len(h) + 1] = e
         /\ DOMAIN h = 1..Len(h) /\ DOMAIN Append(h, e) = 1..(Len(h) + 1)
         /\ \A i \in 1..Len(h) : Append(h, e)[i] = h[i] /\ h[i] \in Outcome
OBVIOUS

LEMMA Dates ==
  ASSUME NEW h \in Seq(Outcome), NEW i \in DOMAIN h
  PROVE  h[i].at \in Nat /\ h[i].launch \in Nat /\ h[i].event \in Event
<1>1. h[i] \in Outcome
  OBVIOUS
<1> QED
  BY <1>1, LauncherAssumption DEF Outcome, Time

LEMMA SpanOneMore ==
  ASSUME NEW h \in Seq(Outcome), NEW e \in Outcome
  PROVE  /\ \A j \in 1..Len(h) : Span(Append(h, e), j) = Span(h, j)
         /\ e.event # "crash" => Span(Append(h, e), Len(h) + 1) = {}
         /\ e.event = "crash" =>
              Span(Append(h, e), Len(h) + 1) =
                {i \in 1..Len(h) : e.at - h[i].at <= Window /\ \A k \in i..Len(h) : h[k].event = "crash"}
                  \cup {Len(h) + 1}
<1> DEFINE g == Append(h, e)
           n == Len(h)
<1>1. /\ n \in Nat /\ g[n + 1] = e /\ \A i \in 1..n : g[i] = h[i]
  BY OneMore
<1>2. e.at \in Nat
  BY LauncherAssumption DEF Outcome, Time
<1> HIDE DEF g, n
<1>3. ASSUME NEW j \in 1..n PROVE Span(g, j) = Span(h, j)
  <2>1. \A i \in 1..j : /\ g[i] = h[i] /\ g[j] = h[j]
                        /\ \A k \in i..j : g[k] = h[k]
    BY <1>1
  <2> QED
    BY <2>1 DEF Span
<1>4. ASSUME e.event # "crash" PROVE Span(g, n + 1) = {}
  <2>1. \A i \in 1..(n + 1) : n + 1 \in i..(n + 1)
    BY <1>1
  <2> QED
    BY <1>1, <1>4, <2>1 DEF Span
<1>5. ASSUME e.event = "crash"
      PROVE  Span(g, n + 1) =
               {i \in 1..n : e.at - h[i].at <= Window /\ \A k \in i..n : h[k].event = "crash"}
                 \cup {n + 1}
  <2>1. ASSUME NEW i \in 1..n
        PROVE  i \in Span(g, n + 1) <=>
                 e.at - h[i].at <= Window /\ \A k \in i..n : h[k].event = "crash"
    <3>1. i \in 1..(n + 1) /\ g[i] = h[i]
      BY <1>1
    <3>2. (\A k \in i..(n + 1) : g[k].event = "crash") <=> (\A k \in i..n : h[k].event = "crash")
      <4>1. \A k \in i..n : k \in i..(n + 1) /\ g[k] = h[k]
        BY <1>1
      <4>2. \A k \in i..(n + 1) : k = n + 1 \/ k \in i..n
        BY <1>1
      <4> QED
        BY <1>1, <1>5, <4>1, <4>2
    <3> QED
      BY <1>1, <3>1, <3>2 DEF Span
  <2>2. n + 1 \in Span(g, n + 1)
    <3>1. n + 1 \in 1..(n + 1) /\ e.at - e.at <= Window
      BY <1>1, <1>2, LauncherAssumption
    <3>2. \A k \in (n + 1)..(n + 1) : k = n + 1
      BY <1>1
    <3> QED
      BY <1>1, <1>5, <3>1, <3>2 DEF Span
  <2>3. Span(g, n + 1) \subseteq 1..n \cup {n + 1}
    BY <1>1 DEF Span
  <2> QED
    BY <2>1, <2>2, <2>3
<1> QED
  BY <1>3, <1>4, <1>5 DEF g, n

LEMMA EarnedOneMore ==
  ASSUME NEW h \in Seq(Outcome), NEW e \in Outcome
  PROVE  /\ e.event = "clear" => ~Earned(Append(h, e))
         /\ e.event = "good" => Earned(Append(h, e)) = Earned(h)
         /\ e.event = "crash" => Earned(Append(h, e)) =
              (Earned(h) \/ Cardinality(Span(Append(h, e), Len(h) + 1)) >= Limit)
<1> DEFINE g == Append(h, e)
           n == Len(h)
           Over(x, j) == Cardinality(Span(x, j)) >= Limit
           Uncleared(x, j, m) == \A i \in (j + 1)..m : x[i].event # "clear"
<1>1. /\ n \in Nat /\ g[n + 1] = e /\ Len(g) = n + 1 /\ DOMAIN g = 1..(n + 1) /\ DOMAIN h = 1..n
      /\ \A i \in 1..n : g[i] = h[i]
  BY OneMore
<1>2. /\ \A j \in 1..n : Over(g, j) = Over(h, j)
      /\ e.event # "crash" => ~Over(g, n + 1)
  <2>1. /\ \A j \in 1..n : Span(g, j) = Span(h, j)
        /\ e.event # "crash" => Span(g, n + 1) = {}
    BY SpanOneMore
  <2>2. Cardinality({}) = 0 /\ ~(0 >= Limit)
    BY FS_EmptySet, LauncherAssumption
  <2> HIDE DEF g, n
  <2> QED
    BY <2>1, <2>2
<1>3. /\ Earned(h) = \E j \in 1..n : Uncleared(h, j, n) /\ Over(h, j)
      /\ Earned(g) = \E j \in 1..(n + 1) : Uncleared(g, j, n + 1) /\ Over(g, j)
  BY <1>1 DEF Earned, Span
<1>4. \A j \in 1..n : Uncleared(g, j, n + 1) = (Uncleared(h, j, n) /\ e.event # "clear")
  <2> SUFFICES ASSUME NEW j \in 1..n
               PROVE  Uncleared(g, j, n + 1) <=> (Uncleared(h, j, n) /\ e.event # "clear")
    BY DEF Uncleared
  <2>1. /\ \A i \in (j + 1)..n : i \in (j + 1)..(n + 1) /\ g[i] = h[i]
        /\ n + 1 \in (j + 1)..(n + 1)
        /\ \A i \in (j + 1)..(n + 1) : i = n + 1 \/ i \in (j + 1)..n
    BY <1>1
  <2> QED
    BY <1>1, <2>1
<1>5. Uncleared(g, n + 1, n + 1)
  BY <1>1
<1>6. \A j \in 1..(n + 1) : j \in 1..n \/ j = n + 1
  BY <1>1
<1>7. \A j \in 1..n : j \in 1..(n + 1)
  BY <1>1
<1>8. n + 1 \in 1..(n + 1)
  BY <1>1
<1> HIDE DEF g, n, Over, Uncleared
<1>9. e.event = "clear" => ~Earned(g)
  BY <1>2, <1>3, <1>4, <1>6
<1>10. e.event = "good" => (Earned(g) <=> Earned(h))
  BY <1>2, <1>3, <1>4, <1>6, <1>7
<1>11. e.event = "crash" => (Earned(g) <=> (Earned(h) \/ Over(g, n + 1)))
  BY <1>2, <1>3, <1>4, <1>5, <1>6, <1>7, <1>8
<1>12. Earned(g) \in BOOLEAN /\ Earned(h) \in BOOLEAN /\ Over(g, n + 1) \in BOOLEAN
  BY DEF Earned, Over
<1> QED
  BY <1>9, <1>10, <1>11, <1>12 DEF g, n, Over

LEMMA RecentOneMore ==
  ASSUME NEW h \in Seq(Outcome), NEW e \in Outcome
  PROVE  /\ e.event # "crash" => Recent(Append(h, e)) = {}
         /\ e.event = "crash" /\ (\A i \in DOMAIN h : h[i].at <= e.at) =>
              Recent(Append(h, e)) =
                Kept(Recent(h) \cup {[launch |-> e.launch, at |-> e.at]}, e.at)
<1> DEFINE g == Append(h, e)
           n == Len(h)
           x == [launch |-> e.launch, at |-> e.at]
           Old == {i \in 1..n : e.at - h[i].at <= Window /\ \A k \in i..n : h[k].event = "crash"}
<1>1. /\ n \in Nat /\ g[n + 1] = e /\ Len(g) = n + 1 /\ DOMAIN h = 1..n
      /\ \A i \in 1..n : g[i] = h[i]
  BY OneMore
<1>2. e.at \in Nat /\ \A i \in 1..n : h[i].at \in Nat
  <2>1. e.at \in Nat
    BY LauncherAssumption DEF Outcome, Time
  <2>2. \A i \in DOMAIN h : h[i].at \in Nat
    BY Dates
  <2> QED
    BY <1>1, <2>1, <2>2
<1>3. /\ e.event # "crash" => Span(g, n + 1) = {}
      /\ e.event = "crash" => Span(g, n + 1) = Old \cup {n + 1}
  BY SpanOneMore
<1>4. Recent(g) = {FailureAt(g, i) : i \in Span(g, n + 1)}
  BY <1>1 DEF Recent
<1> HIDE DEF g, n
<1>5. e.event # "crash" => Recent(g) = {}
  BY <1>3, <1>4
<1>6. ASSUME e.event = "crash", \A i \in 1..n : h[i].at <= e.at
      PROVE  Recent(g) = Kept(Recent(h) \cup {x}, e.at)
  <2>1. FailureAt(g, n + 1) = x /\ \A i \in 1..n : FailureAt(g, i) = FailureAt(h, i)
    BY <1>1 DEF FailureAt
  <2>2. Recent(g) = {FailureAt(h, i) : i \in Old} \cup {x}
    BY <1>3, <1>4, <1>6, <2>1
  <2>3. x.at = e.at /\ InWindow(x.at, e.at)
    BY <1>2, LauncherAssumption DEF InWindow
  <2>4. \A i \in 1..n : FailureAt(h, i).at = h[i].at
    BY DEF FailureAt
  <2>5. \A i \in 1..n : InWindow(h[i].at, e.at) <=> e.at - h[i].at <= Window
    BY <1>2, <1>6, LauncherAssumption DEF InWindow
  <2>6. \A i \in Old : i \in Span(h, n)
    <3> SUFFICES ASSUME NEW i \in Old PROVE i \in Span(h, n)
      OBVIOUS
    <3>1. i \in 1..n /\ e.at - h[i].at <= Window /\ n \in 1..n
      BY <1>1
    <3>2. h[n].at - h[i].at <= Window
      BY <1>2, <1>6, <3>1, LauncherAssumption
    <3> QED
      BY <3>1, <3>2 DEF Span
  <2>7. \A i \in Span(h, n) : i \in 1..n /\ (e.at - h[i].at <= Window => i \in Old)
    BY DEF Span
  <2>8. Recent(h) = {FailureAt(h, i) : i \in Span(h, n)}
    BY DEF Recent, n
  <2> HIDE DEF Old, x
  <2>9. ASSUME NEW f \in Recent(g) PROVE f \in Kept(Recent(h) \cup {x}, e.at)
    <3>1. CASE f = x
      BY <2>3, <3>1 DEF Kept
    <3>2. ASSUME NEW i \in Old, f = FailureAt(h, i) PROVE f \in Kept(Recent(h) \cup {x}, e.at)
      <4>1. i \in 1..n /\ e.at - h[i].at <= Window
        BY DEF Old
      <4>2. InWindow(f.at, e.at)
        BY <2>4, <2>5, <3>2, <4>1
      <4>3. f \in Recent(h)
        BY <2>6, <2>8, <3>2
      <4> QED
        BY <4>2, <4>3 DEF Kept
    <3> QED
      BY <2>2, <2>9, <3>1, <3>2
  <2>10. ASSUME NEW f \in Kept(Recent(h) \cup {x}, e.at) PROVE f \in Recent(g)
    <3>1. f \in Recent(h) \cup {x} /\ InWindow(f.at, e.at)
      BY DEF Kept
    <3>2. CASE f = x
      BY <2>2, <3>2
    <3>3. ASSUME NEW i \in Span(h, n), f = FailureAt(h, i) PROVE f \in Recent(g)
      <4>1. i \in Old
        BY <2>4, <2>5, <2>7, <3>1, <3>3
      <4> QED
        BY <2>2, <3>3, <4>1
    <3> QED
      BY <2>8, <3>1, <3>2, <3>3
  <2> QED
    BY <2>9, <2>10
<1> QED
  BY <1>1, <1>5, <1>6 DEF g, n

(* The crashes are counted by their launches. *)
LEMMA RecentCount ==
  ASSUME NEW h \in Seq(Outcome), Len(h) # 0,
         \A i, j \in DOMAIN h : (/\ h[i].event = "crash" /\ h[j].event = "crash"
                                 /\ h[i].launch = h[j].launch) => i = j
  PROVE  Cardinality(Recent(h)) = Cardinality(Span(h, Len(h)))
<1> DEFINE S == Span(h, Len(h))
           f == [i \in S |-> FailureAt(h, i)]
<1>1. Len(h) \in Nat /\ DOMAIN h = 1..Len(h) /\ S \subseteq 1..Len(h)
  BY DEF Span
<1>2. \A i \in S : h[i].event = "crash" /\ i \in DOMAIN h
  <2>1. \A i \in 1..Len(h) : i \in i..Len(h)
    BY <1>1
  <2> QED
    BY <1>1, <2>1 DEF Span
<1>3. IsFiniteSet(S)
  <2>1. IsFiniteSet(1..Len(h))
    BY <1>1, FS_Interval
  <2> QED
    BY <1>1, <2>1, FS_Subset
<1>4. Recent(h) = {FailureAt(h, i) : i \in S}
  BY DEF Recent
<1>5. \A i, j \in S : FailureAt(h, i) = FailureAt(h, j) => i = j
  <2>1. \A i \in S : FailureAt(h, i).launch = h[i].launch
    BY DEF FailureAt
  <2> QED
    BY <1>2, <2>1
<1> HIDE DEF S
<1>6. f \in [S -> Recent(h)] /\ \A i \in S : f[i] = FailureAt(h, i)
  BY <1>4
<1> HIDE DEF f
<1>7. f \in Injection(S, Recent(h))
  BY <1>5, <1>6 DEF Injection, IsInjective
<1>8. f \in Surjection(S, Recent(h))
  BY <1>4, <1>6 DEF Surjection
<1>9. ExistsBijection(S, Recent(h))
  BY <1>7, <1>8 DEF ExistsBijection, Bijection
<1> QED
  BY <1>3, <1>9, FS_Bijection DEF S

-----------------------------------------------------------------------------
(* Launchers one at a time.                                                *)

(* With all other launchers idle, what is to show is about one.            *)
LEMMA OnlyOne ==
  ASSUME NEW l \in Pid, \A k \in Pid : k # l => phase'[k] = "idle",
         Progress', FilesDated', HistoryDated', Exact',
         \A p \in Profile : phase'[l] \in Started => Fresh(l, p)' /\ Copy(l, p)'
  PROVE  OneInv'
<1>1. \A k \in Pid, p \in Profile : phase'[k] \notin Started => Fresh(k, p)' /\ Copy(k, p)'
  BY DEF Fresh, Copy, Started
<1>2. "idle" \notin Started
  BY DEF Started, Saving
<1>3. Current'
  BY <1>1, <1>2 DEF Current
<1>4. Alone'
  BY DEF Alone
<1> QED
  BY <1>3, <1>4 DEF OneInv

(* A launcher that is not idle is the only one. *)
LEMMA OthersIdle ==
  ASSUME OneInv, NEW l \in Pid, phase[l] # "idle"
  PROVE  \A k \in Pid : k # l => phase[k] = "idle"
BY DEF OneInv, Alone

LEMMA OneInit == Init => OneInv
<1> SUFFICES ASSUME Init PROVE OneInv
  OBVIOUS
<1>1. Progress
  BY ProgressInit
<1>2. \A l \in Pid : phase[l] = "idle"
  BY DEF Init
<1>3. \A p \in Profile : file[p] = NoCrashes /\ history[p] = <<>>
  BY DEF Init, Empty
<1>4. FilesDated /\ HistoryDated
  BY <1>3, Defaults DEF FilesDated, HistoryDated
<1>5. Alone /\ Current
  BY <1>2 DEF Alone, Current, Fresh, Copy, Started, Saving
<1>6. Exact
  <2>1. Recent(<<>>) = {}
    BY DEF Recent, Span
  <2>2. Earned(<<>>) = FALSE
    BY DEF Earned
  <2> QED
    BY <1>3, <2>1, <2>2, Defaults DEF Exact
<1> QED
  BY <1>1, <1>4, <1>5, <1>6 DEF OneInv

LEMMA TickOne == ASSUME OneInv, Tick PROVE OneInv'
<1>1. /\ now' = now + 1 /\ now \in Nat
      /\ UNCHANGED <<file, client, tmp, mem, phase, job, history, unsaved, launches, kills>>
  BY LauncherAssumption DEF Tick, OneInv, Progress, TypeOK, Time
<1>2. Progress'
  BY TickProgress DEF OneInv
<1>3. Alone' /\ Exact'
  BY <1>1 DEF OneInv, Alone, Exact
<1>6. Current'
  <2> SUFFICES ASSUME NEW l \in Pid, NEW p \in Profile PROVE Fresh(l, p)' /\ Copy(l, p)'
    BY DEF Current
  <2>1. Fresh(l, p) /\ Copy(l, p)
    BY DEF OneInv, Current
  <2>2. Fresh(l, p)'
    BY <1>1, <2>1 DEF Fresh
  <2>3. Copy(l, p)'
    BY <1>1, <2>1 DEF Copy, Pushed
  <2> QED
    BY <2>2, <2>3
<1>4. FilesDated'
  <2> SUFFICES ASSUME NEW p \in Profile, NEW f \in file[p].failures PROVE f.at <= now + 1
    BY <1>1 DEF FilesDated
  <2>1. f \in Failure
    BY DEF OneInv, Progress, TypeOK, Loadable, QuarantineState, CrashRecord
  <2>2. f.at \in Nat /\ f.at <= now
    BY <2>1, LauncherAssumption DEF Failure, Time, OneInv, FilesDated
  <2> QED
    BY <1>1, <2>2
<1>5. HistoryDated'
  <2> SUFFICES ASSUME NEW p \in Profile, NEW i \in DOMAIN history[p] PROVE history[p][i].at <= now + 1
    BY <1>1 DEF OneInv, HistoryDated
  <2>1. history[p] \in Seq(Outcome) /\ history[p][i].at <= now
    BY DEF OneInv, Progress, TypeOK, HistoryDated
  <2>2. history[p][i].at \in Nat
    BY <2>1, Dates
  <2> QED
    BY <1>1, <2>1, <2>2
<1> QED
  BY <1>2, <1>3, <1>4, <1>5, <1>6 DEF OneInv

(* Steps that change neither the file nor the histories. *)
LEMMA Unrecorded ==
  ASSUME OneInv, UNCHANGED <<now, file, history, unsaved>>, launches' \in {launches, launches + 1}
  PROVE  FilesDated' /\ HistoryDated' /\ Exact'
<1>1. FilesDated' /\ Exact'
  BY DEF OneInv, FilesDated, Exact
<1>2. ASSUME NEW p \in Profile, NEW i \in DOMAIN history[p] PROVE history[p][i].launch <= launches'
  <2>1. history[p] \in Seq(Outcome) /\ history[p][i].launch <= launches /\ launches \in Nat
    BY LauncherAssumption DEF OneInv, Progress, TypeOK, HistoryDated
  <2>2. history[p][i].launch \in Nat
    BY <2>1, Dates
  <2> QED
    BY <2>1, <2>2
<1>3. HistoryDated'
  BY <1>2 DEF OneInv, HistoryDated
<1> QED
  BY <1>1, <1>3

LEMMA MoveOne ==
  ASSUME OneAtATime, OneInv, NEW l \in Pid,
         CopyCreate(l) \/ CopyEnd(l) \/ Spawn(l) \/ PlannedSignal(l) \/ SaveCreate(l) \/ SaveWrite(l)
  PROVE  OneInv'
<1>1. Progress' /\ Progress
  BY MoveProgress, SaveProgress DEF OneInv
<1>2. /\ UNCHANGED <<now, file, history, unsaved, launches, mem>>
      /\ phase \in [Pid -> Phases] /\ job \in [Pid -> Job] /\ job[l] \in Job
  BY <1>1 DEF CopyCreate, CopyEnd, Spawn, PlannedSignal, SaveCreate, SaveWrite, Progress, TypeOK
<1>3. FilesDated' /\ HistoryDated' /\ Exact'
  BY <1>2, Unrecorded
<1>4. \A k \in Pid : k # l => phase[k] = "idle"
  <2>1. CASE CopyCreate(l)
    BY <2>1 DEF CopyCreate, Starts
  <2>2. CASE phase[l] # "idle"
    BY <2>2, OthersIdle
  <2> QED
    BY <2>1, <2>2 DEF CopyEnd, Spawn, PlannedSignal, SaveCreate, SaveWrite
<1>5. PICK ph \in Phases :
        /\ phase' = [phase EXCEPT ![l] = ph]
        /\ ph \in Started => /\ phase[l] \in Started
                             /\ ph \in {"ready", "running"} <=> phase[l] \in {"ready", "running"}
                             /\ ph \in Saving <=> phase[l] \in Saving
  <2>1. CASE PlannedSignal(l)
    BY <1>2, <2>1 DEF PlannedSignal
  <2>2. CASE ~PlannedSignal(l)
    BY <2>2 DEF CopyCreate, CopyEnd, Spawn, SaveCreate, SaveWrite, Phases, Started, Saving
  <2> QED
    BY <2>1, <2>2
<1>6. phase'[l] = ph /\ \A k \in Pid : k # l => phase'[k] = "idle"
  BY <1>2, <1>4, <1>5
<1>7. /\ job'[l].profile = job[l].profile /\ job'[l].launch = job[l].launch
      /\ job'[l].at = job[l].at /\ job'[l].event = job[l].event
  <2>1. CASE PlannedSignal(l)
    <3>1. job'[l] = [job[l] EXCEPT !.planned = TRUE]
      BY <1>2, <2>1 DEF PlannedSignal
    <3> QED
      BY <1>2, <3>1 DEF Job
  <2>2. CASE ~PlannedSignal(l)
    BY <2>2 DEF CopyCreate, CopyEnd, Spawn, SaveCreate, SaveWrite
  <2> QED
    BY <2>1, <2>2
<1>8. ASSUME NEW p \in Profile, ph \in Started PROVE Fresh(l, p)' /\ Copy(l, p)'
  <2>1. Fresh(l, p) /\ Copy(l, p)
    BY DEF OneInv, Current
  <2>2. Fresh(l, p)'
    BY <1>2, <1>5, <1>6, <1>7, <1>8, <2>1 DEF Fresh
  <2>3. Copy(l, p)'
    BY <1>2, <1>5, <1>6, <1>7, <1>8, <2>1 DEF Copy, Pushed
  <2> QED
    BY <2>2, <2>3
<1> QED
  BY <1>1, <1>3, <1>6, <1>8, OnlyOne

LEMMA LoadOne ==
  ASSUME OneAtATime, OneInv, NEW l \in Pid, NEW p \in Selection, NEW clear \in BOOLEAN,
         Load(l, p, clear)
  PROVE  OneInv'
<1>1. Progress' /\ Progress
  BY LoadProgress DEF OneInv
<1>2. /\ phase[l] = "copied" \/ \A k \in Pid : phase[k] = "idle"
      /\ launches' = launches + 1 /\ UNCHANGED <<now, file, history, unsaved>>
      /\ \A k \in Pid : k # l => phase'[k] = phase[k]
      /\ job'[l].profile = p /\ job'[l].launch = launches + 1 /\ job'[l].at = now
      /\ p \in Profile /\ clear =>
              phase'[l] = "create" /\ job'[l].event = "clear" /\ mem'[l][p] = NoCrashes
      /\ ~(p \in Profile /\ clear) => phase'[l] = "ready" /\ job'[l].event = "none"
      /\ p \in Profile /\ ~clear => mem'[l][p] = Pruned(file[p], now)
      /\ \A q \in Profile : q # p => mem'[l][q] = file[q]
  BY <1>1, LoadIs
<1>3. FilesDated' /\ HistoryDated' /\ Exact'
  BY <1>2, Unrecorded
<1>4. \A k \in Pid : k # l => phase'[k] = "idle"
  BY <1>2, OthersIdle
<1>5. phase'[l] \in {"create", "ready"}
  BY <1>2
<1>6. ASSUME NEW q \in Profile PROVE Fresh(l, q)'
  <2>1. history[q] \in Seq(Outcome) /\ launches \in Nat
    BY <1>1, LauncherAssumption DEF Progress, TypeOK
  <2>2. \A i \in DOMAIN history[q] : history[q][i].launch # launches + 1 /\ history[q][i].at <= now
    <3> SUFFICES ASSUME NEW i \in DOMAIN history[q]
                 PROVE  history[q][i].launch # launches + 1 /\ history[q][i].at <= now
      OBVIOUS
    <3>1. history[q][i].launch \in Nat /\ history[q][i].launch <= launches /\ history[q][i].at <= now
      BY <2>1, Dates DEF OneInv, HistoryDated
    <3> QED
      BY <2>1, <3>1
  <2>3. \A f \in file[q].failures : f.at <= now
    BY DEF OneInv, FilesDated
  <2> QED
    BY <1>2, <1>5, <2>2, <2>3 DEF Fresh
<1>7. ASSUME NEW q \in Profile PROVE Copy(l, q)'
  <2>1. CASE q # p
    BY <1>2, <2>1 DEF Copy
  <2>2. CASE q = p /\ clear
    BY <1>2, <2>2 DEF Copy
  <2>3. CASE q = p /\ ~clear
    <3>1. file[q] \in CrashRecord
      BY <1>1 DEF Progress, TypeOK, Loadable, QuarantineState
    <3>2. /\ mem'[l][q].failures = Kept(file[q].failures, now)
          /\ mem'[l][q].quarantined = file[q].quarantined
      BY <1>2, <2>3, <3>1, PrunedIs
    <3> QED
      BY <1>2, <2>3, <3>2 DEF Copy
  <2> QED
    BY <2>1, <2>2, <2>3
<1> QED
  BY <1>1, <1>3, <1>4, <1>6, <1>7, OnlyOne

(* The process ends and nothing is saved.  The outcome of the server may   *)
(* be remembered, and is unsaved then.                                     *)
LEMMA RememberDated ==
  ASSUME OneInv, NEW l \in Pid, phase[l] \in Saving, Remember(l), UNCHANGED <<now, launches>>
  PROVE  HistoryDated'
<1> DEFINE p == job[l].profile
           e == [event |-> job[l].event, at |-> job[l].at, launch |-> job[l].launch]
           h == history[p]
<1>1. /\ e \in Outcome /\ p \in Profile /\ history'[p] = Append(h, e)
      /\ \A q \in Profile : q # p => history'[q] = history[q]
  BY RememberIs DEF OneInv
<1>2. h \in Seq(Outcome)
  BY <1>1 DEF OneInv, Progress, TypeOK
<1>3. /\ e.event = job[l].event /\ e.launch = job[l].launch /\ e.at = job[l].at
      /\ e.launch \in 1..launches /\ e.at <= now
  BY DEF OneInv, Progress, InPhase, Started
<1>4. /\ \A i \in DOMAIN h : h[i].at <= now /\ h[i].launch <= launches
      /\ \A i, j \in DOMAIN h : (/\ h[i].event = "crash" /\ h[j].event = "crash"
                                 /\ h[i].launch = h[j].launch) => i = j
  BY <1>1 DEF OneInv, HistoryDated
<1>5. \A i \in DOMAIN h : h[i].event = "crash" => h[i].launch # e.launch
  BY <1>1, <1>3 DEF OneInv, Current, Fresh, Started
<1>6. launches \in Nat
  BY LauncherAssumption DEF OneInv, Progress, TypeOK
<1> HIDE DEF e, h
<1> DEFINE g == Append(h, e)
<1>7. /\ Len(h) \in Nat /\ DOMAIN h = 1..Len(h) /\ DOMAIN g = 1..(Len(h) + 1)
      /\ g[Len(h) + 1] = e /\ \A i \in 1..Len(h) : g[i] = h[i]
  BY <1>1, <1>2, OneMore
<1>8. history'[p] = g
  BY <1>1
<1> HIDE DEF g
<1>9. \A i \in DOMAIN g : (i \in DOMAIN h /\ g[i] = h[i]) \/ (i = Len(h) + 1 /\ g[i] = e)
  BY <1>7
<1>10. \A i \in DOMAIN g : g[i].at <= now /\ g[i].launch <= launches
  BY <1>3, <1>4, <1>6, <1>9
<1>11. \A i, j \in DOMAIN g : (/\ g[i].event = "crash" /\ g[j].event = "crash"
                               /\ g[i].launch = g[j].launch) => i = j
  BY <1>4, <1>5, <1>9
<1> QED
  BY <1>1, <1>8, <1>10, <1>11 DEF OneInv, HistoryDated

LEMMA EndOne ==
  ASSUME OneAtATime, OneInv, NEW l \in Pid,
         \/ Refuse(l) \/ Kill(l) \/ SaveFails(l)
         \/ \E success \in BOOLEAN : ServerExit(l, success) /\ ~job[l].inject
  PROVE  OneInv'
<1>1. Progress' /\ Progress
  BY EndProgress, ServerExitProgress DEF OneInv
<1>2. Exit(l) /\ UNCHANGED <<now, file, launches>> /\ phase[l] # "idle"
  BY DEF Refuse, Kill, SaveFails, ServerExit
<1>3. phase'[l] = "idle" /\ \A k \in Pid : k # l => phase'[k] = phase[k]
  BY <1>1, <1>2, ExitIs DEF Progress
<1>4. \A k \in Pid : k # l => phase'[k] = "idle"
  BY <1>2, <1>3, OthersIdle
<1>5. FilesDated' /\ HistoryDated' /\ Exact'
  <2>1. CASE UNCHANGED <<history, unsaved>>
    BY <1>2, <2>1, Unrecorded
  <2>2. CASE SaveFails(l) /\ Remember(l) /\ unsaved' = TRUE
    <3>1. HistoryDated'
      BY <1>2, <2>2, RememberDated DEF SaveFails, Saving
    <3>2. FilesDated' /\ Exact'
      BY <1>2, <2>2 DEF OneInv, FilesDated, Exact
    <3> QED
      BY <3>1, <3>2
  <2> QED
    BY <2>1, <2>2 DEF Refuse, Kill, SaveFails, ServerExit
<1>6. "idle" \notin Started
  BY DEF Started, Saving
<1> QED
  BY <1>1, <1>3, <1>4, <1>5, <1>6, OnlyOne

LEMMA ServerExitOne ==
  ASSUME OneAtATime, OneInv, NEW l \in Pid, NEW success \in BOOLEAN, ServerExit(l, success),
         job[l].inject
  PROVE  OneInv'
<1> DEFINE p == job[l].profile
           failure == [launch |-> job[l].launch, at |-> now]
<1>1. Progress' /\ Progress
  BY ServerExitProgress DEF OneInv
<1>2. /\ phase[l] = "running" /\ p \in Profile /\ failure \in Failure
      /\ UNCHANGED <<now, file, history, unsaved, launches>>
      /\ \A k \in Pid : k # l => phase'[k] = phase[k]
      /\ phase'[l] = "create" /\ job'[l].at = now
      /\ job'[l].profile = p /\ job'[l].launch = job[l].launch
      /\ \A q \in Profile : q # p => mem'[l][q] = mem[l][q]
      /\ \/ /\ job'[l].event = "good"
            /\ mem'[l][p].failures = {}
            /\ mem'[l][p].quarantined = mem[l][p].quarantined
         \/ /\ job'[l].event = "crash"
            /\ mem'[l][p].failures = Kept(mem[l][p].failures \cup {failure}, now)
            /\ mem'[l][p].quarantined =
                 (mem[l][p].quarantined \/ Cardinality(mem'[l][p].failures) >= Limit)
  BY <1>1, ServerExitIs, ZenonT(30)
<1>3. FilesDated' /\ HistoryDated' /\ Exact'
  BY <1>2, Unrecorded
<1>4. \A k \in Pid : k # l => phase'[k] = "idle"
  BY <1>2, OthersIdle
<1>5. /\ job[l].event = "none" /\ job[l].at <= now
      /\ \A q \in Profile : Fresh(l, q) /\ Copy(l, q)
      /\ phase[l] \in Started
  BY <1>1, <1>2 DEF OneInv, Current, Progress, InPhase, Started
<1>6. ASSUME NEW q \in Profile PROVE Fresh(l, q)'
  <2>1. \A i \in DOMAIN history[q] : history[q][i].at <= now
    BY DEF OneInv, HistoryDated
  <2> QED
    BY <1>2, <1>5, <2>1 DEF Fresh
<1>7. ASSUME NEW q \in Profile, q # p PROVE Copy(l, q)'
  <2>1. mem[l][q] = file[q]
    BY <1>5, <1>7 DEF Copy
  <2> QED
    BY <1>2, <1>7, <2>1 DEF Copy
<1>8. ASSUME NEW q \in Profile, q = p PROVE Copy(l, q)'
  <2>1. /\ mem[l][q].failures = Kept(file[q].failures, job[l].at)
        /\ mem[l][q].quarantined <=> file[q].quarantined
    BY <1>2, <1>5, <1>8 DEF Copy
  <2>2. CASE job'[l].event = "good"
    BY <1>2, <1>8, <2>1, <2>2 DEF Copy
  <2>3. CASE job'[l].event = "crash"
    <3>1. job[l].at \in Nat /\ now \in Nat /\ file[q].failures \subseteq Failure
      BY <1>1, <1>2, LauncherAssumption
      DEF Progress, TypeOK, Loadable, QuarantineState, CrashRecord, Job, Time
    <3>2. \A f \in file[q].failures : f.at \in Nat /\ f.at <= job[l].at
      BY <1>2, <1>5, <1>8, <3>1, LauncherAssumption DEF Fresh, Failure, Time
    <3>3. Kept(mem[l][q].failures \cup {failure}, now) = Kept(file[q].failures \cup {failure}, now)
      <4> DEFINE F == file[q].failures
                 t == job[l].at
      <4>1. t \in Nat /\ now \in Nat /\ t <= now /\ \A f \in F : f.at \in Nat /\ f.at <= t
        BY <1>5, <3>1, <3>2
      <4> HIDE DEF F, t, failure
      <4>2. \A f \in F : InWindow(f.at, now) => InWindow(f.at, t)
        BY <4>1, LauncherAssumption DEF InWindow
      <4>3. Kept(Kept(F, t) \cup {failure}, now) = Kept(F \cup {failure}, now)
        BY <4>2 DEF Kept
      <4> QED
        BY <2>1, <4>3 DEF F, t
    <3>4. Pushed(l)' = failure
      BY <1>2 DEF Pushed
    <3> HIDE DEF failure, p
    <3>5. /\ mem'[l][q].failures = Kept(file[q].failures \cup {failure}, now)
          /\ mem'[l][q].quarantined <=>
               (file[q].quarantined \/ Cardinality(mem'[l][q].failures) >= Limit)
      BY <1>2, <1>8, <2>1, <2>3, <3>3
    <3> QED
      BY <1>2, <1>8, <2>3, <3>4, <3>5 DEF Copy
  <2> QED
    BY <1>2, <2>2, <2>3
<1> QED
  BY <1>1, <1>3, <1>4, <1>6, <1>7, <1>8, OnlyOne

(* What the file says after a save is what the histories say then. *)
LEMMA RenameExact ==
  ASSUME OneInv, NEW l \in Pid, SaveRename(l), HistoryDated', ~unsaved, NEW q \in Profile
  PROVE  /\ mem[l][q].failures = Recent(history'[q])
         /\ mem[l][q].quarantined = Earned(history'[q])
<1> DEFINE p == job[l].profile
           e == [event |-> job[l].event, at |-> job[l].at, launch |-> job[l].launch]
           h == history[q]
<1>1. Progress /\ phase[l] = "rename" /\ Remember(l) /\ phase[l] \in Saving
  BY RenameIs DEF OneInv, Saving
<1>2. /\ e \in Outcome /\ p \in Profile /\ history'[p] = Append(history[p], e)
      /\ \A r \in Profile : r # p => history'[r] = history[r]
  BY <1>1, RememberIs
<1>3. Fresh(l, q) /\ Copy(l, q) /\ phase[l] \in Started
  BY <1>1 DEF OneInv, Current, Started
<1>4. file[q].failures = Recent(h) /\ file[q].quarantined = Earned(h)
  BY DEF OneInv, Exact
<1>5. CASE q # p
  <2>1. mem[l][q] = file[q]
    BY <1>3, <1>5 DEF Copy
  <2> QED
    BY <1>2, <1>4, <1>5, <2>1
<1>6. CASE q = p
  <2>1. h \in Seq(Outcome) /\ history'[q] = Append(h, e)
    BY <1>1, <1>2, <1>6 DEF Progress, TypeOK
  <2>2. e.event = job[l].event /\ e.at = job[l].at /\ e.launch = job[l].launch /\ e.event \in Event
    BY <1>2 DEF Outcome
  <2>3. \A i \in DOMAIN h : h[i].at <= e.at
    BY <1>1, <1>3, <1>6, <2>2 DEF Fresh
  <2>4. mem[l][q].quarantined \in BOOLEAN /\ file[q].quarantined \in BOOLEAN
    BY <1>1 DEF Progress, TypeOK, Loadable, QuarantineState, CrashRecord
  <2> HIDE DEF e, h
  <2>5. CASE e.event = "clear"
    <3>1. mem[l][q] = NoCrashes
      BY <1>3, <1>6, <2>2, <2>5 DEF Copy
    <3>2. Recent(Append(h, e)) = {}
      BY <1>2, <2>1, <2>5, RecentOneMore
    <3>3. ~Earned(Append(h, e))
      BY <1>2, <2>1, <2>5, EarnedOneMore
    <3>4. Earned(Append(h, e)) = FALSE
      BY <3>3 DEF Earned
    <3> QED
      BY <2>1, <3>1, <3>2, <3>4, Defaults
  <2>6. CASE e.event = "good"
    <3>1. mem[l][q].failures = {} /\ (mem[l][q].quarantined <=> file[q].quarantined)
      BY <1>3, <1>6, <2>2, <2>6 DEF Copy
    <3>2. Recent(Append(h, e)) = {}
      BY <1>2, <2>1, <2>6, RecentOneMore
    <3>3. Earned(Append(h, e)) = Earned(h)
      BY <1>2, <2>1, <2>6, EarnedOneMore
    <3> QED
      BY <1>4, <2>1, <2>4, <3>1, <3>2, <3>3
  <2>7. CASE e.event = "crash"
    <3>1. /\ mem[l][q].failures = Kept(file[q].failures \cup {Pushed(l)}, job[l].at)
          /\ mem[l][q].quarantined <=>
               (file[q].quarantined \/ Cardinality(mem[l][q].failures) >= Limit)
      BY <1>3, <1>6, <2>2, <2>7 DEF Copy
    <3>2. Pushed(l) = [launch |-> e.launch, at |-> e.at]
      BY <2>2 DEF Pushed
    <3>3. Recent(Append(h, e)) = Kept(Recent(h) \cup {[launch |-> e.launch, at |-> e.at]}, e.at)
      BY <1>2, <2>1, <2>3, <2>7, RecentOneMore
    <3>4. mem[l][q].failures = Recent(Append(h, e))
      BY <1>4, <2>2, <3>1, <3>2, <3>3
    <3> DEFINE g == Append(h, e)
    <3>5. g \in Seq(Outcome) /\ Len(g) = Len(h) + 1 /\ Len(h) \in Nat /\ g = history'[q]
      BY <1>2, <2>1, OneMore
    <3>6. \A i, j \in DOMAIN g : (/\ g[i].event = "crash" /\ g[j].event = "crash"
                                  /\ g[i].launch = g[j].launch) => i = j
      BY <3>5 DEF HistoryDated
    <3> HIDE DEF g
    <3>7. Cardinality(Recent(g)) = Cardinality(Span(g, Len(h) + 1))
      <4>1. Len(g) # 0
        BY <3>5
      <4>2. Cardinality(Recent(g)) = Cardinality(Span(g, Len(g)))
        BY <3>5, <3>6, <4>1, RecentCount
      <4> QED
        BY <3>5, <4>2
    <3>8. Earned(g) = (Earned(h) \/ Cardinality(Span(g, Len(h) + 1)) >= Limit)
      BY <1>2, <2>1, <2>7, EarnedOneMore DEF g
    <3>9. mem[l][q].quarantined <=> Earned(g)
      BY <1>4, <3>1, <3>4, <3>7, <3>8 DEF g
    <3>10. Earned(g) \in BOOLEAN
      BY DEF Earned
    <3> QED
      BY <2>1, <2>4, <3>4, <3>9, <3>10 DEF g
  <2> QED
    BY <2>2, <2>5, <2>6, <2>7 DEF Event
<1> QED
  BY <1>5, <1>6

LEMMA RenameOne ==
  ASSUME OneAtATime, OneInv, NEW l \in Pid, SaveRename(l)
  PROVE  OneInv'
<1> DEFINE p == job[l].profile
           e == [event |-> job[l].event, at |-> job[l].at, launch |-> job[l].launch]
<1>1. Progress' /\ Progress
  BY RenameProgress DEF OneInv
<1>2. /\ phase[l] = "rename" /\ phase[l] \in Saving /\ file' = mem[l] /\ Remember(l)
      /\ UNCHANGED <<now, unsaved, launches>>
      /\ \A k \in Pid : k # l => phase'[k] = phase[k]
  BY <1>1, RenameIs DEF Saving
<1>3. HistoryDated'
  BY <1>2, RememberDated
<1>4. \A k \in Pid : k # l => phase'[k] = "idle"
  BY <1>2, OthersIdle
<1>5. Exact'
  BY <1>2, <1>3, RenameExact DEF Exact
<1>6. \A q \in Profile : Fresh(l, q) /\ Copy(l, q) /\ phase[l] \in Started
  BY <1>2 DEF OneInv, Current, Started
<1>7. /\ e \in Outcome /\ p \in Profile /\ history'[p] = Append(history[p], e)
      /\ \A q \in Profile : q # p => history'[q] = history[q]
  BY <1>1, <1>2, RememberIs
<1>8. job[l].event \in Event /\ job[l].at <= now
  BY <1>1, <1>2 DEF Progress, InPhase, Started
<1>9. FilesDated'
  <2> SUFFICES ASSUME NEW q \in Profile, NEW f \in mem[l][q].failures PROVE f.at <= now
    BY <1>2 DEF FilesDated
  <2>1. \A g \in file[q].failures : g.at <= now
    BY DEF OneInv, FilesDated
  <2>2. CASE q # p
    <3>1. mem[l][q] = file[q]
      BY <1>6, <2>2 DEF Copy
    <3> QED
      BY <2>1, <3>1
  <2>3. CASE q = p
    <3>1. \/ mem[l][q].failures = {}
          \/ mem[l][q].failures = Kept(file[q].failures \cup {Pushed(l)}, job[l].at)
      BY <1>6, <1>8, <2>3, Defaults DEF Copy, Event
    <3>2. f \in file[q].failures \/ f = Pushed(l)
      BY <3>1 DEF Kept
    <3>3. Pushed(l).at = job[l].at
      BY DEF Pushed
    <3> QED
      BY <1>8, <2>1, <3>2, <3>3
  <2> QED
    BY <2>2, <2>3
<1>10. CASE job[l].event # "clear"
  <2>1. phase'[l] = "idle"
    BY <1>1, <1>10, RenameIs
  <2>2. "idle" \notin Started
    BY DEF Started, Saving
  <2> QED
    BY <1>1, <1>3, <1>4, <1>5, <1>9, <2>1, <2>2, OnlyOne
<1>11. CASE job[l].event = "clear"
  <2>1. /\ mem' = mem /\ phase'[l] = "ready" /\ job'[l].event = "none"
        /\ job'[l].profile = p /\ job'[l].launch = job[l].launch
    BY <1>1, <1>11, RenameIs
  <2>2. ASSUME NEW q \in Profile, q = p PROVE mem[l][q].failures = {}
    BY <1>6, <1>11, <2>2, Defaults DEF Copy
  <2>3. ASSUME NEW q \in Profile PROVE Fresh(l, q)'
    <3>1. \A i \in DOMAIN history[q] : history[q][i].event = "crash" => history[q][i].launch # job[l].launch
      BY <1>6 DEF Fresh
    <3>2. \A i \in DOMAIN history'[q] : history'[q][i].event = "crash" => history'[q][i].launch # job[l].launch
      <4>1. CASE q # p
        BY <1>7, <3>1, <4>1
      <4>2. CASE q = p
        <5> DEFINE h == history[q]
        <5>1. h \in Seq(Outcome) /\ history'[q] = Append(h, e) /\ e.event # "crash" /\ e \in Outcome
          BY <1>1, <1>7, <1>11, <4>2 DEF Progress, TypeOK
        <5>2. \A i \in DOMAIN h : h[i].event = "crash" => h[i].launch # job[l].launch
          BY <3>1
        <5> HIDE DEF h, e
        <5>3. /\ Len(h) \in Nat /\ DOMAIN h = 1..Len(h) /\ DOMAIN Append(h, e) = 1..(Len(h) + 1)
              /\ Append(h, e)[Len(h) + 1] = e /\ \A i \in 1..Len(h) : Append(h, e)[i] = h[i]
          BY <5>1, OneMore
        <5>4. \A i \in 1..(Len(h) + 1) : i \in 1..Len(h) \/ i = Len(h) + 1
          BY <5>3
        <5> QED
          BY <5>1, <5>2, <5>3, <5>4
      <4> QED
        BY <4>1, <4>2
    <3> QED
      BY <1>2, <2>1, <2>2, <3>2 DEF Fresh, Saving
  <2>4. ASSUME NEW q \in Profile PROVE Copy(l, q)'
    <3>1. file'[q] = mem'[l][q]
      BY <1>2, <2>1
    <3>2. q = p => mem[l][q].failures = {} /\ Kept({}, job'[l].at) = {}
      BY <2>2 DEF Kept
    <3> QED
      BY <1>2, <2>1, <3>1, <3>2 DEF Copy
  <2> QED
    BY <1>1, <1>3, <1>4, <1>5, <1>9, <2>3, <2>4, OnlyOne
<1> QED
  BY <1>10, <1>11

LEMMA OneNext == ASSUME OneAtATime PROVE OneInv /\ [Next]_vars => OneInv'
<1> SUFFICES ASSUME OneInv, [Next]_vars PROVE OneInv'
  OBVIOUS
<1>1. CASE UNCHANGED vars
  <2>1. UNCHANGED <<now, file, client, tmp, mem, phase, job, history, unsaved, launches, kills>>
    BY <1>1 DEF vars
  <2>2. Progress'
    BY NextProgress DEF OneInv
  <2>3. Alone' /\ FilesDated' /\ HistoryDated' /\ Exact'
    BY <2>1, Unrecorded DEF OneInv, Alone
  <2>4. Current'
    <3> SUFFICES ASSUME NEW l \in Pid, NEW p \in Profile PROVE Fresh(l, p)' /\ Copy(l, p)'
      BY DEF Current
    <3>1. Fresh(l, p) /\ Copy(l, p)
      BY DEF OneInv, Current
    <3> QED
      BY <2>1, <3>1 DEF Fresh, Copy, Pushed
  <2> QED
    BY <2>2, <2>3, <2>4 DEF OneInv
<1>2. CASE Next
  BY <1>2, TickOne, MoveOne, LoadOne, ServerExitOne, EndOne, RenameOne DEF Next
<1> QED
  BY <1>1, <1>2

(***************************************************************************)
(* With launchers one at a time and every outcome saved, quarantine.json   *)
(* quarantines exactly the profiles whose whole history earned it, for any *)
(* limit, window, number of profiles and launches, wherever launchers are  *)
(* killed (run, prune_failures).                                           *)
(***************************************************************************)
THEOREM QuarantineExactHolds ==
  ASSUME OneAtATime
  PROVE  Spec => []QuarantineExact
<1>1. OneInv => QuarantineExact
  BY DEF OneInv, Exact, QuarantineExact
<1> QED
  BY <1>1, OneInit, OneNext, PTL DEF Spec

(***************************************************************************)
(* With launchers one at a time a quarantine ends only by the save of a    *)
(* launch that was given --clear-quarantine for that profile.              *)
(***************************************************************************)
THEOREM QuarantineSticksHolds ==
  ASSUME OneAtATime
  PROVE  Spec => QuarantineSticks
<1> DEFINE Sticks ==
      \A p \in Profile :
        (file # Torn /\ file' # Torn /\ file[p].quarantined /\ ~file'[p].quarantined) =>
          \E l \in Pid : job[l].profile = p /\ job[l].event = "clear"
<1>1. OneInv /\ [Next]_vars => [Sticks]_vars
  <2> SUFFICES ASSUME OneInv, Next PROVE Sticks
    BY DEF vars
  <2>1. CASE UNCHANGED file
    BY <2>1
  <2>2. ASSUME NEW l \in Pid, SaveRename(l) PROVE Sticks
    <3> SUFFICES ASSUME NEW p \in Profile, file[p].quarantined, ~file'[p].quarantined
                 PROVE  job[l].profile = p /\ job[l].event = "clear"
      OBVIOUS
    <3>1. file' = mem[l] /\ phase[l] \in Started
      BY <2>2, RenameIs DEF OneInv, Started, Saving
    <3>2. Copy(l, p)
      BY DEF OneInv, Current
    <3> QED
      BY <3>1, <3>2 DEF Copy
  <2> QED
    BY <2>1, <2>2 DEF Next, Tick, CopyCreate, CopyEnd, Load, Spawn, Refuse, PlannedSignal,
                      ServerExit, SaveCreate, SaveFails, SaveWrite, Kill
<1> QED
  BY <1>1, OneInit, OneNext, PTL DEF Spec, QuarantineSticks
=============================================================================
