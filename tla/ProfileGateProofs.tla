------------------------- MODULE ProfileGateProofs --------------------------
(***************************************************************************)
(* GateSound and OffsetsBounded for every set of builds, every profile     *)
(* directory and any number of updates and processes.                      *)
(*                                                                         *)
(* The argument follows one process.  Until its file is replaced, what is  *)
(* at its path is what it runs (Fit, first part); a replacement before     *)
(* readlink ends the start, and one while the file is read is remembered   *)
(* as disturbed; so an undisturbed digest is the digest of the image, and  *)
(* ExactlyMatches carries it over to the profile.  What is established     *)
(* when the process passes the match never changes afterwards.             *)
(***************************************************************************)
EXTENDS ProfileGate, TLAPS

Images == ServerBuilds \cup {HelperBuild}
Profiles == (UNION Directories) \cup {NoProfile}
Seen == [size : {Elf[b].size : b \in Images} \cup {0},
         sha256 : Images \cup {NoProfile},
         buildId : {Elf[b].buildId : b \in Images} \cup {NoProfile}]
Acts == {"control", "plugins", "hooks"}
Kinds == {"launched", "helper", "manual"}
Envs == {"full", "bare", "bypass", "disabled"}
Pcs == {"begin", "off", "refused", "readlink", "size", "sha256", "buildId", "match",
        "control", "plugins", "hooks", "running", "failed"}
Proc == [kind : Kinds, image : Images, profile : Profiles, env : Envs, pc : Pcs,
         deleted : BOOLEAN, disturbed : BOOLEAN, seen : Seen, acts : SUBSET Acts]
Launchers ==
  [pc : {"fingerprint", "select", "verify", "spawn", "vanilla", "wait", "error"},
   print : {FingerprintOf(b) : b \in Images} \cup {NoProfile}, profile : Profiles]

(* The types of the variables, as far as the proof needs them. *)
GateTypes ==
  /\ exe \in ServerBuilds /\ directory \in Directories
  /\ launcher \in Launchers
  /\ procs \in Seq(Proc)

Passed == {"control", "plugins", "hooks", "running", "failed"}

(* What is known of process p while file is at the server's path. *)
Fit(p, file) ==
  /\ p.image # HelperBuild /\ ~p.deleted => file = p.image
  /\ p.pc \in {"size", "sha256", "buildId"} /\ ~p.disturbed => ~p.deleted
  /\ p.pc \in {"buildId", "match"} /\ ~p.disturbed => p.seen.sha256 = p.image
  /\ p.pc \in Passed =>
       /\ p.profile.status = "validated"
       /\ AnchorsLive(p.profile, p.image)
       /\ p.image = p.profile.elf.sha256 \/ p.disturbed
  /\ p.acts # {} => p.pc \in Passed

GateInv == GateTypes /\ \A i \in DOMAIN procs : Fit(procs[i], exe)

-----------------------------------------------------------------------------
(* A process that starts as the file at the path, or as a helper, fits.    *)
LEMMA StartedFits ==
  ASSUME NEW image \in Images, NEW kind \in Kinds, NEW env \in Envs,
         NEW pr \in Profiles, NEW file, image = file \/ image = HelperBuild
  PROVE  Started(kind, image, pr, env) \in Proc /\ Fit(Started(kind, image, pr, env), file)
<1>1. Unread \in Seen
  BY DEF Unread, Seen
<1>2. Started(kind, image, pr, env) \in Proc
  <2>1. FALSE \in BOOLEAN /\ {} \in SUBSET Acts
    BY Zenon
  <2>2. "begin" \in Pcs
    BY DEF Pcs
  <2> QED
    BY <1>1, <2>1, <2>2, Zenon DEF Started, Proc
<1>3. Fit(Started(kind, image, pr, env), file)
  BY DEF Started, Fit, Passed
<1> QED
  BY <1>2, <1>3

(* A new process at the end of the list keeps the invariant.               *)
LEMMA AppendKeeps ==
  ASSUME GateInv, NEW p \in Proc, Fit(p, exe), procs' = Append(procs, p),
         exe' = exe, directory' = directory,
         launcher' \in Launchers
  PROVE  GateInv'
<1>1. procs \in Seq(Proc)
  BY DEF GateInv, GateTypes
<1>2. procs' \in Seq(Proc) /\ DOMAIN procs' = 1 .. Len(procs) + 1 /\ DOMAIN procs = 1 .. Len(procs)
  BY <1>1
<1>3. \A i \in DOMAIN procs' : Fit(procs'[i], exe)
  <2> TAKE i \in DOMAIN procs'
  <2>1. CASE i = Len(procs) + 1
    BY <1>1, <2>1
  <2>2. CASE i # Len(procs) + 1
    <3>1. i \in DOMAIN procs /\ procs'[i] = procs[i]
      BY <1>1, <1>2, <2>2
    <3> QED
      BY <3>1 DEF GateInv
  <2> QED
    BY <2>1, <2>2
<1> QED
  BY <1>2, <1>3 DEF GateInv, GateTypes

(* A step of one process keeps the invariant if the process still fits.    *)
LEMMA ProcessKeeps ==
  ASSUME GateInv, NEW i \in DOMAIN procs, NEW p \in Proc, Fit(p, exe),
         procs' = [procs EXCEPT ![i] = p], Steps
  PROVE  GateInv'
<1>1. procs \in Seq(Proc)
  BY DEF GateInv, GateTypes
<1>2. procs' \in Seq(Proc) /\ DOMAIN procs' = DOMAIN procs
  BY <1>1
<1>3. \A j \in DOMAIN procs' : Fit(procs'[j], exe)
  BY <1>1, <1>2 DEF GateInv
<1> QED
  BY <1>2, <1>3 DEF GateInv, GateTypes, Steps

-----------------------------------------------------------------------------
LEMMA InitFits == GateInit => GateInv
<1> SUFFICES ASSUME GateInit PROVE GateInv
  OBVIOUS
<1>1. NoProfile \in Profiles
  BY DEF Profiles
<1>2. launcher \in Launchers
  BY <1>1 DEF GateInit, Launchers
<1>3. procs \in Seq(Proc)
  BY DEF GateInit
<1> QED
  BY <1>2, <1>3 DEF GateInit, GateInv, GateTypes

(* An update makes the processes of the server's file deleted, and         *)
(* disturbs those that are reading it.                                     *)
LEMMA UpdateKeeps == ASSUME GateInv, NEW b \in ServerBuilds, Update(b) PROVE GateInv'
<1> DEFINE After(p) ==
      IF p.image = HelperBuild THEN p
      ELSE [p EXCEPT !.deleted = TRUE,
                     !.disturbed = @ \/ p.pc \in {"size", "sha256", "buildId"}]
<1>1. procs \in Seq(Proc) /\ exe' = b /\ directory' = directory /\ launcher' = launcher
  BY DEF GateInv, GateTypes, Update
<1>2. procs' = [i \in DOMAIN procs |-> After(procs[i])]
  BY DEF Update
<1>3. ASSUME NEW p \in Proc, Fit(p, exe) PROVE After(p) \in Proc /\ Fit(After(p), b)
  <2>1. CASE p.image = HelperBuild
    BY <1>3, <2>1 DEF Fit
  <2>2. CASE p.image # HelperBuild
    <3> DEFINE q == [p EXCEPT !.deleted = TRUE,
                              !.disturbed = @ \/ p.pc \in {"size", "sha256", "buildId"}]
    <3>1. After(p) = q
      BY <2>2
    <3>2. q \in Proc
      BY DEF Proc
    <3>3. /\ q.image = p.image /\ q.pc = p.pc /\ q.seen = p.seen /\ q.profile = p.profile
          /\ q.acts = p.acts /\ q.deleted
          /\ q.disturbed <=> p.disturbed \/ p.pc \in {"size", "sha256", "buildId"}
      BY DEF Proc
    <3>4. Fit(q, b)
      BY <1>3, <3>3 DEF Fit
    <3> QED
      BY <3>1, <3>2, <3>4
  <2> QED
    BY <2>1, <2>2
<1> HIDE DEF After
<1>4. \A i \in DOMAIN procs : procs[i] \in Proc /\ Fit(procs[i], exe)
  BY <1>1 DEF GateInv
<1>5. procs' \in Seq(Proc) /\ DOMAIN procs' = DOMAIN procs
  BY <1>1, <1>2, <1>3, <1>4
<1>6. \A i \in DOMAIN procs' : Fit(procs'[i], b)
  BY <1>2, <1>3, <1>4, <1>5
<1> QED
  BY <1>1, <1>5, <1>6 DEF GateInv, GateTypes

-----------------------------------------------------------------------------
(* The launcher's own steps leave the processes alone.                     *)
LEMMA LauncherKeeps ==
  ASSUME GateInv, Fingerprint \/ Select \/ Verify \/ SpawnVanilla PROVE GateInv'
<1>1. launcher \in Launchers /\ exe \in Images /\ directory \subseteq Profiles
  BY DEF GateInv, GateTypes, Images, Profiles
<1>2. exe' = exe /\ directory' = directory /\ procs' = procs
  BY DEF Fingerprint, Select, Verify, SpawnVanilla
<1>3. launcher' \in Launchers
  <2>1. CASE Fingerprint
    BY <1>1, <2>1 DEF Fingerprint, Launchers
  <2>2. CASE Select
    BY <1>1, <2>2 DEF Select, Launchers
  <2>3. CASE Verify
    BY <1>1, <2>3 DEF Verify, Launchers
  <2>4. CASE SpawnVanilla
    BY <1>1, <2>4 DEF SpawnVanilla, Launchers
  <2> QED
    BY <2>1, <2>2, <2>3, <2>4
<1> QED
  BY <1>2, <1>3 DEF GateInv, GateTypes

(* The steps that start a process.                                         *)
LEMMA StartKeeps ==
  ASSUME GateInv, Spawn \/ ManualStart \/ (\E i \in DOMAIN procs : StartHelper(i))
  PROVE  GateInv'
<1>1. launcher \in Launchers /\ exe \in Images /\ procs \in Seq(Proc) /\ HelperBuild \in Images
  BY DEF GateInv, GateTypes, Images
<1>2. NoProfile \in Profiles /\ launcher.profile \in Profiles
  BY <1>1 DEF Profiles, Launchers
<1>3. CASE Spawn
  <2>1. launcher' \in Launchers
    BY <1>1, <1>3 DEF Spawn, Launchers
  <2>2. "launched" \in Kinds /\ "full" \in Envs
    BY DEF Kinds, Envs
  <2> QED
    BY <1>1, <1>2, <1>3, <2>1, <2>2, StartedFits, AppendKeeps DEF Spawn
<1>4. CASE ManualStart
  <2>1. PICK env \in {"bare", "bypass", "disabled"} :
          procs' = Append(procs, Started("manual", exe, NoProfile, env))
    BY <1>4 DEF ManualStart
  <2>2. "manual" \in Kinds /\ env \in Envs
    BY DEF Kinds, Envs
  <2> QED
    BY <1>1, <1>2, <1>4, <2>1, <2>2, StartedFits, AppendKeeps DEF ManualStart
<1>5. ASSUME NEW i \in DOMAIN procs, StartHelper(i) PROVE GateInv'
  <2>1. PICK pr \in {procs[i].profile, NoProfile} :
          procs' = Append(procs, Started("helper", HelperBuild, pr, "full"))
    BY <1>5 DEF StartHelper
  <2>2. pr \in Profiles
    <3>1. procs[i] \in Proc
      BY <1>1
    <3>2. procs[i].profile \in Profiles
      BY <3>1 DEF Proc
    <3> QED
      BY <1>2, <3>2
  <2>3. "helper" \in Kinds /\ "full" \in Envs
    BY DEF Kinds, Envs
  <2>4. /\ Started("helper", HelperBuild, pr, "full") \in Proc
        /\ Fit(Started("helper", HelperBuild, pr, "full"), exe)
    BY <1>1, <2>2, <2>3, StartedFits
  <2>5. launcher' \in Launchers /\ exe' = exe /\ directory' = directory
    BY <1>1, <1>5 DEF StartHelper
  <2> QED
    BY <2>1, <2>4, <2>5, AppendKeeps
<1> QED
  BY <1>3, <1>4, <1>5

-----------------------------------------------------------------------------
(* The steps of Runtime::start in a process.                               *)
LEMMA BeginKeeps ==
  ASSUME GateInv, NEW i \in DOMAIN procs, Begin(i) \/ Readlink(i) PROVE GateInv'
<1>1. procs[i] \in Proc /\ Fit(procs[i], exe)
  BY DEF GateInv, GateTypes
<1>2. PICK pc \in {"off", "refused", "readlink", "size"} :
        /\ procs' = [procs EXCEPT ![i] = [procs[i] EXCEPT !.pc = pc]]
        /\ procs[i].pc \in {"begin", "readlink"}
        /\ pc = "size" => ~procs[i].deleted
  <2>1. CASE Begin(i)
    <3> DEFINE q == IF procs[i].env = "disabled" THEN "off"
                    ELSE IF procs[i].env = "full" /\ procs[i].profile # NoProfile
                            /\ LoaderAccepts(procs[i].profile) THEN "readlink"
                    ELSE "refused"
    <3>1. q \in {"off", "refused", "readlink"}
      BY Zenon
    <3>2. procs' = [procs EXCEPT ![i] = [procs[i] EXCEPT !.pc = q]] /\ procs[i].pc = "begin"
      BY <2>1 DEF Begin, Become, Is
    <3> HIDE DEF q
    <3> QED
      BY <3>1, <3>2
  <2>2. CASE Readlink(i)
    BY <2>2 DEF Readlink, Become, Is
  <2> QED
    BY <2>1, <2>2
<1> DEFINE p == [procs[i] EXCEPT !.pc = pc]
<1>3. p \in Proc
  BY <1>1 DEF Proc, Pcs
<1>4. Fit(p, exe)
  BY <1>1, <1>2 DEF Fit, Passed, Proc
<1> QED
  BY <1>2, <1>3, <1>4, ProcessKeeps DEF Begin, Readlink

LEMMA ReadKeeps ==
  ASSUME GateInv, NEW i \in DOMAIN procs, ReadSize(i) \/ ReadSha(i) \/ ReadBuildId(i)
  PROVE  GateInv'
<1>1. procs[i] \in Proc /\ Fit(procs[i], exe) /\ exe \in ServerBuilds
  BY DEF GateInv, GateTypes
<1>2. FileOf(i) \in Images
  BY <1>1 DEF FileOf, Images
<1>3. Steps
  BY DEF ReadSize, ReadSha, ReadBuildId, ReadFile
<1>4. CASE ReadSize(i)
  <2> DEFINE p == [procs[i] EXCEPT !.pc = "sha256", !.seen.size = Elf[FileOf(i)].size]
  <2>1. procs' = [procs EXCEPT ![i] = p] /\ procs[i].pc = "size"
    BY <1>1, <1>4 DEF ReadSize, ReadFile, Is, FingerprintOf, Proc, Seen
  <2>2. p \in Proc
    BY <1>1, <1>2 DEF Proc, Seen, Pcs
  <2>3. Fit(p, exe)
    BY <1>1, <2>1 DEF Fit, Passed, Proc, Seen
  <2> QED
    BY <1>3, <2>1, <2>2, <2>3, ProcessKeeps
<1>5. CASE ReadSha(i)
  <2> DEFINE p == [procs[i] EXCEPT !.pc = "buildId", !.seen.sha256 = FileOf(i)]
  <2>1. procs' = [procs EXCEPT ![i] = p] /\ procs[i].pc = "sha256"
    BY <1>1, <1>5 DEF ReadSha, ReadFile, Is, FingerprintOf, Proc, Seen
  <2>2. p \in Proc
    BY <1>1, <1>2 DEF Proc, Seen, Pcs
  <2>3. ~procs[i].disturbed => FileOf(i) = procs[i].image
    BY <1>1, <2>1 DEF Fit, FileOf
  <2>4. Fit(p, exe)
    BY <1>1, <2>1, <2>3 DEF Fit, Passed, Proc, Seen
  <2> QED
    BY <1>3, <2>1, <2>2, <2>4, ProcessKeeps
<1>6. CASE ReadBuildId(i)
  <2> DEFINE p == [procs[i] EXCEPT !.pc = "match", !.seen.buildId = Elf[FileOf(i)].buildId]
  <2>1. procs' = [procs EXCEPT ![i] = p] /\ procs[i].pc = "buildId"
    BY <1>1, <1>6 DEF ReadBuildId, ReadFile, Is, FingerprintOf, Proc, Seen
  <2>2. p \in Proc
    BY <1>1, <1>2 DEF Proc, Seen, Pcs
  <2>3. Fit(p, exe)
    BY <1>1, <2>1 DEF Fit, Passed, Proc, Seen
  <2> QED
    BY <1>3, <2>1, <2>2, <2>3, ProcessKeeps
<1> QED
  BY <1>4, <1>5, <1>6

LEMMA MatchKeeps == ASSUME GateInv, NEW i \in DOMAIN procs, Match(i) PROVE GateInv'
<1>1. procs[i] \in Proc /\ Fit(procs[i], exe) /\ procs[i].pc = "match"
  BY DEF GateInv, GateTypes, Match, Is
<1> DEFINE through == /\ ExactlyMatches(procs[i].profile, procs[i].seen)
                      /\ AnchorsLive(procs[i].profile, procs[i].image)
           pc == IF through THEN "control" ELSE "refused"
           p == [procs[i] EXCEPT !.pc = pc]
<1>2. procs' = [procs EXCEPT ![i] = p]
  BY DEF Match, Become
<1>3. p \in Proc
  BY <1>1 DEF Proc, Pcs
<1>4. through => /\ procs[i].profile.status = "validated"
                 /\ procs[i].profile.elf.sha256 = procs[i].seen.sha256
  BY <1>1 DEF ExactlyMatches, Proc, Seen
<1>5. Fit(p, exe)
  BY <1>1, <1>4 DEF Fit, Passed, Proc
<1> QED
  BY <1>2, <1>3, <1>5, ProcessKeeps DEF Match

LEMMA AcquireKeeps ==
  ASSUME GateInv, NEW i \in DOMAIN procs, BindControl(i) \/ LoadPlugins(i) \/ InstallHooks(i)
  PROVE  GateInv'
<1>1. procs[i] \in Proc /\ Fit(procs[i], exe)
  BY DEF GateInv, GateTypes
<1>2. PICK pc \in Passed, acts \in SUBSET Acts :
        /\ procs' = [procs EXCEPT ![i] = [procs[i] EXCEPT !.pc = pc, !.acts = acts]]
        /\ procs[i].pc \in Passed
  <2>1. ASSUME NEW pc \in Passed, NEW what \in Acts, NEW next \in Passed, NEW lost,
               Acquire(i, pc, what, next, lost)
        PROVE  \E q \in Passed, acts \in SUBSET Acts :
                 /\ procs' = [procs EXCEPT ![i] = [procs[i] EXCEPT !.pc = q, !.acts = acts]]
                 /\ procs[i].pc \in Passed
    <3>1. procs[i].acts \subseteq Acts /\ procs[i].pc = pc /\ "failed" \in Passed
      BY <1>1, <2>1 DEF Proc, Acquire, Is, Passed
    <3>2. CASE procs' = [procs EXCEPT ![i].pc = next, ![i].acts = @ \cup {what}]
      <4>1. procs' = [procs EXCEPT ![i] = [procs[i] EXCEPT !.pc = next,
                                                          !.acts = procs[i].acts \cup {what}]]
        BY <1>1, <3>2 DEF Proc
      <4>2. procs[i].acts \cup {what} \in SUBSET Acts
        BY <3>1
      <4> QED
        BY <3>1, <4>1, <4>2
    <3>3. CASE procs' = [procs EXCEPT ![i].pc = "failed", ![i].acts = @ \ lost]
      <4>1. procs' = [procs EXCEPT ![i] = [procs[i] EXCEPT !.pc = "failed",
                                                          !.acts = procs[i].acts \ lost]]
        BY <1>1, <3>3 DEF Proc
      <4>2. procs[i].acts \ lost \in SUBSET Acts
        BY <3>1
      <4> QED
        BY <3>1, <4>1, <4>2
    <3> QED
      BY <2>1, <3>2, <3>3 DEF Acquire
  <2>2. {"control", "plugins", "hooks"} \subseteq Acts
        /\ {"control", "plugins", "hooks", "running"} \subseteq Passed
    BY DEF Acts, Passed
  <2> QED
    BY <2>1, <2>2 DEF BindControl, LoadPlugins, InstallHooks
<1> DEFINE p == [procs[i] EXCEPT !.pc = pc, !.acts = acts]
<1>3. p \in Proc
  BY <1>1 DEF Proc, Pcs, Passed
<1>4. Fit(p, exe)
  BY <1>1, <1>2 DEF Fit, Passed, Proc
<1> QED
  BY <1>2, <1>3, <1>4, ProcessKeeps DEF BindControl, LoadPlugins, InstallHooks, Acquire

-----------------------------------------------------------------------------
LEMMA NextKeeps == GateInv /\ [GateNext]_gateVars => GateInv'
<1> SUFFICES ASSUME GateInv, [GateNext]_gateVars PROVE GateInv'
  OBVIOUS
<1>1. CASE UNCHANGED gateVars
  BY <1>1 DEF gateVars, GateInv, GateTypes
<1>2. CASE GateNext
  BY <1>2, UpdateKeeps, LauncherKeeps, StartKeeps, BeginKeeps, ReadKeeps, MatchKeeps,
     AcquireKeeps DEF GateNext, LauncherStep, Process
<1> QED
  BY <1>1, <1>2

(* Everything palmod does in a process, it does as the build of its        *)
(* profile or as one whose file was replaced under its very fingerprint,   *)
(* with the anchors' bytes in place: for every set of builds and profiles, *)
(* any number of updates and of processes (Runtime::start).                *)
THEOREM GateSoundHolds == GateSpec => []GateSound
<1>1. GateInv => GateSound
  BY DEF GateInv, Fit, GateSound
<1> QED
  BY <1>1, InitFits, NextKeeps, PTL DEF GateSpec

-----------------------------------------------------------------------------
(***************************************************************************)
(* OffsetsBounded.  A profile reaches a process only through select_profile,*)
(* which reads the whole directory with the launcher's limits, and gets    *)
(* past Begin only with the loader's; no step changes the profile of a     *)
(* process.                                                                *)
(***************************************************************************)
NotRead == {"begin", "off", "refused"}

Checked(p) ==
  /\ p.profile # NoProfile => LauncherAccepts(p.profile)
  /\ p.pc \notin NotRead => p.profile # NoProfile /\ LoaderAccepts(p.profile)

Checks ==
  /\ launcher.profile # NoProfile => LauncherAccepts(launcher.profile)
  /\ \A i \in DOMAIN procs : Checked(procs[i])

LEMMA AppendChecks ==
  ASSUME GateInv, Checks, NEW p, Checked(p), procs' = Append(procs, p),
         launcher'.profile = launcher.profile
  PROVE  Checks'
<1>1. procs \in Seq(Proc)
  BY DEF GateInv, GateTypes
<1>2. ASSUME NEW i \in DOMAIN procs' PROVE Checked(procs'[i])
  <2>1. CASE i = Len(procs) + 1
    BY <1>1, <2>1
  <2>2. CASE i # Len(procs) + 1
    <3>1. i \in DOMAIN procs /\ procs'[i] = procs[i]
      BY <1>1, <2>2
    <3> QED
      BY <3>1 DEF Checks
  <2> QED
    BY <2>1, <2>2
<1> QED
  BY <1>2 DEF Checks

(* Steps that read no profile keep what was checked. *)
LEMMA SameProfiles ==
  ASSUME Checks, launcher'.profile = launcher.profile, DOMAIN procs' = DOMAIN procs,
         \A i \in DOMAIN procs :
           /\ procs'[i].profile = procs[i].profile
           /\ procs'[i].pc \notin NotRead => procs[i].pc \notin NotRead
  PROVE  Checks'
<1>1. \A i \in DOMAIN procs : Checked(procs'[i])
  BY DEF Checks, Checked
<1> QED
  BY <1>1 DEF Checks

LEMMA LauncherChecks ==
  ASSUME GateInv, Checks, Fingerprint \/ Select \/ Verify \/ SpawnVanilla
  PROVE  Checks'
<1>1. launcher \in Launchers /\ procs' = procs
  BY DEF GateInv, GateTypes, Fingerprint, Select, Verify, SpawnVanilla
<1>2. launcher'.profile # NoProfile => LauncherAccepts(launcher'.profile)
  <2>1. CASE Fingerprint \/ Verify \/ SpawnVanilla
    <3>1. launcher'.profile = launcher.profile
      BY <1>1, <2>1 DEF Fingerprint, Verify, SpawnVanilla, Launchers
    <3> QED
      BY <3>1 DEF Checks
  <2>2. CASE Select
    <3>1. \/ \E pc : launcher' = [launcher EXCEPT !.pc = pc]
          \/ \E pr \in directory :
               /\ launcher' = [launcher EXCEPT !.pc = "verify", !.profile = pr]
               /\ LauncherAccepts(pr)
      BY <2>2 DEF Select
    <3>2. CASE \E pc : launcher' = [launcher EXCEPT !.pc = pc]
      <4>1. launcher'.profile = launcher.profile
        BY <1>1, <3>2 DEF Launchers
      <4> QED
        BY <4>1 DEF Checks
    <3>3. CASE \E pr \in directory :
               /\ launcher' = [launcher EXCEPT !.pc = "verify", !.profile = pr]
               /\ LauncherAccepts(pr)
      BY <1>1, <3>3 DEF Launchers
    <3> QED
      BY <3>1, <3>2, <3>3
  <2> QED
    BY <2>1, <2>2
<1> QED
  BY <1>1, <1>2 DEF Checks

LEMMA StartChecks ==
  ASSUME GateInv, Checks, Spawn \/ ManualStart \/ (\E i \in DOMAIN procs : StartHelper(i))
  PROVE  Checks'
<1>1. launcher \in Launchers
  BY DEF GateInv, GateTypes
<1>2. launcher'.profile = launcher.profile
  BY <1>1 DEF Spawn, ManualStart, StartHelper, Launchers
<1>3. PICK kind, image, pr, env :
        /\ procs' = Append(procs, Started(kind, image, pr, env))
        /\ pr # NoProfile => LauncherAccepts(pr)
  <2>1. CASE Spawn
    BY <2>1 DEF Spawn, Checks
  <2>2. CASE ManualStart
    BY <2>2 DEF ManualStart
  <2>3. ASSUME NEW i \in DOMAIN procs, StartHelper(i)
        PROVE  \E kind, image, pr, env :
                 /\ procs' = Append(procs, Started(kind, image, pr, env))
                 /\ pr # NoProfile => LauncherAccepts(pr)
    BY <2>3 DEF StartHelper, Checks, Checked
  <2> QED
    BY <2>1, <2>2, <2>3
<1>4. Checked(Started(kind, image, pr, env))
  BY <1>3 DEF Started, Checked, NotRead
<1> QED
  BY <1>2, <1>3, <1>4, AppendChecks

LEMMA ProcessChecks ==
  ASSUME GateInv, Checks, NEW i \in DOMAIN procs, Process(i)
  PROVE  Checks'
<1>1. procs \in Seq(Proc) /\ procs[i] \in Proc /\ launcher' = launcher
  BY DEF GateInv, GateTypes, Process, Begin, Readlink, ReadSize, ReadSha, ReadBuildId, ReadFile,
         Match, BindControl, LoadPlugins, InstallHooks, Acquire, Steps
<1>2. CASE Begin(i)
  <2> DEFINE q == IF procs[i].env = "disabled" THEN "off"
                  ELSE IF procs[i].env = "full" /\ procs[i].profile # NoProfile
                          /\ LoaderAccepts(procs[i].profile) THEN "readlink"
                  ELSE "refused"
  <2>1. \/ q \in NotRead
        \/ q = "readlink" /\ procs[i].profile # NoProfile /\ LoaderAccepts(procs[i].profile)
    BY Zenon DEF NotRead
  <2>2. procs' = [procs EXCEPT ![i].pc = q]
    BY <1>2 DEF Begin, Become
  <2> HIDE DEF q
  <2>3. /\ DOMAIN procs' = DOMAIN procs /\ procs'[i].profile = procs[i].profile /\ procs'[i].pc = q
        /\ \A j \in DOMAIN procs : j # i => procs'[j] = procs[j]
    BY <1>1, <2>2 DEF Proc
  <2>4. Checked(procs[i])
    BY DEF Checks
  <2>5. Checked(procs'[i])
    BY <2>1, <2>3, <2>4 DEF Checked
  <2>6. \A j \in DOMAIN procs : Checked(procs'[j])
    BY <2>3, <2>5 DEF Checks
  <2> QED
    BY <1>1, <2>3, <2>6 DEF Checks
<1>3. CASE ~Begin(i)
  <2>1. PICK r \in Proc : /\ procs' = [procs EXCEPT ![i] = r]
                          /\ r.profile = procs[i].profile
                          /\ procs[i].pc \notin NotRead
    <3>1. CASE Readlink(i)
      <4> DEFINE r == [procs[i] EXCEPT !.pc = IF procs[i].deleted THEN "refused" ELSE "size"]
      <4>1. procs' = [procs EXCEPT ![i] = r] /\ procs[i].pc = "readlink"
        BY <1>1, <3>1 DEF Readlink, Become, Is
      <4>2. r \in Proc /\ r.profile = procs[i].profile
        BY <1>1 DEF Proc, Pcs
      <4> QED
        BY <4>1, <4>2 DEF NotRead
    <3>2. CASE Match(i)
      <4> DEFINE pc == IF /\ ExactlyMatches(procs[i].profile, procs[i].seen)
                          /\ AnchorsLive(procs[i].profile, procs[i].image)
                       THEN "control" ELSE "refused"
                 r == [procs[i] EXCEPT !.pc = pc]
      <4>1. procs' = [procs EXCEPT ![i] = r] /\ procs[i].pc = "match"
        BY <1>1, <3>2 DEF Match, Become, Is
      <4>2. pc \in Pcs
        BY DEF Pcs
      <4> HIDE DEF pc
      <4>3. r \in Proc /\ r.profile = procs[i].profile
        BY <1>1, <4>2 DEF Proc
      <4> QED
        BY <4>1, <4>3 DEF NotRead
    <3>3. CASE ReadSize(i) \/ ReadSha(i) \/ ReadBuildId(i)
      <4>1. PICK field \in {"size", "sha256", "buildId"}, next \in {"sha256", "buildId", "match"} :
              ReadFile(i, field, next)
        BY <3>3 DEF ReadSize, ReadSha, ReadBuildId
      <4> DEFINE v == FingerprintOf(FileOf(i))[field]
                 r == [procs[i] EXCEPT !.pc = next, !.seen[field] = v]
      <4>2. procs' = [procs EXCEPT ![i] = r] /\ procs[i].pc = field
        BY <1>1, <4>1 DEF ReadFile, Is
      <4>3. procs' \in Seq(Proc)
        BY <1>1, <3>3, ReadKeeps DEF GateInv, GateTypes
      <4>4. procs'[i] = r
        BY <1>1, <4>2
      <4>5. r \in Proc
        BY <1>1, <4>2, <4>3, <4>4
      <4>6. r.profile = procs[i].profile
        BY <1>1 DEF Proc
      <4> QED
        BY <4>2, <4>5, <4>6 DEF NotRead
    <3>4. CASE BindControl(i) \/ LoadPlugins(i) \/ InstallHooks(i)
      <4>1. PICK pc, acts : /\ procs' = [procs EXCEPT ![i].pc = pc, ![i].acts = acts]
                            /\ procs[i].pc \in {"control", "plugins", "hooks"}
        BY <3>4 DEF BindControl, LoadPlugins, InstallHooks, Acquire, Is
      <4> DEFINE r == [procs[i] EXCEPT !.pc = pc, !.acts = acts]
      <4>2. procs' = [procs EXCEPT ![i] = r] /\ r.profile = procs[i].profile
        BY <1>1, <4>1 DEF Proc
      <4>3. procs' \in Seq(Proc)
        BY <3>4, AcquireKeeps DEF GateInv, GateTypes
      <4>4. r \in Proc
        BY <1>1, <4>2, <4>3
      <4> QED
        BY <4>1, <4>2, <4>4 DEF NotRead
    <3> QED
      BY <1>3, <3>1, <3>2, <3>3, <3>4 DEF Process
  <2>2. DOMAIN procs' = DOMAIN procs /\ \A j \in DOMAIN procs : procs'[j] = IF j = i THEN r ELSE procs[j]
    BY <1>1, <2>1
  <2>3. \A j \in DOMAIN procs :
          /\ procs'[j].profile = procs[j].profile
          /\ procs'[j].pc \notin NotRead => procs[j].pc \notin NotRead
    BY <2>1, <2>2
  <2> QED
    BY <1>1, <2>2, <2>3, SameProfiles
<1> QED
  BY <1>2, <1>3

LEMMA UpdateChecks ==
  ASSUME GateInv, Checks, NEW b \in ServerBuilds, Update(b)
  PROVE  Checks'
<1>1. procs \in Seq(Proc) /\ launcher' = launcher /\ DOMAIN procs' = DOMAIN procs
  BY DEF GateInv, GateTypes, Update
<1>2. ASSUME NEW i \in DOMAIN procs
      PROVE  procs'[i].profile = procs[i].profile /\ procs'[i].pc = procs[i].pc
  <2>1. procs[i] \in Proc
    BY <1>1
  <2>2. procs'[i] = IF procs[i].image = HelperBuild THEN procs[i]
                    ELSE [procs[i] EXCEPT !.deleted = TRUE,
                            !.disturbed = @ \/ procs[i].pc \in {"size", "sha256", "buildId"}]
    BY DEF Update
  <2> QED
    BY <2>1, <2>2 DEF Proc
<1> QED
  BY <1>1, <1>2, SameProfiles

LEMMA NextChecks == GateInv /\ Checks /\ [GateNext]_gateVars => Checks'
<1> SUFFICES ASSUME GateInv, Checks, [GateNext]_gateVars PROVE Checks'
  OBVIOUS
<1>1. CASE UNCHANGED gateVars
  BY <1>1 DEF gateVars, Checks
<1>2. CASE GateNext
  BY <1>2, UpdateChecks, LauncherChecks, StartChecks, ProcessChecks DEF GateNext, LauncherStep
<1> QED
  BY <1>1, <1>2

(* What LauncherAccepts and LoaderAccepts leave of a limited fact. *)
LEMMA LimitedTogether ==
  ASSUME NEW pr, LauncherAccepts(pr), LoaderAccepts(pr)
  PROVE  /\ \A f \in LimitedOffsets : Fact(pr.reflection, f) # "large"
         /\ \A f \in Addresses : Fact(pr.reflection, f) # "zero"
<1> DEFINE fact(f) == Fact(pr.reflection, f)
<1>1. CASE DOMAIN pr.reflection = {}
  <2>1. \A f : fact(f) = "absent"
    BY <1>1 DEF Fact
  <2> QED
    BY <2>1
<1>2. CASE DOMAIN pr.reflection # {}
  <2>1. /\ \A f \in DOMAIN LauncherRange : fact(f) \in LauncherRange[f]
        /\ \A f \in DOMAIN LoaderRange : fact(f) \in LoaderRange[f]
    BY <1>2 DEF LauncherAccepts, LoaderAccepts, InRange
  <2> HIDE DEF fact
  <2>2. /\ fact("ufunction_func_offset") \in {"small"}
        /\ fact("fframe_locals_offset") \in Optional({"small"})
        /\ \A f \in {"tick_vtable_slot", "chat_fframe_locals_offset", "message_text_offset"} :
             fact(f) \in Optional(Small)
        /\ fact("ufunction_vtable_va") \in NonZero
        /\ \A f \in Addresses \ {"ufunction_vtable_va"} : fact(f) \in Optional(NonZero)
    BY <2>1 DEF LauncherRange, Addresses
  <2>3. \A f \in {"process_event_vtable_slot", "super_struct_offset"} : fact(f) \in Optional(Small)
    BY <2>1 DEF LoaderRange
  <2>4. /\ "large" \notin {"small"} \cup Optional({"small"}) \cup Optional(Small)
        /\ "zero" \notin NonZero \cup Optional(NonZero)
    BY DEF Optional, Small, NonZero
  <2>5. \A f \in LimitedOffsets : fact(f) # "large"
    BY <2>2, <2>3, <2>4 DEF LimitedOffsets
  <2>6. \A f \in Addresses : fact(f) # "zero"
    BY <2>2, <2>4
  <2> QED
    BY <2>5, <2>6 DEF fact
<1> QED
  BY <1>1, <1>2

(***************************************************************************)
(* When hooks are installed, the seven limited offsets of the profile are  *)
(* small and its addresses not zero, for any directory of profiles, any    *)
(* builds, updates and processes (ReflectionProfile::validate and          *)
(* BuildProfile::parse_json together).                                     *)
(***************************************************************************)
THEOREM OffsetsBoundedHolds == GateSpec => []OffsetsBounded
<1>1. GateInit => GateInv /\ Checks
  BY InitFits DEF GateInit, Checks
<1>2. GateInv /\ Checks => OffsetsBounded
  <2> SUFFICES ASSUME GateInv, Checks, NEW i \in DOMAIN procs, "hooks" \in procs[i].acts
               PROVE  /\ \A f \in LimitedOffsets : Fact(procs[i].profile.reflection, f) # "large"
                      /\ \A f \in Addresses : Fact(procs[i].profile.reflection, f) # "zero"
    BY DEF OffsetsBounded
  <2>1. procs[i] \in Proc /\ procs[i].pc \in Passed
    BY DEF GateInv, GateTypes, Fit
  <2>2. procs[i].pc \notin NotRead
    BY <2>1 DEF Passed, NotRead
  <2>3. LauncherAccepts(procs[i].profile) /\ LoaderAccepts(procs[i].profile)
    BY <2>2 DEF Checks, Checked
  <2> QED
    BY <2>3, LimitedTogether
<1> QED
  BY <1>1, <1>2, InitFits, NextKeeps, NextChecks, PTL DEF GateSpec
=============================================================================
