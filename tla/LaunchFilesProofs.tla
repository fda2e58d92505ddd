--------------------------- MODULE LaunchFilesProofs ---------------------------
(***************************************************************************)
(* Theorems about LaunchFiles, for any launchers, slots, files and bounds.  *)
(*                                                                         *)
(* The invariant says that what a task ended with is whole, or one of the  *)
(* exceptions (Ended), that a phase is left when its loads have ended      *)
(* (Loaded), and how much of the bar each phase has filled (Counted).      *)
(***************************************************************************)
EXTENDS LaunchFiles, TLAPS

Phases == {"idle", "version", "installer", "profile", "processors", "files", "started"}
Outcomes == {"none", "started", "failed", "cancelled", "not executable"}
TaskSteps == {"idle", "check", "request", "write", "mode", "run", "done"}
Plans == [loader : {"vanilla", "fabric", "modern", "legacy", "bare"}, java : {"mojang", "own"}, number : Nat]
Bars == [count : Nat, total : Nat]
Jobs ==
    [launcher : Launchers, number : Nat, slot : Slots, begun : BOOLEAN, content : {"whole", "wrong"}]

DiskOK ==
    /\ disk \in [Files -> {"absent", "torn", "wrong", "whole"}]
    /\ executable \subseteq Files

LaunchOK ==
    /\ phase \in [Launchers -> Phases]
    /\ plan \in [Launchers -> Plans]
    /\ verified \in [Launchers -> SUBSET Slots]
    /\ steps \in [Launchers -> [Slots -> TaskSteps]]
    /\ loading \in [Launchers -> SUBSET Loads]
    /\ progress \in [Launchers -> Bars]
    /\ outcome \in [Launchers -> Outcomes]

WritesOK == writes \subseteq Jobs
HistoryOK == rewritten \subseteq Files /\ trusted \subseteq Files
BoundsOK == harmed \in [Launchers -> BOOLEAN] /\ left \in [{"launches", "mishaps"} -> Nat]

Types == DiskOK /\ LaunchOK /\ WritesOK /\ HistoryOK /\ BoundsOK

\* A file is whole, or somebody wrote it anew, or took it without a hash.
Good(f) == disk[f] = "whole" \/ f \in rewritten \cup trusted

Ended ==
    /\ \A l \in Launchers, s \in Slots : steps[l][s] \in {"mode", "done"} => Good(File[s])
    /\ \A w \in writes : w.content = "wrong" => File[w.slot] \in trusted

\* The slots of these loads are done, in the steps of one launch.
AllDone(step, loads) == \A s \in SlotsOf(loads) : step[s] = "done"

\* What a launch has loaded when it is in phase ph, ld being what it still loads.
LoadedBy(ph, pl, ld, step) ==
    /\ ph = "installer" /\ "installer" \notin ld => AllDone(step, {"installer"})
    /\ ph = "profile" /\ pl.loader = "modern" /\ "profile" \notin ld => AllDone(step, {"profile"})
    /\ ph = "processors" => AllDone(step, {"profile"})

Loaded ==
    \A l \in Launchers :
        /\ LoadedBy(phase[l], plan[l], loading[l], steps[l])
        /\ outcome[l] = "failed" => harmed[l] \/ rewritten \cup trusted # {}

One(P) == IF P THEN 1 ELSE 0

\* How many of the loads that count have not ended.
Open(ld) ==
    One("java" \in ld) + One("assets" \in ld) + One("libraries" \in ld)
        + One("installer" \in ld) + One("profile" \in ld)

\* The loads of a phase.
LoadsIn(ph) ==
    CASE ph = "installer" -> {"java", "installer"}
      [] ph = "profile" -> {"profile"}
      [] ph = "processors" -> {"outputs"}
      [] ph = "files" -> FinalLoads
      [] OTHER -> {}

\* What has been counted when all loads of the phase have ended, had Java been
\* loaded wherever it is announced.
Full(ph, loader) ==
    CASE ph = "version" -> 0
      [] ph = "installer" -> 4
      [] ph = "profile" -> IF loader = "legacy" THEN 7 ELSE 6
      [] ph = "processors" -> 6
      [] ph = "files" -> CASE loader = "vanilla" -> 5 [] loader = "fabric" -> 8
                              [] loader = "bare" -> 10 [] OTHER -> 11
      [] ph = "started" -> CASE loader = "vanilla" -> 7 [] loader = "fabric" -> 10
                              [] loader = "bare" -> 12 [] OTHER -> 13

\* How often the launch has not counted Java, as it is the user's own.
Owned(ph, pl) ==
    IF pl.java = "mojang" \/ ph = "version" THEN 0
    ELSE IF pl.loader \in {"vanilla", "fabric"} \/ ph \notin {"files", "started"} THEN 1 ELSE 2

\* The bar of a launch.
CountedBy(ph, pl, ld, bar) ==
    IF ph = "idle" THEN bar = NoProgress /\ ld = {}
    ELSE /\ bar.total = 6 + ExtraTotal(pl.loader)
         /\ bar.count + Open(ld) + Owned(ph, pl) = Full(ph, pl.loader)
         /\ ld \subseteq LoadsIn(ph)
         /\ pl.java = "own" => "java" \notin ld
         /\ ph \in {"installer", "profile"} => pl.loader \in {"modern", "legacy", "bare"}
         /\ ph = "processors" => pl.loader = "modern"

Counted == \A l \in Launchers : CountedBy(phase[l], plan[l], loading[l], progress[l])

IInv == Types /\ Ended /\ Loaded /\ Counted

-----------------------------------------------------------------------------
(* What the parts of an action change.                                      *)

\* The launches of the other launchers are not touched.
Others(l) ==
    \A k \in Launchers \ {l} :
        /\ phase'[k] = phase[k] /\ plan'[k] = plan[k] /\ steps'[k] = steps[k]
        /\ loading'[k] = loading[k] /\ progress'[k] = progress[k] /\ outcome'[k] = outcome[k]

LEMMA StepIs ==
    ASSUME LaunchOK, NEW l \in Launchers, NEW s \in Slots, NEW step \in TaskSteps, Step(l, s, step)
    PROVE  /\ steps' \in [Launchers -> [Slots -> TaskSteps]]
           /\ steps'[l][s] = step
           /\ \A k \in Launchers, t \in Slots : k # l \/ t # s => steps'[k][t] = steps[k][t]
<1>1. steps[l] \in [Slots -> TaskSteps]
    BY DEF LaunchOK
<1>2. steps' = [steps EXCEPT ![l] = [steps[l] EXCEPT ![s] = step]]
    BY DEF Step
<1>3. [steps[l] EXCEPT ![s] = step] \in [Slots -> TaskSteps]
    BY <1>1
<1>4. QED
    BY <1>1, <1>2, <1>3 DEF LaunchOK

LEMMA CountIs ==
    ASSUME LaunchOK, NEW l \in Launchers, NEW n \in Nat, Count(l, n)
    PROVE  /\ progress' \in [Launchers -> Bars]
           /\ progress'[l].count = progress[l].count + n /\ progress'[l].total = progress[l].total
           /\ \A k \in Launchers \ {l} : progress'[k] = progress[k]
<1>1. progress[l] \in Bars
    BY DEF LaunchOK
<1>2. [progress[l] EXCEPT !.count = @ + n] \in Bars
    BY <1>1 DEF Bars
<1>3. progress' = [progress EXCEPT ![l] = [progress[l] EXCEPT !.count = @ + n]]
    BY DEF Count
<1>4. QED
    BY <1>1, <1>2, <1>3 DEF LaunchOK, Bars

\* A launch that is over has left nothing behind but its writes.
LEMMA OverIs ==
    ASSUME LaunchOK, NEW l \in Launchers, NEW how \in Outcomes, Over(l, how)
    PROVE  /\ LaunchOK'
           /\ Others(l)
           /\ phase'[l] = "idle" /\ steps'[l] = NoSteps /\ loading'[l] = {}
           /\ progress'[l] = NoProgress /\ outcome'[l] = how
<1>1. NoSteps \in [Slots -> TaskSteps]
    BY DEF NoSteps, TaskSteps
<1>2. plan[l] \in Plans
    BY DEF LaunchOK
<1>3. NoPlan(plan[l].number) \in Plans
    BY <1>2 DEF NoPlan, Plans
<1>4. NoProgress \in Bars
    BY DEF NoProgress, Bars
<1>5. Hashed \in SUBSET Slots
    BY LaunchFilesAssumption
<1>6. phase' \in [Launchers -> Phases] /\ loading' \in [Launchers -> SUBSET Loads]
      /\ outcome' \in [Launchers -> Outcomes]
    BY DEF Over, LaunchOK, Phases
<1>7. steps' \in [Launchers -> [Slots -> TaskSteps]] /\ plan' \in [Launchers -> Plans]
      /\ verified' \in [Launchers -> SUBSET Slots] /\ progress' \in [Launchers -> Bars]
    BY <1>1, <1>3, <1>4, <1>5 DEF Over, LaunchOK
<1>8. QED
    BY <1>6, <1>7 DEF Over, LaunchOK, Others

\* The loads that start: Java is only loaded where it is not the user's own.
Needs(l, loads) == IF plan[l].java = "mojang" THEN loads ELSE loads \ {"java"}

LEMMA NeedsLoads ==
    ASSUME NEW l, NEW loads
    PROVE  /\ Needs(l, loads) \subseteq loads
           /\ \A load \in loads : load # "java" => load \in Needs(l, loads)
BY DEF Needs

\* Loads that start are looked for first, the tasks of others stay where they are.
LEMMA BeginIs ==
    ASSUME LaunchOK, NEW l \in Launchers, NEW next \in Phases, NEW loads \in SUBSET Loads,
           Begin(l, next, loads)
    PROVE  /\ phase' \in [Launchers -> Phases] /\ phase'[l] = next
           /\ loading' \in [Launchers -> SUBSET Loads] /\ loading'[l] = Needs(l, loads)
           /\ steps' \in [Launchers -> [Slots -> TaskSteps]]
           /\ \A s \in Slots :
                 steps'[l][s] = IF LoadOf[s] \in Needs(l, loads) THEN "check" ELSE steps[l][s]
           /\ \A k \in Launchers \ {l} :
                 phase'[k] = phase[k] /\ loading'[k] = loading[k] /\ steps'[k] = steps[k]
           /\ UNCHANGED <<plan, outcome>>
<1> DEFINE new == [s \in Slots |-> IF LoadOf[s] \in Needs(l, loads) THEN "check" ELSE steps[l][s]]
<1>1. steps[l] \in [Slots -> TaskSteps]
    BY DEF LaunchOK
<1>2. new \in [Slots -> TaskSteps]
    BY <1>1 DEF TaskSteps
<1>3. steps' = [steps EXCEPT ![l] = new] /\ loading' = [loading EXCEPT ![l] = Needs(l, loads)]
      /\ phase' = [phase EXCEPT ![l] = next] /\ UNCHANGED <<plan, outcome>>
    BY DEF Begin, Needs
<1>4. Needs(l, loads) \in SUBSET Loads
    BY NeedsLoads
<1>5. QED
    BY <1>2, <1>3, <1>4 DEF LaunchOK

LEMMA BeginStarts ==
    ASSUME LaunchOK, NEW l \in Launchers, NEW next \in Phases, NEW loads \in SUBSET Loads,
           Begin(l, next, loads)
    PROVE  /\ phase'[l] = next
           /\ \A load \in loads : load # "java" => load \in loading'[l]
           /\ \A s \in Slots : LoadOf[s] \notin loads => steps'[l][s] = steps[l][s]
BY BeginIs, NeedsLoads

\* Mishaps and launches are counted, failures are noted.
LEMMA BoundsStay ==
    ASSUME BoundsOK
    PROVE  /\ NoMishap => BoundsOK'
           /\ \A l \in Launchers : Mishap(l) => BoundsOK' /\ harmed'[l] = TRUE
           /\ \A what \in {"launches", "mishaps"} :
                 Spend(what) => left' \in [{"launches", "mishaps"} -> Nat]
<1>1. ASSUME NEW what \in {"launches", "mishaps"}, Spend(what)
      PROVE  left' \in [{"launches", "mishaps"} -> Nat]
    BY <1>1 DEF BoundsOK, Spend
<1>2. ASSUME NEW l \in Launchers, Mishap(l)
      PROVE  BoundsOK' /\ harmed'[l] = TRUE
    BY <1>1, <1>2 DEF BoundsOK, Mishap
<1>3. QED
    BY <1>1, <1>2 DEF BoundsOK, NoMishap

LEMMA TypeInit == Init => Types
<1> SUFFICES ASSUME Init PROVE Types
    OBVIOUS
<1> USE LaunchFilesAssumption DEF Init
<1>1. DiskOK /\ WritesOK /\ HistoryOK /\ BoundsOK
    BY DEF DiskOK, WritesOK, HistoryOK, BoundsOK
<1>2. LaunchOK
    BY DEF LaunchOK, NoSteps, NoPlan, NoProgress, Phases, Plans, TaskSteps, Bars, Outcomes
<1>3. QED
    BY <1>1, <1>2 DEF Types

-----------------------------------------------------------------------------
(* A step moves the task of a slot, ends a launch, or takes it further.     *)

Moves ==
    /\ UNCHANGED launchVars
    /\ steps' \in [Launchers -> [Slots -> TaskSteps]]
    /\ \A l \in Launchers, s \in Slots : steps[l][s] = "done" => steps'[l][s] = "done"

Ends(l) == \E how \in Outcomes : Over(l, how)

Starts(l) == phase' = [phase EXCEPT ![l] = "started"]

Turns(l) ==
    \/ StartLaunch(l) \/ VersionKnown(l) \/ InstallerKnown(l)
    \/ \E load \in Loads : EndLoad(l, load)
    \/ ReadInstaller(l) /\ AreWhole({"installer"})
    \/ LoadedProfile(l) \/ LoadedLegacyProfile(l) \/ ProcessorsDone(l)
    \/ StartGame(l) /\ Starts(l)

LEMMA TaskStepKinds ==
    ASSUME Types, NEW l \in Launchers, NEW s \in Slots, TaskStep(l, s)
    PROVE  Moves \/ Ends(l)
<1> USE DEF Types
<1>1. ASSUME NEW step \in TaskSteps, Step(l, s, step), steps[l][s] # "done" \/ step = "done",
             UNCHANGED launchVars
      PROVE  Moves
    BY <1>1, StepIs DEF Moves
<1>2. CASE CheckDisk(l, s)
    BY <1>1, <1>2 DEF CheckDisk, TaskSteps
<1>3. CASE Downloaded(l, s)
    BY <1>1, <1>3 DEF Downloaded, TaskSteps
<1>4. CASE MakeExecutable(l, s) \/ SkipProcessor(l, s)
    BY <1>1, <1>4 DEF MakeExecutable, SkipProcessor, TaskSteps
<1>5. CASE DownloadFails(l, s)
    BY <1>5 DEF DownloadFails, Ends, Outcomes
<1>6. CASE RunProcessor(l, s)
    <2>1. CASE AreWhole({"profile"}) /\ JavaRuns(l)
        BY <1>1, <1>6, <2>1 DEF RunProcessor, TaskSteps
    <2>2. CASE ~(AreWhole({"profile"}) /\ JavaRuns(l))
        <3>1. Over(l, IF JavaRuns(l) THEN "failed" ELSE "not executable")
            BY <1>6, <2>2 DEF RunProcessor
        <3>2. QED
            BY <3>1 DEF Ends, Outcomes
    <2>3. QED
        BY <2>1, <2>2
<1>7. CASE EndProcessor(l, s)
    <2>1. CASE Step(l, s, "done") /\ UNCHANGED launchVars
        BY <1>1, <2>1 DEF TaskSteps
    <2>2. CASE Over(l, "failed")
        BY <2>2 DEF Ends, Outcomes
    <2>3. QED
        BY <1>7, <2>1, <2>2 DEF EndProcessor
<1>8. QED
    BY <1>2, <1>3, <1>4, <1>5, <1>6, <1>7 DEF TaskStep

LEMMA PoolStepKinds ==
    ASSUME Types, PoolStep
    PROVE  Moves \/ \E l \in Launchers : Ends(l)
<1> USE DEF Types
<1>1. PICK w \in writes : OpenFile(w) \/ WriteFile(w) \/ WriteFails(w)
    BY DEF PoolStep
<1>2. w.launcher \in Launchers /\ w.slot \in Slots
    BY DEF WritesOK, Jobs
<1>3. UNCHANGED <<launchVars, steps>> => Moves
    BY DEF Moves, LaunchOK
<1>4. CASE OpenFile(w)
    BY <1>3, <1>4 DEF OpenFile
<1>5. CASE WriteFile(w)
    <2>1. CASE Awaited(w)
        <3>1. PICK step \in {"mode", "done"} : Step(w.launcher, w.slot, step)
            BY <1>5, <2>1 DEF WriteFile
        <3>2. steps[w.launcher][w.slot] = "write"
            BY <2>1 DEF Awaited
        <3>3. QED
            BY <1>2, <1>5, <3>1, <3>2, StepIs DEF Moves, TaskSteps, WriteFile
    <2>2. CASE ~Awaited(w)
        BY <1>3, <1>5, <2>2 DEF WriteFile
    <2>3. QED
        BY <2>1, <2>2
<1>6. CASE WriteFails(w)
    <2>1. CASE Awaited(w)
        BY <1>2, <1>6, <2>1 DEF WriteFails, Ends, Outcomes
    <2>2. CASE ~Awaited(w)
        BY <1>3, <1>6, <2>2 DEF WriteFails
    <2>3. QED
        BY <2>1, <2>2
<1>7. QED
    BY <1>1, <1>4, <1>5, <1>6

LEMMA Kinds ==
    ASSUME Types, Next
    PROVE  Moves \/ \E l \in Launchers : Ends(l) \/ Turns(l)
<1>1. ASSUME NEW l \in Launchers, MetadataFails(l) \/ Return(l) \/ Cancel(l) \/ Crash(l)
      PROVE  Ends(l)
    BY <1>1 DEF MetadataFails, Return, Cancel, Crash, Ends, Outcomes
<1>2. ASSUME NEW l \in Launchers, ReadInstaller(l)
      PROVE  Ends(l) \/ Turns(l)
    BY <1>2 DEF ReadInstaller, Ends, Outcomes, Turns
<1>3. ASSUME NEW l \in Launchers, StartGame(l)
      PROVE  Ends(l) \/ Turns(l)
    BY <1>3 DEF StartGame, Ends, Outcomes, Turns, Starts
<1>4. QED
    BY <1>1, <1>2, <1>3, TaskStepKinds, PoolStepKinds DEF Next, LaunchStep, Turns

\* Taking a launch further keeps the types, and leaves the others alone.
LEMMA TurnTypes ==
    ASSUME Types, NEW l \in Launchers, Turns(l)
    PROVE  LaunchOK' /\ Others(l)
<1> USE DEF Types
<1>1. CASE StartLaunch(l)
    <2>1. PICK loader \in Loaders, java \in {"mojang", "own"} :
             /\ plan' = [plan EXCEPT ![l] = [loader |-> loader, java |-> java, number |-> left.launches]]
             /\ progress' = [progress EXCEPT ![l] = [count |-> 0, total |-> 6 + ExtraTotal(loader)]]
        BY <1>1 DEF StartLaunch
    <2>2. [loader |-> loader, java |-> java, number |-> left.launches] \in Plans
        BY LaunchFilesAssumption DEF Plans, BoundsOK
    <2>3. [count |-> 0, total |-> 6 + ExtraTotal(loader)] \in Bars
        BY DEF Bars, ExtraTotal
    <2>4. UNCHANGED <<steps, loading>> /\ phase' = [phase EXCEPT ![l] = "version"]
          /\ verified' = [verified EXCEPT ![l] = Hashed] /\ outcome' = [outcome EXCEPT ![l] = "none"]
        BY <1>1 DEF StartLaunch
    <2>5. LaunchOK'
        BY <2>1, <2>2, <2>3, <2>4, LaunchFilesAssumption DEF LaunchOK, Phases, Outcomes
    <2>6. QED
        BY <2>1, <2>4, <2>5 DEF LaunchOK, Others
<1>2. ASSUME NEW next \in Phases, NEW loads \in SUBSET Loads, Begin(l, next, loads),
             NEW n \in Nat, Count(l, n) \/ UNCHANGED progress,
             verified' \in [Launchers -> SUBSET Slots]
      PROVE  LaunchOK' /\ Others(l)
    <2>1. progress' \in [Launchers -> Bars] /\ \A k \in Launchers \ {l} : progress'[k] = progress[k]
        BY <1>2, CountIs DEF LaunchOK
    <2>2. QED
        BY <1>2, <2>1, BeginIs DEF LaunchOK, Others
<1>3. FinalLoads \subseteq Loads /\ {"java", "installer"} \subseteq Loads
      /\ {"profile"} \subseteq Loads /\ {"outputs"} \subseteq Loads /\ {} \subseteq Loads
    BY DEF FinalLoads, Loads
<1>4. UNCHANGED verified => verified' \in [Launchers -> SUBSET Slots]
    BY DEF LaunchOK
<1>5. CASE VersionKnown(l)
    <2>1. \E n \in Nat : Count(l, n)
        BY <1>5 DEF VersionKnown
    <2>2. QED
        BY <1>2, <1>3, <1>4, <1>5, <2>1 DEF VersionKnown, Phases
<1>6. CASE InstallerKnown(l)
    <2>1. verified' \in [Launchers -> SUBSET Slots]
        BY <1>6 DEF InstallerKnown, LaunchOK
    <2>2. QED
        BY <1>2, <1>3, <1>6, <2>1 DEF InstallerKnown, Phases
<1>7. CASE ReadInstaller(l) /\ AreWhole({"installer"})
    <2>1. \E n \in Nat : Count(l, n)
        BY <1>7 DEF ReadInstaller
    <2>2. QED
        BY <1>2, <1>3, <1>4, <1>7, <2>1 DEF ReadInstaller, Phases
<1>8. CASE LoadedProfile(l) \/ LoadedLegacyProfile(l) \/ ProcessorsDone(l)
    BY <1>2, <1>3, <1>4, <1>8 DEF LoadedProfile, LoadedLegacyProfile, ProcessorsDone, Phases
<1>9. ASSUME NEW load \in Loads, EndLoad(l, load)
      PROVE  LaunchOK' /\ Others(l)
    <2>1. Count(l, 1) /\ UNCHANGED <<phase, plan, verified, steps, outcome>>
          /\ loading' = [loading EXCEPT ![l] = @ \ {load}]
        BY <1>9 DEF EndLoad
    <2>2. progress' \in [Launchers -> Bars] /\ \A k \in Launchers \ {l} : progress'[k] = progress[k]
        BY <2>1, CountIs
    <2>3. QED
        BY <2>1, <2>2 DEF LaunchOK, Others
<1>10. CASE StartGame(l) /\ Starts(l)
    <2>1. phase'[l] # "idle"
        BY <1>10 DEF LaunchOK, Starts
    <2>2. \A how \in Outcomes : ~Over(l, how)
        BY <2>1, OverIs
    <2>3. /\ outcome' = [outcome EXCEPT ![l] = "started"] /\ Count(l, 2)
          /\ UNCHANGED <<plan, verified, steps, loading>>
        BY <1>10, <2>2 DEF StartGame, Outcomes
    <2>4. progress' \in [Launchers -> Bars] /\ \A k \in Launchers \ {l} : progress'[k] = progress[k]
        BY <2>3, CountIs
    <2>5. QED
        BY <1>10, <2>3, <2>4 DEF LaunchOK, Others, Phases, Outcomes, Starts
<1>11. QED
    BY <1>1, <1>5, <1>6, <1>7, <1>8, <1>9, <1>10 DEF Turns

\* The steps that write nothing.
LEMMA Bystanders ==
    ASSUME Types, NEW l \in Launchers,
           \/ StartLaunch(l) \/ LaunchStep(l) \/ Cancel(l) \/ Crash(l)
           \/ \E s \in Slots : DownloadFails(l, s)
    PROVE  UNCHANGED <<stored, history>> /\ writes' \subseteq writes /\ BoundsOK'
<1> USE DEF Types
<1>1. BoundsOK'
    <2>1. CASE StartLaunch(l)
        <3>1. left' \in [{"launches", "mishaps"} -> Nat] /\ harmed' = [harmed EXCEPT ![l] = FALSE]
            BY <2>1, BoundsStay DEF StartLaunch
        <3>2. QED
            BY <3>1 DEF BoundsOK
    <2>2. CASE Cancel(l) \/ Crash(l)
        <3>1. left' \in [{"launches", "mishaps"} -> Nat] /\ harmed' = harmed
            BY <2>2, BoundsStay DEF Cancel, Crash
        <3>2. QED
            BY <3>1 DEF BoundsOK
    <2>3. CASE LaunchStep(l) \/ \E s \in Slots : DownloadFails(l, s)
        <3>1. NoMishap \/ Mishap(l)
            BY <2>3 DEF LaunchStep, DownloadFails, VersionKnown, InstallerKnown, MetadataFails, EndLoad,
                        ReadInstaller, LoadedProfile, LoadedLegacyProfile, ProcessorsDone, StartGame, Return
        <3>2. QED
            BY <3>1, BoundsStay
    <2>4. QED
        BY <2>1, <2>2, <2>3
<1>2. CASE StartLaunch(l) \/ Cancel(l) \/ Crash(l) \/ \E s \in Slots : DownloadFails(l, s)
    BY <1>1, <1>2 DEF StartLaunch, Cancel, Crash, DownloadFails
<1>3. CASE LaunchStep(l)
    <2>1. UNCHANGED <<stored, writes, history>>
        BY <1>3 DEF LaunchStep, VersionKnown, InstallerKnown, MetadataFails, EndLoad,
                    ReadInstaller, LoadedProfile, LoadedLegacyProfile, ProcessorsDone, StartGame, Return
    <2>2. QED
        BY <1>1, <2>1
<1>4. QED
    BY <1>2, <1>3

\* What a slot stands for is a file.
LEMMA FilesAreFiles == \A s \in Slots : File[s] \in Files
BY DEF Files

LEMMA JobIsJob ==
    ASSUME Types, NEW l \in Launchers, NEW s \in Slots, NEW content \in {"whole", "wrong"}
    PROVE  Job(l, s, content) \in Jobs
<1>1. plan[l].number \in Nat
    BY DEF Types, LaunchOK, Plans
<1>2. QED
    BY <1>1 DEF Job, Jobs

\* Who writes a file anew notes it where a launch goes by it.
LEMMA TornIs ==
    ASSUME DiskOK, HistoryOK, NEW f \in Files, Tear(f, Relied(f)) \/ WriteAnew(f)
    PROVE  /\ disk' \in [Files -> {"absent", "torn", "wrong", "whole"}]
           /\ rewritten' \subseteq Files /\ rewritten \subseteq rewritten'
           /\ Relied(f) => f \in rewritten'
           /\ \A g \in Files \ {f} : disk'[g] = disk[g]
<1>1. disk' = [disk EXCEPT ![f] = "torn"] /\ rewritten' \in {rewritten, rewritten \cup {f}}
    BY DEF Tear, WriteAnew
<1>2. Relied(f) => rewritten' = rewritten \cup {f}
    BY DEF Tear, WriteAnew
<1>3. QED
    BY <1>1, <1>2 DEF DiskOK, HistoryOK

LEMMA TypeStep ==
    ASSUME Types, [Next]_vars
    PROVE  Types'
<1> USE DEF Types
<1>1. CASE UNCHANGED vars
    BY <1>1 DEF vars, stored, DiskOK, LaunchOK, WritesOK, HistoryOK, BoundsOK
<1>2. ASSUME Next
      PROVE  LaunchOK'
    <2>1. CASE Moves
        BY <2>1 DEF Moves, launchVars, LaunchOK
    <2>2. QED
        BY <1>2, <2>1, Kinds, TurnTypes, OverIs DEF Ends
<1>3. UNCHANGED stored => DiskOK'
    BY DEF DiskOK, stored
<1>4. writes' \subseteq writes => WritesOK'
    BY DEF WritesOK
<1>5. UNCHANGED history => HistoryOK'
    BY DEF HistoryOK, history
<1>6. ASSUME NEW l \in Launchers,
             \/ StartLaunch(l) \/ LaunchStep(l) \/ Cancel(l) \/ Crash(l)
             \/ \E s \in Slots : DownloadFails(l, s)
      PROVE  Types'
    <2>1. Next
        BY <1>6 DEF Next, TaskStep
    <2>2. QED
        BY <1>2, <1>3, <1>4, <1>5, <1>6, <2>1, Bystanders DEF history, stored
<1>7. ASSUME NEW l \in Launchers, NEW s \in Slots, TaskStep(l, s)
      PROVE  Types'
    <2>1. LaunchOK'
        BY <1>2, <1>7 DEF Next
    <2>2. File[s] \in Files
        BY FilesAreFiles
    <2>3. Trusts(l, s) /\ rewritten' = rewritten => HistoryOK'
        BY <2>2 DEF Trusts, HistoryOK
    <2>4. NoMishap \/ Mishap(l) => BoundsOK'
        BY BoundsStay
    <2>5. CASE CheckDisk(l, s) \/ SkipProcessor(l, s)
        BY <1>3, <2>1, <2>3, <2>4, <2>5 DEF CheckDisk, SkipProcessor, WritesOK
    <2>6. CASE Downloaded(l, s)
        <3>1. PICK content \in {"whole", "wrong"} : writes' = writes \cup {Job(l, s, content)}
            BY <2>6 DEF Downloaded
        <3>2. WritesOK'
            BY <3>1, JobIsJob DEF WritesOK
        <3>3. rewritten' = rewritten /\ trusted' \in {trusted, trusted \cup {File[s]}}
            BY <2>6 DEF Downloaded
        <3>4. NoMishap \/ Mishap(l)
            BY <2>6 DEF Downloaded
        <3>5. UNCHANGED stored
            BY <2>6 DEF Downloaded
        <3>6. HistoryOK'
            BY <2>2, <3>3 DEF HistoryOK
        <3>7. QED
            BY <1>3, <2>1, <2>4, <3>2, <3>4, <3>5, <3>6
    <2>7. CASE DownloadFails(l, s)
        BY <1>6, <2>7
    <2>8. CASE MakeExecutable(l, s)
        <3>1. DiskOK' /\ UNCHANGED <<writes, history>> /\ NoMishap
            BY <2>2, <2>8 DEF MakeExecutable, DiskOK
        <3>2. QED
            BY <1>4, <1>5, <2>1, <2>4, <3>1
    <2>9. CASE RunProcessor(l, s) \/ EndProcessor(l, s)
        <3>1. /\ \/ UNCHANGED <<disk, rewritten>>
                 \/ disk' = [disk EXCEPT ![File[s]] = "whole"] /\ rewritten' = rewritten
                 \/ Tear(File[s], Relied(File[s])) \/ WriteAnew(File[s])
              /\ UNCHANGED <<executable, writes, trusted>>
              /\ NoMishap \/ Mishap(l)
            BY <2>9 DEF RunProcessor, EndProcessor
        <3>2. DiskOK' /\ HistoryOK'
            BY <2>2, <3>1, TornIs DEF DiskOK, HistoryOK
        <3>3. QED
            BY <1>4, <2>1, <2>4, <3>1, <3>2
    <2>10. QED
        BY <1>7, <2>5, <2>6, <2>7, <2>8, <2>9 DEF TaskStep
<1>8. ASSUME NEW w \in writes, OpenFile(w) \/ WriteFile(w) \/ WriteFails(w)
      PROVE  Types'
    <2>1. LaunchOK'
        BY <1>2, <1>8 DEF Next, PoolStep
    <2>2. w \in Jobs /\ w.launcher \in Launchers /\ File[w.slot] \in Files /\ w.content \in {"whole", "wrong"}
        BY FilesAreFiles DEF WritesOK, Jobs
    <2>3. NoMishap \/ Mishap(w.launcher)
        BY <1>8 DEF OpenFile, WriteFile, WriteFails
    <2>4. BoundsOK'
        BY <2>2, <2>3, BoundsStay
    <2>5. CASE OpenFile(w)
        <3>1. [w EXCEPT !.begun = TRUE] \in Jobs
            BY <2>2 DEF Jobs
        <3>2. WritesOK'
            BY <2>5, <3>1 DEF OpenFile, WritesOK
        <3>3. HistoryOK' /\ DiskOK'
            BY <2>2, <2>5, TornIs DEF OpenFile, DiskOK, HistoryOK
        <3>4. QED
            BY <2>1, <2>4, <3>2, <3>3
    <2>6. CASE WriteFile(w)
        <3>1. DiskOK' /\ writes' \subseteq writes /\ UNCHANGED history
            BY <2>2, <2>6 DEF WriteFile, DiskOK
        <3>2. QED
            BY <1>4, <1>5, <2>1, <2>4, <3>1
    <2>7. CASE WriteFails(w)
        <3>1. UNCHANGED <<stored, history>> /\ writes' \subseteq writes
            BY <2>7 DEF WriteFails
        <3>2. QED
            BY <1>3, <1>4, <1>5, <2>1, <2>4, <3>1
    <2>8. QED
        BY <1>8, <2>5, <2>6, <2>7
<1>9. QED
    BY <1>1, <1>6, <1>7, <1>8 DEF Next, PoolStep

-----------------------------------------------------------------------------
(* Files.                                                                   *)

\* A good file that a launch goes by stays one: who writes it anew, a download or
\* a processor, notes it.
LEMMA GoodStays ==
    ASSUME Types, Ended, [Next]_vars, NEW f \in Files, Good(f), Relied(f)
    PROVE  Good(f)'
<1> USE DEF Types
<1>1. CASE UNCHANGED <<stored, history>>
    BY <1>1 DEF Good, stored, history
<1>2. ASSUME UNCHANGED disk, rewritten' = rewritten, trusted \subseteq trusted'
      PROVE  Good(f)'
    BY <1>2 DEF Good
<1>0. ASSUME NEW g \in Files, Tear(g, Relied(g)) \/ WriteAnew(g), trusted' = trusted
      PROVE  Good(f)'
    <2>1. CASE f = g
        BY <1>0, <2>1, TornIs DEF Good
    <2>2. CASE f # g
        BY <1>0, <2>2, TornIs DEF Good
    <2>3. QED
        BY <2>1, <2>2
<1>3. ASSUME NEW l \in Launchers,
             \/ StartLaunch(l) \/ LaunchStep(l) \/ Cancel(l) \/ Crash(l)
      PROVE  Good(f)'
    BY <1>1, <1>3, Bystanders
<1>4. ASSUME NEW l \in Launchers, NEW s \in Slots, TaskStep(l, s)
      PROVE  Good(f)'
    <2>1. CASE CheckDisk(l, s) \/ SkipProcessor(l, s)
        BY <1>2, <2>1 DEF CheckDisk, SkipProcessor, Trusts, stored
    <2>2. CASE Downloaded(l, s)
        BY <1>2, <2>2 DEF Downloaded, stored
    <2>3. CASE DownloadFails(l, s) \/ MakeExecutable(l, s)
        BY <1>2, <2>3 DEF DownloadFails, MakeExecutable, stored, history
    <2>4. CASE RunProcessor(l, s)
        BY <1>0, <1>1, <2>4, FilesAreFiles DEF RunProcessor, stored, history
    <2>5. CASE EndProcessor(l, s)
        <3>1. CASE disk' = [disk EXCEPT ![File[s]] = "whole"] /\ UNCHANGED history
            BY <3>1 DEF Good, DiskOK, history
        <3>2. CASE Tear(File[s], Relied(File[s])) /\ trusted' = trusted
            BY <1>0, <3>2, FilesAreFiles
        <3>3. QED
            BY <2>5, <3>1, <3>2 DEF EndProcessor, history
    <2>6. QED
        BY <1>4, <2>1, <2>2, <2>3, <2>4, <2>5 DEF TaskStep
<1>5. ASSUME NEW w \in writes, OpenFile(w) \/ WriteFile(w) \/ WriteFails(w)
      PROVE  Good(f)'
    <2>1. w.content \in {"whole", "wrong"} /\ (w.content = "wrong" => File[w.slot] \in trusted)
        BY DEF WritesOK, Jobs, Ended
    <2>2. CASE OpenFile(w)
        <3>1. File[w.slot] \in Files
            BY FilesAreFiles DEF WritesOK, Jobs
        <3>2. QED
            BY <1>0, <2>2, <3>1 DEF OpenFile
    <2>3. CASE WriteFile(w)
        <3>1. disk' = [disk EXCEPT ![File[w.slot]] = w.content] /\ UNCHANGED history
            BY <2>3 DEF WriteFile
        <3>2. QED
            BY <2>1, <3>1 DEF Good, DiskOK, history
    <2>4. CASE WriteFails(w)
        BY <1>1, <2>4 DEF WriteFails
    <2>5. QED
        BY <1>5, <2>2, <2>3, <2>4
<1>6. CASE UNCHANGED vars
    BY <1>1, <1>6 DEF vars, stored, history
<1>7. QED
    BY <1>3, <1>4, <1>5, <1>6 DEF Next, PoolStep

\* Whichever way a task ends, its file is good.
LEMMA EndedStep ==
    ASSUME Types, Ended, [Next]_vars
    PROVE  Ended'
<1> USE DEF Types
<1> DEFINE Fine(l, s) == steps'[l][s] \in {"mode", "done"} => Good(File[s])'
           Known(job) == job.content = "wrong" => File[job.slot] \in trusted'
<1>1. ASSUME NEW l \in Launchers, NEW s \in Slots, steps'[l][s] = steps[l][s] \/ steps[l][s] \in {"mode", "done"}
      PROVE  Fine(l, s)
    BY <1>1, FilesAreFiles, GoodStays DEF Ended, Relied
<1>2. ASSUME NEW l \in Launchers, NEW s \in Slots, steps'[l][s] \notin {"mode", "done"}
      PROVE  Fine(l, s)
    BY <1>2
<1>3. ASSUME UNCHANGED steps \/ \E k \in Launchers : Others(k) /\ \A s \in Slots :
                 steps'[k][s] = steps[k][s] \/ steps'[k][s] \notin {"mode", "done"}
      PROVE  \A l \in Launchers, s \in Slots : Fine(l, s)
    BY <1>1, <1>2, <1>3 DEF Others
<1>4. ASSUME NEW l \in Launchers, Ends(l)
      PROVE  \A k \in Launchers, s \in Slots : Fine(k, s)
    <2>1. Others(l) /\ \A s \in Slots : steps'[l][s] = "idle"
        BY <1>4, OverIs DEF Ends, NoSteps
    <2>2. QED
        BY <1>3, <2>1
<1>5. ASSUME NEW l \in Launchers, Turns(l)
      PROVE  \A k \in Launchers, s \in Slots : Fine(k, s)
    <2>1. Others(l)
        BY <1>5, TurnTypes
    <2>2. CASE UNCHANGED steps
        BY <1>3, <2>2
    <2>3. ASSUME NEW next \in Phases, NEW loads \in SUBSET Loads, Begin(l, next, loads)
          PROVE  \A s \in Slots : steps'[l][s] \in {steps[l][s], "check"}
        BY <2>3, BeginIs
    <2>4. FinalLoads \subseteq Loads /\ {"java", "installer"} \subseteq Loads
          /\ {"profile"} \subseteq Loads /\ {"outputs"} \subseteq Loads
        BY DEF FinalLoads, Loads
    <2>5. CASE \/ VersionKnown(l) \/ InstallerKnown(l) \/ (ReadInstaller(l) /\ AreWhole({"installer"}))
               \/ LoadedProfile(l) \/ LoadedLegacyProfile(l) \/ ProcessorsDone(l)
        <3>1. \A s \in Slots : steps'[l][s] \in {steps[l][s], "check"}
            BY <2>3, <2>4, <2>5 DEF VersionKnown, InstallerKnown, ReadInstaller, LoadedProfile,
                                    LoadedLegacyProfile, ProcessorsDone, Phases
        <3>2. QED
            BY <1>3, <2>1, <3>1
    <2>6. StartLaunch(l) \/ (\E load \in Loads : EndLoad(l, load)) => UNCHANGED steps
        BY DEF StartLaunch, EndLoad
    <2>7. StartGame(l) /\ Starts(l) => UNCHANGED steps
        <3>1. Starts(l) => phase'[l] # "idle"
            BY DEF LaunchOK, Starts
        <3>2. phase'[l] # "idle" => \A how \in Outcomes : ~Over(l, how)
            BY OverIs
        <3>3. QED
            BY <3>1, <3>2 DEF StartGame, Outcomes
    <2>8. \/ UNCHANGED steps
          \/ VersionKnown(l) \/ InstallerKnown(l) \/ (ReadInstaller(l) /\ AreWhole({"installer"}))
          \/ LoadedProfile(l) \/ LoadedLegacyProfile(l) \/ ProcessorsDone(l)
        BY <1>5, <2>6, <2>7 DEF Turns
    <2>9. QED
        BY <2>2, <2>5, <2>8
<1>6. ASSUME NEW l \in Launchers, NEW s \in Slots, TaskStep(l, s)
      PROVE  \A k \in Launchers, t \in Slots : Fine(k, t)
    <2>1. ASSUME NEW step \in TaskSteps, Step(l, s, step), step \in {"mode", "done"} => Good(File[s])'
          PROVE  \A k \in Launchers, t \in Slots : Fine(k, t)
        BY <1>1, <2>1, StepIs
    <2>2. OnDisk(l, s) /\ Trusts(l, s) /\ UNCHANGED <<disk, rewritten>> => Good(File[s])'
        BY FilesAreFiles DEF OnDisk, Trusts, Good, DiskOK
    <2>3. CASE CheckDisk(l, s) \/ SkipProcessor(l, s)
        BY <2>1, <2>2, <2>3 DEF CheckDisk, SkipProcessor, MaySkip, TaskSteps, stored
    <2>4. CASE Downloaded(l, s)
        BY <2>1, <2>4 DEF Downloaded, TaskSteps
    <2>5. CASE DownloadFails(l, s)
        BY <1>4, <2>5 DEF DownloadFails, Ends, Outcomes
    <2>6. CASE MakeExecutable(l, s)
        <3>1. steps[l][s] = "mode"
            BY <2>6 DEF MakeExecutable
        <3>2. Good(File[s])'
            BY <3>1, FilesAreFiles, GoodStays DEF Ended, Relied
        <3>3. QED
            BY <2>1, <2>6, <3>2 DEF MakeExecutable, TaskSteps
    <2>7. CASE RunProcessor(l, s)
        <3>1. CASE Step(l, s, "run")
            BY <2>1, <3>1 DEF TaskSteps
        <3>2. CASE Over(l, IF JavaRuns(l) THEN "failed" ELSE "not executable")
            BY <1>4, <3>2 DEF Ends, Outcomes
        <3>3. QED
            BY <2>7, <3>1, <3>2 DEF RunProcessor
    <2>8. CASE EndProcessor(l, s)
        <3>1. CASE Step(l, s, "done") /\ disk' = [disk EXCEPT ![File[s]] = "whole"]
            <4>1. Good(File[s])'
                BY <3>1, FilesAreFiles DEF Good, DiskOK
            <4>2. QED
                BY <2>1, <3>1, <4>1 DEF TaskSteps
        <3>2. CASE Over(l, "failed")
            BY <1>4, <3>2 DEF Ends, Outcomes
        <3>3. QED
            BY <2>8, <3>1, <3>2 DEF EndProcessor
    <2>9. QED
        BY <1>6, <2>3, <2>4, <2>5, <2>6, <2>7, <2>8 DEF TaskStep
<1>7. ASSUME NEW w \in writes, OpenFile(w) \/ WriteFile(w) \/ WriteFails(w)
      PROVE  \A l \in Launchers, s \in Slots : Fine(l, s)
    <2>1. /\ w.launcher \in Launchers /\ w.slot \in Slots /\ w.content \in {"whole", "wrong"}
          /\ w.content = "wrong" => File[w.slot] \in trusted
        BY DEF WritesOK, Jobs, Ended
    <2>2. CASE OpenFile(w)
        BY <1>3, <2>2 DEF OpenFile
    <2>3. CASE WriteFile(w)
        <3>1. disk' = [disk EXCEPT ![File[w.slot]] = w.content] /\ UNCHANGED history
            BY <2>3 DEF WriteFile
        <3>2. Good(File[w.slot])'
            BY <2>1, <3>1, FilesAreFiles DEF Good, DiskOK, history
        <3>3. CASE Awaited(w)
            <4>1. PICK step \in {"mode", "done"} : Step(w.launcher, w.slot, step)
                BY <2>3, <3>3 DEF WriteFile
            <4>2. QED
                BY <1>1, <2>1, <3>2, <4>1, StepIs DEF TaskSteps
        <3>4. CASE ~Awaited(w)
            BY <1>3, <2>3, <3>4 DEF WriteFile
        <3>5. QED
            BY <3>3, <3>4
    <2>4. CASE WriteFails(w)
        <3>1. UNCHANGED steps \/ Over(w.launcher, "failed")
            BY <2>4 DEF WriteFails
        <3>2. QED
            BY <1>3, <1>4, <2>1, <3>1 DEF Ends, Outcomes
    <2>5. QED
        BY <1>7, <2>2, <2>3, <2>4
<1>8. \A l \in Launchers, s \in Slots : Fine(l, s)
    <2>1. CASE UNCHANGED vars
        BY <1>3, <2>1 DEF vars
    <2>2. ASSUME NEW l \in Launchers, StartLaunch(l) \/ LaunchStep(l) \/ Cancel(l) \/ Crash(l)
          PROVE  Ends(l) \/ Turns(l)
        BY <2>2 DEF LaunchStep, MetadataFails, Return, Cancel, Crash, ReadInstaller, StartGame, Ends, Turns, Starts, Outcomes
    <2>3. QED
        BY <1>4, <1>5, <1>6, <1>7, <2>1, <2>2 DEF Next, PoolStep
<1>9. \A w \in writes' : Known(w)
    <2>1. ASSUME writes' \subseteq writes, trusted \subseteq trusted'
          PROVE  \A w \in writes' : Known(w)
        BY <2>1 DEF Ended
    <2>2. ASSUME NEW l \in Launchers, StartLaunch(l) \/ LaunchStep(l) \/ Cancel(l) \/ Crash(l)
          PROVE  \A w \in writes' : Known(w)
        BY <2>1, <2>2, Bystanders DEF history
    <2>3. ASSUME NEW l \in Launchers, NEW s \in Slots, TaskStep(l, s)
          PROVE  \A w \in writes' : Known(w)
        <3>1. CASE Downloaded(l, s)
            <4>1. \/ writes' = writes \cup {Job(l, s, "whole")} /\ trusted' = trusted
                  \/ writes' = writes \cup {Job(l, s, "wrong")} /\ trusted' = trusted \cup {File[s]}
                BY <3>1 DEF Downloaded
            <4>2. Job(l, s, "whole").content = "whole" /\ Job(l, s, "wrong").slot = s
                BY DEF Job
            <4>3. QED
                BY <4>1, <4>2 DEF Ended
        <3>2. CASE \/ CheckDisk(l, s) \/ SkipProcessor(l, s) \/ DownloadFails(l, s) \/ MakeExecutable(l, s)
                   \/ RunProcessor(l, s) \/ EndProcessor(l, s)
            <4>1. writes' = writes /\ trusted \subseteq trusted'
                BY <3>2 DEF CheckDisk, SkipProcessor, Trusts, DownloadFails, MakeExecutable, RunProcessor,
                            EndProcessor, history
            <4>2. QED
                BY <2>1, <4>1
        <3>3. QED
            BY <2>3, <3>1, <3>2 DEF TaskStep
    <2>4. ASSUME NEW w \in writes, OpenFile(w) \/ WriteFile(w) \/ WriteFails(w)
          PROVE  \A v \in writes' : Known(v)
        <3>1. CASE OpenFile(w)
            <4>1. [w EXCEPT !.begun = TRUE].content = w.content /\ [w EXCEPT !.begun = TRUE].slot = w.slot
                BY DEF WritesOK, Jobs
            <4>2. writes' = (writes \ {w}) \cup {[w EXCEPT !.begun = TRUE]} /\ trusted' = trusted
                BY <3>1 DEF OpenFile
            <4>3. QED
                BY <4>1, <4>2 DEF Ended
        <3>2. CASE WriteFile(w) \/ WriteFails(w)
            BY <2>1, <3>2 DEF WriteFile, WriteFails, history
        <3>3. QED
            BY <2>4, <3>1, <3>2
    <2>5. CASE UNCHANGED vars
        BY <2>1, <2>5 DEF vars
    <2>6. QED
        BY <2>2, <2>3, <2>4, <2>5 DEF Next, PoolStep
<1>10. QED
    BY <1>8, <1>9 DEF Ended

-----------------------------------------------------------------------------
(* Loads and failures.                                                      *)

\* The exceptions are kept, and so is the mishap of a launch until the next.
LEMMA HistoryGrows ==
    ASSUME Types, [Next]_vars
    PROVE  /\ rewritten \cup trusted \subseteq rewritten' \cup trusted'
           /\ \A l \in Launchers : harmed[l] => harmed'[l] \/ outcome'[l] = "none"
<1> USE DEF Types
<1> DEFINE Grown == rewritten \cup trusted \subseteq rewritten' \cup trusted'
           Kept == \A l \in Launchers : harmed[l] => harmed'[l] \/ outcome'[l] = "none"
<1>1. UNCHANGED history => Grown
    BY DEF history
<1>2. ASSUME harmed' = harmed \/ \E l \in Launchers : harmed' = [harmed EXCEPT ![l] = TRUE]
      PROVE  Kept
    BY <1>2 DEF BoundsOK
<1>3. NoMishap \/ (\E l \in Launchers : Mishap(l)) => Kept
    BY <1>2 DEF NoMishap, Mishap
<1>4. ASSUME NEW l \in Launchers,
             \/ StartLaunch(l) \/ LaunchStep(l) \/ Cancel(l) \/ Crash(l)
      PROVE  Grown /\ Kept
    <2>1. Grown
        BY <1>1, <1>4, Bystanders
    <2>2. CASE StartLaunch(l)
        BY <2>1, <2>2 DEF StartLaunch, BoundsOK, LaunchOK
    <2>3. CASE Cancel(l) \/ Crash(l)
        BY <1>2, <2>1, <2>3 DEF Cancel, Crash
    <2>4. CASE LaunchStep(l)
        <3>1. NoMishap \/ Mishap(l)
            BY <2>4 DEF LaunchStep, VersionKnown, InstallerKnown, MetadataFails, EndLoad,
                        ReadInstaller, LoadedProfile, LoadedLegacyProfile, ProcessorsDone, StartGame, Return
        <3>2. QED
            BY <1>3, <2>1, <3>1
    <2>5. QED
        BY <1>4, <2>2, <2>3, <2>4
<1>5. ASSUME NEW l \in Launchers, NEW s \in Slots, TaskStep(l, s)
      PROVE  Grown /\ Kept
    <2>1. NoMishap \/ Mishap(l)
        BY <1>5 DEF TaskStep, CheckDisk, Downloaded, DownloadFails, MakeExecutable, SkipProcessor,
                    RunProcessor, EndProcessor
    <2>2. rewritten \subseteq rewritten' /\ trusted \subseteq trusted'
        BY <1>5 DEF TaskStep, CheckDisk, Downloaded, DownloadFails, MakeExecutable, SkipProcessor,
                    RunProcessor, EndProcessor, WriteAnew, Tear, Trusts, history
    <2>3. QED
        BY <1>3, <2>1, <2>2
<1>6. ASSUME NEW w \in writes, OpenFile(w) \/ WriteFile(w) \/ WriteFails(w)
      PROVE  Grown /\ Kept
    <2>1. w.launcher \in Launchers
        BY DEF WritesOK, Jobs
    <2>2. NoMishap \/ Mishap(w.launcher)
        BY <1>6 DEF OpenFile, WriteFile, WriteFails
    <2>3. rewritten \subseteq rewritten' /\ trusted' = trusted
        BY <1>6 DEF OpenFile, WriteFile, WriteFails, WriteAnew, Tear, history
    <2>4. QED
        BY <1>3, <2>1, <2>2, <2>3
<1>7. CASE UNCHANGED vars
    BY <1>2, <1>7 DEF vars
<1>8. QED
    BY <1>4, <1>5, <1>6, <1>7 DEF Next, PoolStep

\* Why the launch of l failed, if it just did.
Excused(l) == outcome'[l] = "failed" => outcome[l] = "failed" \/ harmed'[l] \/ rewritten \cup trusted # {}

\* A launch that fails for what it finds on disk finds a file that was done and
\* is not whole.
LEMMA SpoiltIsKnown ==
    ASSUME Ended, NEW l \in Launchers, NEW load \in Loads, AllDone(steps[l], {load}), ~AreWhole({load})
    PROVE  rewritten \cup trusted # {}
<1>1. PICK s \in SlotsOf({load}) : disk[File[s]] # "whole"
    BY DEF AreWhole
<1>2. s \in Slots /\ steps[l][s] = "done"
    BY DEF SlotsOf, AllDone
<1>3. QED
    BY <1>1, <1>2 DEF Ended, Good

LEMMA FailuresAreExcused ==
    ASSUME Types, Ended, Loaded, Next, NEW l \in Launchers
    PROVE  Excused(l)
<1> USE DEF Types
<1>1. outcome'[l] = outcome[l] => Excused(l)
    BY DEF Excused
<1>2. outcome'[l] # "failed" => Excused(l)
    BY DEF Excused
<1>3. UNCHANGED outcome => Excused(l)
    BY <1>1
<1>4. ASSUME NEW k \in Launchers, NEW how \in Outcomes, Over(k, how), how = "failed" => Mishap(k)
      PROVE  Excused(l)
    <2>1. outcome'[k] = how /\ (k # l => outcome'[l] = outcome[l])
        BY <1>4, OverIs DEF Others
    <2>2. how = "failed" => harmed'[k] = TRUE
        BY <1>4, BoundsStay
    <2>3. QED
        BY <2>1, <2>2 DEF Excused
<1>5. ASSUME NEW k \in Launchers, rewritten \cup trusted # {}
      PROVE  Excused(l)
    BY <1>5 DEF Excused
<1>6. ASSUME NEW k \in Launchers, LaunchStep(k) \/ Cancel(k) \/ Crash(k) \/ StartLaunch(k)
      PROVE  Excused(l)
    <2>1. CASE Cancel(k) \/ Crash(k) \/ Return(k) \/ MetadataFails(k)
        BY <1>4, <2>1 DEF Cancel, Crash, Return, MetadataFails, Outcomes
    <2>2. CASE StartLaunch(k)
        BY <1>1, <1>2, <2>2 DEF StartLaunch, LaunchOK
    <2>3. CASE VersionKnown(k) \/ InstallerKnown(k) \/ LoadedProfile(k) \/ LoadedLegacyProfile(k) \/ ProcessorsDone(k)
        BY <1>3, <2>3 DEF VersionKnown, InstallerKnown, LoadedProfile, LoadedLegacyProfile, ProcessorsDone, Begin
    <2>4. CASE \E load \in Loads : EndLoad(k, load)
        BY <1>3, <2>4 DEF EndLoad
    <2>5. CASE ReadInstaller(k)
        <3>1. CASE AreWhole({"installer"})
            BY <1>3, <2>5, <3>1 DEF ReadInstaller, Begin
        <3>2. CASE ~AreWhole({"installer"})
            <4>1. AllDone(steps[k], {"installer"})
                BY <2>5 DEF ReadInstaller, Loaded, LoadedBy
            <4>2. QED
                BY <1>5, <3>2, <4>1, SpoiltIsKnown DEF Loads
        <3>3. QED
            BY <3>1, <3>2
    <2>6. CASE StartGame(k)
        <3>1. CASE outcome' = [outcome EXCEPT ![k] = "started"]
            BY <1>1, <1>2, <3>1 DEF LaunchOK
        <3>2. CASE Mishap(k) /\ Over(k, "failed")
            BY <1>4, <3>2 DEF Outcomes
        <3>3. CASE Over(k, "not executable")
            BY <1>4, <3>3 DEF Outcomes
        <3>4. QED
            BY <2>6, <3>1, <3>2, <3>3 DEF StartGame
    <2>7. QED
        BY <1>6, <2>1, <2>2, <2>3, <2>4, <2>5, <2>6 DEF LaunchStep
<1>7. ASSUME NEW k \in Launchers, NEW s \in Slots, TaskStep(k, s)
      PROVE  Excused(l)
    <2>1. CASE CheckDisk(k, s) \/ SkipProcessor(k, s) \/ Downloaded(k, s) \/ MakeExecutable(k, s)
        BY <1>3, <2>1 DEF CheckDisk, SkipProcessor, Downloaded, MakeExecutable, launchVars
    <2>2. CASE DownloadFails(k, s)
        BY <1>4, <2>2 DEF DownloadFails, Outcomes
    <2>3. CASE RunProcessor(k, s)
        <3>1. CASE AreWhole({"profile"}) /\ JavaRuns(k)
            BY <1>3, <2>3, <3>1 DEF RunProcessor, launchVars
        <3>2. CASE ~JavaRuns(k)
            <4>1. Over(k, "not executable")
                BY <2>3, <3>2 DEF RunProcessor
            <4>2. QED
                BY <1>4, <4>1 DEF Outcomes
        <3>3. CASE ~AreWhole({"profile"})
            <4>1. AllDone(steps[k], {"profile"})
                BY <2>3 DEF RunProcessor, Loaded, LoadedBy
            <4>2. QED
                BY <1>5, <3>3, <4>1, SpoiltIsKnown DEF Loads
        <3>4. QED
            BY <3>1, <3>2, <3>3
    <2>4. CASE EndProcessor(k, s)
        <3>1. UNCHANGED launchVars \/ (Mishap(k) /\ Over(k, "failed"))
            BY <2>4 DEF EndProcessor
        <3>2. QED
            BY <1>3, <1>4, <3>1 DEF launchVars, Outcomes
    <2>5. QED
        BY <1>7, <2>1, <2>2, <2>3, <2>4 DEF TaskStep
<1>8. ASSUME NEW w \in writes, OpenFile(w) \/ WriteFile(w) \/ WriteFails(w)
      PROVE  Excused(l)
    <2>1. w.launcher \in Launchers
        BY DEF WritesOK, Jobs
    <2>2. UNCHANGED launchVars \/ (Mishap(w.launcher) /\ Over(w.launcher, "failed"))
        BY <1>8 DEF OpenFile, WriteFile, WriteFails
    <2>3. QED
        BY <1>3, <1>4, <2>1, <2>2 DEF launchVars, Outcomes
<1>9. QED
    BY <1>6, <1>7, <1>8 DEF Next, PoolStep

LEMMA LoadedStep ==
    ASSUME Types, Ended, Loaded, [Next]_vars
    PROVE  Loaded'
<1> USE DEF Types
<1> DEFINE By(l) == LoadedBy(phase'[l], plan'[l], loading'[l], steps'[l])
<1>1. CASE UNCHANGED vars
    <2>1. UNCHANGED <<phase, plan, loading, steps, outcome, harmed, rewritten, trusted>>
        BY <1>1 DEF vars
    <2>2. QED
        BY <2>1 DEF Loaded
<1>2. ASSUME NEW l \in Launchers, phase'[l] = phase[l], plan'[l] = plan[l],
             loading'[l] = loading[l], steps'[l] = steps[l]
      PROVE  By(l)
    BY <1>2 DEF Loaded
<1>3. ASSUME NEW l \in Launchers, phase'[l] \notin {"installer", "profile", "processors"}
      PROVE  By(l)
    BY <1>3 DEF LoadedBy
<1>4. ASSUME NEW l \in Launchers, Others(l), By(l)
      PROVE  \A k \in Launchers : By(k)
    BY <1>2, <1>4 DEF Others
<1>5. ASSUME Moves
      PROVE  \A l \in Launchers : By(l)
    <2>1. ASSUME NEW l \in Launchers
          PROVE  By(l)
        <3>1. phase'[l] = phase[l] /\ plan'[l] = plan[l] /\ loading'[l] = loading[l]
            BY <1>5 DEF Moves, launchVars
        <3>2. \A loads : AllDone(steps[l], loads) => AllDone(steps'[l], loads)
            BY <1>5 DEF Moves, AllDone, SlotsOf
        <3>3. LoadedBy(phase[l], plan[l], loading[l], steps[l])
            BY DEF Loaded
        <3>4. QED
            BY <3>1, <3>2, <3>3 DEF LoadedBy
    <2>2. QED
        BY <2>1
<1>6. ASSUME NEW l \in Launchers, Ends(l)
      PROVE  \A k \in Launchers : By(k)
    <2>1. Others(l) /\ phase'[l] = "idle"
        BY <1>6, OverIs DEF Ends
    <2>2. QED
        BY <1>3, <1>4, <2>1
<1>7. ASSUME NEW l \in Launchers, Turns(l)
      PROVE  \A k \in Launchers : By(k)
    <2>1. Others(l)
        BY <1>7, TurnTypes
    <2>2. SUFFICES By(l)
        BY <1>4, <2>1
    <2>3. FinalLoads \subseteq Loads /\ {"java", "installer"} \subseteq Loads
          /\ {"profile"} \subseteq Loads /\ {"outputs"} \subseteq Loads /\ {} \subseteq Loads
        BY DEF FinalLoads, Loads
    <2>4. CASE StartLaunch(l) \/ VersionKnown(l) \/ LoadedLegacyProfile(l) \/ ProcessorsDone(l)
        <3>1. phase'[l] \in {"version", "files"}
            BY <2>4 DEF StartLaunch, VersionKnown, LoadedLegacyProfile, ProcessorsDone, Begin, LaunchOK
        <3>2. QED
            BY <1>3, <3>1
    <2>5. CASE StartGame(l) /\ Starts(l)
        BY <1>3, <2>5 DEF Starts, LaunchOK
    <2>6. CASE InstallerKnown(l)
        <3>1. phase'[l] = "installer" /\ "installer" \in loading'[l]
            BY <2>3, <2>6, BeginStarts DEF InstallerKnown, Phases
        <3>2. QED
            BY <3>1 DEF LoadedBy
    <2>7. CASE ReadInstaller(l) /\ AreWhole({"installer"})
        <3> DEFINE loads == IF plan[l].loader = "bare" THEN {} ELSE {"profile"}
        <3>1. Begin(l, "profile", loads) /\ loads \subseteq Loads
            BY <2>3, <2>7 DEF ReadInstaller
        <3> HIDE DEF loads
        <3>2. phase'[l] = "profile" /\ plan' = plan
            BY <3>1, BeginIs DEF Phases
        <3>3. plan[l].loader = "modern" => "profile" \in loading'[l]
            BY <2>3, <3>1, BeginStarts DEF Phases, loads
        <3>4. QED
            BY <3>2, <3>3 DEF LoadedBy
    <2>8. CASE LoadedProfile(l)
        <3>1. Begin(l, "processors", {"outputs"}) /\ phase[l] = "profile" /\ loading[l] = {}
            BY <2>8 DEF LoadedProfile
        <3>2. AllDone(steps[l], {"profile"})
            BY <2>8, <3>1 DEF Loaded, LoadedBy, LoadedProfile
        <3>3. phase'[l] = "processors" /\ \A s \in Slots : LoadOf[s] = "profile" => steps'[l][s] = steps[l][s]
            BY <2>3, <3>1, BeginStarts DEF Phases
        <3>4. AllDone(steps'[l], {"profile"})
            BY <3>2, <3>3 DEF AllDone, SlotsOf
        <3>5. QED
            BY <3>3, <3>4 DEF LoadedBy
    <2>9. ASSUME NEW load \in Loads, EndLoad(l, load)
          PROVE  By(l)
        <3>1. /\ AllDone(steps[l], {load}) /\ UNCHANGED <<phase, plan, steps>>
              /\ loading'[l] = loading[l] \ {load}
            BY <2>9 DEF EndLoad, AllDone, LaunchOK
        <3>2. LoadedBy(phase[l], plan[l], loading[l], steps[l])
            BY DEF Loaded
        <3>3. QED
            BY <3>1, <3>2 DEF LoadedBy
    <2>10. QED
        BY <1>7, <2>4, <2>5, <2>6, <2>7, <2>8, <2>9 DEF Turns
<1>8. ASSUME NEW l \in Launchers, Next
      PROVE  outcome'[l] = "failed" => harmed'[l] \/ rewritten' \cup trusted' # {}
    <2>1. Excused(l)
        BY <1>8, FailuresAreExcused
    <2>2. outcome[l] = "failed" => harmed[l] \/ rewritten \cup trusted # {}
        BY DEF Loaded
    <2>3. QED
        BY <2>1, <2>2, HistoryGrows DEF Excused
<1>9. ASSUME Next
      PROVE  Loaded'
    <2>1. \A l \in Launchers : By(l)
        BY <1>5, <1>6, <1>7, <1>9, Kinds
    <2>2. QED
        BY <1>8, <1>9, <2>1 DEF Loaded
<1>10. QED
    BY <1>1, <1>9

-----------------------------------------------------------------------------
(* The bar.                                                                 *)

LEMMA OpenOf ==
    /\ Open({}) = 0 /\ Open({"outputs"}) = 0 /\ Open({"outputs"} \ {"java"}) = 0
    /\ Open({"java", "installer"}) = 2 /\ Open({"java", "installer"} \ {"java"}) = 1
    /\ Open({"profile"}) = 1 /\ Open({"profile"} \ {"java"}) = 1
    /\ Open(FinalLoads) = 3 /\ Open(FinalLoads \ {"java"}) = 2
BY DEF Open, One, FinalLoads

\* A load that ends is one less.
LEMMA OpenWithout ==
    ASSUME NEW ld \in SUBSET Loads, NEW load \in ld, load # "outputs"
    PROVE  Open(ld) \in Nat /\ Open(ld \ {load}) \in Nat /\ Open(ld) = Open(ld \ {load}) + 1
<1>1. load \in {"java", "assets", "libraries", "installer", "profile"}
    BY DEF Loads
<1>2. QED
    BY <1>1 DEF Open, One

LEMMA CountedStep ==
    ASSUME Types, Counted, [Next]_vars
    PROVE  Counted'
<1> USE DEF Types
<1> DEFINE By(l) == CountedBy(phase'[l], plan'[l], loading'[l], progress'[l])
<1>1. ASSUME UNCHANGED <<phase, plan, loading, progress>>
      PROVE  \A l \in Launchers : By(l)
    BY <1>1 DEF Counted
<1>2. ASSUME NEW l \in Launchers, Others(l), By(l)
      PROVE  \A k \in Launchers : By(k)
    BY <1>2 DEF Counted, Others
<1>3. ASSUME NEW l \in Launchers, Ends(l)
      PROVE  \A k \in Launchers : By(k)
    <2>1. Others(l) /\ phase'[l] = "idle" /\ loading'[l] = {} /\ progress'[l] = NoProgress
        BY <1>3, OverIs DEF Ends
    <2>2. QED
        BY <1>2, <2>1 DEF CountedBy
<1>4. ASSUME NEW l \in Launchers, Turns(l)
      PROVE  \A k \in Launchers : By(k)
    <2>1. Others(l)
        BY <1>4, TurnTypes
    <2>2. SUFFICES By(l)
        BY <1>2, <2>1
    <2> DEFINE pl == plan[l]
               bar == progress[l]
               own == pl.java = "own"
    <2>3. /\ pl \in Plans /\ pl.loader \in {"vanilla", "fabric", "modern", "legacy", "bare"}
          /\ pl.java \in {"mojang", "own"}
          /\ bar \in Bars /\ bar.count \in Nat /\ bar.total \in Nat
          /\ loading[l] \subseteq Loads
        BY DEF LaunchOK, Plans, Bars
    <2>4. CountedBy(phase[l], pl, loading[l], bar)
        BY DEF Counted
    <2>5. FinalLoads \subseteq Loads /\ {"java", "installer"} \subseteq Loads
          /\ {"profile"} \subseteq Loads /\ {"outputs"} \subseteq Loads /\ {} \subseteq Loads
        BY DEF FinalLoads, Loads
    <2>6. ASSUME NEW next \in Phases, NEW loads \in SUBSET Loads, Begin(l, next, loads)
          PROVE  /\ phase'[l] = next /\ plan'[l] = pl
                 /\ loading'[l] = IF own THEN loads \ {"java"} ELSE loads
        <3>1. phase'[l] = next /\ plan' = plan /\ loading'[l] = Needs(l, loads)
            BY <2>6, BeginIs
        <3>2. Needs(l, loads) = IF own THEN loads \ {"java"} ELSE loads
            BY <2>3 DEF Needs
        <3>3. QED
            BY <3>1, <3>2
    <2>7. ASSUME NEW n \in Nat, Count(l, n)
          PROVE  progress'[l].count = bar.count + n /\ progress'[l].total = bar.total
        BY <2>7, CountIs
    <2>8. CASE StartLaunch(l)
        <3>1. PICK loader \in Loaders, java \in {"mojang", "own"} :
                 /\ plan' = [plan EXCEPT ![l] = [loader |-> loader, java |-> java, number |-> left.launches]]
                 /\ progress' = [progress EXCEPT ![l] = [count |-> 0, total |-> 6 + ExtraTotal(loader)]]
            BY <2>8 DEF StartLaunch
        <3>2. plan'[l].loader = loader /\ plan'[l].java = java
              /\ progress'[l].count = 0 /\ progress'[l].total = 6 + ExtraTotal(loader)
            BY <3>1 DEF LaunchOK
        <3>3. phase'[l] = "version" /\ loading'[l] = {}
            BY <2>4, <2>8 DEF StartLaunch, CountedBy, LaunchOK
        <3>4. QED
            BY <3>2, <3>3, OpenOf DEF CountedBy, Owned, Full
    <2>9. CASE VersionKnown(l)
        <3>1. /\ phase[l] = "version" /\ pl.loader \in {"vanilla", "fabric"}
              /\ Count(l, IF pl.loader = "fabric" THEN 5 ELSE 2) /\ Begin(l, "files", FinalLoads)
            BY <2>9 DEF VersionKnown
        <3>2. /\ phase'[l] = "files" /\ plan'[l] = pl
              /\ loading'[l] = IF own THEN FinalLoads \ {"java"} ELSE FinalLoads
            BY <2>5, <2>6, <3>1 DEF Phases
        <3>3. bar.count = 0 /\ bar.total = 6 + ExtraTotal(pl.loader)
            <4>1. loading[l] = {}
                BY <2>4, <3>1 DEF CountedBy, LoadsIn
            <4>2. Owned("version", pl) = 0 /\ Full("version", pl.loader) = 0
                BY DEF Owned, Full
            <4>3. QED
                BY <2>3, <2>4, <3>1, <4>1, <4>2, OpenOf DEF CountedBy
        <3>4. progress'[l].count = (IF pl.loader = "fabric" THEN 5 ELSE 2)
              /\ progress'[l].total = 6 + ExtraTotal(pl.loader)
            BY <2>7, <3>1, <3>3
        <3>5. QED
            BY <2>3, <3>1, <3>2, <3>4, OpenOf DEF CountedBy, Owned, Full, LoadsIn
    <2>10. CASE InstallerKnown(l)
        <3>1. /\ phase[l] = "version" /\ pl.loader \in {"modern", "legacy", "bare"}
              /\ Count(l, 2) /\ Begin(l, "installer", {"java", "installer"})
            BY <2>10 DEF InstallerKnown
        <3>2. /\ phase'[l] = "installer" /\ plan'[l] = pl
              /\ loading'[l] = IF own THEN {"java", "installer"} \ {"java"} ELSE {"java", "installer"}
            BY <2>5, <2>6, <3>1 DEF Phases
        <3>3. bar.count = 0 /\ bar.total = 6 + ExtraTotal(pl.loader)
            <4>1. loading[l] = {}
                BY <2>4, <3>1 DEF CountedBy, LoadsIn
            <4>2. Owned("version", pl) = 0 /\ Full("version", pl.loader) = 0
                BY DEF Owned, Full
            <4>3. QED
                BY <2>3, <2>4, <3>1, <4>1, <4>2, OpenOf DEF CountedBy
        <3>4. progress'[l].count = 2 /\ progress'[l].total = 6 + ExtraTotal(pl.loader)
            BY <2>7, <3>1, <3>3
        <3>5. QED
            BY <2>3, <3>1, <3>2, <3>4, OpenOf DEF CountedBy, Owned, Full, LoadsIn
    <2>11. CASE ReadInstaller(l) /\ AreWhole({"installer"})
        <3> DEFINE loads == IF pl.loader = "bare" THEN {} ELSE {"profile"}
        <3>1. /\ phase[l] = "installer" /\ loading[l] = {} /\ Begin(l, "profile", loads)
              /\ Count(l, IF pl.loader = "modern" THEN 1 ELSE 2)
            BY <2>11 DEF ReadInstaller
        <3>2. phase'[l] = "profile" /\ plan'[l] = pl /\ loading'[l] = loads
            <4>1. loads \subseteq Loads
                BY <2>5
            <4>2. phase'[l] = "profile" /\ plan'[l] = pl
                  /\ loading'[l] = IF own THEN loads \ {"java"} ELSE loads
                BY <2>6, <3>1, <4>1 DEF Phases
            <4>3. loads \ {"java"} = loads
                OBVIOUS
            <4>4. QED
                BY <4>2, <4>3
        <3>3. bar.count = (IF own THEN 3 ELSE 4) /\ bar.total = 6 + ExtraTotal(pl.loader)
              /\ pl.loader \in {"modern", "legacy", "bare"}
            BY <2>3, <2>4, <3>1, OpenOf DEF CountedBy, Owned, Full
        <3>4. progress'[l].count = bar.count + (IF pl.loader = "modern" THEN 1 ELSE 2)
              /\ progress'[l].total = bar.total
            BY <2>7, <3>1
        <3>5. QED
            BY <2>3, <3>2, <3>3, <3>4, OpenOf DEF CountedBy, Owned, Full, LoadsIn
    <2>12. CASE LoadedProfile(l)
        <3>1. /\ phase[l] = "profile" /\ loading[l] = {} /\ pl.loader = "modern"
              /\ Begin(l, "processors", {"outputs"}) /\ progress' = progress
            BY <2>12 DEF LoadedProfile
        <3>2. /\ phase'[l] = "processors" /\ plan'[l] = pl
              /\ loading'[l] = IF own THEN {"outputs"} \ {"java"} ELSE {"outputs"}
            BY <2>5, <2>6, <3>1 DEF Phases
        <3>3. bar.count = (IF own THEN 5 ELSE 6) /\ bar.total = 6 + ExtraTotal(pl.loader)
            BY <2>3, <2>4, <3>1, OpenOf DEF CountedBy, Owned, Full
        <3>4. QED
            BY <2>3, <3>1, <3>2, <3>3, OpenOf DEF CountedBy, Owned, Full, LoadsIn
    <2>13. CASE LoadedLegacyProfile(l)
        <3>1. /\ phase[l] = "profile" /\ loading[l] = {} /\ pl.loader \in {"legacy", "bare"}
              /\ Begin(l, "files", FinalLoads) /\ Count(l, 1)
            BY <2>13 DEF LoadedLegacyProfile
        <3>2. /\ phase'[l] = "files" /\ plan'[l] = pl
              /\ loading'[l] = IF own THEN FinalLoads \ {"java"} ELSE FinalLoads
            BY <2>5, <2>6, <3>1 DEF Phases
        <3>3. bar.count + (IF own THEN 1 ELSE 0) = (IF pl.loader = "bare" THEN 6 ELSE 7)
              /\ bar.total = 6 + ExtraTotal(pl.loader)
            BY <2>3, <2>4, <3>1, OpenOf DEF CountedBy, Owned, Full
        <3>4. progress'[l].count = bar.count + 1 /\ progress'[l].total = bar.total
            BY <2>7, <3>1
        <3>5. QED
            BY <2>3, <3>1, <3>2, <3>3, <3>4, OpenOf DEF CountedBy, Owned, Full, LoadsIn
    <2>14. CASE ProcessorsDone(l)
        <3>1. phase[l] = "processors" /\ Begin(l, "files", FinalLoads) /\ Count(l, 2)
            BY <2>14 DEF ProcessorsDone
        <3>2. /\ phase'[l] = "files" /\ plan'[l] = pl
              /\ loading'[l] = IF own THEN FinalLoads \ {"java"} ELSE FinalLoads
            BY <2>5, <2>6, <3>1 DEF Phases
        <3>3. Open(loading[l]) = 0
            <4>1. loading[l] \subseteq {"outputs"}
                BY <2>4, <3>1 DEF CountedBy, LoadsIn
            <4>2. loading[l] = {} \/ loading[l] = {"outputs"}
                BY <4>1
            <4>3. QED
                BY <4>2, OpenOf
        <3>4. bar.count = (IF own THEN 5 ELSE 6) /\ bar.total = 6 + ExtraTotal(pl.loader)
              /\ pl.loader = "modern"
            BY <2>3, <2>4, <3>1, <3>3 DEF CountedBy, Owned, Full
        <3>5. progress'[l].count = bar.count + 2 /\ progress'[l].total = bar.total
            BY <2>7, <3>1
        <3>6. QED
            BY <2>3, <3>2, <3>4, <3>5, OpenOf DEF CountedBy, Owned, Full, LoadsIn
    <2>15. ASSUME NEW load \in Loads, EndLoad(l, load)
           PROVE  By(l)
        <3>1. /\ Awaiting(l) /\ load \in loading[l] /\ Count(l, 1)
              /\ UNCHANGED <<phase, plan>> /\ loading'[l] = loading[l] \ {load}
            BY <2>15 DEF EndLoad, LaunchOK
        <3>2. phase[l] \in {"installer", "profile", "files"} /\ loading[l] \subseteq LoadsIn(phase[l])
            BY <2>4, <3>1 DEF Awaiting, CountedBy
        <3>3. load # "outputs"
            BY <3>1, <3>2 DEF LoadsIn, FinalLoads
        <3>4. /\ Open(loading[l]) \in Nat /\ Open(loading'[l]) \in Nat
              /\ Open(loading[l]) = Open(loading'[l]) + 1
            BY <2>3, <3>1, <3>3, OpenWithout
        <3>5. progress'[l].count = bar.count + 1 /\ progress'[l].total = bar.total
            BY <2>7, <3>1
        <3>6. Owned(phase[l], pl) \in Nat
            BY DEF Owned
        <3>7. progress'[l].count + Open(loading'[l]) + Owned(phase[l], pl) = Full(phase[l], pl.loader)
            <4>1. bar.count + Open(loading[l]) + Owned(phase[l], pl) = Full(phase[l], pl.loader)
                BY <2>4, <3>2 DEF CountedBy
            <4>2. QED
                BY <2>3, <3>4, <3>5, <3>6, <4>1
        <3>8. QED
            BY <2>4, <3>1, <3>2, <3>5, <3>7 DEF CountedBy
    <2>16. CASE StartGame(l) /\ Starts(l)
        <3>1. phase'[l] = "started"
            BY <2>16 DEF Starts, LaunchOK
        <3>2. \A how \in Outcomes : ~Over(l, how)
            BY <3>1, OverIs
        <3>3. phase[l] = "files" /\ loading[l] = {} /\ Count(l, 2) /\ UNCHANGED <<plan, loading>>
            BY <2>16, <3>2 DEF StartGame, Outcomes
        <3>4. progress'[l].count = bar.count + 2 /\ progress'[l].total = bar.total
            BY <2>7, <3>3
        <3>5. /\ bar.total = 6 + ExtraTotal(pl.loader)
              /\ bar.count + Owned("files", pl) = Full("files", pl.loader)
            BY <2>3, <2>4, <3>3, OpenOf DEF CountedBy, Owned
        <3>6. Owned("started", pl) = Owned("files", pl) /\ Owned("files", pl) \in Nat
            BY DEF Owned
        <3>7. Full("started", pl.loader) = Full("files", pl.loader) + 2
            BY <2>3 DEF Full
        <3>8. progress'[l].count + Open(loading'[l]) + Owned("started", pl) = Full("started", pl.loader)
            <4>1. Open(loading'[l]) = 0
                BY <3>3, OpenOf
            <4>2. QED
                BY <2>3, <3>4, <3>5, <3>6, <3>7, <4>1
        <3>9. QED
            BY <3>1, <3>3, <3>4, <3>5, <3>8 DEF CountedBy, LoadsIn
    <2>17. QED
        BY <1>4, <2>8, <2>9, <2>10, <2>11, <2>12, <2>13, <2>14, <2>15, <2>16 DEF Turns
<1>5. CASE Moves \/ UNCHANGED vars
    BY <1>1, <1>5 DEF Moves, launchVars, vars, Counted
<1>6. ASSUME Next
      PROVE  \A l \in Launchers : By(l)
    BY <1>1, <1>3, <1>4, <1>6, Kinds DEF Moves, launchVars
<1>7. QED
    BY <1>5, <1>6 DEF Counted

-----------------------------------------------------------------------------
(* The theorems.                                                            *)

THEOREM Invariance == Spec => []IInv
<1>1. Init => IInv
    <2>1. Init => Ended
        BY DEF Init, Ended, NoSteps
    <2>2. Init => Loaded
        BY DEF Init, Loaded, LoadedBy
    <2>3. Init => Counted
        BY DEF Init, Counted, CountedBy
    <2>4. QED
        BY <2>1, <2>2, <2>3, TypeInit DEF IInv
<1>2. IInv /\ [Next]_vars => IInv'
    BY TypeStep, EndedStep, LoadedStep, CountedStep DEF IInv
<1>3. QED
    BY <1>1, <1>2, PTL DEF Spec

\* Every variable keeps its type, for any launchers, slots and files.
THEOREM TypeCorrect == Spec => []Types
<1>1. IInv => Types
    BY DEF IInv
<1>2. QED
    BY <1>1, Invariance, PTL

\* A game is started with its files whole, whatever was torn, cancelled or killed
\* before, whoever else downloads and whichever processors run again over outputs
\* that are there: but for files that were taken without a hash, or that somebody
\* wrote anew while others wrote them or went by them (do_java_runtime_load,
\* do_asset_objects_load, do_libraries_load, can_skip_forge_processor).
THEOREM GamesGetTheirFiles == Spec => []StartedWithItsFiles
<1>1. IInv => StartedWithItsFiles
    BY DEF IInv, Ended, Good, StartedWithItsFiles, Needed
<1>2. QED
    BY <1>1, Invariance, PTL

\* A launch fails only for a mishap of its own or for one of those files, in any
\* of the phases Forge's installation adds (create_forgelike_launch_version).
THEOREM FailuresHaveReasons == Spec => []FailuresAreNotInherited
<1>1. IInv => FailuresAreNotInherited
    BY DEF IInv, Loaded, FailuresAreNotInherited
<1>2. QED
    BY <1>1, Invariance, PTL

\* The bar never runs over, and when the game is started all is counted that was
\* announced but Java of one's own and the libraries of a profile that has none, for
\* every loader, in whichever order the loads end (launch, create_launch_version).
THEOREM BarsAreFilled == Spec => []ProgressAddsUp
<1>1. ASSUME IInv, NEW l \in Launchers
      PROVE  /\ progress[l].count <= progress[l].total
             /\ phase[l] = "started" => progress[l].count + Uncounted(plan[l]) = progress[l].total
    <2> DEFINE pl == plan[l]
               ph == phase[l]
    <2>1. /\ pl.loader \in {"vanilla", "fabric", "modern", "legacy", "bare"} /\ ph \in Phases
          /\ pl.java \in {"mojang", "own"}
          /\ progress[l].count \in Nat /\ loading[l] \subseteq Loads
        BY <1>1 DEF IInv, Types, LaunchOK, Plans, Bars
    <2>2. CountedBy(ph, pl, loading[l], progress[l])
        BY <1>1 DEF IInv, Counted
    <2>3. Open(loading[l]) \in Nat /\ Owned(ph, pl) \in Nat
        BY DEF Open, One, Owned
    <2>4. CASE ph = "idle"
        BY <2>2, <2>4 DEF CountedBy, NoProgress
    <2>5. CASE ph # "idle"
        <3>1. /\ progress[l].total = 6 + ExtraTotal(pl.loader)
              /\ progress[l].count + Open(loading[l]) + Owned(ph, pl) = Full(ph, pl.loader)
              /\ ph \in {"installer", "profile"} => pl.loader \in {"modern", "legacy", "bare"}
              /\ ph = "processors" => pl.loader = "modern"
              /\ loading[l] \subseteq LoadsIn(ph)
            BY <2>2, <2>5 DEF CountedBy
        <3>2. Full(ph, pl.loader) \in Nat /\ Full(ph, pl.loader) <= 6 + ExtraTotal(pl.loader)
            BY <2>1, <2>5, <3>1 DEF Full, ExtraTotal, Phases
        <3>3. progress[l].count <= progress[l].total
            <4>1. 6 + ExtraTotal(pl.loader) \in Nat
                BY DEF ExtraTotal
            <4>2. QED
                BY <2>1, <2>3, <3>1, <3>2, <4>1
        <3>4. ASSUME ph = "started"
              PROVE  progress[l].count + Uncounted(pl) = progress[l].total
            <4>1. loading[l] = {}
                BY <3>1, <3>4 DEF LoadsIn
            <4>2. progress[l].count + Owned("started", pl) = Full("started", pl.loader)
                BY <2>1, <2>3, <3>1, <3>4, <4>1, OpenOf
            <4>3. Full("started", pl.loader) + (IF pl.loader = "bare" THEN 1 ELSE 0) = 6 + ExtraTotal(pl.loader)
                BY <2>1 DEF Full, ExtraTotal
            <4>4. Uncounted(pl) = Owned("started", pl) + (IF pl.loader = "bare" THEN 1 ELSE 0)
                BY <2>1 DEF Uncounted, Owned
            <4>5. QED
                BY <2>1, <2>3, <3>1, <3>4, <4>2, <4>3, <4>4
        <3>5. QED
            BY <3>3, <3>4
    <2>6. QED
        BY <2>4, <2>5
<1>2. IInv => ProgressAddsUp
    BY <1>1 DEF ProgressAddsUp
<1>3. QED
    BY <1>2, Invariance, PTL
================================================================================
