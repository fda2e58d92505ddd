------------------------------ MODULE LaunchFiles ------------------------------
(***************************************************************************)
(* What a launch prepares (launch.rs): the version, for Forge its installer *)
(* and the processors it runs, then Java, assets and libraries side by      *)
(* side, until the game is started.  Launchers share the files; in each the *)
(* main loop awaits one launch.                                             *)
(*                                                                          *)
(* A slot is an entry of the documents that say what a launch needs.  Two   *)
(* slots can ask for one file: an index often has one hash under several    *)
(* names.  Left out: the permits that bound how many requests and reads go  *)
(* on at once (held over one await, no property depends on them) and the    *)
(* log configuration, which a launch does without when it cannot be had.    *)
(***************************************************************************)
EXTENDS Naturals

CONSTANTS
    Launchers,
    Slots,
    File,          \* the file of a slot
    LoadOf,        \* the load it belongs to: "java", "assets", "libraries";
                   \* of Forge "installer", "profile", "outputs"
    Hashed,        \* the slots whose hash is in the documents
    Unskippable,   \* outputs of processors that are run at every launch
    Loaders,       \* of the instances: "vanilla", "fabric", or Forge: "modern", "legacy",
                   \* or "bare", a legacy one whose profile lists no libraries
    MaxLaunches,   \* bound on the launches
    MaxMishaps     \* bound on the failures of network, servers and disk, on the
                   \* launches cancelled and on the launchers killed

Loads == {"java", "assets", "libraries", "installer", "profile", "outputs"}

ASSUME LaunchFilesAssumption ==
    /\ LoadOf \in [Slots -> Loads]
    /\ DOMAIN File = Slots /\ Hashed \subseteq Slots
    /\ Unskippable \subseteq {s \in Slots : LoadOf[s] = "outputs"}
    /\ Loaders \subseteq {"vanilla", "fabric", "modern", "legacy", "bare"}
    /\ MaxLaunches \in Nat /\ MaxMishaps \in Nat

Files == {File[s] : s \in Slots}

VARIABLES
    disk,      \* what is in each file
    executable, \* the files the system lets one execute
    phase,     \* of the launch in hand
    plan,      \* what it is: loader, Java, number
    verified,  \* the slots whose hash it knows
    steps,     \* where the task of each slot is
    loading,   \* the loads that have not ended
    writes,    \* what the blocking pool has to write, of dropped tasks too
    progress,  \* launch_tracker
    outcome,   \* of the last launch
    harmed,    \* history: a mishap hit the launch in hand
    rewritten, \* history: files that somebody wrote anew although a launch had found
               \* or loaded them, or somebody else was writing them
    trusted,   \* history: files taken for whole without a hash
    left       \* what is left of each bound

vars == <<disk, executable, phase, plan, verified, steps, loading, writes, progress, outcome,
          harmed, rewritten, trusted, left>>
stored == <<disk, executable>>
launchVars == <<phase, plan, verified, loading, progress, outcome>>
history == <<rewritten, trusted>>

SlotsOf(loads) == {s \in Slots : LoadOf[s] \in loads}
NoSteps == [s \in Slots |-> "idle"]
NoPlan(number) == [loader |-> "vanilla", java |-> "mojang", number |-> number]
NoProgress == [count |-> 0, total |-> 0]

Init ==
    /\ disk = [f \in Files |-> "absent"] /\ executable = {}
    /\ phase = [l \in Launchers |-> "idle"]
    /\ plan = [l \in Launchers |-> NoPlan(0)]
    /\ verified = [l \in Launchers |-> Hashed]
    /\ steps = [l \in Launchers |-> NoSteps]
    /\ loading = [l \in Launchers |-> {}]
    /\ writes = {}
    /\ progress = [l \in Launchers |-> NoProgress]
    /\ outcome = [l \in Launchers |-> "none"] /\ harmed = [l \in Launchers |-> FALSE]
    /\ rewritten = {} /\ trusted = {}
    /\ left = [launches |-> MaxLaunches, mishaps |-> MaxMishaps]

Spend(what) == left[what] > 0 /\ left' = [left EXCEPT ![what] = @ - 1]

\* A mishap of launcher l; a launch is on its way.
Mishap(l) ==
    /\ Spend("mishaps")
    /\ harmed' = [harmed EXCEPT ![l] = TRUE]
NoMishap == UNCHANGED <<left, harmed>>

Count(l, n) == progress' = [progress EXCEPT ![l].count = @ + n]
Step(l, s, step) == steps' = [steps EXCEPT ![l][s] = step]

\* The future of the launch is dropped or has returned.  What the blocking pool
\* has to write stays in writes.
Over(l, how) ==
    /\ phase' = [phase EXCEPT ![l] = "idle"]
    /\ steps' = [steps EXCEPT ![l] = NoSteps]
    /\ loading' = [loading EXCEPT ![l] = {}]
    /\ outcome' = [outcome EXCEPT ![l] = how]
    /\ plan' = [plan EXCEPT ![l] = NoPlan(@.number)]
    /\ verified' = [verified EXCEPT ![l] = Hashed]
    /\ progress' = [progress EXCEPT ![l] = NoProgress]

\* The next loads start: every task looks at the disk first.  Java that the user
\* or the environment provides is not loaded.
Begin(l, next, loads) ==
    LET needed == IF plan[l].java = "mojang" THEN loads ELSE loads \ {"java"} IN
    /\ phase' = [phase EXCEPT ![l] = next]
    /\ loading' = [loading EXCEPT ![l] = needed]
    /\ steps' = [steps EXCEPT ![l] =
                   [s \in Slots |-> IF LoadOf[s] \in needed THEN "check" ELSE @[s]]]
    /\ UNCHANGED <<plan, outcome>>

FinalLoads == {"java", "assets", "libraries"}

-----------------------------------------------------------------------------

\* Mutant: Fabric's loader is not counted.
ForgetsLoader(loader) == CASE loader = "vanilla" -> 1 [] loader = "fabric" -> 3 [] OTHER -> 7

ExtraTotal(loader) == CASE loader = "vanilla" -> 1 [] loader = "fabric" -> 4 [] OTHER -> 7

\* launch: the tracker's total is 6, create_launch_version adds what its loader
\* takes.
StartLaunch(l) ==
    /\ phase[l] = "idle" /\ Spend("launches")
    /\ \E loader \in Loaders, java \in {"mojang", "own"} :
         /\ plan' = [plan EXCEPT ![l] = [loader |-> loader, java |-> java, number |-> left.launches]]
         /\ progress' = [progress EXCEPT ![l] = [count |-> 0, total |-> 6 + ExtraTotal(loader)]]
    /\ phase' = [phase EXCEPT ![l] = "version"]
    /\ verified' = [verified EXCEPT ![l] = Hashed]
    /\ outcome' = [outcome EXCEPT ![l] = "none"]
    /\ harmed' = [harmed EXCEPT ![l] = FALSE]
    /\ UNCHANGED <<stored, steps, loading, writes, history>>

\* A fetch of metadata or the search for Java fails, before or during the loads.
MetadataFails(l) ==
    /\ phase[l] \in {"version", "installer", "files"}
    /\ phase[l] = "version" \/ loading[l] \cap {"java", "assets"} # {}
    /\ Mishap(l)
    /\ Over(l, "failed")
    /\ UNCHANGED <<stored, writes, history>>

\* create_launch_version for vanilla and Fabric: all their documents are there.
VersionKnown(l) ==
    /\ phase[l] = "version" /\ plan[l].loader \in {"vanilla", "fabric"}
    /\ Count(l, IF plan[l].loader = "fabric" THEN 5 ELSE 2)
    /\ Begin(l, "files", FinalLoads)
    /\ NoMishap /\ UNCHANGED <<stored, verified, writes, history>>

\* create_forgelike_launch_version up to the installer, whose hash is asked for
\* (download_sha1) and done without when there is no answer.
InstallerKnown(l) ==
    /\ phase[l] = "version" /\ plan[l].loader \in {"modern", "legacy", "bare"}
    /\ Count(l, 2)
    /\ Begin(l, "installer", {"java", "installer"})
    /\ \/ NoMishap /\ UNCHANGED verified
       \/ /\ Mishap(l)
          /\ verified' = [verified EXCEPT ![l] = @ \ SlotsOf({"installer"})]
    /\ UNCHANGED <<stored, writes, history>>

-----------------------------------------------------------------------------
(* The task of a file: do_java_runtime_load, do_asset_objects_load and        *)
(* do_libraries_load.                                                        *)

Awaiting(l) == phase[l] \in {"installer", "profile", "files"}

\* Mutant: a file that exists is not read again.
LooksOnly(l, s) == disk[File[s]] # "absent"

\* check_sha1_hash, or only exists() for a library without a hash.
OnDisk(l, s) == IF s \in verified[l] THEN disk[File[s]] = "whole" ELSE disk[File[s]] # "absent"

\* Found on disk although it is not whole.
Trusts(l, s) ==
    trusted' = IF s \notin verified[l] /\ disk[File[s]] \notin {"absent", "whole"}
               THEN trusted \cup {File[s]} ELSE trusted

CheckDisk(l, s) ==
    /\ Awaiting(l) /\ steps[l][s] = "check"
    /\ Step(l, s, IF OnDisk(l, s) THEN "done" ELSE "request")
    /\ Trusts(l, s)
    /\ NoMishap /\ UNCHANGED <<stored, launchVars, writes, rewritten>>

Job(l, s, content) ==
    [launcher |-> l, number |-> plan[l].number, slot |-> s, begun |-> FALSE, content |-> content]

\* Mutant: a body with the wrong hash is written all the same.
WritesAnything(l, s) ==
    /\ steps[l][s] = "request"
    /\ Mishap(l)
    /\ writes' = writes \cup {Job(l, s, "wrong")}
    /\ Step(l, s, "write")
    /\ UNCHANGED <<stored, launchVars, history>>

\* A body of the right size, and hash if it is known: tokio::fs::write.  Without
\* a hash whatever the server says is written, also the page of an error.
Downloaded(l, s) ==
    /\ steps[l][s] = "request"
    /\ \/ writes' = writes \cup {Job(l, s, "whole")} /\ NoMishap /\ UNCHANGED trusted
       \/ /\ s \notin verified[l] /\ Mishap(l)
          /\ writes' = writes \cup {Job(l, s, "wrong")}
          /\ trusted' = trusted \cup {File[s]}
    /\ Step(l, s, "write")
    /\ UNCHANGED <<stored, launchVars, rewritten>>

\* No answer, a wrong size, a wrong hash: the load ends, its other tasks and the
\* other loads are dropped (try_join_all, try_join4).
DownloadFails(l, s) ==
    /\ steps[l][s] = "request"
    /\ Mishap(l)
    /\ Over(l, "failed")
    /\ UNCHANGED <<stored, writes, history>>

\* Does the task that asked for the write still wait for it?
Awaited(w) == plan[w.launcher].number = w.number /\ steps[w.launcher][w.slot] = "write"

\* A launch goes by what it found in f, or loaded.
Relied(f) == \E l \in Launchers, s \in Slots : File[s] = f /\ steps[l][s] \in {"mode", "done"}

BeingWritten(f) ==
    \/ \E w \in writes : w.begun /\ File[w.slot] = f
    \/ \E l \in Launchers, s \in Slots : File[s] = f /\ steps[l][s] = "run"

\* From now on f is not whole.
Tear(f, noted) ==
    /\ disk' = [disk EXCEPT ![f] = "torn"]
    /\ rewritten' = IF noted THEN rewritten \cup {f} ELSE rewritten

WriteAnew(f) == Tear(f, Relied(f) \/ BeingWritten(f))

\* The pool creates the file, or truncates it...
OpenFile(w) ==
    /\ ~w.begun
    /\ writes' = (writes \ {w}) \cup {[w EXCEPT !.begun = TRUE]}
    /\ WriteAnew(File[w.slot])
    /\ NoMishap /\ UNCHANGED <<executable, launchVars, steps, trusted>>

\* ...and writes it.
WriteFile(w) ==
    /\ w.begun
    /\ writes' = writes \ {w}
    /\ disk' = [disk EXCEPT ![File[w.slot]] = w.content]
    /\ IF ~Awaited(w) THEN UNCHANGED steps
       ELSE Step(w.launcher, w.slot, IF LoadOf[w.slot] = "java" THEN "mode" ELSE "done")
    /\ NoMishap /\ UNCHANGED <<executable, launchVars, history>>

\* set_permissions of a program of Java's, once it is written.
MakeExecutable(l, s) ==
    /\ steps[l][s] = "mode"
    /\ executable' = executable \cup {File[s]}
    /\ Step(l, s, "done")
    /\ NoMishap /\ UNCHANGED <<disk, launchVars, writes, history>>

\* The disk is full, or the file cannot be opened.
WriteFails(w) ==
    /\ Mishap(w.launcher)
    /\ writes' = writes \ {w}
    /\ IF Awaited(w) THEN Over(w.launcher, "failed")
       ELSE UNCHANGED <<launchVars, steps>>
    /\ UNCHANGED <<stored, history>>

\* load_mojang_java_binary, load_assets, load_libraries return.
EndLoad(l, load) ==
    /\ Awaiting(l) /\ load \in loading[l]
    /\ \A s \in SlotsOf({load}) : steps[l][s] = "done"
    /\ loading' = [loading EXCEPT ![l] = @ \ {load}]
    /\ Count(l, 1)
    /\ NoMishap /\ UNCHANGED <<stored, phase, plan, verified, steps, writes, outcome, history>>

-----------------------------------------------------------------------------
(* Forge: create_forgelike_install_version_modern and _legacy.               *)

\* Java can be started.
JavaRuns(l) == plan[l].java = "mojang" => \A s \in SlotsOf({"java"}) : File[s] \in executable

AreWhole(loads) == \A s \in SlotsOf(loads) : disk[File[s]] = "whole"

\* The installer is opened, its profile says what to load; the mirrors are asked
\* for and done without.  The profile is of the version that was asked for (where
\* it is not the launch fails here, which LaunchArguments has).
ReadInstaller(l) ==
    /\ phase[l] = "installer" /\ loading[l] = {}
    /\ IF AreWhole({"installer"})
       THEN /\ Begin(l, "profile", IF plan[l].loader = "bare" THEN {} ELSE {"profile"})
            /\ Count(l, IF plan[l].loader = "modern" THEN 1 ELSE 2)
            /\ UNCHANGED verified
       ELSE Over(l, "failed")
    /\ NoMishap /\ UNCHANGED <<stored, writes, history>>

\* The libraries of a modern profile are there: now its processors.
LoadedProfile(l) ==
    /\ phase[l] = "profile" /\ loading[l] = {} /\ plan[l].loader = "modern"
    /\ Begin(l, "processors", {"outputs"})
    /\ NoMishap /\ UNCHANGED <<stored, verified, writes, progress, history>>

\* Those of a legacy profile are there, if it lists any: that was all.
LoadedLegacyProfile(l) ==
    /\ phase[l] = "profile" /\ loading[l] = {} /\ plan[l].loader \in {"legacy", "bare"}
    /\ Begin(l, "files", FinalLoads)
    /\ Count(l, 1)
    /\ NoMishap /\ UNCHANGED <<stored, verified, writes, history>>

\* can_skip_forge_processor: the output has its hash if the profile names one, or
\* exists if the processor is one of those known by name.  Outputs the profile
\* lists none of, or without a hash, and other processors are never skipped.
MaySkip(l, s) == s \notin Unskippable /\ OnDisk(l, s)

SkipProcessor(l, s) ==
    /\ phase[l] = "processors" /\ steps[l][s] = "check"
    /\ MaySkip(l, s)
    /\ Trusts(l, s)
    /\ Step(l, s, "done")
    /\ NoMishap /\ UNCHANGED <<stored, launchVars, writes, rewritten>>

\* The processor's jar is opened and run, also over an output that is there; the
\* main loop waits for its process (child.wait()) and does nothing else meanwhile.
RunProcessor(l, s) ==
    /\ phase[l] = "processors" /\ steps[l][s] = "check"
    /\ ~MaySkip(l, s)
    /\ \A t \in Slots : steps[l][t] # "run"
    /\ IF AreWhole({"profile"}) /\ JavaRuns(l)
       THEN /\ Step(l, s, "run")
            /\ WriteAnew(File[s])
            /\ UNCHANGED launchVars
       ELSE /\ Over(l, IF JavaRuns(l) THEN "failed" ELSE "not executable")
            /\ UNCHANGED <<disk, rewritten>>
    /\ NoMishap /\ UNCHANGED <<executable, writes, trusted>>

\* A processor ends well, or with an error and half an output.
EndProcessor(l, s) ==
    /\ steps[l][s] = "run"
    /\ \/ /\ Step(l, s, "done")
          /\ disk' = [disk EXCEPT ![File[s]] = "whole"]
          /\ NoMishap /\ UNCHANGED <<launchVars, rewritten>>
       \/ /\ Mishap(l)
          /\ Over(l, "failed")
          /\ Tear(File[s], Relied(File[s]))
    /\ UNCHANGED <<executable, writes, trusted>>

ProcessorsDone(l) ==
    /\ phase[l] = "processors"
    /\ \A s \in SlotsOf({"outputs"}) : steps[l][s] = "done"
    /\ Count(l, 2)
    /\ Begin(l, "files", FinalLoads)
    /\ NoMishap /\ UNCHANGED <<stored, verified, writes, history>>

-----------------------------------------------------------------------------

\* All is loaded.  Natives are extracted and the process is started, or cannot be.
StartGame(l) ==
    /\ phase[l] = "files" /\ loading[l] = {}
    /\ \/ /\ JavaRuns(l)
          /\ phase' = [phase EXCEPT ![l] = "started"]
          /\ outcome' = [outcome EXCEPT ![l] = "started"]
          /\ Count(l, 2)
          /\ NoMishap /\ UNCHANGED <<plan, verified, steps, loading>>
       \/ /\ Mishap(l)
          /\ Over(l, "failed")
       \/ /\ ~JavaRuns(l)
          /\ Over(l, "not executable")
          /\ NoMishap
    /\ UNCHANGED <<stored, writes, history>>

\* The handler of the request returns.
Return(l) ==
    /\ phase[l] = "started"
    /\ Over(l, "started")
    /\ NoMishap /\ UNCHANGED <<stored, writes, history>>

\* The user cancels: select! drops what is awaited, or the flag is seen before
\* the process is started.  Nobody looks while a processor runs.
Cancel(l) ==
    /\ phase[l] \in {"version", "installer", "profile", "files"}
    /\ Spend("mishaps")
    /\ Over(l, "cancelled")
    /\ UNCHANGED <<stored, writes, harmed, history>>

\* The launcher is killed, with what its pool is writing.
Crash(l) ==
    /\ Spend("mishaps")
    /\ Over(l, "cancelled")
    /\ writes' = {w \in writes : w.launcher # l}
    /\ UNCHANGED <<stored, harmed, history>>

TaskStep(l, s) ==
    \/ CheckDisk(l, s) \/ Downloaded(l, s) \/ DownloadFails(l, s) \/ MakeExecutable(l, s)
    \/ SkipProcessor(l, s) \/ RunProcessor(l, s) \/ EndProcessor(l, s)

PoolStep == \E w \in writes : OpenFile(w) \/ WriteFile(w) \/ WriteFails(w)

LaunchStep(l) ==
    \/ VersionKnown(l) \/ InstallerKnown(l) \/ MetadataFails(l)
    \/ \E load \in Loads : EndLoad(l, load)
    \/ ReadInstaller(l) \/ LoadedProfile(l) \/ LoadedLegacyProfile(l) \/ ProcessorsDone(l)
    \/ StartGame(l) \/ Return(l)

Next ==
    \/ PoolStep
    \/ \E l \in Launchers :
         \/ StartLaunch(l) \/ LaunchStep(l) \/ Cancel(l) \/ Crash(l)
         \/ \E s \in Slots : TaskStep(l, s)

Spec == Init /\ [][Next]_vars

-----------------------------------------------------------------------------

\* What the launch in hand has loaded.
Needed(l) == {s \in Slots : steps[l][s] = "done"}

\* A game is started with its files whole, whatever failed, crashed or was
\* cancelled before: a broken file is found by its hash and loaded again
\* (launch.rs:1405-1866).  The exceptions: a file taken for whole without a hash, and
\* one that somebody wrote anew while others wrote it or went by it, as the write of
\* a launch that was dropped, or a processor that is never skipped.
StartedWithItsFiles ==
    \A l \in Launchers : phase[l] = "started" =>
        \A s \in Needed(l) : disk[File[s]] = "whole" \/ File[s] \in rewritten \cup trusted

\* A launch fails because of something that happens to it, never because of what an
\* earlier one left behind (launch.rs:441-1002), but for Java that cannot be executed.
FailuresAreNotInherited ==
    \A l \in Launchers : outcome[l] = "failed" => harmed[l] \/ rewritten \cup trusted # {}

\* What is announced and not counted: Java of one's own, which Forge would have
\* counted twice, and the libraries that a bare profile does not have.
Uncounted(p) ==
    (IF p.java = "mojang" THEN 0 ELSE IF p.loader \in {"vanilla", "fabric"} THEN 1 ELSE 2)
        + (IF p.loader = "bare" THEN 1 ELSE 0)

\* The bar of a launch never runs over, and when the game is started every path has
\* added what it announced (launch.rs:96, 256, 287, 398, 418), but for what that
\* launch had no use for.
ProgressAddsUp ==
    \A l \in Launchers :
        /\ progress[l].count <= progress[l].total
        /\ phase[l] = "started" => progress[l].count + Uncounted(plan[l]) = progress[l].total
=============================================================================
