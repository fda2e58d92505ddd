--------------------------- MODULE ContentLibrary ---------------------------
(***************************************************************************)
(* The content library (a file for each hash) and the instances that hard  *)
(* link to it: install_content.rs and lockfile.rs of the backend, and the  *)
(* modpacks that backend.rs puts in place before a launch.  Several        *)
(* launchers can run at once and share the library; in each, the main loop *)
(* awaits one installation or one launch, whose files are installed side   *)
(* by side by tasks of one future (try_join_all).                          *)
(*                                                                         *)
(* A file is a sequence of Size chunks.  A good chunk is the chunk that    *)
(* belongs at its place, so a file with the right hash is Size good ones.  *)
(* Directory entries (library, link) name files, as they do on disk: a     *)
(* file that is truncated or written is so under all its names.            *)
(***************************************************************************)
EXTENDS Naturals, Sequences, FiniteSets

CONSTANTS
    Launchers,
    Tasks,         \* the tasks of all launchers...
    Owner,         \* ...and the launcher each belongs to
    Hashes,
    NoHash,
    Files,         \* files on disk, 1..n
    Size,          \* chunks of a file
    Permits,       \* downloads at once in an installation, 8 in the code
    Kinds,         \* the requests: "download", "copy", "launch"
    MaxRequests,   \* bound on the requests
    MaxMishaps,    \* bound on the failures of networks, servers and disks
    MaxCrashes     \* bound on the launchers killed

ASSUME ContentLibraryAssumption ==
    /\ Owner \in [Tasks -> Launchers]
    /\ NoHash \notin Hashes
    /\ Files \subseteq Nat \ {0}
    /\ Size \in Nat \ {0} /\ Permits \in Nat \ {0}
    /\ Kinds \subseteq {"download", "copy", "launch"}
    /\ MaxRequests \in Nat /\ MaxMishaps \in Nat /\ MaxCrashes \in Nat

\* A file is a sequence of chunks: "good", "bad", or a "hole" before a later write.
WholeFile == [i \in 1..Size |-> "good"]

\* Where a task is.  One that was dropped, or whose request is over, has no
\* future any more, only a write that the blocking pool still has to do.
DownloadSteps == {"lock", "permit", "check", "request", "filelock", "stream",
                  "discard", "remove"}
WriteSteps == {"compare", "exists", "overwrite", "write"}
InstalledSteps == {"installed", "unlinked", "linked"}
Steps == {"off", "dropped", "over", "waiting"} \cup DownloadSteps \cup WriteSteps \cup InstalledSteps

(* A task is a record of                                                     *)
(*   kind    "download", "copy" or "override"                                *)
(*   step    one of Steps                                                    *)
(*   want    the hash it installs, or NoHash                                 *)
(*   locked  it has the Lockfile                                             *)
(*   file    the file it has open, or 0                                      *)
(*   count   chunks received                                                 *)
(*   pure    the hasher: all of them are good so far                         *)
(*   flight  the write tokio has not done yet: "none", "good" or "bad"       *)
(*   broken  that write failed                                               *)
(*   kept    the future is still polled                                      *)

VARIABLES
    library,   \* the file of each hash, 0 for none
    data,      \* what the files hold
    link,      \* the file at the path a task installs to, 0 for none
    old,       \* is the file that it replaces still there?
    tasks,
    phase,     \* of the request in hand: idle, installing, linking...
    launch,    \* is it a launch?
    needs,     \* the downloads of its modpacks, hashed_downloads
    error,     \* ModalAction.error
    left,      \* what is left of each bound
    troubles   \* history: the ways in which a file can be left broken

names == <<library, link, old>>
requestVars == <<phase, launch, needs, error>>
vars == <<library, data, link, old, tasks, requestVars, left, troubles>>

Idle == [kind |-> "download", step |-> "off", want |-> NoHash, locked |-> FALSE, file |-> 0,
         count |-> 0, pure |-> TRUE, flight |-> "none", broken |-> FALSE, kept |-> FALSE]

\* The launchers start with an empty library and instances that hold an older
\* version of each file.
Init ==
    /\ library = [h \in Hashes |-> 0]
    /\ data = [f \in Files |-> <<>>]
    /\ link = [t \in Tasks |-> 0] /\ old = [t \in Tasks |-> TRUE]
    /\ tasks = [t \in Tasks |-> Idle]
    /\ phase = [l \in Launchers |-> "idle"]
    /\ needs = [l \in Launchers |-> {}]
    /\ launch = [l \in Launchers |-> FALSE] /\ error = [l \in Launchers |-> FALSE]
    /\ left = [requests |-> MaxRequests, mishaps |-> MaxMishaps, crashes |-> MaxCrashes]
    /\ troubles = {}

Spend(what) == left[what] > 0 /\ left' = [left EXCEPT ![what] = @ - 1]

Mine(l) == {t \in Tasks : Owner[t] = l}
\* The tasks of the request in hand.
Current(l) == {t \in Mine(l) : tasks[t].kept}
Free(l) == {t \in Mine(l) : tasks[t].step = "off"}

Whole(h) == library[h] # 0 /\ data[library[h]] = WholeFile

Becomes(t, new) == tasks' = [tasks EXCEPT ![t] = new]
Goes(t, step) == Becomes(t, [tasks[t] EXCEPT !.step = step])

-----------------------------------------------------------------------------
(* Requests.                                                                *)

New(kind, step, hash) == [Idle EXCEPT !.kind = kind, !.step = step, !.want = hash, !.kept = TRUE]

\* install_content for an instance: all files are downloaded, or all are copied
\* from where the user picked them.
StartInstall(l) ==
    /\ phase[l] = "idle" /\ Spend("requests")
    /\ \E S \in SUBSET Free(l) \ {{}}, kind \in Kinds \ {"launch"} : \E want \in [S -> Hashes] :
         tasks' = [t \in Tasks |->
                     IF t \notin S THEN tasks[t]
                     ELSE New(kind, IF kind = "download" THEN "lock" ELSE "compare", want[t])]
    /\ phase' = [phase EXCEPT ![l] = "installing"]
    /\ UNCHANGED <<names, data, launch, needs, error, troubles>>

\* prelaunch_apply_modpacks: install_content for the library with the downloads
\* of a modpack; its overrides come later.
StartLaunch(l) ==
    /\ "launch" \in Kinds
    /\ phase[l] = "idle" /\ Spend("requests")
    /\ \E S \in SUBSET Free(l) \ {{}} : \E downloads \in SUBSET S, want \in [S -> Hashes] :
         /\ tasks' = [t \in Tasks |->
                        IF t \notin S THEN tasks[t]
                        ELSE IF t \in downloads THEN New("download", "lock", want[t])
                        ELSE New("override", "waiting", want[t])]
         /\ needs' = [needs EXCEPT ![l] = {want[t] : t \in downloads}]
    /\ phase' = [phase EXCEPT ![l] = "installing"]
    /\ launch' = [launch EXCEPT ![l] = TRUE]
    /\ UNCHANGED <<names, data, error, troubles>>

\* What is left of a task whose future is dropped: a chunk tokio is writing, or
\* the blocking closure that writes a copy or an override.
Leftover(task) ==
    IF task.step \in {"compare", "overwrite", "write"} THEN [task EXCEPT !.kept = FALSE]
    ELSE IF task.flight = "none" THEN Idle
    ELSE [task EXCEPT !.step = IF @ \in InstalledSteps THEN "over" ELSE "dropped",
                      !.locked = FALSE, !.kept = FALSE]

\* The tasks once the futures of S are dropped.
Dropped(S) == [t \in Tasks |-> IF t \in S THEN Leftover(tasks[t]) ELSE tasks[t]]

Enters(l, next) == phase' = [phase EXCEPT ![l] = next]

\* The request is answered, its modal action is finished or closed.
Ends(l) ==
    /\ Enters(l, "idle")
    /\ launch' = [launch EXCEPT ![l] = FALSE]
    /\ needs' = [needs EXCEPT ![l] = {}]
    /\ error' = [error EXCEPT ![l] = FALSE]

\* try_join_all returns the first error and drops the other tasks.  A launch goes
\* on with its overrides and looks at the error later.
Fails(t) ==
    LET l == Owner[t] IN
    /\ tasks' = [Dropped({u \in Current(l) : tasks[u].step # "waiting"})
                  EXCEPT ![t] = IF tasks[t].kind = "copy" THEN Idle ELSE @]
    /\ IF launch[l] THEN error' = [error EXCEPT ![l] = TRUE] /\ UNCHANGED <<phase, launch, needs>>
       ELSE Ends(l)

-----------------------------------------------------------------------------
(* download_file_into_library_inner.                                        *)

\* Mutant: a lock holds within its launcher only.
LocksHere(t) ==
    /\ tasks[t].step = "lock"
    /\ \A u \in Mine(Owner[t]) : tasks[u].locked => tasks[u].want # tasks[t].want
    /\ Becomes(t, [tasks[t] EXCEPT !.step = "permit", !.locked = TRUE])
    /\ UNCHANGED <<names, data, requestVars, left, troubles>>

\* Lockfile::create: the semaphore of the path and the lock of its lock file.  An
\* error is not looked at.
TakeLock(t) ==
    /\ tasks[t].step = "lock"
    /\ \/ /\ \A u \in Tasks : tasks[u].locked => tasks[u].want # tasks[t].want
          /\ Becomes(t, [tasks[t] EXCEPT !.step = "permit", !.locked = TRUE])
          /\ UNCHANGED <<left, troubles>>
       \/ /\ Spend("mishaps")
          /\ Goes(t, "permit")
          /\ troubles' = troubles \cup {"no lock"}
    /\ UNCHANGED <<names, data, requestVars>>

\* The semaphore of the installation.
TakePermit(t) ==
    /\ tasks[t].step = "permit"
    /\ Cardinality({u \in Current(Owner[t]) :
                      tasks[u].step \in DownloadSteps \ {"lock", "permit"}}) < Permits
    /\ Goes(t, "check")
    /\ UNCHANGED <<names, data, requestVars, left, troubles>>

\* Mutant: the lock goes with the result.
KeepsLock(task) == [task EXCEPT !.step = "installed"]

\* The lock is dropped with the task's result, the permit too.
Installed(task) == [task EXCEPT !.step = "installed", !.locked = FALSE]

\* Is a write to the file of h still to be done, by a task that has ended?
LateWrite(h) == \E u \in Tasks : /\ tasks[u].flight # "none" /\ tasks[u].file = library[h]
                                 /\ tasks[u].step \in InstalledSteps \cup {"over", "dropped"}

\* Is a download of h under way, the file there checked and found wrong?
Downloading(h) == \E u \in Tasks : /\ tasks[u].want = h
                                  /\ tasks[u].step \in DownloadSteps \ {"lock", "permit", "check"}

\* Is the file of h written without a lock?
Meddled(h) == \E u \in Tasks : tasks[u].want = h /\ tasks[u].step = "write"

\* check_sha1_hash on the library's file.  The last write of a download that
\* has just succeeded, or of one that was dropped, may not be on disk yet.
CheckDisk(t) ==
    /\ tasks[t].step = "check"
    /\ Becomes(t, IF Whole(tasks[t].want) THEN Installed(tasks[t])
                  ELSE [tasks[t] EXCEPT !.step = "request"])
    /\ troubles' = troubles \cup (IF LateWrite(tasks[t].want) THEN {"checked too early"} ELSE {})
                            \cup (IF Meddled(tasks[t].want) THEN {"no lock"} ELSE {})
    /\ UNCHANGED <<names, data, requestVars, left>>

\* There is no such version or its hash is no hash, before the lock is taken; no
\* answer, a status other than 200, a file that cannot be created; a stream that
\* breaks off.
DownloadFails(t) ==
    /\ tasks[t].step \in {"lock", "request", "stream"}
    /\ Spend("mishaps")
    /\ Fails(t)
    /\ UNCHANGED <<names, data, troubles>>

Used == {library[h] : h \in Hashes} \cup {link[t] : t \in Tasks} \cup {tasks[t].file : t \in Tasks}

\* File::create: the file of that name is truncated, or a new one is made.
Creates(t, step) ==
    LET h == tasks[t].want IN
    \E f \in Files :
      /\ IF library[h] # 0 THEN f = library[h]
         ELSE f \notin Used /\ \A g \in Files \ Used : f <= g
      /\ library' = [library EXCEPT ![h] = f]
      /\ data' = [data EXCEPT ![f] = <<>>]
      /\ Becomes(t, [tasks[t] EXCEPT !.step = step, !.file = f])

\* The server answers with status 200, the file is created.
Response(t) ==
    /\ tasks[t].step = "request"
    /\ Creates(t, "filelock")
    /\ UNCHANGED <<link, old, requestVars, left, troubles>>

HasFileLock(t) == tasks[t].step \in {"stream", "discard"} \/ tasks[t].flight # "none"

\* std's lock on the file itself.  It is waited for on the thread, nothing else
\* of the installation goes on meanwhile.
LockFile(t) ==
    /\ tasks[t].step = "filelock"
    /\ \A u \in Tasks \ {t} : HasFileLock(u) => tasks[u].file # tasks[t].file
    /\ Goes(t, "stream")
    /\ UNCHANGED <<names, data, requestVars, left, troubles>>

\* write_all waits for the write before it, whose error it returns, and starts
\* the next one.
ReceiveChunk(t) ==
    /\ tasks[t].step = "stream" /\ tasks[t].flight = "none" /\ tasks[t].count <= Size
    /\ \E chunk \in {"good", "bad"} :
         /\ IF chunk = "bad" THEN Spend("mishaps")
            ELSE tasks[t].count < Size /\ UNCHANGED left
         /\ IF tasks[t].broken THEN Fails(t)
            ELSE /\ Becomes(t, [tasks[t] EXCEPT !.count = @ + 1, !.flight = chunk,
                                                !.pure = @ /\ chunk = "good"])
                 /\ UNCHANGED requestVars
    /\ UNCHANGED <<names, data, troubles>>

WriteAt(d, n, chunk) ==
    [i \in 1..(IF n > Len(d) THEN n ELSE Len(d)) |->
       IF i = n THEN chunk ELSE IF i <= Len(d) THEN d[i] ELSE "hole"]

\* A task that is dropped has nothing more to do once its write is done.
Landed(task) == IF task.step \in {"over", "dropped"} THEN Idle ELSE [task EXCEPT !.flight = "none"]

\* The blocking pool does a write.
WriteLands(t) ==
    /\ tasks[t].flight # "none"
    /\ data' = [data EXCEPT ![tasks[t].file] = WriteAt(@, tasks[t].count, tasks[t].flight)]
    /\ Becomes(t, Landed(tasks[t]))
    /\ troubles' = IF tasks[t].step = "dropped" /\ tasks[t].count > Size
                   THEN troubles \cup {"late write"} ELSE troubles
    /\ UNCHANGED <<names, requestVars, left>>

\* The write fails.  Nobody asks for the result of the last one.
WriteLost(t) ==
    /\ tasks[t].flight # "none"
    /\ Spend("mishaps")
    /\ Becomes(t, [Landed(tasks[t]) EXCEPT !.broken = tasks[t].step \notin {"over", "dropped"}])
    /\ troubles' = IF tasks[t].step \in InstalledSteps \cup {"over"}
                   THEN troubles \cup {"last write lost"} ELSE troubles
    /\ UNCHANGED <<names, data, requestVars>>

\* Mutant: the hash of what arrived is not compared.
EndsUnverified(t) ==
    /\ tasks[t].step = "stream"
    /\ Becomes(t, Installed(tasks[t]))
    /\ troubles' = IF tasks[t].broken THEN troubles \cup {"last write lost"} ELSE troubles
    /\ UNCHANGED <<names, data, requestVars, left>>

\* The stream ends.  The hash and the size are right, or one of them is not; the
\* metadata can also be wrong about the size.
EndOfStream(t) ==
    /\ tasks[t].step = "stream"
    /\ \/ /\ tasks[t].pure /\ tasks[t].count = Size
          /\ Becomes(t, Installed(tasks[t]))
          /\ troubles' = IF tasks[t].broken THEN troubles \cup {"last write lost"} ELSE troubles
          /\ UNCHANGED left
       \/ /\ IF tasks[t].pure THEN Spend("mishaps") ELSE UNCHANGED left
          /\ Goes(t, "discard")
          /\ UNCHANGED troubles
    /\ UNCHANGED <<names, data, requestVars>>

\* set_len(0), which waits for the last write.
Discard(t) ==
    /\ tasks[t].step = "discard" /\ tasks[t].flight = "none"
    /\ data' = [data EXCEPT ![tasks[t].file] = <<>>]
    /\ Goes(t, "remove")
    /\ UNCHANGED <<names, requestVars, left, troubles>>

\* remove_file, whatever the name stands for by now.
Remove(t) ==
    /\ tasks[t].step = "remove"
    /\ library' = [library EXCEPT ![tasks[t].want] = 0]
    /\ Fails(t)
    /\ UNCHANGED <<data, link, old, left, troubles>>

-----------------------------------------------------------------------------
(* Copies of the user's files, and overrides of modpacks: written by a       *)
(* closure of the blocking pool, without a lock.                             *)

\* The closure ends, well or not.
Closed(task) == IF task.kept THEN Installed(task) ELSE Idle

\* check_sha1_hash for a copy, Path::exists for an override.
Compare(t) ==
    /\ tasks[t].step \in {"compare", "exists"}
    /\ LET h == tasks[t].want
           present == IF tasks[t].step = "compare" THEN Whole(h) ELSE library[h] # 0 IN
       Becomes(t, IF present THEN Closed(tasks[t]) ELSE [tasks[t] EXCEPT !.step = "overwrite"])
    /\ troubles' = IF Meddled(tasks[t].want) \/ Downloading(tasks[t].want)
                   THEN troubles \cup {"no lock"} ELSE troubles
    /\ UNCHANGED <<names, data, requestVars, left>>

Overwrite(t) ==
    /\ tasks[t].step = "overwrite"
    /\ Creates(t, "write")
    /\ troubles' = IF \/ Whole(tasks[t].want) \/ LateWrite(tasks[t].want) \/ Meddled(tasks[t].want)
                      \/ Downloading(tasks[t].want)
                   THEN troubles \cup {"no lock"} ELSE troubles
    /\ UNCHANGED <<link, old, requestVars, left>>

WriteChunk(t) ==
    /\ tasks[t].step = "write"
    /\ data' = [data EXCEPT ![tasks[t].file] = WriteAt(@, tasks[t].count + 1, "good")]
    /\ Becomes(t, IF tasks[t].count + 1 = Size THEN Closed(tasks[t])
                  ELSE [tasks[t] EXCEPT !.count = @ + 1])
    /\ UNCHANGED <<names, requestVars, left, troubles>>

\* Reading the source, creating or writing the file fails: a copy's error is the
\* installation's, an override's is not looked at.
WriteFails(t) ==
    /\ tasks[t].step \in {"compare", "overwrite", "write"}
    /\ Spend("mishaps")
    /\ IF tasks[t].kind = "copy" /\ tasks[t].kept
       THEN Fails(t)
       ELSE /\ Becomes(t, Closed(tasks[t]))
            /\ UNCHANGED requestVars
    /\ UNCHANGED <<names, data, troubles>>

-----------------------------------------------------------------------------
(* All files of an installation are in the library: they are linked.        *)

AreInstalled(S) == \A t \in S : tasks[t].step = "installed"
Downloads(l) == {t \in Current(l) : tasks[t].kind # "override"}

\* Nothing is linked if the instance is gone.
BeginLinking(l) ==
    /\ phase[l] = "installing" /\ ~launch[l]
    /\ AreInstalled(Current(l))
    /\ \/ Enters(l, "linking") /\ UNCHANGED <<tasks, launch, needs, error>>
       \/ Ends(l) /\ tasks' = Dropped(Current(l))
    /\ UNCHANGED <<names, data, left, troubles>>

\* Mutant: the old file is removed as soon as its task succeeds.
RemovesEarly(t) ==
    /\ phase[Owner[t]] \in {"installing", "linking"} /\ tasks[t].kept /\ ~launch[Owner[t]]
    /\ tasks[t].step = "installed"
    /\ old' \in {old, [old EXCEPT ![t] = FALSE]}
    /\ Goes(t, "unlinked")
    /\ UNCHANGED <<library, link, data, requestVars, left, troubles>>

\* remove_file(replace), if there is something to replace; its error is ignored.
RemoveOld(t) ==
    /\ phase[Owner[t]] = "linking" /\ tasks[t].kept
    /\ tasks[t].step = "installed"
    /\ \A u \in Current(Owner[t]) : tasks[u].step # "unlinked"
    /\ old' \in {old, [old EXCEPT ![t] = FALSE]}
    /\ Goes(t, "unlinked")
    /\ UNCHANGED <<library, link, data, requestVars, left, troubles>>

\* hard_link, which fails if the name is taken; its error is ignored.
LinkNew(t) ==
    /\ tasks[t].step = "unlinked"
    /\ \/ /\ link[t] = 0 /\ library[tasks[t].want] # 0
          /\ link' = [link EXCEPT ![t] = library[tasks[t].want]]
          /\ UNCHANGED <<left, troubles>>
       \/ /\ link[t] # 0 \/ library[tasks[t].want] = 0
          /\ UNCHANGED <<link, left, troubles>>
       \/ /\ Spend("mishaps")
          /\ troubles' = troubles \cup {"not linked"}
          /\ UNCHANGED link
    /\ Goes(t, "linked")
    /\ UNCHANGED <<library, old, data, requestVars>>

FinishInstall(l) ==
    /\ phase[l] = "linking"
    /\ \A t \in Current(l) : tasks[t].step = "linked"
    /\ Ends(l)
    /\ tasks' = Dropped(Current(l))
    /\ UNCHANGED <<names, data, left, troubles>>

-----------------------------------------------------------------------------
(* A launch: its modpacks are put in place whatever install_content did, the *)
(* overrides after the downloads.                                           *)

PlaceOverrides(l) ==
    /\ phase[l] = "installing" /\ launch[l]
    /\ AreInstalled(Downloads(l))
    /\ Enters(l, "overriding")
    /\ tasks' = [t \in Tasks |-> IF t \in Current(l) \ Downloads(l)
                                 THEN [tasks[t] EXCEPT !.step = "exists"] ELSE tasks[t]]
    /\ UNCHANGED <<names, data, launch, needs, error, left, troubles>>

\* StartInstance goes on if there was no error.
StartGame(l) ==
    /\ phase[l] = "overriding"
    /\ AreInstalled(Current(l))
    /\ IF error[l] THEN Ends(l) /\ tasks' = Dropped(Current(l))
       ELSE Enters(l, "launched") /\ UNCHANGED <<tasks, launch, needs, error>>
    /\ UNCHANGED <<names, data, left, troubles>>

\* The handler of the launch returns.
FinishLaunch(l) ==
    /\ phase[l] = "launched"
    /\ Ends(l)
    /\ tasks' = Dropped(Current(l))
    /\ UNCHANGED <<names, data, left, troubles>>

\* Does a task keep the thread?
Blocked(l) == \E u \in Current(l) : tasks[u].step = "filelock"

\* The user cancels a launch: select! drops the future of prelaunch.
CancelLaunch(l) ==
    /\ launch[l] /\ phase[l] \in {"installing", "overriding"} /\ ~Blocked(l)
    /\ Ends(l)
    /\ tasks' = Dropped(Current(l))
    /\ UNCHANGED <<names, data, left, troubles>>

\* The launcher is killed.  What it had written so far stays.
Crash(l) ==
    /\ Spend("crashes")
    /\ Ends(l)
    /\ tasks' = [t \in Tasks |-> IF Owner[t] = l THEN Idle ELSE tasks[t]]
    /\ troubles' = troubles
          \cup (IF \E t \in Mine(l) : tasks[t].step = "unlinked" THEN {"not linked"} ELSE {})
          \cup (IF \E t \in Mine(l) : tasks[t].step \in InstalledSteps \cup {"over"} /\ tasks[t].flight # "none"
                THEN {"last write lost"} ELSE {})
    /\ UNCHANGED <<names, data>>

-----------------------------------------------------------------------------

\* What the task of a file does when it is polled.
FileStep(t) ==
    \/ TakeLock(t) \/ TakePermit(t) \/ CheckDisk(t) \/ Response(t)
    \/ ReceiveChunk(t) \/ EndOfStream(t) \/ DownloadFails(t) \/ Discard(t) \/ Remove(t)
    \/ RemoveOld(t) \/ LinkNew(t)

\* What a blocked thread or the blocking pool does.
PoolStep(t) ==
    \/ LockFile(t) \/ WriteLands(t) \/ WriteLost(t)
    \/ Compare(t) \/ Overwrite(t) \/ WriteChunk(t) \/ WriteFails(t)

LauncherStep(l) ==
    \/ BeginLinking(l) \/ FinishInstall(l)
    \/ PlaceOverrides(l) \/ StartGame(l) \/ FinishLaunch(l)

Work ==
    \/ \E t \in Tasks : PoolStep(t) \/ (~Blocked(Owner[t]) /\ FileStep(t))
    \/ \E l \in Launchers : LauncherStep(l)

Next ==
    \/ Work
    \/ \E l \in Launchers : StartInstall(l) \/ StartLaunch(l) \/ CancelLaunch(l) \/ Crash(l)

Spec == Init /\ [][Next]_vars

-----------------------------------------------------------------------------

\* Nothing happened that the code has no answer to.
Spoilt == {"no lock", "checked too early", "late write", "last write lost"}
Sound == troubles \cap Spoilt = {}

\* Is the last chunk of the file that t installed still to be written?
Landing(f) == \E u \in Tasks : tasks[u].flight # "none" /\ tasks[u].file = f

\* What an installation linked into an instance has the right content, whatever
\* other installations and other launchers do, and after a crash
\* (install_content.rs:387-465).
LinkedFilesAreWhole ==
    Sound => \A t \in Tasks :
        link[t] # 0 => data[link[t]] = WholeFile \/ Landing(link[t])

\* Is the file of h in the hands of a download?
Written(h) == \E t \in Tasks : /\ tasks[t].want = h
                              /\ tasks[t].step \in {"filelock", "stream", "discard", "remove"}

\* A file of the library that is right is never truncated, replaced or removed,
\* except by the download that wrote it: whoever wants to download it again has
\* found it wrong with its lock held (install_content.rs:387-465).
WholeFilesStay ==
    [][Sound' => \A h \in Hashes : Whole(h) /\ ~Written(h) => Whole(h)']_vars

\* A launch that goes on has every download of its modpacks in the library
\* (backend.rs:730-811, backend_handler.rs:161).
LaunchHasItsFiles ==
    \A l \in Launchers : phase[l] = "launched" /\ Sound =>
        \A h \in needs[l] : Whole(h) \/ (library[h] # 0 /\ Landing(library[h]))

\* What an instance plays with is whole, when it is installed and when it is launched.
InstancesPlayWholeFiles == LinkedFilesAreWhole /\ LaunchHasItsFiles

\* An instance loses the old version of a file only if it gets the new one: an
\* update that fails leaves it alone (install_content.rs:278-337).
UpdateKeepsAVersion ==
    \A t \in Tasks : \/ old[t] \/ link[t] # 0
                     \/ tasks[t].step = "unlinked" /\ phase[Owner[t]] = "linking"
                     \/ "not linked" \in troubles \/ ~Sound

\* Nobody waits for ever: while a request is in hand something goes on, so that it
\* comes to its end.  The lock of a path, the permits and the locks of files are
\* released on every way out (install_content.rs:387-465, lockfile.rs:34-57).
NobodyIsStuck ==
    (\E l \in Launchers : phase[l] # "idle") => ENABLED Work \/ "no lock" \in troubles
=============================================================================
