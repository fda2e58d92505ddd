---------------------------- MODULE ContentLoad ----------------------------
(***************************************************************************)
(* How the backend keeps the list of one content folder of one instance    *)
(* (its mods or its resource packs) in step with the files on disk:        *)
(* Instance::load_content and ContentFolderState in backend/src/instance.rs*)
(* the watch set up by load_instance_content in backend/src/backend.rs and *)
(* the watcher's events handled in backend/src/backend_filesystem.rs.      *)
(*                                                                         *)
(* Any number of tasks ask for the list at the same time.  One reads the   *)
(* folder on a blocking thread without the lock, the others wait for its   *)
(* signal; files change while it reads and the watcher reports it later.   *)
(***************************************************************************)
EXTENDS Naturals

CONSTANTS
    Mods,         \* base names of content files, without ".disabled"
    Loaders,      \* tasks running load_instance_content
    None,         \* "no task": the Option::None of a signal handle
    MaxEdits,     \* bound on the changes made to the folder
    AllowTwins,   \* may "a.jar" and "a.jar.disabled" exist side by side?
    AllowCancel   \* may a load be dropped while it reads (a cancelled launch)?

ASSUME ContentLoadAssumption ==
    /\ None \notin Loaders
    /\ MaxEdits \in Nat
    /\ AllowTwins \in BOOLEAN
    /\ AllowCancel \in BOOLEAN

\* A content file is enabled ("jar") or carries the suffix ".disabled".
Paths == [mod : Mods, ext : {"jar", "disabled"}]
Alternate(p) == [mod |-> p.mod, ext |-> IF p.ext = "jar" THEN "disabled" ELSE "jar"]

Summaries == [path : Paths, version : Nat]
Summary(p, v) == [path |-> p, version |-> v]

LoadStates == {"Unloaded", "LoadingDirty", "LoadedDirty", "Loading", "Loaded"}

VARIABLES
    disk,         \* version of the file at each path, 0 when there is none
    folder,       \* the content folder: "absent", "unwatched" or "watched"
    edits,        \* changes made so far
    pathEvents,   \* children of the folder with an undelivered event
    folderEvents, \* undelivered "removed" / "created" events of the folder
    alive,        \* the instance is still in the slab
    watchingPath, \* ContentFolderState.watching_path
    loadState,    \* ContentFolderState.load_state, shared with the frontend
    dirtyPaths, allDirty,
    pendingLoad,  \* the task whose signal is pending_load, or None
    listed, summaries, \* summaries: Some or None, and the list itself
    shown,        \* the list last sent to the frontend
    pc,           \* each task: "idle", "check" (top of the loop), "read", "send"
    awaiting,     \* the task whose signal this one awaits, or None
    job           \* what each reading task took and has read so far

diskVars == <<disk, folder, edits, pathEvents, folderEvents>>
markVars == <<loadState, dirtyPaths, allDirty>>
listVars == <<pendingLoad, listed, summaries, shown>>
taskVars == <<pc, awaiting, job>>
vars == <<diskVars, alive, watchingPath, markVars, listVars, taskVars>>

NoJob == [taken |-> {}, todo |-> {}, keep |-> {}, found |-> {}]
Jobs == [taken : SUBSET Paths, todo : SUBSET Paths,
         keep : SUBSET Summaries, found : SUBSET Summaries]

Init ==
    /\ disk \in [Paths -> {0, 1}]
    /\ AllowTwins \/ \A p \in Paths : disk[p] = 0 \/ disk[Alternate(p)] = 0
    /\ folder \in {"absent", "unwatched"}
    /\ folder = "absent" => \A p \in Paths : disk[p] = 0
    /\ edits = 1
    /\ pathEvents = {} /\ folderEvents = {}
    /\ alive = TRUE /\ watchingPath = FALSE
    /\ loadState = "Unloaded" /\ dirtyPaths = {} /\ allDirty = TRUE
    /\ pendingLoad = None /\ listed = FALSE /\ summaries = {} /\ shown = {}
    /\ pc = [l \in Loaders |-> "idle"]
    /\ awaiting = [l \in Loaders |-> None]
    /\ job = [l \in Loaders |-> NoJob]

-----------------------------------------------------------------------------
(* The folder on disk.  Files are written by the user, by an installation   *)
(* or by the game; SetContentEnabled renames them, DeleteContent removes    *)
(* them.  The watcher reports a change only while it watches the folder.    *)

Report(ps) == pathEvents' = IF folder = "watched" THEN pathEvents \cup ps ELSE pathEvents

Edit == edits < MaxEdits /\ edits' = edits + 1

WriteFile(p) ==
    /\ Edit
    /\ folder # "absent"
    /\ AllowTwins \/ disk[Alternate(p)] = 0
    /\ disk' = [disk EXCEPT ![p] = edits + 1]
    /\ Report({p})
    /\ UNCHANGED <<folder, folderEvents>>

RemoveFile(p) ==
    /\ Edit
    /\ disk[p] # 0
    /\ disk' = [disk EXCEPT ![p] = 0]
    /\ Report({p})
    /\ UNCHANGED <<folder, folderEvents>>

\* Enabling or disabling: the rename replaces a twin that is there already.
RenameFile(p) ==
    /\ Edit
    /\ disk[p] # 0
    /\ disk' = [disk EXCEPT ![p] = 0, ![Alternate(p)] = disk[p]]
    /\ Report({p, Alternate(p)})
    /\ UNCHANGED <<folder, folderEvents>>

\* ".a.jar.pandorachildstate" is part of the summary of a.jar and of
\* a.jar.disabled, and its event is turned into one of a.jar.
WriteChildState(p) ==
    /\ Edit
    /\ disk[p] # 0
    /\ disk' = [q \in Paths |-> IF q.mod = p.mod /\ disk[q] # 0 THEN edits + 1 ELSE disk[q]]
    /\ Report({[mod |-> p.mod, ext |-> "jar"]})
    /\ UNCHANGED <<folder, folderEvents>>

\* The kernel's watch dies with the folder; the events of its children may
\* be dropped in favour of its own.
RemoveFolder ==
    /\ Edit
    /\ folder # "absent"
    /\ disk' = [p \in Paths |-> 0]
    /\ folder' = "absent"
    /\ folderEvents' = IF folder = "watched" THEN folderEvents \cup {"removed"} ELSE folderEvents
    /\ pathEvents' \in {pathEvents, IF folder = "watched" THEN {} ELSE pathEvents}

\* .minecraft is watched from the first load on: it reports the new folder.
CreateFolder ==
    /\ Edit
    /\ folder = "absent"
    /\ folder' = "unwatched"
    /\ folderEvents' = IF watchingPath THEN folderEvents \cup {"created"} ELSE folderEvents
    /\ UNCHANGED <<disk, pathEvents>>

Environment ==
    /\ \/ \E p \in Paths : WriteFile(p) \/ RemoveFile(p) \/ RenameFile(p) \/ WriteChildState(p)
       \/ RemoveFolder
       \/ CreateFolder
    /\ UNCHANGED <<alive, watchingPath, markVars, listVars, taskVars>>

-----------------------------------------------------------------------------
(* The watcher's events, handled one at a time by the backend's main loop.  *)

\* Mutant: a change that arrives while a load runs is forgotten.
DirtyOnlyLoaded(s) == IF s = "Loaded" THEN "LoadedDirty" ELSE s

DirtyState(s) ==
    CASE s = "Loading" -> "LoadingDirty"
      [] s = "Loaded"  -> "LoadedDirty"
      [] OTHER         -> s

\* mark_dirty(Some(p)); nothing to do when all is dirty or p is already.
MarkDirty(p) ==
    IF ~alive \/ allDirty \/ p \in dirtyPaths
    THEN UNCHANGED markVars
    ELSE /\ dirtyPaths' = dirtyPaths \cup {p}
         /\ loadState' = DirtyState(loadState)
         /\ UNCHANGED allDirty

\* mark_dirty(None)
MarkAllDirty ==
    IF ~alive \/ allDirty
    THEN UNCHANGED markVars
    ELSE /\ allDirty' = TRUE
         /\ loadState' = DirtyState(loadState)
         /\ UNCHANGED dirtyPaths

DeliverPathEvent(p) ==
    /\ p \in pathEvents
    /\ pathEvents' = pathEvents \ {p}
    /\ MarkDirty(p)
    /\ UNCHANGED <<disk, folder, edits, folderEvents, alive, watchingPath, listVars, taskVars>>

DeliverFolderRemoved ==
    /\ "removed" \in folderEvents
    /\ folderEvents' = folderEvents \ {"removed"}
    /\ MarkAllDirty
    /\ UNCHANGED <<disk, folder, edits, pathEvents, alive, watchingPath, listVars, taskVars>>

\* The folder is marked and watched again under one lock.  A removal just
\* before it in the same batch is coalesced with it.
DeliverFolderCreated ==
    /\ "created" \in folderEvents
    /\ folderEvents' = {}
    /\ MarkAllDirty
    /\ folder' = IF folder = "unwatched" /\ alive THEN "watched" ELSE folder
    /\ UNCHANGED <<disk, edits, pathEvents, alive, watchingPath, listVars, taskVars>>

RemoveInstance ==
    /\ alive
    /\ alive' = FALSE
    /\ UNCHANGED <<diskVars, watchingPath, markVars, listVars, taskVars>>

-----------------------------------------------------------------------------
(* The loading tasks.                                                       *)

\* Mutant: a page asks once, and never again for a dirty list.
RequestOnlyUnloaded == loadState = "Unloaded"

\* BridgeDataLoadState::should_send_load_request
ShouldSendLoadRequest == loadState \in {"Unloaded", "LoadedDirty"}

\* The first half of load_instance_content: watch, then go and load.
StartLoad(l) ==
    /\ pc[l] = "idle"
    /\ pc' = [pc EXCEPT ![l] = "check"]
    /\ watchingPath' = (watchingPath \/ alive)
    /\ folder' = IF alive /\ ~watchingPath /\ folder = "unwatched" THEN "watched" ELSE folder
    /\ UNCHANGED <<disk, edits, pathEvents, folderEvents, alive, markVars, listVars, awaiting, job>>

\* The load a visible page asks for when it renders and sees a stale state.
RequestLoad(l) == alive /\ ShouldSendLoadRequest /\ StartLoad(l)

AtLoopTop(l) == pc[l] = "check" /\ awaiting[l] = None

InstanceGone(l) ==
    /\ AtLoopTop(l)
    /\ ~alive
    /\ pc' = [pc EXCEPT ![l] = "idle"]
    /\ UNCHANGED <<diskVars, alive, watchingPath, markVars, listVars, awaiting, job>>

\* Mutant: pending_load is not consulted.
IgnorePending == FALSE

\* pending_load holds a signal that is not notified
LoadPending == pendingLoad # None /\ pc[pendingLoad] = "read"

AwaitPending(l) ==
    /\ AtLoopTop(l)
    /\ alive
    /\ LoadPending
    /\ awaiting' = [awaiting EXCEPT ![l] = pendingLoad]
    /\ UNCHANGED <<diskVars, alive, watchingPath, markVars, listVars, pc, job>>

ListIsCurrent == listed /\ ~allDirty /\ dirtyPaths = {}

ReturnCached(l) ==
    /\ AtLoopTop(l)
    /\ alive
    /\ ~LoadPending
    /\ ListIsCurrent
    /\ pc' = [pc EXCEPT ![l] = "idle"]
    /\ UNCHANGED <<diskVars, alive, watchingPath, markVars, listVars, awaiting, job>>

\* The paths a load will read.  Reading the whole folder is reading every path.
TakenPaths == IF listed /\ ~allDirty THEN dirtyPaths ELSE Paths

Touches(taken, p) == p \in taken \/ Alternate(p) \in taken

BeginLoad(l) ==
    /\ AtLoopTop(l)
    /\ alive
    /\ ~LoadPending
    /\ ~ListIsCurrent
    /\ pc' = [pc EXCEPT ![l] = "read"]
    /\ job' = [job EXCEPT ![l] =
                 [taken |-> TakenPaths,
                  todo  |-> TakenPaths,
                  keep  |-> {s \in summaries : ~Touches(TakenPaths, s.path)},
                  found |-> {}]]
    /\ pendingLoad' = l
    /\ loadState' = "Loading" /\ allDirty' = FALSE /\ dirtyPaths' = {}
    /\ UNCHANGED <<diskVars, alive, watchingPath, listed, summaries, shown, awaiting>>

\* Mutant: a dirty path is read without a look at its alternate.
FoundOnlyAt(p, taken) == IF disk[p] # 0 THEN {Summary(p, disk[p])} ELSE {}

\* What create_instance_content_summary finds at p, or at its alternate when
\* p is gone and the alternate is not read for its own sake.
FoundAt(p, taken) ==
    IF disk[p] # 0 THEN {Summary(p, disk[p])}
    ELSE IF Alternate(p) \notin taken /\ disk[Alternate(p)] # 0
         THEN {Summary(Alternate(p), disk[Alternate(p)])}
         ELSE {}

ReadPath(l, p) ==
    /\ pc[l] = "read"
    /\ p \in job[l].todo
    /\ job' = [job EXCEPT ![l].todo = @ \ {p}, ![l].found = @ \cup FoundAt(p, job[l].taken)]
    /\ UNCHANGED <<diskVars, alive, watchingPath, markVars, listVars, pc, awaiting>>

\* What becomes of an entry of the last list that no dirty path touches: it
\* stays, moves to its alternate path, or goes.
Kept(s) ==
    IF disk[s.path] # 0 THEN {s}
    ELSE IF disk[Alternate(s.path)] # 0
         THEN {Summary(Alternate(s.path), s.version)}
         ELSE {}

KeepOld(l, s) ==
    /\ pc[l] = "read"
    /\ job[l].todo = {}
    /\ s \in job[l].keep
    /\ job' = [job EXCEPT ![l].keep = @ \ {s}, ![l].found = @ \cup Kept(s)]
    /\ UNCHANGED <<diskVars, alive, watchingPath, markVars, listVars, pc, awaiting>>

FinishedState(s) ==
    CASE s = "LoadingDirty" -> "LoadedDirty"
      [] s = "Loading"      -> "Loaded"
      [] OTHER              -> "unreachable"

ReadingDone(l) == pc[l] = "read" /\ job[l].todo = {} /\ job[l].keep = {}

\* Mutant: the signal is not notified when it is dropped.
NotifyNobody(l) == awaiting' = [awaiting EXCEPT ![l] = None]

\* The task's KeepAliveNotifySignal, if it holds one, is notified or dropped:
\* whoever awaits it goes on.
Notify(l) ==
    awaiting' = [k \in Loaders |-> IF k = l \/ awaiting[k] = l THEN None ELSE awaiting[k]]

\* The task ends or is dropped.
Leave(l) ==
    /\ pc' = [pc EXCEPT ![l] = "idle"]
    /\ job' = [job EXCEPT ![l] = NoJob]
    /\ Notify(l)

FinishLoad(l) ==
    /\ ReadingDone(l)
    /\ alive
    /\ loadState' = FinishedState(loadState)
    /\ listed' = TRUE
    /\ summaries' = job[l].found
    /\ pendingLoad' = None
    /\ Notify(l)
    /\ pc' = [pc EXCEPT ![l] = "send"]
    /\ UNCHANGED <<diskVars, alive, watchingPath, dirtyPaths, allDirty, shown, job>>

\* The second half of load_instance_content, after the lock is released: the
\* new list goes to the frontend.
SendList(l) ==
    /\ pc[l] = "send"
    /\ shown' = job[l].found
    /\ Leave(l)
    /\ UNCHANGED <<diskVars, alive, watchingPath, markVars, pendingLoad, listed, summaries>>

FinishAfterRemoval(l) ==
    /\ ReadingDone(l)
    /\ ~alive
    /\ Leave(l)
    /\ UNCHANGED <<diskVars, alive, watchingPath, markVars, listVars>>

\* StartInstance awaits prelaunch, and with it a load, in a select! against
\* the user's cancel request: the future is dropped at the await it is in.
CancelLoad(l) ==
    /\ AllowCancel
    /\ pc[l] = "read" \/ awaiting[l] # None
    /\ Leave(l)
    /\ UNCHANGED <<diskVars, alive, watchingPath, markVars, listVars>>

LoadStep(l) ==
    \/ AwaitPending(l)
    \/ ReturnCached(l)
    \/ BeginLoad(l)
    \/ \E p \in Paths : ReadPath(l, p)
    \/ \E s \in job[l].keep : KeepOld(l, s)
    \/ FinishLoad(l)
    \/ SendList(l)
    \/ InstanceGone(l)
    \/ FinishAfterRemoval(l)

Deliver ==
    \/ \E p \in Paths : DeliverPathEvent(p)
    \/ DeliverFolderRemoved
    \/ DeliverFolderCreated

Next ==
    \/ Environment
    \/ Deliver
    \/ RemoveInstance
    \/ \E l \in Loaders : StartLoad(l) \/ LoadStep(l) \/ CancelLoad(l)

Spec == Init /\ [][Next]_vars

\* Threads run, the watcher delivers, and the page that shows the list renders
\* again and again while it is visible.
Fairness ==
    /\ \A l \in Loaders : WF_vars(LoadStep(l))
    /\ WF_vars(Deliver)
    /\ WF_vars(\E l \in Loaders : RequestLoad(l))

FairSpec == Spec /\ Fairness

-----------------------------------------------------------------------------
(* Properties.                                                              *)

\* The type invariant.  loadState never becomes "unreachable": the two
\* unreachable!() arms at the end of a load are not reached.
TypeOK ==
    /\ disk \in [Paths -> Nat]
    /\ folder \in {"absent", "unwatched", "watched"}
    /\ edits \in Nat
    /\ pathEvents \subseteq Paths
    /\ folderEvents \subseteq {"removed", "created"}
    /\ alive \in BOOLEAN
    /\ watchingPath \in BOOLEAN
    /\ loadState \in LoadStates
    /\ dirtyPaths \subseteq Paths
    /\ allDirty \in BOOLEAN
    /\ pendingLoad \in Loaders \cup {None}
    /\ listed \in BOOLEAN
    /\ summaries \subseteq Summaries
    /\ shown \subseteq Summaries
    /\ pc \in [Loaders -> {"idle", "check", "read", "send"}]
    /\ awaiting \in [Loaders -> Loaders \cup {None}]
    /\ job \in [Loaders -> Jobs]

\* However many tasks ask at once and however they are cancelled, at most one
\* reads the folder: two reads at once could leave the older list behind.
SingleFlight ==
    \A k, l \in Loaders : pc[k] = "read" /\ pc[l] = "read" => k = l

\* The frontend sees a dirty state exactly while some mark waits to be read,
\* so a page asks for a new load whenever there is something to reload.
DirtyStateMatchesMarks ==
    loadState # "Unloaded" =>
        (loadState \in {"LoadingDirty", "LoadedDirty"} <=> allDirty \/ dirtyPaths # {})

\* No task awaits the signal of a load that is over: no lost wake-up.
NoLostWakeup ==
    \A l \in Loaders : awaiting[l] # None => pc[awaiting[l]] = "read"

\* A page sends no request in state Loading or LoadingDirty because the load
\* under way will answer it: there must be one.
LoadingHasLoader ==
    alive /\ loadState \in {"Loading", "LoadingDirty"} => \E l \in Loaders : pc[l] = "read"

FolderSummaries == {Summary(p, disk[p]) : p \in {q \in Paths : disk[q] # 0}}

\* Nothing is under way: every event is delivered and every mark is read.
Settled ==
    /\ alive /\ listed
    /\ pathEvents = {} /\ folderEvents = {}
    /\ ~allDirty /\ dirtyPaths = {}
    /\ \A l \in Loaders : pc[l] # "read"

\* "We *will* be informed": once the watcher has informed the backend of all
\* changes and it has reloaded what they touch, the list is the folder's.
SettledListMatchesFolder == Settled => summaries = FolderSummaries

\* A task that asks for the list is answered.
LoadsEnd == \A l \in Loaders : pc[l] # "idle" ~> pc[l] = "idle"

\* Two tasks that have ended their loads may both be about to send, and the
\* channel takes their lists in either order.
OneListOnItsWay == \A k, l \in Loaders : pc[k] = "send" /\ pc[l] = "send" => k = l

\* When the folder stops changing, the backend's list ends up with its files,
\* and so does the list a visible page was sent last, unless an older list was
\* sent after a newer one: no state of the load tells the page then.
EventuallyFresh ==
    /\ <>[](alive => loadState = "Loaded" /\ summaries = FolderSummaries)
    /\ []OneListOnItsWay => <>[](alive => shown = FolderSummaries)
=============================================================================
