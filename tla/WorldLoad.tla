----------------------------- MODULE WorldLoad -----------------------------
(***************************************************************************)
(* How the backend keeps the list of an instance's worlds in step with the *)
(* directories under .minecraft/saves: Instance::load_worlds in            *)
(* backend/src/instance.rs, load_instance_worlds in backend/src/backend.rs *)
(* and the watcher's events in backend/src/backend_filesystem.rs.          *)
(*                                                                         *)
(* The saves directory is watched before it is read and reports worlds that*)
(* come and go.  A change inside a world is reported only by a watch on    *)
(* that world, which is set after the load that lists it has finished.     *)
(* At most 64 worlds are listed; the model stays below that.               *)
(***************************************************************************)
EXTENDS Naturals

CONSTANTS
    Worlds,       \* directories under saves
    Loaders,      \* tasks running load_instance_worlds
    None,
    MaxEdits      \* bound on the changes made to the directories

ASSUME WorldLoadAssumption ==
    /\ None \notin Loaders
    /\ MaxEdits \in Nat

Summary(w, v) == [world |-> w, version |-> v]

\* A world's directory: none, one without a level.dat yet, or a version of it.
Absent == 0
Bare == 1

VARIABLES
    disk,          \* each world's directory
    saves,         \* the saves directory: "absent", "unwatched" or "watched"
    watchedWorlds, \* worlds with a watch of their own
    edits,
    events,        \* worlds with an undelivered event
    savesEvents,   \* undelivered "removed" / "created" events of saves
    alive,
    watchingSaves, \* Instance.watching_saves_dir
    loadState,     \* Instance.worlds_state
    dirtyWorlds, allDirty,
    pendingLoad,
    listed, worlds,
    pc,            \* "idle", "check", "read" or "watch"
    awaiting,
    job

diskVars == <<disk, saves, watchedWorlds, edits, events, savesEvents>>
markVars == <<loadState, dirtyWorlds, allDirty>>
listVars == <<pendingLoad, listed, worlds>>
taskVars == <<pc, awaiting, job>>
worldVars == <<diskVars, watchingSaves, markVars, listVars, taskVars>>
vars == <<worldVars, alive>>

NoJob == [todo |-> {}, keep |-> {}, found |-> {}]

Init ==
    /\ disk \in [Worlds -> {Absent, 2}]
    /\ saves \in {"absent", "unwatched"}
    /\ saves = "absent" => \A w \in Worlds : disk[w] = Absent
    /\ watchedWorlds = {}
    /\ edits = 2
    /\ events = {} /\ savesEvents = {}
    /\ alive = TRUE /\ watchingSaves = FALSE
    /\ loadState = "Unloaded" /\ dirtyWorlds = {} /\ allDirty = TRUE
    /\ pendingLoad = None /\ listed = FALSE /\ worlds = {}
    /\ pc = [l \in Loaders |-> "idle"]
    /\ awaiting = [l \in Loaders |-> None]
    /\ job = [l \in Loaders |-> NoJob]

-----------------------------------------------------------------------------
(* The worlds on disk, changed by the game and by the user.                 *)

Edit == edits < MaxEdits /\ edits' = edits + 1

ReportIf(watched, w) == events' = IF watched THEN events \cup {w} ELSE events

\* The game makes the directory first and writes level.dat into it later; a
\* world that is copied or renamed appears complete.
CreateWorld(w) ==
    /\ Edit
    /\ saves # "absent"
    /\ disk[w] = Absent
    /\ \E v \in {Bare, edits + 1} : disk' = [disk EXCEPT ![w] = v]
    /\ ReportIf(saves = "watched", w)
    /\ UNCHANGED <<saves, watchedWorlds, savesEvents>>

\* level.dat or icon.png is written: only a watch on the world reports it.
EditWorld(w) ==
    /\ Edit
    /\ disk[w] # Absent
    /\ disk' = [disk EXCEPT ![w] = edits + 1]
    /\ ReportIf(w \in watchedWorlds, w)
    /\ UNCHANGED <<saves, watchedWorlds, savesEvents>>

RemoveWorld(w) ==
    /\ Edit
    /\ disk[w] # Absent
    /\ disk' = [disk EXCEPT ![w] = Absent]
    /\ watchedWorlds' = watchedWorlds \ {w}
    /\ ReportIf(saves = "watched" \/ w \in watchedWorlds, w)
    /\ UNCHANGED <<saves, savesEvents>>

RemoveSaves ==
    /\ Edit
    /\ saves # "absent"
    /\ disk' = [w \in Worlds |-> Absent]
    /\ watchedWorlds' = {}
    /\ saves' = "absent"
    /\ savesEvents' = IF saves = "watched" THEN savesEvents \cup {"removed"} ELSE savesEvents
    /\ events' \in {events, events \cup watchedWorlds}

CreateSaves ==
    /\ Edit
    /\ saves = "absent"
    /\ saves' = "unwatched"
    /\ savesEvents' = IF watchingSaves THEN savesEvents \cup {"created"} ELSE savesEvents
    /\ UNCHANGED <<disk, watchedWorlds, events>>

Environment ==
    /\ \/ \E w \in Worlds : CreateWorld(w) \/ EditWorld(w) \/ RemoveWorld(w)
       \/ RemoveSaves
       \/ CreateSaves
    /\ UNCHANGED <<alive, watchingSaves, markVars, listVars, taskVars>>

-----------------------------------------------------------------------------
(* The watcher's events.                                                    *)

DirtyState(s) ==
    CASE s = "Loading" -> "LoadingDirty"
      [] s = "Loaded"  -> "LoadedDirty"
      [] OTHER         -> s

\* Mutant: a world that changes while the list is read is not marked.
MarkLoadedOnly(w) ==
    IF ~alive \/ allDirty \/ loadState = "Loading"
    THEN UNCHANGED markVars
    ELSE /\ dirtyWorlds' = dirtyWorlds \cup {w}
         /\ loadState' = DirtyState(loadState)
         /\ UNCHANGED allDirty

\* mark_world_dirty(Some(w))
MarkWorldDirty(w) ==
    IF ~alive \/ allDirty \/ w \in dirtyWorlds
    THEN UNCHANGED markVars
    ELSE /\ dirtyWorlds' = dirtyWorlds \cup {w}
         /\ loadState' = DirtyState(loadState)
         /\ UNCHANGED allDirty

\* mark_world_dirty(None)
MarkAllDirty ==
    IF ~alive \/ allDirty
    THEN UNCHANGED markVars
    ELSE /\ allDirty' = TRUE
         /\ loadState' = DirtyState(loadState)
         /\ UNCHANGED dirtyWorlds

DeliverWorldEvent(w) ==
    /\ w \in events
    /\ events' = events \ {w}
    /\ MarkWorldDirty(w)
    /\ UNCHANGED <<disk, saves, watchedWorlds, edits, savesEvents,
                   alive, watchingSaves, listVars, taskVars>>

DeliverSavesRemoved ==
    /\ "removed" \in savesEvents
    /\ savesEvents' = savesEvents \ {"removed"}
    /\ MarkAllDirty
    /\ UNCHANGED <<disk, saves, watchedWorlds, edits, events,
                   alive, watchingSaves, listVars, taskVars>>

DeliverSavesCreated ==
    /\ "created" \in savesEvents
    /\ savesEvents' = {}
    /\ MarkAllDirty
    /\ saves' = IF saves = "unwatched" /\ alive THEN "watched" ELSE saves
    /\ UNCHANGED <<disk, watchedWorlds, edits, events,
                   alive, watchingSaves, listVars, taskVars>>

RemoveInstance ==
    /\ alive
    /\ alive' = FALSE
    /\ UNCHANGED <<diskVars, watchingSaves, markVars, listVars, taskVars>>

-----------------------------------------------------------------------------
(* The loading tasks.                                                       *)

StartLoad(l) ==
    /\ pc[l] = "idle"
    /\ pc' = [pc EXCEPT ![l] = "check"]
    /\ watchingSaves' = (watchingSaves \/ alive)
    /\ saves' = IF alive /\ ~watchingSaves /\ saves = "unwatched" THEN "watched" ELSE saves
    /\ UNCHANGED <<disk, watchedWorlds, edits, events, savesEvents, alive,
                   markVars, listVars, awaiting, job>>

AtLoopTop(l) == pc[l] = "check" /\ awaiting[l] = None

\* Some(pending) whose signal is not notified: its load still reads.  The
\* handle itself is never cleared.
LoadPending == pendingLoad # None /\ pc[pendingLoad] = "read"

AwaitPending(l) ==
    /\ AtLoopTop(l)
    /\ alive
    /\ LoadPending
    /\ awaiting' = [awaiting EXCEPT ![l] = pendingLoad]
    /\ UNCHANGED <<diskVars, alive, watchingSaves, markVars, listVars, pc, job>>

ListIsCurrent == listed /\ ~allDirty /\ dirtyWorlds = {}

ReturnCached(l) ==
    /\ AtLoopTop(l)
    /\ ~alive \/ (~LoadPending /\ ListIsCurrent)
    /\ pc' = [pc EXCEPT ![l] = "idle"]
    /\ UNCHANGED <<diskVars, alive, watchingSaves, markVars, listVars, awaiting, job>>

TakenWorlds == IF listed /\ ~allDirty THEN dirtyWorlds ELSE Worlds

BeginLoad(l) ==
    /\ AtLoopTop(l)
    /\ alive
    /\ ~LoadPending
    /\ ~ListIsCurrent
    /\ pc' = [pc EXCEPT ![l] = "read"]
    /\ job' = [job EXCEPT ![l] =
                 [todo  |-> TakenWorlds,
                  keep  |-> {s \in worlds : s.world \notin TakenWorlds},
                  found |-> {}]]
    /\ pendingLoad' = l
    /\ loadState' = "Loading" /\ allDirty' = FALSE /\ dirtyWorlds' = {}
    /\ UNCHANGED <<diskVars, alive, watchingSaves, listed, worlds, awaiting>>

\* load_world_summary fails without a level.dat.
ReadWorld(l, w) ==
    /\ pc[l] = "read"
    /\ w \in job[l].todo
    /\ job' = [job EXCEPT ![l].todo = @ \ {w},
                          ![l].found = IF disk[w] > Bare THEN @ \cup {Summary(w, disk[w])} ELSE @]
    /\ UNCHANGED <<diskVars, alive, watchingSaves, markVars, listVars, pc, awaiting>>

\* An old entry stays as long as its directory exists.
KeepOld(l, s) ==
    /\ pc[l] = "read"
    /\ job[l].todo = {}
    /\ s \in job[l].keep
    /\ job' = [job EXCEPT ![l].keep = @ \ {s},
                          ![l].found = IF disk[s.world] # Absent THEN @ \cup {s} ELSE @]
    /\ UNCHANGED <<diskVars, alive, watchingSaves, markVars, listVars, pc, awaiting>>

FinishedState(s) ==
    CASE s = "LoadingDirty" -> "LoadedDirty"
      [] s = "Loading"      -> "Loaded"
      [] OTHER              -> "unreachable"

ReadingDone(l) == pc[l] = "read" /\ job[l].todo = {} /\ job[l].keep = {}

Notify(l) == awaiting' = [k \in Loaders |-> IF awaiting[k] = l THEN None ELSE awaiting[k]]

\* The lock is released with the list published, the worlds not yet watched.
FinishLoad(l) ==
    /\ ReadingDone(l)
    /\ alive
    /\ loadState' = FinishedState(loadState)
    /\ listed' = TRUE
    /\ worlds' = job[l].found
    /\ Notify(l)
    /\ pc' = [pc EXCEPT ![l] = "watch"]
    /\ UNCHANGED <<diskVars, alive, watchingSaves, dirtyWorlds, allDirty, pendingLoad, job>>

FinishAfterRemoval(l) ==
    /\ ReadingDone(l)
    /\ ~alive
    /\ Notify(l)
    /\ pc' = [pc EXCEPT ![l] = "idle"]
    /\ job' = [job EXCEPT ![l] = NoJob]
    /\ UNCHANGED <<diskVars, alive, watchingSaves, markVars, listVars>>

WatchWorlds(l) ==
    /\ pc[l] = "watch"
    /\ watchedWorlds' = watchedWorlds \cup {w \in {s.world : s \in job[l].found} : disk[w] # Absent}
    /\ pc' = [pc EXCEPT ![l] = "idle"]
    /\ job' = [job EXCEPT ![l] = NoJob]
    /\ UNCHANGED <<disk, saves, edits, events, savesEvents, alive, watchingSaves,
                   markVars, listVars, awaiting>>

LoadStep(l) ==
    \/ AwaitPending(l)
    \/ ReturnCached(l)
    \/ BeginLoad(l)
    \/ \E w \in Worlds : ReadWorld(l, w)
    \/ \E s \in job[l].keep : KeepOld(l, s)
    \/ FinishLoad(l)
    \/ FinishAfterRemoval(l)
    \/ WatchWorlds(l)

Deliver ==
    \/ \E w \in Worlds : DeliverWorldEvent(w)
    \/ DeliverSavesRemoved
    \/ DeliverSavesCreated

\* Every step but the removal of the instance.
Step ==
    \/ Environment
    \/ Deliver
    \/ \E l \in Loaders : StartLoad(l) \/ LoadStep(l)

Next == Step \/ RemoveInstance

Spec == Init /\ [][Next]_vars

-----------------------------------------------------------------------------
(* Properties.                                                              *)

\* The page is told "loading" exactly while one task, and only one, reads:
\* otherwise it would wait for a list that never comes or miss a reload.
LoadingMeansOneLoader ==
    alive =>
      /\ \A k, l \in Loaders : pc[k] = "read" /\ pc[l] = "read" => k = l
      /\ loadState \in {"Loading", "LoadingDirty"} <=> \E l \in Loaders : pc[l] = "read"

Settled ==
    /\ alive /\ listed
    /\ events = {} /\ savesEvents = {}
    /\ ~allDirty /\ dirtyWorlds = {}
    /\ \A l \in Loaders : pc[l] \notin {"read", "watch"}

\* A world that was deleted does not stay in the list: its directory or the
\* saves directory was watched when the list was made.
SettledWorldsExist == Settled => \A s \in worlds : disk[s.world] # Absent

\* "If a file inside the world folder is changed (e.g. icon.png), mark the
\* world (parent) as dirty": once nothing is under way, every listed world is
\* shown as it is on disk and every world with a level.dat is listed.
SettledWorldsMatchDisk ==
    Settled => worlds = {Summary(w, disk[w]) : w \in {x \in Worlds : disk[x] > Bare}}
=============================================================================
