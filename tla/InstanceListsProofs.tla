------------------------ MODULE InstanceListsProofs ------------------------
(***************************************************************************)
(* Theorems about InstanceLists, WorldLoad and ServerLoad, for any worlds, *)
(* any number of loading tasks and any bound on the changes on disk.       *)
(*                                                                         *)
(* A list may differ from the disk only while something is under way that  *)
(* makes it be read again.  The invariant says what (WorldSignal,          *)
(* ServerSignal) and why that is there: whatever is listed was watched     *)
(* before it was read (WorldsWatched, ServersWatched).                     *)
(***************************************************************************)
EXTENDS InstanceLists, TLAPS

Summaries == [world : Worlds, version : Nat]
Jobs == [todo : SUBSET Worlds, keep : SUBSET Summaries, found : SUBSET Summaries]
DotOK == alive \in BOOLEAN /\ replaced \in BOOLEAN /\ dotEvent \in BOOLEAN

LoadStates == {"Unloaded", "Loading", "LoadingDirty", "Loaded", "LoadedDirty"}

-----------------------------------------------------------------------------
(* The world list.                                                          *)

WorldDiskOK ==
    /\ disk \in [Worlds -> Nat]
    /\ saves \in {"absent", "unwatched", "watched"}
    /\ watchedWorlds \subseteq Worlds
    /\ edits \in Nat
    /\ events \subseteq Worlds
    /\ savesEvents \subseteq {"removed", "created"}

WorldMarksOK ==
    /\ loadState \in LoadStates
    /\ dirtyWorlds \subseteq Worlds
    /\ allDirty \in BOOLEAN

WorldListOK ==
    /\ pendingLoad \in Loaders \cup {None}
    /\ listed \in BOOLEAN
    /\ worlds \subseteq Summaries

WorldTasksOK ==
    /\ pc \in [Loaders -> {"idle", "check", "read", "watch"}]
    /\ awaiting \in [Loaders -> Loaders \cup {None}]
    /\ job \in [Loaders -> Jobs]

WorldTypes == WorldDiskOK /\ watchingSaves \in BOOLEAN /\ WorldMarksOK /\ WorldListOK /\ WorldTasksOK

\* The task that reads is the pending one, and the state is that of a load.
WorldLoading ==
    /\ \A l \in Loaders : pc[l] = "read" => pendingLoad = l
    /\ alive => (loadState \in {"Loading", "LoadingDirty"} <=> \E l \in Loaders : pc[l] = "read")

\* The saves directory is watched before it is read, and when it comes back an
\* event says so.
WorldsWatched ==
    /\ \A w \in Worlds : disk[w] # Absent => saves # "absent"
    /\ alive /\ (listed \/ \E l \in Loaders : pc[l] # "idle") => watchingSaves
    /\ alive /\ watchingSaves /\ saves = "unwatched" => "created" \in savesEvents \/ dotEvent

\* What makes a world be read again.
WorldSignal(w) == allDirty \/ w \in dirtyWorlds \/ w \in events \/ savesEvents # {} \/ dotEvent

Noticed(list) == \A s \in list : disk[s.world] = Absent => WorldSignal(s.world)

WorldsNoticed ==
    alive => /\ \A l \in Loaders : pc[l] = "read" => Noticed(job[l].found)
             /\ listed /\ (\A l \in Loaders : pc[l] # "read") => Noticed(worlds)

WorldInv == WorldTypes /\ WorldLoading /\ WorldsWatched /\ WorldsNoticed

LEMMA WorldInit == ListsInit => WorldInv
<1> SUFFICES ASSUME ListsInit PROVE WorldInv
    OBVIOUS
<1> USE DEF ListsInit, Init
<1>1. WorldTypes
    <2>1. NoJob \in Jobs
        BY DEF NoJob, Jobs
    <2>2. WorldTasksOK
        BY <2>1 DEF WorldTasksOK
    <2>3. WorldDiskOK
        BY DEF WorldDiskOK, Absent
    <2>4. watchingSaves \in BOOLEAN /\ WorldMarksOK /\ WorldListOK
        BY DEF WorldMarksOK, WorldListOK, LoadStates
    <2>5. QED
        BY <2>2, <2>3, <2>4 DEF WorldTypes
<1>2. WorldLoading /\ WorldsWatched /\ WorldsNoticed
    BY DEF WorldLoading, WorldsWatched, WorldsNoticed, Noticed, WorldSignal
<1>3. QED
    BY <1>1, <1>2 DEF WorldInv

\* A mark adds to what is dirty, and starts or ends no load.
LEMMA WorldMarking ==
    ASSUME WorldMarksOK, MarkAllDirty \/ \E w \in Worlds : MarkWorldDirty(w)
    PROVE  /\ WorldMarksOK'
           /\ loadState' \in {"Loading", "LoadingDirty"} <=> loadState \in {"Loading", "LoadingDirty"}
           /\ allDirty => allDirty'
           /\ dirtyWorlds \subseteq dirtyWorlds'
<1>1. loadState' \in {loadState, DirtyState(loadState)}
    BY DEF MarkAllDirty, MarkWorldDirty, markVars
<1>2. /\ loadState' \in LoadStates
      /\ loadState' \in {"Loading", "LoadingDirty"} <=> loadState \in {"Loading", "LoadingDirty"}
    BY <1>1 DEF WorldMarksOK, LoadStates, DirtyState
<1>3. allDirty' \in BOOLEAN /\ (allDirty => allDirty')
    BY DEF MarkAllDirty, MarkWorldDirty, markVars, WorldMarksOK
<1>4. dirtyWorlds' \subseteq Worlds /\ dirtyWorlds \subseteq dirtyWorlds'
    BY DEF MarkAllDirty, MarkWorldDirty, markVars, WorldMarksOK
<1>5. QED
    BY <1>2, <1>3, <1>4 DEF WorldMarksOK

LEMMA WorldUnchanged ==
    ASSUME WorldTypes
    PROVE  /\ UNCHANGED diskVars => WorldDiskOK'
           /\ UNCHANGED markVars => WorldMarksOK'
           /\ UNCHANGED listVars => WorldListOK'
           /\ UNCHANGED taskVars => WorldTasksOK'
<1> USE DEF WorldTypes
<1>1. UNCHANGED diskVars => WorldDiskOK'
    BY DEF WorldDiskOK, diskVars
<1>2. UNCHANGED markVars => WorldMarksOK'
    BY DEF WorldMarksOK, markVars
<1>3. UNCHANGED listVars => WorldListOK'
    BY DEF WorldListOK, listVars
<1>4. UNCHANGED taskVars => WorldTasksOK'
    BY DEF WorldTasksOK, taskVars
<1>5. QED
    BY <1>1, <1>2, <1>3, <1>4

\* Every step of the world list, and those of .minecraft.
WorldStep ==
    \/ Step /\ UNCHANGED dotEvent
    \/ RemoveInstance /\ UNCHANGED dotEvent
    \/ ReplaceDotMinecraft
    \/ DeliverDotMinecraft

LEMMA WorldTypesStep ==
    ASSUME DotOK, WorldInv, WorldStep
    PROVE  WorldTypes'
<1> USE DEF WorldInv
<1>1. WorldTypes /\ WorldDiskOK /\ watchingSaves \in BOOLEAN /\ WorldMarksOK /\ WorldListOK /\ WorldTasksOK
    BY DEF WorldTypes
<1>2. CASE Environment
    <2>1. WorldDiskOK'
        <3>1. Absent \in Nat /\ Bare \in Nat /\ edits + 1 \in Nat
            BY <1>1 DEF WorldDiskOK, Bare, Absent
        <3>2. ASSUME NEW w \in Worlds, CreateWorld(w) PROVE WorldDiskOK'
            BY <1>1, <3>1, <3>2 DEF WorldDiskOK, CreateWorld, Edit, ReportIf
        <3>3. ASSUME NEW w \in Worlds, EditWorld(w) PROVE WorldDiskOK'
            BY <1>1, <3>1, <3>3 DEF WorldDiskOK, EditWorld, Edit, ReportIf
        <3>4. ASSUME NEW w \in Worlds, RemoveWorld(w) PROVE WorldDiskOK'
            BY <1>1, <3>1, <3>4 DEF WorldDiskOK, RemoveWorld, Edit, ReportIf
        <3>5. CASE RemoveSaves
            <4>1. disk' \in [Worlds -> Nat] /\ edits' \in Nat
                BY <3>1, <3>5 DEF RemoveSaves, Edit
            <4>2. savesEvents' \subseteq {"removed", "created"} /\ saves' = "absent" /\ watchedWorlds' = {}
                BY <1>1, <3>5 DEF WorldDiskOK, RemoveSaves
            <4>3. events' \subseteq Worlds
                BY <1>1, <3>5 DEF WorldDiskOK, RemoveSaves
            <4>4. QED
                BY <4>1, <4>2, <4>3 DEF WorldDiskOK
        <3>6. CASE CreateSaves
            BY <1>1, <3>1, <3>6 DEF WorldDiskOK, CreateSaves, Edit
        <3>7. QED
            BY <1>2, <3>2, <3>3, <3>4, <3>5, <3>6 DEF Environment
    <2>2. QED
        BY <1>1, <1>2, <2>1, WorldUnchanged DEF Environment, WorldTypes
<1>3. CASE Deliver
    <2>1. WorldMarksOK'
        BY <1>1, <1>3, WorldMarking
           DEF Deliver, DeliverWorldEvent, DeliverSavesRemoved, DeliverSavesCreated
    <2>2. WorldDiskOK'
        BY <1>1, <1>3
           DEF Deliver, DeliverWorldEvent, DeliverSavesRemoved, DeliverSavesCreated, WorldDiskOK
    <2>3. UNCHANGED <<watchingSaves, listVars, taskVars>>
        BY <1>3 DEF Deliver, DeliverWorldEvent, DeliverSavesRemoved, DeliverSavesCreated
    <2>4. QED
        BY <1>1, <2>1, <2>2, <2>3, WorldUnchanged DEF WorldTypes
<1>4. CASE RemoveInstance
    BY <1>1, <1>4, WorldUnchanged DEF RemoveInstance, WorldTypes
<1>5. CASE ReplaceDotMinecraft
    <2>1. WorldDiskOK'
        BY <1>1, <1>5, WorldLoadAssumption DEF ReplaceDotMinecraft, WorldDiskOK, Absent
    <2>2. QED
        BY <1>1, <1>5, <2>1, WorldUnchanged DEF ReplaceDotMinecraft, WorldTypes
<1>6. CASE DeliverDotMinecraft
    <2>1. WorldMarksOK'
        BY <1>1, <1>6, WorldMarking DEF DeliverDotMinecraft
    <2>2. WorldDiskOK'
        BY <1>1, <1>6 DEF DeliverDotMinecraft, WorldDiskOK
    <2>3. QED
        BY <1>1, <1>6, <2>1, <2>2, WorldUnchanged DEF DeliverDotMinecraft, WorldTypes
<1>7. ASSUME NEW l \in Loaders, StartLoad(l) PROVE WorldTypes'
    <2>1. WorldDiskOK'
        BY <1>1, <1>7 DEF StartLoad, WorldDiskOK
    <2>2. watchingSaves' \in BOOLEAN
        BY <1>7 DEF StartLoad
    <2>3. WorldTasksOK'
        BY <1>1, <1>7 DEF StartLoad, WorldTasksOK
    <2>4. QED
        BY <1>1, <1>7, <2>1, <2>2, <2>3, WorldUnchanged DEF StartLoad, WorldTypes
<1>8. ASSUME NEW l \in Loaders, AwaitPending(l) \/ ReturnCached(l) PROVE WorldTypes'
    <2>1. WorldTasksOK'
        BY <1>1, <1>8 DEF AwaitPending, ReturnCached, WorldTasksOK, WorldListOK
    <2>2. QED
        BY <1>1, <1>8, <2>1, WorldUnchanged DEF AwaitPending, ReturnCached, WorldTypes
<1>9. ASSUME NEW l \in Loaders, BeginLoad(l) PROVE WorldTypes'
    <2> DEFINE j == [todo  |-> TakenWorlds,
                     keep  |-> {s \in worlds : s.world \notin TakenWorlds},
                     found |-> {}]
    <2>1. j \in Jobs
        BY <1>1 DEF Jobs, TakenWorlds, WorldListOK, WorldMarksOK
    <2>2. job' = [job EXCEPT ![l] = j] /\ pc' = [pc EXCEPT ![l] = "read"] /\ awaiting' = awaiting
        BY <1>9 DEF BeginLoad
    <2>3. WorldTasksOK'
        BY <1>1, <2>1, <2>2 DEF WorldTasksOK
    <2>4. WorldMarksOK' /\ WorldListOK'
        BY <1>1, <1>9 DEF BeginLoad, WorldMarksOK, WorldListOK, LoadStates
    <2>5. QED
        BY <1>1, <1>9, <2>3, <2>4, WorldUnchanged DEF BeginLoad, WorldTypes
<1>10. ASSUME NEW l \in Loaders, NEW w \in Worlds, ReadWorld(l, w) PROVE WorldTypes'
    <2>1. Summary(w, disk[w]) \in Summaries
        BY <1>1 DEF Summary, Summaries, WorldDiskOK
    <2>2. job[l] \in Jobs
        BY <1>1 DEF WorldTasksOK
    <2>3. job' = [job EXCEPT ![l] = [job[l] EXCEPT !.todo = @ \ {w},
                    !.found = IF disk[w] > Bare THEN @ \cup {Summary(w, disk[w])} ELSE @]]
        BY <1>1, <1>10 DEF ReadWorld, WorldTasksOK, Jobs
    <2>4. job' \in [Loaders -> Jobs]
        BY <1>1, <2>1, <2>2, <2>3 DEF Jobs, WorldTasksOK
    <2>5. WorldTasksOK'
        BY <1>1, <1>10, <2>4 DEF ReadWorld, WorldTasksOK
    <2>6. QED
        BY <1>1, <1>10, <2>5, WorldUnchanged DEF ReadWorld, WorldTypes
<1>11. ASSUME NEW l \in Loaders, NEW s \in job[l].keep, KeepOld(l, s) PROVE WorldTypes'
    <2>1. job[l] \in Jobs /\ s \in Summaries
        BY <1>1 DEF WorldTasksOK, Jobs
    <2>2. job' = [job EXCEPT ![l] = [job[l] EXCEPT !.keep = @ \ {s},
                    !.found = IF disk[s.world] # Absent THEN @ \cup {s} ELSE @]]
        BY <1>1, <1>11 DEF KeepOld, WorldTasksOK, Jobs
    <2>3. job' \in [Loaders -> Jobs]
        BY <1>1, <2>1, <2>2 DEF Jobs, WorldTasksOK
    <2>4. WorldTasksOK'
        BY <1>1, <1>11, <2>3 DEF KeepOld, WorldTasksOK
    <2>5. QED
        BY <1>1, <1>11, <2>4, WorldUnchanged DEF KeepOld, WorldTypes
<1>12. NoJob \in Jobs
    BY DEF NoJob, Jobs
<1>13. ASSUME NEW l \in Loaders, Notify(l) PROVE awaiting' \in [Loaders -> Loaders \cup {None}]
    BY <1>1, <1>13 DEF Notify, WorldTasksOK
<1>14. ASSUME NEW l \in Loaders, FinishLoad(l) PROVE WorldTypes'
    <2>1. loadState \in {"Loading", "LoadingDirty"}
        BY <1>14 DEF FinishLoad, ReadingDone, WorldLoading
    <2>2. WorldMarksOK'
        BY <1>1, <1>14, <2>1 DEF FinishLoad, FinishedState, WorldMarksOK, LoadStates
    <2>3. WorldListOK'
        BY <1>1, <1>14 DEF FinishLoad, WorldListOK, WorldTasksOK, Jobs
    <2>4. WorldTasksOK'
        BY <1>1, <1>13, <1>14 DEF FinishLoad, WorldTasksOK
    <2>5. QED
        BY <1>1, <1>14, <2>2, <2>3, <2>4, WorldUnchanged DEF FinishLoad, WorldTypes
<1>15. ASSUME NEW l \in Loaders, FinishAfterRemoval(l) PROVE WorldTypes'
    <2>1. WorldTasksOK'
        BY <1>1, <1>12, <1>13, <1>15 DEF FinishAfterRemoval, WorldTasksOK
    <2>2. QED
        BY <1>1, <1>15, <2>1, WorldUnchanged DEF FinishAfterRemoval, WorldTypes
<1>16. ASSUME NEW l \in Loaders, WatchWorlds(l) PROVE WorldTypes'
    <2>1. WorldTasksOK'
        BY <1>1, <1>12, <1>16 DEF WatchWorlds, WorldTasksOK
    <2>2. WorldDiskOK'
        BY <1>1, <1>16 DEF WatchWorlds, WorldDiskOK, WorldTasksOK, Jobs, Summaries
    <2>3. QED
        BY <1>1, <1>16, <2>1, <2>2, WorldUnchanged DEF WatchWorlds, WorldTypes
<1>17. QED
    BY <1>2, <1>3, <1>4, <1>5, <1>6, <1>7, <1>8, <1>9, <1>10, <1>11, <1>14, <1>15, <1>16
       DEF WorldStep, Step, LoadStep

\* A step that starts and ends no load.
LEMMA WorldLoadingKept ==
    ASSUME WorldLoading, pendingLoad' = pendingLoad, alive' => alive,
           \A l \in Loaders : pc'[l] = "read" <=> pc[l] = "read",
           loadState' \in {"Loading", "LoadingDirty"} <=> loadState \in {"Loading", "LoadingDirty"}
    PROVE  WorldLoading'
BY DEF WorldLoading

LEMMA WorldLoadingStep ==
    ASSUME DotOK, WorldInv, WorldStep
    PROVE  WorldLoading'
<1> USE DEF WorldInv
<1>1. WorldLoading /\ WorldMarksOK /\ WorldListOK /\ WorldTasksOK
    BY DEF WorldTypes
<1>2. CASE Environment \/ ReplaceDotMinecraft \/ RemoveInstance
    BY <1>1, <1>2, WorldLoadingKept
       DEF Environment, ReplaceDotMinecraft, RemoveInstance, markVars, listVars, taskVars
<1>3. CASE Deliver \/ DeliverDotMinecraft
    <2>1. MarkAllDirty \/ \E w \in Worlds : MarkWorldDirty(w)
        BY <1>3 DEF Deliver, DeliverWorldEvent, DeliverSavesRemoved, DeliverSavesCreated, DeliverDotMinecraft
    <2>2. UNCHANGED <<alive, listVars, taskVars>>
        BY <1>3 DEF Deliver, DeliverWorldEvent, DeliverSavesRemoved, DeliverSavesCreated, DeliverDotMinecraft
    <2>3. QED
        BY <1>1, <2>1, <2>2, WorldMarking, WorldLoadingKept DEF listVars, taskVars
<1>4. ASSUME NEW l \in Loaders, StartLoad(l) PROVE WorldLoading'
    BY <1>1, <1>4, WorldLoadingKept DEF StartLoad, WorldTasksOK, markVars, listVars
<1>5. ASSUME NEW l \in Loaders, AwaitPending(l) \/ ReturnCached(l) PROVE WorldLoading'
    BY <1>1, <1>5, WorldLoadingKept
       DEF AwaitPending, ReturnCached, AtLoopTop, WorldTasksOK, markVars, listVars
<1>6. ASSUME NEW l \in Loaders, BeginLoad(l) PROVE WorldLoading'
    <2>1. \A k \in Loaders : pc[k] # "read"
        BY <1>1, <1>6, WorldLoadAssumption DEF BeginLoad, LoadPending, WorldLoading
    <2>2. /\ pc' = [pc EXCEPT ![l] = "read"] /\ pendingLoad' = l
          /\ loadState' = "Loading"
        BY <1>6 DEF BeginLoad
    <2>3. QED
        BY <1>1, <2>1, <2>2 DEF WorldLoading, WorldTasksOK
<1>7. ASSUME NEW l \in Loaders, (\E w \in Worlds : ReadWorld(l, w)) \/ (\E s \in job[l].keep : KeepOld(l, s))
      PROVE  WorldLoading'
    <2>1. UNCHANGED <<alive, markVars, listVars, pc>>
        BY <1>7 DEF ReadWorld, KeepOld
    <2>2. QED
        BY <1>1, <2>1, WorldLoadingKept DEF markVars, listVars
<1>8. ASSUME NEW l \in Loaders, FinishLoad(l) PROVE WorldLoading'
    <2>1. pc[l] = "read" /\ pc' = [pc EXCEPT ![l] = "watch"] /\ pendingLoad' = pendingLoad
        BY <1>8 DEF FinishLoad, ReadingDone
    <2>2. \A k \in Loaders : pc'[k] # "read"
        BY <1>1, <2>1 DEF WorldLoading, WorldTasksOK
    <2>3. loadState' \notin {"Loading", "LoadingDirty"}
        BY <1>8 DEF FinishLoad, FinishedState
    <2>4. QED
        BY <2>2, <2>3 DEF WorldLoading
<1>9. ASSUME NEW l \in Loaders, FinishAfterRemoval(l) PROVE WorldLoading'
    BY <1>1, <1>9 DEF FinishAfterRemoval, WorldLoading, WorldTasksOK, markVars, listVars
<1>10. ASSUME NEW l \in Loaders, WatchWorlds(l) PROVE WorldLoading'
    BY <1>1, <1>10, WorldLoadingKept DEF WatchWorlds, WorldTasksOK, markVars, listVars
<1>11. QED
    BY <1>2, <1>3, <1>4, <1>5, <1>6, <1>7, <1>8, <1>9, <1>10 DEF WorldStep, Step, LoadStep

LEMMA WorldsWatchedStep ==
    ASSUME DotOK, WorldInv, WorldStep
    PROVE  WorldsWatched'
<1> USE DEF WorldInv
<1>1. WorldsWatched /\ WorldDiskOK /\ WorldTasksOK /\ WorldListOK /\ watchingSaves \in BOOLEAN
    BY DEF WorldTypes
<1>2. CASE Environment /\ UNCHANGED dotEvent
    <2>1. UNCHANGED <<alive, watchingSaves, listed, pc, dotEvent>>
        BY <1>2 DEF Environment, listVars, taskVars
    <2>2. ASSUME NEW w \in Worlds, CreateWorld(w) \/ EditWorld(w) \/ RemoveWorld(w)
          PROVE  WorldsWatched'
        <3>1. UNCHANGED <<saves, savesEvents>> /\ saves # "absent"
            BY <1>1, <2>2 DEF CreateWorld, EditWorld, RemoveWorld, WorldsWatched
        <3>2. QED
            BY <1>1, <2>1, <3>1 DEF WorldsWatched
    <2>3. CASE RemoveSaves
        BY <1>1, <2>1, <2>3 DEF RemoveSaves, WorldsWatched
    <2>4. CASE CreateSaves
        BY <1>1, <2>1, <2>4 DEF CreateSaves, WorldsWatched
    <2>5. QED
        BY <1>2, <2>2, <2>3, <2>4 DEF Environment
<1>3. CASE Deliver /\ UNCHANGED dotEvent
    <2>1. UNCHANGED <<disk, alive, watchingSaves, listed, pc, dotEvent>>
        BY <1>3 DEF Deliver, DeliverWorldEvent, DeliverSavesRemoved, DeliverSavesCreated,
                    listVars, taskVars
    <2>2. ASSUME NEW w \in Worlds, DeliverWorldEvent(w) PROVE WorldsWatched'
        BY <1>1, <2>1, <2>2 DEF DeliverWorldEvent, WorldsWatched
    <2>3. CASE DeliverSavesRemoved
        BY <1>1, <2>1, <2>3 DEF DeliverSavesRemoved, WorldsWatched
    <2>4. CASE DeliverSavesCreated
        BY <1>1, <2>1, <2>4 DEF DeliverSavesCreated, WorldsWatched
    <2>5. QED
        BY <1>3, <2>2, <2>3, <2>4 DEF Deliver
<1>4. CASE RemoveInstance /\ UNCHANGED dotEvent
    BY <1>1, <1>4 DEF RemoveInstance, WorldsWatched, diskVars
<1>5. CASE ReplaceDotMinecraft
    BY <1>1, <1>5 DEF ReplaceDotMinecraft, WorldsWatched, listVars, taskVars
<1>6. CASE DeliverDotMinecraft
    BY <1>1, <1>6 DEF DeliverDotMinecraft, WorldsWatched, listVars, taskVars
<1>7. ASSUME NEW l \in Loaders, StartLoad(l), UNCHANGED dotEvent PROVE WorldsWatched'
    <2>1. UNCHANGED <<disk, savesEvents, alive, dotEvent>>
        BY <1>7 DEF StartLoad
    <2>2. (\A w \in Worlds : disk[w] # Absent => saves' # "absent") /\ (alive => watchingSaves')
        BY <1>1, <1>7 DEF StartLoad, WorldsWatched
    <2>3. alive /\ saves' = "unwatched" => watchingSaves /\ saves = "unwatched"
        BY <1>1, <1>7 DEF StartLoad, WorldDiskOK
    <2>4. QED
        BY <1>1, <2>1, <2>2, <2>3 DEF WorldsWatched
<1>8. ASSUME NEW l \in Loaders, LoadStep(l), UNCHANGED dotEvent PROVE WorldsWatched'
    <2>1. UNCHANGED <<disk, saves, savesEvents, alive, watchingSaves, dotEvent>>
        BY <1>8 DEF LoadStep, AwaitPending, ReturnCached, BeginLoad, ReadWorld, KeepOld, FinishLoad,
                    FinishAfterRemoval, WatchWorlds, diskVars
    <2>2. pc[l] # "idle"
        BY <1>8 DEF LoadStep, AwaitPending, ReturnCached, BeginLoad, ReadWorld, KeepOld, FinishLoad,
                    FinishAfterRemoval, WatchWorlds, AtLoopTop, ReadingDone
    <2>3. QED
        BY <1>1, <2>1, <2>2 DEF WorldsWatched
<1>9. QED
    BY <1>2, <1>3, <1>4, <1>5, <1>6, <1>7, <1>8 DEF WorldStep, Step

\* A step that publishes nothing keeps what is noticed if the worlds it makes
\* vanish are reported and what it takes from a signal it puts into another.
LEMMA NoticedKept ==
    ASSUME WorldTypes, WorldsNoticed, alive' => alive, UNCHANGED <<listed, worlds>>,
           \A l \in Loaders : pc'[l] = "read" <=> pc[l] = "read",
           \A l \in Loaders : pc[l] = "read" => job'[l].found = job[l].found,
           \A w \in Worlds : alive /\ disk'[w] = Absent /\ (disk[w] = Absent => WorldSignal(w))
                                => WorldSignal(w)'
    PROVE  WorldsNoticed'
<1> SUFFICES ASSUME alive' PROVE WorldsNoticed'
    BY DEF WorldsNoticed
<1>1. \A s \in Summaries : (disk[s.world] = Absent => WorldSignal(s.world))
                             => (disk'[s.world] = Absent => WorldSignal(s.world)')
    BY DEF Summaries
<1>2. ASSUME NEW l \in Loaders, pc'[l] = "read" PROVE Noticed(job[l].found)'
    <2>1. job[l].found \subseteq Summaries
        BY DEF WorldTypes, WorldTasksOK, Jobs
    <2>2. Noticed(job[l].found) /\ job'[l].found = job[l].found
        BY <1>2 DEF WorldsNoticed
    <2>3. QED
        BY <1>1, <2>1, <2>2 DEF Noticed
<1>3. ASSUME listed', \A l \in Loaders : pc'[l] # "read" PROVE Noticed(worlds)'
    <2>1. worlds \subseteq Summaries
        BY DEF WorldTypes, WorldListOK
    <2>2. Noticed(worlds)
        BY <1>3 DEF WorldsNoticed
    <2>3. QED
        BY <1>1, <2>1, <2>2 DEF Noticed
<1>4. QED
    BY <1>2, <1>3 DEF WorldsNoticed

LEMMA WorldsNoticedStep ==
    ASSUME DotOK, WorldInv, WorldStep
    PROVE  WorldsNoticed'
<1> USE DEF WorldInv
<1>1. /\ WorldsNoticed /\ WorldsWatched /\ WorldTypes /\ WorldDiskOK /\ WorldMarksOK
      /\ WorldTasksOK /\ WorldListOK /\ watchingSaves \in BOOLEAN
    BY DEF WorldTypes
<1>2. CASE Environment /\ UNCHANGED dotEvent
    <2>1. UNCHANGED <<alive, watchingSaves, markVars, listVars, taskVars>>
        BY <1>2 DEF Environment
    <2>2. CASE ~watchingSaves
        BY <1>1, <2>1, <2>2 DEF WorldsNoticed, WorldsWatched, WorldTasksOK, listVars, taskVars
    <2>3. ASSUME watchingSaves, alive, NEW w \in Worlds, disk'[w] = Absent,
                 disk[w] = Absent => WorldSignal(w)
          PROVE  WorldSignal(w)'
        <3>1. savesEvents \subseteq savesEvents' /\ events \subseteq events'
            BY <1>2 DEF Environment, CreateWorld, EditWorld, RemoveWorld, RemoveSaves, CreateSaves, ReportIf
        <3>2. CASE disk[w] = Absent
            BY <1>2, <2>1, <2>3, <3>1, <3>2 DEF WorldSignal, markVars
        <3>3. CASE disk[w] # Absent
            <4>1. saves = "watched" \/ savesEvents # {} \/ dotEvent
                BY <1>1, <2>3, <3>3 DEF WorldsWatched, WorldDiskOK
            <4>2. CASE savesEvents # {} \/ dotEvent
                BY <1>2, <3>1, <4>2 DEF WorldSignal
            <4>3. CASE saves = "watched"
                <5>1. CASE RemoveSaves
                    BY <4>3, <5>1 DEF RemoveSaves, WorldSignal
                <5>2. CASE CreateSaves
                    BY <4>3, <5>2 DEF CreateSaves
                <5>3. ASSUME NEW v \in Worlds, CreateWorld(v) \/ EditWorld(v) PROVE FALSE
                    BY <1>1, <2>3, <3>3, <5>3
                       DEF CreateWorld, EditWorld, Edit, WorldDiskOK, Absent, Bare
                <5>4. ASSUME NEW v \in Worlds, RemoveWorld(v) PROVE w \in events'
                    BY <1>1, <2>3, <3>3, <4>3, <5>4 DEF RemoveWorld, ReportIf, WorldDiskOK
                <5>5. QED
                    BY <1>2, <5>1, <5>2, <5>3, <5>4 DEF Environment, WorldSignal
            <4>4. QED
                BY <4>1, <4>2, <4>3
        <3>4. QED
            BY <3>2, <3>3
    <2>4. CASE watchingSaves
        BY <1>1, <2>1, <2>3, <2>4, NoticedKept DEF listVars, taskVars
    <2>5. QED
        BY <1>1, <2>2, <2>4
<1>3. CASE Deliver /\ UNCHANGED dotEvent
    <2>1. MarkAllDirty \/ \E w \in Worlds : MarkWorldDirty(w)
        BY <1>3 DEF Deliver, DeliverWorldEvent, DeliverSavesRemoved, DeliverSavesCreated
    <2>2. UNCHANGED <<disk, alive, listVars, taskVars>>
        BY <1>3 DEF Deliver, DeliverWorldEvent, DeliverSavesRemoved, DeliverSavesCreated
    <2>3. ASSUME NEW w \in Worlds, alive, WorldSignal(w) PROVE WorldSignal(w)'
        <3>1. (allDirty => allDirty') /\ dirtyWorlds \subseteq dirtyWorlds'
            BY <1>1, <2>1, WorldMarking
        <3>2. ASSUME NEW v \in Worlds, DeliverWorldEvent(v) PROVE WorldSignal(w)'
            <4>1. allDirty' \/ v \in dirtyWorlds'
                BY <2>3, <3>2 DEF DeliverWorldEvent, MarkWorldDirty, markVars
            <4>2. events' = events \ {v} /\ savesEvents' = savesEvents
                BY <3>2 DEF DeliverWorldEvent
            <4>3. QED
                BY <1>3, <2>3, <3>1, <4>1, <4>2 DEF WorldSignal
        <3>3. CASE DeliverSavesRemoved \/ DeliverSavesCreated
            <4>1. MarkAllDirty
                BY <3>3 DEF DeliverSavesRemoved, DeliverSavesCreated
            <4>2. allDirty'
                BY <2>3, <4>1 DEF MarkAllDirty, markVars
            <4>3. QED
                BY <4>2 DEF WorldSignal
        <3>4. QED
            BY <1>3, <3>2, <3>3 DEF Deliver
    <2>4. QED
        BY <1>1, <2>2, <2>3, NoticedKept DEF listVars, taskVars
<1>4. CASE RemoveInstance
    BY <1>4 DEF RemoveInstance, WorldsNoticed
<1>5. CASE ReplaceDotMinecraft
    <2>1. \A w \in Worlds : WorldSignal(w)'
        BY <1>5 DEF ReplaceDotMinecraft, WorldSignal
    <2>2. QED
        BY <1>1, <1>5, <2>1, NoticedKept DEF ReplaceDotMinecraft, listVars, taskVars
<1>6. CASE DeliverDotMinecraft
    <2>1. alive => \A w \in Worlds : WorldSignal(w)'
        BY <1>6 DEF DeliverDotMinecraft, MarkAllDirty, markVars, WorldSignal
    <2>2. QED
        BY <1>1, <1>6, <2>1, NoticedKept DEF DeliverDotMinecraft, listVars, taskVars
<1>7. ASSUME NEW l \in Loaders, StartLoad(l) \/ AwaitPending(l) \/ ReturnCached(l) \/ WatchWorlds(l),
             UNCHANGED dotEvent
      PROVE  WorldsNoticed'
    <2>1. UNCHANGED <<disk, events, savesEvents, alive, markVars, listVars>>
        BY <1>7 DEF StartLoad, AwaitPending, ReturnCached, WatchWorlds, diskVars
    <2>2. /\ \A k \in Loaders : pc'[k] = "read" <=> pc[k] = "read"
          /\ \A k \in Loaders : pc[k] = "read" => job'[k] = job[k]
        BY <1>1, <1>7 DEF StartLoad, AwaitPending, ReturnCached, AtLoopTop, WatchWorlds, WorldTasksOK
    <2>3. \A w \in Worlds : WorldSignal(w)' <=> WorldSignal(w)
        BY <1>7, <2>1 DEF WorldSignal, markVars
    <2>4. QED
        BY <1>1, <2>1, <2>2, <2>3, NoticedKept DEF listVars
<1>8. ASSUME NEW l \in Loaders, BeginLoad(l), UNCHANGED dotEvent PROVE WorldsNoticed'
    <2>1. \A k \in Loaders : pc[k] # "read"
        BY <1>1, <1>8, WorldLoadAssumption DEF BeginLoad, LoadPending, WorldLoading
    <2>2. pc' = [pc EXCEPT ![l] = "read"] /\ job'[l].found = {}
        BY <1>1, <1>8 DEF BeginLoad, WorldTasksOK
    <2>3. pc'[l] = "read" /\ \A k \in Loaders : pc'[k] = "read" => k = l
        BY <1>1, <2>1, <2>2 DEF WorldTasksOK
    <2>4. QED
        BY <2>2, <2>3 DEF WorldsNoticed, Noticed
<1>9. ASSUME NEW l \in Loaders, NEW found,
             pc[l] = "read", pc' = pc, job'[l].found = found,
             \A k \in Loaders : k # l => job'[k] = job[k],
             \A s \in found : s \in job[l].found \/ disk[s.world] # Absent,
             UNCHANGED <<disk, events, savesEvents, alive, markVars, dotEvent>>
      PROVE  WorldsNoticed'
    <2>1. \A w : WorldSignal(w)' <=> WorldSignal(w)
        BY <1>9 DEF WorldSignal, markVars
    <2>2. ASSUME alive, NEW k \in Loaders, pc[k] = "read" PROVE Noticed(job[k].found)'
        BY <1>1, <1>9, <2>1, <2>2 DEF WorldsNoticed, Noticed
    <2>3. QED
        BY <1>9, <2>2 DEF WorldsNoticed
<1>10. ASSUME NEW l \in Loaders, NEW w \in Worlds, ReadWorld(l, w), UNCHANGED dotEvent
       PROVE  WorldsNoticed'
    <2>1. job[l] \in Jobs
        BY <1>1 DEF WorldTasksOK
    <2>2. job'[l].found = IF disk[w] > Bare THEN job[l].found \cup {Summary(w, disk[w])} ELSE job[l].found
        BY <1>1, <1>10, <2>1 DEF ReadWorld, WorldTasksOK, Jobs
    <2>3. \A s \in job'[l].found : s \in job[l].found \/ disk[s.world] # Absent
        BY <1>1, <2>2 DEF Summary, Bare, Absent, WorldDiskOK
    <2>4. \A k \in Loaders : k # l => job'[k] = job[k]
        BY <1>1, <1>10 DEF ReadWorld, WorldTasksOK
    <2>5. pc[l] = "read" /\ pc' = pc /\ UNCHANGED <<disk, events, savesEvents, alive, markVars>>
        BY <1>10 DEF ReadWorld, diskVars
    <2>6. QED
        BY <1>9, <1>10, <2>3, <2>4, <2>5
<1>11. ASSUME NEW l \in Loaders, NEW s \in job[l].keep, KeepOld(l, s), UNCHANGED dotEvent
       PROVE  WorldsNoticed'
    <2>1. job[l] \in Jobs
        BY <1>1 DEF WorldTasksOK
    <2>2. job'[l].found = IF disk[s.world] # Absent THEN job[l].found \cup {s} ELSE job[l].found
        BY <1>1, <1>11, <2>1 DEF KeepOld, WorldTasksOK, Jobs
    <2>3. \A t \in job'[l].found : t \in job[l].found \/ disk[t.world] # Absent
        BY <2>2
    <2>4. \A k \in Loaders : k # l => job'[k] = job[k]
        BY <1>1, <1>11 DEF KeepOld, WorldTasksOK
    <2>5. pc[l] = "read" /\ pc' = pc /\ UNCHANGED <<disk, events, savesEvents, alive, markVars>>
        BY <1>11 DEF KeepOld, diskVars
    <2>6. QED
        BY <1>9, <1>11, <2>3, <2>4, <2>5
<1>12. ASSUME NEW l \in Loaders, FinishLoad(l), UNCHANGED dotEvent PROVE WorldsNoticed'
    <2>1. pc[l] = "read" /\ pc' = [pc EXCEPT ![l] = "watch"]
        BY <1>12 DEF FinishLoad, ReadingDone
    <2>2. \A k \in Loaders : pc'[k] # "read"
        BY <1>1, <2>1 DEF WorldLoading, WorldTasksOK
    <2>3. worlds' = job[l].found /\ UNCHANGED <<disk, events, savesEvents, alive, dirtyWorlds, allDirty>>
        BY <1>12 DEF FinishLoad, diskVars
    <2>4. \A w : WorldSignal(w)' <=> WorldSignal(w)
        BY <1>12, <2>3 DEF WorldSignal
    <2>5. alive => Noticed(worlds)'
        BY <1>1, <2>1, <2>3, <2>4 DEF WorldsNoticed, Noticed
    <2>6. QED
        BY <2>2, <2>3, <2>5 DEF WorldsNoticed
<1>13. ASSUME NEW l \in Loaders, FinishAfterRemoval(l) PROVE WorldsNoticed'
    BY <1>13 DEF FinishAfterRemoval, WorldsNoticed
<1>14. QED
    BY <1>2, <1>3, <1>4, <1>5, <1>6, <1>7, <1>8, <1>10, <1>11, <1>12, <1>13 DEF WorldStep, Step, LoadStep

LEMMA WorldStepKeeps ==
    ASSUME DotOK, WorldInv,
           WorldStep \/ UNCHANGED <<worldVars, alive, dotEvent>>
    PROVE  WorldInv'
<1>1. CASE UNCHANGED <<worldVars, alive, dotEvent>>
    BY <1>1 DEF worldVars, diskVars, markVars, listVars, taskVars, WorldInv, WorldTypes, WorldDiskOK,
                WorldMarksOK, WorldListOK, WorldTasksOK, WorldLoading, WorldsWatched, WorldsNoticed,
                Noticed, WorldSignal
<1>2. QED
    BY <1>1, WorldTypesStep, WorldLoadingStep, WorldsWatchedStep, WorldsNoticedStep DEF WorldInv

-----------------------------------------------------------------------------
(* The server list.                                                         *)

ServerFileOK ==
    /\ serversDat \in Nat
    /\ serverEdits \in Nat
    /\ serverEvents \in Seq({"change", "remove"})
    /\ serverTarget \in BOOLEAN

ServerListOK ==
    /\ serversState \in LoadStates
    /\ dirtyServers \in BOOLEAN
    /\ pendingServersLoad \in Loaders \cup {None}
    /\ serversListed \in BOOLEAN
    /\ servers \in Nat

ServerTasksOK ==
    /\ serverPc \in [Loaders -> {"idle", "check", "read", "done"}]
    /\ serverAwaiting \in [Loaders -> Loaders \cup {None}]
    /\ serverFound \in [Loaders -> Nat]

ServerTypes == ServerFileOK /\ watchingServerDat \in BOOLEAN /\ ServerListOK /\ ServerTasksOK

ServerLoading ==
    /\ \A l \in Loaders : S!Loading(l) => pendingServersLoad = l
    /\ alive => (serversState \in {"Loading", "LoadingDirty"} <=> \E l \in Loaders : S!Loading(l))

ServersWatched ==
    alive /\ (serversListed \/ \E l \in Loaders : serverPc[l] # "idle") => watchingServerDat

\* A removal is not always acted upon, but the last event of a file that is
\* there is that it was written.
ServerSignal ==
    \/ dirtyServers \/ dotEvent
    \/ serverEvents # <<>> /\ serverEvents[Len(serverEvents)] = "change"

\* The version v of the file, or the lack of it, is the present one.
Seen(v) == serversDat # 0 /\ v # serversDat => ServerSignal

ServersNoticed ==
    alive => /\ \A l \in Loaders : serverPc[l] = "done" => Seen(serverFound[l])
             /\ serversListed /\ (\A l \in Loaders : ~S!Loading(l)) => Seen(servers)

ServerInv == ServerTypes /\ ServerLoading /\ ServersWatched /\ ServersNoticed

LEMMA ServerInit == ListsInit => ServerInv
<1> SUFFICES ASSUME ListsInit PROVE ServerInv
    OBVIOUS
<1> USE DEF ListsInit, S!Init
<1>1. ServerTypes
    <2>1. ServerTasksOK
        BY DEF ServerTasksOK
    <2>2. ServerListOK
        BY DEF ServerListOK, LoadStates
    <2>3. serverEvents \in Seq({"change", "remove"}) /\ serversDat \in Nat /\ serverEdits \in Nat
        OBVIOUS
    <2>4. serverTarget \in BOOLEAN /\ watchingServerDat \in BOOLEAN
        OBVIOUS
    <2>5. QED
        BY <2>1, <2>2, <2>3, <2>4 DEF ServerTypes, ServerFileOK
<1>2. ServerLoading /\ ServersWatched /\ ServersNoticed
    BY DEF ServerLoading, ServersWatched, ServersNoticed, S!Loading
<1>3. QED
    BY <1>1, <1>2 DEF ServerInv

\* Every step of the server list, and those of .minecraft and of the instance.
ServerStep ==
    \/ S!Step /\ UNCHANGED dotEvent
    \/ RemoveInstance /\ UNCHANGED <<serverVars, dotEvent>>
    \/ ReplaceDotMinecraft
    \/ DeliverDotMinecraft

LEMMA ServerMarking ==
    ASSUME ServerListOK, S!MarkDirty
    PROVE  /\ serversState' \in LoadStates /\ dirtyServers' \in BOOLEAN
           /\ serversState' \in {"Loading", "LoadingDirty"} <=> serversState \in {"Loading", "LoadingDirty"}
           /\ dirtyServers => dirtyServers'
           /\ alive => dirtyServers'
<1>1. serversState' \in {serversState, S!DirtyState(serversState)}
    BY DEF S!MarkDirty
<1>2. /\ serversState' \in LoadStates
      /\ serversState' \in {"Loading", "LoadingDirty"} <=> serversState \in {"Loading", "LoadingDirty"}
    BY <1>1 DEF ServerListOK, LoadStates, S!DirtyState
<1>3. dirtyServers' \in BOOLEAN /\ (dirtyServers => dirtyServers') /\ (alive => dirtyServers')
    BY DEF S!MarkDirty, ServerListOK
<1>4. QED
    BY <1>2, <1>3

LEMMA ServerTypesStep ==
    ASSUME DotOK, ServerInv, ServerStep
    PROVE  ServerTypes'
<1> USE DEF ServerInv
<1>1. /\ ServerFileOK /\ watchingServerDat \in BOOLEAN /\ ServerListOK /\ ServerTasksOK
      /\ UNCHANGED S!fileVars => ServerFileOK'
      /\ UNCHANGED S!listVars => ServerListOK'
      /\ UNCHANGED S!taskVars => ServerTasksOK'
    BY DEF ServerTypes, ServerFileOK, ServerListOK, ServerTasksOK, S!fileVars, S!listVars, S!taskVars
<1>2. CASE S!WriteFile \/ S!RemoveFile
    <2>1. serverEvents' \in Seq({"change", "remove"})
        BY <1>1, <1>2 DEF S!WriteFile, S!RemoveFile, S!Report, ServerFileOK
    <2>2. ServerFileOK'
        BY <1>1, <1>2, <2>1 DEF S!WriteFile, S!RemoveFile, ServerFileOK
    <2>3. QED
        BY <1>1, <1>2, <2>2 DEF S!WriteFile, S!RemoveFile, S!stateVars, ServerTypes
<1>3. CASE S!CoalesceEvents
    <2>1. serverEvents' \in Seq({"change", "remove"})
        BY <1>1, <1>3 DEF S!CoalesceEvents, ServerFileOK
    <2>2. QED
        BY <1>1, <1>3, <2>1 DEF S!CoalesceEvents, S!stateVars, ServerFileOK, ServerTypes
<1>4. CASE S!DeliverChange \/ S!DeliverRemove
    <2>1. serverEvents' \in Seq({"change", "remove"})
        BY <1>1, <1>4 DEF S!DeliverChange, S!DeliverRemove, ServerFileOK
    <2>2. serverTarget' \in BOOLEAN
        BY <1>1, <1>4 DEF S!DeliverChange, S!DeliverRemove, S!WatchFile, ServerFileOK
    <2>3. serversState' \in LoadStates /\ dirtyServers' \in BOOLEAN
        <3>1. S!MarkDirty \/ UNCHANGED <<serversState, dirtyServers>>
            BY <1>4 DEF S!DeliverChange, S!DeliverRemove
        <3>2. QED
            BY <1>1, <3>1, ServerMarking DEF ServerListOK
    <2>4. UNCHANGED <<serversDat, serverEdits, watchingServerDat, pendingServersLoad, serversListed,
                      servers, S!taskVars>>
        BY <1>4 DEF S!DeliverChange, S!DeliverRemove
    <2>5. QED
        BY <1>1, <2>1, <2>2, <2>3, <2>4 DEF ServerFileOK, ServerListOK, ServerTypes
<1>5. CASE RemoveInstance /\ UNCHANGED serverVars
    BY <1>1, <1>5 DEF serverVars, serverListVars, serverTaskVars, S!fileVars, S!listVars, S!taskVars, ServerTypes
<1>6. CASE ReplaceDotMinecraft
    BY <1>1, <1>6, WorldLoadAssumption
       DEF ReplaceDotMinecraft, serverListVars, serverTaskVars, S!listVars, S!taskVars, ServerFileOK, ServerTypes
<1>7. CASE DeliverDotMinecraft
    <2>1. serversState' \in LoadStates /\ dirtyServers' \in BOOLEAN
        BY <1>1, <1>7, ServerMarking DEF DeliverDotMinecraft
    <2>2. serverTarget' \in BOOLEAN
        BY <1>1, <1>7 DEF DeliverDotMinecraft, S!WatchFile, ServerFileOK
    <2>3. UNCHANGED <<serversDat, serverEdits, serverEvents, watchingServerDat, pendingServersLoad,
                      serversListed, servers, S!taskVars>>
        BY <1>7 DEF DeliverDotMinecraft, serverTaskVars, S!taskVars
    <2>4. QED
        BY <1>1, <2>1, <2>2, <2>3 DEF ServerFileOK, ServerListOK, ServerTypes
<1>8. ASSUME NEW l \in Loaders, S!StartLoad(l) PROVE ServerTypes'
    <2>1. serverTarget' \in BOOLEAN /\ watchingServerDat' \in BOOLEAN
        BY <1>1, <1>8 DEF S!StartLoad, S!WatchFile, ServerFileOK
    <2>2. ServerTasksOK'
        BY <1>1, <1>8 DEF S!StartLoad, ServerTasksOK
    <2>3. QED
        BY <1>1, <1>8, <2>1, <2>2 DEF S!StartLoad, ServerFileOK, ServerListOK, ServerTypes
<1>9. ASSUME NEW l \in Loaders, S!AwaitPending(l) \/ S!ReturnCached(l) \/ S!ReadServers(l)
      PROVE  ServerTypes'
    <2>1. ServerTasksOK'
        BY <1>1, <1>9 DEF S!AwaitPending, S!ReturnCached, S!ReadServers, ServerTasksOK, ServerListOK, ServerFileOK
    <2>2. QED
        BY <1>1, <1>9, <2>1 DEF S!AwaitPending, S!ReturnCached, S!ReadServers, S!stateVars, ServerTypes
<1>10. ASSUME NEW l \in Loaders, S!BeginLoad(l) PROVE ServerTypes'
    <2>1. ServerTasksOK' /\ ServerListOK'
        BY <1>1, <1>10 DEF S!BeginLoad, ServerTasksOK, ServerListOK, LoadStates
    <2>2. QED
        BY <1>1, <1>10, <2>1 DEF S!BeginLoad, ServerTypes
<1>11. ASSUME NEW l \in Loaders, S!FinishLoad(l) PROVE ServerTypes'
    <2>1. ServerTasksOK'
        BY <1>1, <1>11 DEF S!FinishLoad, ServerTasksOK
    <2>2. alive => serversState \in {"Loading", "LoadingDirty"}
        BY <1>11 DEF S!FinishLoad, S!Loading, ServerLoading
    <2>3. serversState' \in LoadStates
        BY <1>1, <1>11, <2>2 DEF S!FinishLoad, S!FinishedState, ServerListOK, LoadStates
    <2>4. serversListed' \in BOOLEAN /\ servers' \in Nat
        <3>1. serverFound[l] \in Nat /\ servers \in Nat /\ serversListed \in BOOLEAN
            BY <1>1 DEF ServerListOK, ServerTasksOK
        <3>2. (serversListed' = TRUE /\ servers' = serverFound[l]) \/ UNCHANGED <<serversListed, servers>>
            BY <1>11 DEF S!FinishLoad
        <3>3. QED
            BY <3>1, <3>2
    <2>5. QED
        BY <1>1, <1>11, <2>1, <2>3, <2>4 DEF S!FinishLoad, ServerListOK, ServerTypes
<1>12. QED
    BY <1>2, <1>3, <1>4, <1>5, <1>6, <1>7, <1>8, <1>9, <1>10, <1>11
       DEF ServerStep, S!Step, S!Deliver, S!LoadStep

LEMMA ServerLoadingKept ==
    ASSUME ServerLoading, pendingServersLoad' = pendingServersLoad, alive' => alive,
           \A l \in Loaders : S!Loading(l)' <=> S!Loading(l),
           serversState' \in {"Loading", "LoadingDirty"} <=> serversState \in {"Loading", "LoadingDirty"}
    PROVE  ServerLoading'
BY DEF ServerLoading

LEMMA ServerLoadingStep ==
    ASSUME DotOK, ServerInv, ServerStep
    PROVE  ServerLoading'
<1> USE DEF ServerInv
<1>1. ServerLoading /\ ServerListOK /\ ServerTasksOK
    BY DEF ServerTypes
<1>2. CASE S!WriteFile \/ S!RemoveFile \/ S!CoalesceEvents \/ ReplaceDotMinecraft
           \/ (RemoveInstance /\ UNCHANGED serverVars)
    <2>1. UNCHANGED <<pendingServersLoad, serversState, serverPc>> /\ (alive' => alive)
        BY <1>2 DEF S!WriteFile, S!RemoveFile, S!CoalesceEvents, ReplaceDotMinecraft, RemoveInstance,
                    serverVars, serverListVars, serverTaskVars, S!stateVars, S!listVars, S!taskVars
    <2>2. QED
        BY <1>1, <2>1, ServerLoadingKept DEF S!Loading
<1>3. CASE S!DeliverChange \/ S!DeliverRemove \/ DeliverDotMinecraft
    <2>1. S!MarkDirty \/ UNCHANGED <<serversState, dirtyServers>>
        BY <1>3 DEF S!DeliverChange, S!DeliverRemove, DeliverDotMinecraft
    <2>2. UNCHANGED <<pendingServersLoad, serverPc, alive>>
        BY <1>3 DEF S!DeliverChange, S!DeliverRemove, DeliverDotMinecraft, serverTaskVars, S!taskVars
    <2>3. QED
        BY <1>1, <2>1, <2>2, ServerMarking, ServerLoadingKept DEF S!Loading
<1>4. ASSUME NEW l \in Loaders, S!StartLoad(l) \/ S!AwaitPending(l) \/ S!ReturnCached(l) \/ S!ReadServers(l)
      PROVE  ServerLoading'
    <2>1. UNCHANGED <<pendingServersLoad, serversState, alive>>
        BY <1>4 DEF S!StartLoad, S!AwaitPending, S!ReturnCached, S!ReadServers, S!stateVars, S!listVars
    <2>2. \A k \in Loaders : S!Loading(k)' <=> S!Loading(k)
        BY <1>1, <1>4 DEF S!StartLoad, S!AwaitPending, S!ReturnCached, S!ReadServers, S!AtLoopTop,
                          S!Loading, ServerTasksOK
    <2>3. QED
        BY <1>1, <2>1, <2>2, ServerLoadingKept
<1>5. ASSUME NEW l \in Loaders, S!BeginLoad(l) PROVE ServerLoading'
    <2>1. \A k \in Loaders : ~S!Loading(k)
        BY <1>1, <1>5, WorldLoadAssumption DEF S!BeginLoad, S!LoadPending, ServerLoading
    <2>2. /\ serverPc' = [serverPc EXCEPT ![l] = "read"] /\ pendingServersLoad' = l
          /\ serversState' = "Loading"
        BY <1>5 DEF S!BeginLoad
    <2>3. \A k \in Loaders : S!Loading(k)' <=> k = l
        BY <1>1, <2>1, <2>2 DEF S!Loading, ServerTasksOK
    <2>4. QED
        BY <2>2, <2>3 DEF ServerLoading
<1>6. ASSUME NEW l \in Loaders, S!FinishLoad(l) PROVE ServerLoading'
    <2>1. S!Loading(l) /\ serverPc' = [serverPc EXCEPT ![l] = "idle"]
          /\ pendingServersLoad' = pendingServersLoad /\ alive' = alive
        BY <1>6 DEF S!FinishLoad, S!Loading
    <2>2. \A k \in Loaders : ~S!Loading(k)'
        BY <1>1, <2>1 DEF ServerLoading, S!Loading, ServerTasksOK
    <2>3. alive => serversState' \notin {"Loading", "LoadingDirty"}
        BY <1>6 DEF S!FinishLoad, S!FinishedState
    <2>4. QED
        BY <2>1, <2>2, <2>3 DEF ServerLoading
<1>7. QED
    BY <1>2, <1>3, <1>4, <1>5, <1>6 DEF ServerStep, S!Step, S!Deliver, S!LoadStep

LEMMA ServersWatchedStep ==
    ASSUME DotOK, ServerInv, ServerStep
    PROVE  ServersWatched'
<1> USE DEF ServerInv
<1>1. ServersWatched /\ ServerTasksOK /\ ServerListOK
    BY DEF ServerTypes
<1>2. CASE S!WriteFile \/ S!RemoveFile \/ S!CoalesceEvents \/ S!DeliverChange \/ S!DeliverRemove
           \/ ReplaceDotMinecraft \/ DeliverDotMinecraft \/ (RemoveInstance /\ UNCHANGED serverVars)
    <2>1. UNCHANGED <<serversListed, serverPc, watchingServerDat>> /\ (alive' => alive)
        BY <1>2 DEF S!WriteFile, S!RemoveFile, S!CoalesceEvents, S!DeliverChange, S!DeliverRemove,
                    ReplaceDotMinecraft, DeliverDotMinecraft, RemoveInstance, serverVars, serverListVars,
                    serverTaskVars, S!stateVars, S!listVars, S!taskVars
    <2>2. QED
        BY <1>1, <2>1 DEF ServersWatched
<1>3. ASSUME NEW l \in Loaders, S!StartLoad(l) PROVE ServersWatched'
    BY <1>3 DEF S!StartLoad, ServersWatched
<1>4. ASSUME NEW l \in Loaders, S!LoadStep(l) PROVE ServersWatched'
    <2>1. serverPc[l] # "idle" /\ UNCHANGED <<alive, watchingServerDat>>
        BY <1>4 DEF S!LoadStep, S!AwaitPending, S!ReturnCached, S!BeginLoad, S!ReadServers,
                    S!FinishLoad, S!AtLoopTop, S!stateVars
    <2>2. QED
        BY <1>1, <2>1 DEF ServersWatched
<1>5. QED
    BY <1>2, <1>3, <1>4 DEF ServerStep, S!Step, S!Deliver

\* The last event stays the last one until it is the only one.
LEMMA LastEvent ==
    ASSUME NEW q \in Seq({"change", "remove"}), q # <<>>
    PROVE  /\ Len(q) > 1 => Tail(q) # <<>> /\ Tail(q)[Len(Tail(q))] = q[Len(q)]
           /\ ~(Len(q) > 1) => Head(q) = q[Len(q)]
<1>1. Len(q) \in Nat /\ Len(q) >= 1
    OBVIOUS
<1>2. ASSUME Len(q) > 1 PROVE Tail(q) # <<>> /\ Tail(q)[Len(Tail(q))] = q[Len(q)]
    <2>1. Len(Tail(q)) = Len(q) - 1 /\ Len(Tail(q)) >= 1
        BY <1>1, <1>2
    <2>2. Tail(q)[Len(q) - 1] = q[Len(q)]
        BY <1>1, <1>2
    <2>3. Tail(q) # <<>>
        <3>1. Len(<<>>) = 0
            OBVIOUS
        <3>2. Tail(q) = <<>> => Len(Tail(q)) = 0
            BY <3>1, Zenon
        <3>3. QED
            BY <2>1, <3>2
    <2>4. QED
        BY <2>1, <2>2, <2>3, Zenon
<1>3. ASSUME ~(Len(q) > 1) PROVE Head(q) = q[Len(q)]
    <2> DEFINE n == Len(q)
    <2> HIDE DEF n
    <2>0. n \in Nat /\ n >= 1 /\ ~(n > 1)
        BY <1>1, <1>3 DEF n
    <2>1. n = 1
        BY <2>0
    <2>2. QED
        BY <2>1 DEF n
<1>4. QED
    BY <1>2, <1>3

LEMMA AppendedEvent ==
    ASSUME NEW q \in Seq({"change", "remove"}), NEW e \in {"change", "remove"}
    PROVE  Append(q, e) # <<>> /\ Append(q, e)[Len(Append(q, e))] = e
OBVIOUS

\* A step that keeps what is listed and found keeps it noticed if the signal
\* stays for as long as the file is what it was.
LEMMA ServersNoticedKept ==
    ASSUME ServersNoticed, alive' => alive, UNCHANGED <<serversListed, servers>>,
           \A l \in Loaders : S!Loading(l)' <=> S!Loading(l),
           \A l \in Loaders : serverPc'[l] = "done" => serverPc[l] = "done" /\ serverFound'[l] = serverFound[l],
           \A v \in Nat : alive /\ Seen(v) => Seen(v)',
           ServerTypes
    PROVE  ServersNoticed'
BY DEF ServersNoticed, ServerTypes, ServerListOK, ServerTasksOK

LEMMA ServersNoticedStep ==
    ASSUME DotOK, ServerInv, ServerStep
    PROVE  ServersNoticed'
<1> USE DEF ServerInv
<1>1. /\ ServersNoticed /\ ServersWatched /\ ServerTypes /\ ServerFileOK /\ ServerListOK /\ ServerTasksOK
      /\ watchingServerDat \in BOOLEAN
    BY DEF ServerTypes
<1>2. CASE (S!WriteFile \/ S!RemoveFile) /\ UNCHANGED dotEvent
    <2>1. UNCHANGED <<alive, serversListed, servers, serverPc, serverFound, dirtyServers, watchingServerDat>>
        BY <1>2 DEF S!WriteFile, S!RemoveFile, S!stateVars, S!listVars, S!taskVars
    <2>2. CASE ~watchingServerDat
        BY <1>1, <2>1, <2>2 DEF ServersNoticed, ServersWatched, ServerTasksOK
    <2>3. CASE watchingServerDat
        <3>1. CASE S!WriteFile
            <4>1. serverEvents' = Append(serverEvents, "change")
                BY <2>3, <3>1 DEF S!WriteFile, S!Report
            <4>2. ServerSignal'
                BY <1>1, <4>1, AppendedEvent DEF ServerSignal, ServerFileOK
            <4>3. \A v \in Nat : Seen(v)'
                BY <4>2 DEF Seen
            <4>4. QED
                BY <1>1, <2>1, <4>3, ServersNoticedKept DEF S!Loading
        <3>2. CASE S!RemoveFile
            <4>1. \A v \in Nat : Seen(v)'
                BY <3>2 DEF S!RemoveFile, Seen
            <4>2. QED
                BY <1>1, <2>1, <4>1, ServersNoticedKept DEF S!Loading
        <3>3. QED
            BY <1>2, <3>1, <3>2
    <2>4. QED
        BY <1>1, <2>2, <2>3
<1>3. CASE (S!CoalesceEvents \/ S!DeliverChange \/ S!DeliverRemove) /\ UNCHANGED dotEvent
    <2>1. UNCHANGED <<alive, serversDat, serversListed, servers, serverPc, serverFound>>
          /\ serverEvents # <<>> /\ serverEvents' = Tail(serverEvents)
        BY <1>3 DEF S!CoalesceEvents, S!DeliverChange, S!DeliverRemove, S!stateVars, S!listVars, S!taskVars
    <2>2. ASSUME alive, ServerSignal PROVE ServerSignal'
        <3>1. dirtyServers => dirtyServers'
            <4>1. S!MarkDirty \/ UNCHANGED dirtyServers
                BY <1>3 DEF S!CoalesceEvents, S!DeliverChange, S!DeliverRemove, S!stateVars, S!listVars
            <4>2. QED
                BY <1>1, <4>1, ServerMarking
        <3>2. CASE dirtyServers \/ dotEvent
            BY <1>3, <3>1, <3>2 DEF ServerSignal
        <3>3. CASE serverEvents[Len(serverEvents)] = "change" /\ Len(serverEvents) > 1
            BY <1>1, <2>1, <3>3, LastEvent DEF ServerFileOK, ServerSignal
        <3>4. CASE serverEvents[Len(serverEvents)] = "change" /\ ~(Len(serverEvents) > 1)
            <4>1. Head(serverEvents) = "change"
                BY <1>1, <2>1, <3>4, LastEvent DEF ServerFileOK
            <4>2. S!MarkDirty
                BY <1>3, <3>4, <4>1 DEF S!CoalesceEvents, S!DeliverChange, S!DeliverRemove
            <4>3. QED
                BY <1>1, <2>2, <4>2, ServerMarking DEF ServerSignal
        <3>5. QED
            BY <2>2, <3>2, <3>3, <3>4 DEF ServerSignal
    <2>3. \A v \in Nat : alive /\ Seen(v) => Seen(v)'
        BY <2>1, <2>2 DEF Seen
    <2>4. QED
        BY <1>1, <2>1, <2>3, ServersNoticedKept DEF S!Loading
<1>4. CASE RemoveInstance
    BY <1>4 DEF RemoveInstance, ServersNoticed
<1>5. CASE ReplaceDotMinecraft
    <2>1. \A v \in Nat : Seen(v)'
        BY <1>5 DEF ReplaceDotMinecraft, Seen, ServerSignal
    <2>2. QED
        BY <1>1, <1>5, <2>1, ServersNoticedKept DEF ReplaceDotMinecraft, serverListVars, serverTaskVars, S!Loading
<1>6. CASE DeliverDotMinecraft
    <2>1. alive => dirtyServers'
        BY <1>1, <1>6, ServerMarking DEF DeliverDotMinecraft
    <2>2. \A v \in Nat : alive => Seen(v)'
        BY <2>1 DEF Seen, ServerSignal
    <2>3. QED
        BY <1>1, <1>6, <2>2, ServersNoticedKept DEF DeliverDotMinecraft, serverTaskVars, S!Loading
<1>7. ASSUME NEW l \in Loaders, S!StartLoad(l) \/ S!AwaitPending(l) \/ S!ReturnCached(l), UNCHANGED dotEvent
      PROVE  ServersNoticed'
    <2>1. UNCHANGED <<serversDat, serverEvents, alive, dirtyServers, serversListed, servers, serverFound>>
        BY <1>7 DEF S!StartLoad, S!AwaitPending, S!ReturnCached, S!fileVars, S!stateVars, S!listVars
    <2>2. \A k \in Loaders : serverPc'[k] \in {"idle", "check"} \/ serverPc'[k] = serverPc[k]
        BY <1>1, <1>7 DEF S!StartLoad, S!AwaitPending, S!ReturnCached, ServerTasksOK
    <2>3. \A k \in Loaders : S!Loading(k)' <=> S!Loading(k)
        BY <1>1, <1>7 DEF S!StartLoad, S!AwaitPending, S!ReturnCached, S!AtLoopTop, S!Loading, ServerTasksOK
    <2>4. \A v \in Nat : Seen(v) => Seen(v)'
        BY <1>7, <2>1 DEF Seen, ServerSignal
    <2>5. QED
        BY <1>1, <2>1, <2>2, <2>3, <2>4, ServersNoticedKept
<1>8. ASSUME NEW l \in Loaders, S!BeginLoad(l) PROVE ServersNoticed'
    <2>1. \A k \in Loaders : ~S!Loading(k)
        BY <1>1, <1>8, WorldLoadAssumption DEF S!BeginLoad, S!LoadPending, ServerLoading
    <2>2. serverPc' = [serverPc EXCEPT ![l] = "read"]
        BY <1>8 DEF S!BeginLoad
    <2>3. S!Loading(l)' /\ \A k \in Loaders : serverPc'[k] # "done"
        BY <1>1, <2>1, <2>2 DEF S!Loading, ServerTasksOK
    <2>4. QED
        BY <2>3 DEF ServersNoticed
<1>9. ASSUME NEW l \in Loaders, S!ReadServers(l), UNCHANGED dotEvent PROVE ServersNoticed'
    <2>1. /\ serverPc[l] = "read" /\ serverPc' = [serverPc EXCEPT ![l] = "done"]
          /\ serverFound' = [serverFound EXCEPT ![l] = serversDat]
          /\ UNCHANGED <<serversDat, serverEvents, dirtyServers, alive>>
        BY <1>9 DEF S!ReadServers, S!fileVars, S!stateVars, S!listVars
    <2>2. \A k \in Loaders : k # l => serverPc'[k] # "done"
        BY <1>1, <2>1 DEF ServerLoading, S!Loading, ServerTasksOK
    <2>3. serverFound'[l] = serversDat' /\ serverPc'[l] = "done"
        BY <1>1, <2>1 DEF ServerTasksOK
    <2>4. QED
        BY <2>2, <2>3 DEF ServersNoticed, Seen, S!Loading
<1>10. ASSUME NEW l \in Loaders, S!FinishLoad(l), UNCHANGED dotEvent PROVE ServersNoticed'
    <2>1. /\ serverPc[l] = "done" /\ serverPc' = [serverPc EXCEPT ![l] = "idle"]
          /\ UNCHANGED <<serversDat, serverEvents, dirtyServers, alive>>
          /\ alive => servers' = serverFound[l]
        BY <1>10 DEF S!FinishLoad, S!fileVars
    <2>2. \A k \in Loaders : serverPc'[k] # "done"
        BY <1>1, <2>1 DEF ServerLoading, S!Loading, ServerTasksOK
    <2>3. alive => Seen(serverFound[l])
        BY <1>1, <2>1 DEF ServersNoticed
    <2>4. alive => Seen(servers)'
        BY <1>10, <2>1, <2>3 DEF Seen, ServerSignal
    <2>5. QED
        BY <2>1, <2>2, <2>4 DEF ServersNoticed
<1>11. QED
    BY <1>2, <1>3, <1>4, <1>5, <1>6, <1>7, <1>8, <1>9, <1>10 DEF ServerStep, S!Step, S!Deliver, S!LoadStep

LEMMA ServerStepKeeps ==
    ASSUME DotOK, ServerInv, ServerStep \/ UNCHANGED <<serverVars, alive, dotEvent>>
    PROVE  ServerInv'
<1>1. CASE UNCHANGED <<serverVars, alive, dotEvent>>
    <2>1. UNCHANGED <<serversDat, serverEdits, serverEvents, serverTarget, watchingServerDat, serversState,
                      dirtyServers, pendingServersLoad, serversListed, servers, serverPc, serverAwaiting,
                      serverFound, alive, dotEvent>>
        BY <1>1 DEF serverVars, serverListVars, serverTaskVars
    <2>2. ServerTypes'
        BY <2>1 DEF ServerInv, ServerTypes, ServerFileOK, ServerListOK, ServerTasksOK
    <2>3. ServerLoading' /\ ServersWatched' /\ ServersNoticed'
        BY <2>1 DEF ServerInv, ServerLoading, ServersWatched, ServersNoticed, S!Loading, Seen, ServerSignal
    <2>4. QED
        BY <2>2, <2>3 DEF ServerInv
<1>2. QED
    BY <1>1, ServerTypesStep, ServerLoadingStep, ServersWatchedStep, ServersNoticedStep DEF ServerInv

-----------------------------------------------------------------------------
(* Both lists.                                                              *)

IInv == DotOK /\ WorldInv /\ ServerInv

LEMMA IInvStep == IInv /\ [ListsNext]_listsVars => IInv'
<1> SUFFICES ASSUME IInv, [ListsNext]_listsVars PROVE IInv'
    OBVIOUS
<1> USE DEF IInv
<1>1. CASE Step /\ UNCHANGED <<serverVars, dotVars>>
    <2>1. alive' = alive
        BY <1>1 DEF Step, Environment, Deliver, DeliverWorldEvent, DeliverSavesRemoved, DeliverSavesCreated,
                    StartLoad, LoadStep, AwaitPending, ReturnCached, BeginLoad, ReadWorld, KeepOld,
                    FinishLoad, FinishAfterRemoval, WatchWorlds
    <2>2. QED
        BY <1>1, <2>1, WorldStepKeeps, ServerStepKeeps DEF WorldStep, dotVars, DotOK
<1>2. CASE S!Step /\ UNCHANGED <<worldVars, dotVars>>
    <2>1. alive' = alive
        BY <1>2 DEF S!Step, S!WriteFile, S!RemoveFile, S!Deliver, S!CoalesceEvents, S!DeliverChange,
                    S!DeliverRemove, S!StartLoad, S!LoadStep, S!AwaitPending, S!ReturnCached, S!BeginLoad,
                    S!ReadServers, S!FinishLoad, S!stateVars
    <2>2. QED
        BY <1>2, <2>1, WorldStepKeeps, ServerStepKeeps DEF ServerStep, dotVars, DotOK
<1>3. CASE RemoveInstance /\ UNCHANGED <<serverVars, dotVars>>
    BY <1>3, WorldStepKeeps, ServerStepKeeps DEF WorldStep, ServerStep, RemoveInstance, dotVars, DotOK
<1>4. CASE ReplaceDotMinecraft \/ DeliverDotMinecraft
    <2>1. DotOK'
        BY <1>4 DEF ReplaceDotMinecraft, DeliverDotMinecraft, DotOK
    <2>2. QED
        BY <1>4, <2>1, WorldStepKeeps, ServerStepKeeps DEF WorldStep, ServerStep
<1>5. CASE UNCHANGED listsVars
    BY <1>5, WorldStepKeeps, ServerStepKeeps DEF listsVars, dotVars, DotOK
<1>6. QED
    BY <1>1, <1>2, <1>3, <1>4, <1>5 DEF ListsNext

THEOREM Invariance == ListsSpec => []IInv
<1>1. ListsInit => IInv
    BY WorldInit, ServerInit DEF IInv, DotOK, ListsInit, Init
<1>2. IInv /\ [ListsNext]_listsVars => IInv'
    BY IInvStep
<1>3. QED
    BY <1>1, <1>2, PTL DEF ListsSpec

\* However many tasks want a list, one reads it, and its page is told so for
\* exactly as long (Instance::load_worlds and load_servers).
THEOREM OneTaskReads == ListsSpec => []BothLoadingMeansOneLoader
<1>1. IInv => BothLoadingMeansOneLoader
    BY DEF IInv, WorldInv, WorldLoading, ServerInv, ServerLoading, BothLoadingMeansOneLoader,
           LoadingMeansOneLoader, S!LoadingMeansOneLoader
<1>2. QED
    BY <1>1, Invariance, PTL

\* Once nothing is under way every listed world has its directory and the
\* servers listed are those of the file: for any worlds and however often they
\* are changed, removed and replaced (backend_filesystem.rs).
THEOREM ListsAreRight == ListsSpec => []ListsAreCurrent
<1>1. ASSUME IInv PROVE ListedWorldsExist
    <2> SUFFICES ASSUME ~dotEvent, Settled, NEW s \in worlds PROVE disk[s.world] # Absent
        BY DEF ListedWorldsExist, SettledWorldsExist
    <2>1. alive /\ listed /\ \A l \in Loaders : pc[l] # "read"
        BY DEF Settled
    <2>2. disk[s.world] = Absent => WorldSignal(s.world)
        BY <1>1, <2>1 DEF IInv, WorldInv, WorldsNoticed, Noticed
    <2>3. QED
        BY <2>2 DEF WorldSignal, Settled
<1>2. ASSUME IInv PROVE ListedServersMatchFile
    <2> SUFFICES ASSUME ~dotEvent, S!Settled, serversDat # 0 PROVE servers = serversDat
        BY DEF ListedServersMatchFile, S!SettledServersMatchFile
    <2>1. Seen(servers)
        BY <1>2 DEF IInv, ServerInv, ServersNoticed, S!Settled
    <2>2. QED
        BY <2>1 DEF Seen, ServerSignal, S!Settled
<1>3. IInv => ListsAreCurrent
    BY <1>1, <1>2 DEF ListsAreCurrent
<1>4. QED
    BY <1>3, Invariance, PTL
=============================================================================
