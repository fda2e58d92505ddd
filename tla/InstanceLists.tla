--------------------------- MODULE InstanceLists ---------------------------
(***************************************************************************)
(* One instance with its world list and its server list: they share the    *)
(* instance, which may be removed under both, and the .minecraft directory,*)
(* which may be replaced as a whole (backend/src/backend_filesystem.rs).   *)
(***************************************************************************)
EXTENDS WorldLoad, Sequences

VARIABLES serversDat, serverEdits, serverEvents, serverTarget, watchingServerDat,
          serversState, dirtyServers, pendingServersLoad, serversListed, servers,
          serverPc, serverAwaiting, serverFound

S == INSTANCE ServerLoad

VARIABLES
    replaced,   \* .minecraft was replaced: once is enough
    dotEvent    \* the event of the new .minecraft is not delivered yet

dotVars == <<replaced, dotEvent>>
serverListVars == <<serversState, dirtyServers, pendingServersLoad, serversListed, servers>>
serverTaskVars == <<serverPc, serverAwaiting, serverFound>>
serverVars == <<serversDat, serverEdits, serverEvents, serverTarget, watchingServerDat,
                serverListVars, serverTaskVars>>
listsVars == <<worldVars, serverVars, alive, dotVars>>

ListsInit == Init /\ S!Init /\ replaced = FALSE /\ dotEvent = FALSE

\* Another .minecraft is moved in place of the old one; the instance's
\* directory is watched and reports it.
ReplaceDotMinecraft ==
    /\ ~replaced
    /\ replaced' = TRUE
    /\ saves' \in {"absent", "unwatched"}
    /\ disk' \in [Worlds -> IF saves' = "absent" THEN {Absent} ELSE {Absent, MaxEdits + 1}]
    /\ watchedWorlds' = {}
    /\ serversDat' \in {0, MaxEdits + 1}
    /\ dotEvent' = TRUE
    /\ UNCHANGED <<edits, events, savesEvents, alive, watchingSaves, markVars, listVars, taskVars,
                   serverEdits, serverEvents, serverTarget, watchingServerDat, serverListVars, serverTaskVars>>

\* Everything is marked, then everything that was watched is watched again.
DeliverDotMinecraft ==
    /\ dotEvent
    /\ dotEvent' = FALSE
    /\ MarkAllDirty
    /\ S!MarkDirty
    /\ saves' = IF alive /\ watchingSaves /\ saves = "unwatched" THEN "watched" ELSE saves
    /\ IF alive /\ watchingServerDat THEN S!WatchFile ELSE UNCHANGED serverTarget
    /\ UNCHANGED <<disk, watchedWorlds, edits, events, savesEvents, alive, watchingSaves,
                   listVars, taskVars, serversDat, serverEdits, serverEvents, watchingServerDat,
                   pendingServersLoad, serversListed, servers, serverTaskVars, replaced>>

ListsNext ==
    \/ Step /\ UNCHANGED <<serverVars, dotVars>>
    \/ S!Step /\ UNCHANGED <<worldVars, dotVars>>
    \/ RemoveInstance /\ UNCHANGED <<serverVars, dotVars>>
    \/ ReplaceDotMinecraft
    \/ DeliverDotMinecraft

ListsSpec == ListsInit /\ [][ListsNext]_listsVars

-----------------------------------------------------------------------------
(* Properties.                                                              *)

\* Each list has one task that reads while its page is told "loading", and no
\* task when it is not, although the instance may be removed under both
\* (instance.rs:213, 364: the pending handles).
BothLoadingMeansOneLoader == LoadingMeansOneLoader /\ S!LoadingMeansOneLoader

\* A .minecraft that is replaced as a whole does not leave a deleted world in
\* the list: its event marks both lists before anything is watched again.
ListedWorldsExist == ~dotEvent => SettledWorldsExist

\* ... nor the servers of the old one.
ListedServersMatchFile == ~dotEvent => S!SettledServersMatchFile

\* What both lists promise once nothing is under way, whatever was replaced,
\* removed and rewritten, in any order with the watcher's events.
ListsAreCurrent == ListedWorldsExist /\ ListedServersMatchFile
=============================================================================
