---------------------------- MODULE ServerLoad -----------------------------
(***************************************************************************)
(* How the backend keeps an instance's server list in step with            *)
(* .minecraft/servers.dat: Instance::load_servers in                       *)
(* backend/src/instance.rs, load_instance_servers in backend/src/backend.rs*)
(* and the watcher's events in backend/src/backend_filesystem.rs.          *)
(*                                                                         *)
(* The file has a watch target of its own, which a removal takes away; the *)
(* .minecraft directory, watched since the first load, reports the file    *)
(* when it comes back.  Adjacent events of one path are coalesced.         *)
(***************************************************************************)
EXTENDS Naturals, Sequences

CONSTANTS
    Loaders,   \* tasks running load_instance_servers
    None,
    MaxEdits   \* bound on the changes made to the file

VARIABLES
    serversDat,       \* version of servers.dat, 0 when there is none
    serverEdits,
    serverEvents,     \* undelivered events of the file, oldest first
    serverTarget,     \* servers.dat is registered as WatchTarget::ServersDat
    watchingServerDat,   \* Instance.watching_server_dat
    alive,
    serversState, dirtyServers, pendingServersLoad,
    serversListed, servers,  \* servers: Some or None, and the version it was read from
    serverPc, serverAwaiting,
    serverFound       \* the version each finished reading saw

fileVars == <<serversDat, serverEdits, serverEvents, serverTarget>>
listVars == <<serversState, dirtyServers, pendingServersLoad, serversListed, servers>>
stateVars == <<watchingServerDat, alive, listVars>>
taskVars == <<serverPc, serverAwaiting, serverFound>>
serverVars == <<fileVars, watchingServerDat, listVars, taskVars>>
vars == <<serverVars, alive>>

Init ==
    /\ serversDat \in {0, 1}
    /\ serverEdits = 1
    /\ serverEvents = <<>>
    /\ serverTarget = FALSE /\ watchingServerDat = FALSE /\ alive = TRUE
    /\ serversState = "Unloaded" /\ dirtyServers = TRUE
    /\ pendingServersLoad = None /\ serversListed = FALSE /\ servers = 0
    /\ serverPc = [l \in Loaders |-> "idle"]
    /\ serverAwaiting = [l \in Loaders |-> None]
    /\ serverFound = [l \in Loaders |-> 0]

-----------------------------------------------------------------------------
(* The file, rewritten or moved away and back by the game.                  *)

Report(kind) == serverEvents' = IF watchingServerDat THEN Append(serverEvents, kind) ELSE serverEvents

WriteFile ==
    /\ serverEdits < MaxEdits
    /\ serverEdits' = serverEdits + 1
    /\ serversDat' = serverEdits + 1
    /\ Report("change")
    /\ UNCHANGED <<serverTarget, stateVars, taskVars>>

RemoveFile ==
    /\ serverEdits < MaxEdits
    /\ serverEdits' = serverEdits + 1
    /\ serversDat # 0
    /\ serversDat' = 0
    /\ Report("remove")
    /\ UNCHANGED <<serverTarget, stateVars, taskVars>>

-----------------------------------------------------------------------------
(* The watcher's events.                                                    *)

\* handle_filesystem keeps only the last of adjacent events of one path.
CoalesceEvents ==
    /\ Len(serverEvents) > 1
    /\ serverEvents' = Tail(serverEvents)
    /\ UNCHANGED <<serversDat, serverEdits, serverTarget, stateVars, taskVars>>

DirtyState(s) ==
    CASE s = "Loading" -> "LoadingDirty"
      [] s = "Loaded"  -> "LoadedDirty"
      [] OTHER         -> s

\* mark_servers_dirty
MarkDirty ==
    IF ~alive \/ dirtyServers
    THEN UNCHANGED <<serversState, dirtyServers>>
    ELSE dirtyServers' = TRUE /\ serversState' = DirtyState(serversState)

\* watch_filesystem fails, and registers nothing, when there is no file.
WatchFile == serverTarget' = (serverTarget \/ serversDat # 0)

\* With a target the file itself is marked; without one .minecraft reports it
\* as a child, and it is marked and watched again if the instance is there.
DeliverChange ==
    /\ serverEvents # <<>> /\ Head(serverEvents) = "change"
    /\ serverEvents' = Tail(serverEvents)
    /\ MarkDirty
    /\ IF serverTarget \/ ~alive THEN UNCHANGED serverTarget ELSE WatchFile
    /\ UNCHANGED <<serversDat, serverEdits, watchingServerDat, alive, pendingServersLoad, serversListed, servers, taskVars>>

\* The target is taken away; with it the removal is marked and the file is
\* listened to again at once, without it the event is ignored.
DeliverRemove ==
    /\ serverEvents # <<>> /\ Head(serverEvents) = "remove"
    /\ serverEvents' = Tail(serverEvents)
    /\ IF serverTarget THEN MarkDirty ELSE UNCHANGED <<serversState, dirtyServers>>
    /\ serverTarget' = (serverTarget /\ serversDat # 0)
    /\ UNCHANGED <<serversDat, serverEdits, watchingServerDat, alive, pendingServersLoad, serversListed, servers, taskVars>>

RemoveInstance ==
    /\ alive
    /\ alive' = FALSE
    /\ UNCHANGED <<fileVars, watchingServerDat, serversState, dirtyServers, pendingServersLoad, serversListed, servers, taskVars>>

-----------------------------------------------------------------------------
(* The loading tasks.                                                       *)

StartLoad(l) ==
    /\ serverPc[l] = "idle"
    /\ serverPc' = [serverPc EXCEPT ![l] = "check"]
    /\ watchingServerDat' = (watchingServerDat \/ alive)
    /\ IF alive /\ ~watchingServerDat THEN WatchFile ELSE UNCHANGED serverTarget
    /\ UNCHANGED <<serversDat, serverEdits, serverEvents, alive, serversState, dirtyServers, pendingServersLoad,
                   serversListed, servers, serverAwaiting, serverFound>>

AtLoopTop(l) == serverPc[l] = "check" /\ serverAwaiting[l] = None

\* A signal that is not notified: its load still reads or has just read.
Loading(l) == serverPc[l] \in {"read", "done"}
\* Mutant: pending_servers_load is not consulted.
IgnorePending == FALSE

LoadPending == pendingServersLoad # None /\ Loading(pendingServersLoad)

AwaitPending(l) ==
    /\ AtLoopTop(l)
    /\ alive
    /\ LoadPending
    /\ serverAwaiting' = [serverAwaiting EXCEPT ![l] = pendingServersLoad]
    /\ UNCHANGED <<fileVars, stateVars, serverPc, serverFound>>

ReturnCached(l) ==
    /\ AtLoopTop(l)
    /\ ~alive \/ (~LoadPending /\ serversListed /\ ~dirtyServers)
    /\ serverPc' = [serverPc EXCEPT ![l] = "idle"]
    /\ UNCHANGED <<fileVars, stateVars, serverAwaiting, serverFound>>

BeginLoad(l) ==
    /\ AtLoopTop(l)
    /\ alive
    /\ ~LoadPending
    /\ ~serversListed \/ dirtyServers
    /\ serverPc' = [serverPc EXCEPT ![l] = "read"]
    /\ pendingServersLoad' = l
    /\ serversState' = "Loading" /\ dirtyServers' = FALSE
    /\ UNCHANGED <<fileVars, watchingServerDat, alive, serversListed, servers, serverAwaiting, serverFound>>

ReadServers(l) ==
    /\ serverPc[l] = "read"
    /\ serverPc' = [serverPc EXCEPT ![l] = "done"]
    /\ serverFound' = [serverFound EXCEPT ![l] = serversDat]
    /\ UNCHANGED <<fileVars, stateVars, serverAwaiting>>

FinishedState(s) ==
    CASE s = "LoadingDirty" -> "LoadedDirty"
      [] s = "Loading"      -> "Loaded"
      [] OTHER              -> "unreachable"

\* The end of the load; its signal is notified whether or not the instance is
\* still there.
FinishLoad(l) ==
    /\ serverPc[l] = "done"
    /\ IF alive
       THEN /\ serversState' = FinishedState(serversState)
            /\ serversListed' = TRUE
            /\ servers' = serverFound[l]
       ELSE UNCHANGED <<serversState, serversListed, servers>>
    /\ serverPc' = [serverPc EXCEPT ![l] = "idle"]
    /\ serverFound' = [serverFound EXCEPT ![l] = 0]
    /\ serverAwaiting' = [k \in Loaders |-> IF serverAwaiting[k] = l THEN None ELSE serverAwaiting[k]]
    /\ UNCHANGED <<fileVars, watchingServerDat, alive, dirtyServers, pendingServersLoad>>

LoadStep(l) ==
    \/ AwaitPending(l)
    \/ ReturnCached(l)
    \/ BeginLoad(l)
    \/ ReadServers(l)
    \/ FinishLoad(l)

Deliver == CoalesceEvents \/ DeliverChange \/ DeliverRemove

\* Every step but the removal of the instance.
Step ==
    \/ WriteFile
    \/ RemoveFile
    \/ Deliver
    \/ \E l \in Loaders : StartLoad(l) \/ LoadStep(l)

Next == Step \/ RemoveInstance

Spec == Init /\ [][Next]_vars

-----------------------------------------------------------------------------
(* Properties.                                                              *)

\* The page is told "loading" exactly while one task, and only one, reads.
LoadingMeansOneLoader ==
    alive =>
      /\ \A k, l \in Loaders : Loading(k) /\ Loading(l) => k = l
      /\ serversState \in {"Loading", "LoadingDirty"} <=> \E l \in Loaders : Loading(l)

Settled ==
    /\ alive /\ serversListed /\ ~dirtyServers
    /\ serverEvents = <<>>
    /\ \A l \in Loaders : ~Loading(l)

\* Once every event is delivered and nothing loads, a servers.dat that exists
\* is the one listed, although a removal takes its watch target away and a
\* removal that finds no target is ignored.
SettledServersMatchFile == Settled /\ serversDat # 0 => servers = serversDat
=============================================================================
