-------------------------------- MODULE Syncing --------------------------------
(***************************************************************************)
(* What instances share (backend/src/syncing.rs): a folder that each links  *)
(* to, a file of which each gets the latest copy when it is launched, and   *)
(* options.txt, which is put together line by line.  One folder, "saves",   *)
(* stands for all, and "servers" for the files that are copied.             *)
(*                                                                          *)
(* The main loop takes one message at a time, and it waits for a launch.    *)
(* That prepares the instance first, before its modpacks are installed and  *)
(* before it is known whether its game runs already, and starts the game a  *)
(* long time later; the games that run write their files meanwhile.  To set *)
(* links and to prepare an instance takes a moment, and each is one step.   *)
(***************************************************************************)
EXTENDS Naturals

CONSTANTS
    Instances,
    Options,       \* keys of options.txt
    LocalOptions,  \* "resourcePacks" and "incompatibleResourcePacks"
    MaxClock       \* bound: writes of files, which also tell their time

VARIABLES
    targets,   \* BackendConfig::sync_targets
    folder,    \* saves: "none", "own", "link" to the shared one or "foreign", a broken link
    options,   \* options.txt of each instance and when it was written, 0: never
    fallback,  \* fallback_options.txt
    servers,   \* servers.dat of each instance and when it was written
    game,      \* the options that a running game has in memory
    clock,
    launching, \* the instance that was prepared and whose game is not started yet
    lastSet,   \* history: what options the users set last
    lastList,  \* history: the last list of servers that was saved
    stale,     \* history: a game wrote options that had been changed in another one
    due        \* history: what the game that is launched should start with

syncVars == <<targets, folder, options, fallback, servers, game, clock, launching, lastSet, lastList, stale, due>>
fileVars == <<options, fallback, servers, clock>>
history == <<lastSet, lastList, stale, due>>

NotThere == 0
Default == 1

NothingDue == [options |-> [k \in Options |-> NotThere], list |-> NotThere, linkable |-> FALSE]

SyncInit ==
    /\ targets = {}
    /\ folder \in [Instances -> {"none", "own", "foreign"}]
    /\ \E played \in SUBSET Instances :
          options = [i \in Instances |->
                       IF i \in played THEN [time |-> Default, values |-> [k \in Options |-> Default]]
                       ELSE [time |-> 0, values |-> [k \in Options |-> NotThere]]]
    /\ fallback = [k \in Options |-> NotThere]
    /\ servers = [i \in Instances |-> [time |-> 0, list |-> NotThere]]
    /\ game = [i \in Instances |-> <<>>]
    /\ clock = Default
    /\ launching = {} /\ due = NothingDue
    /\ lastSet = [k \in Options |-> Default] /\ lastList = NotThere /\ stale = FALSE

Running(i) == game[i] # <<>>
MainLoopIsFree == launching = {}
Tick == clock < MaxClock /\ clock' = clock + 1

-----------------------------------------------------------------------------
(* The syncing page: SetSyncing.                                             *)

\* A file is only taken down as wanted.
WantFile(t) ==
    /\ MainLoopIsFree
    /\ targets' \in {targets \cup {t}, targets \ {t}}
    /\ UNCHANGED <<folder, fileVars, game, launching, history>>

\* enable_all: no instance may have a folder of its own.
EnableFolder ==
    /\ MainLoopIsFree
    /\ \A i \in Instances : folder[i] \in {"none", "link"}
    /\ folder' = [i \in Instances |-> "link"]
    /\ targets' = targets \cup {"saves"}
    /\ UNCHANGED <<fileVars, game, launching, history>>

\* A broken link does not exist and is in the way all the same: those that were
\* linked before it stay so, and the target is not wanted.
EnableFails ==
    /\ MainLoopIsFree
    /\ \A i \in Instances : folder[i] # "own"
    /\ \E i \in Instances : folder[i] = "foreign"
    /\ \E before \in SUBSET {i \in Instances : folder[i] = "none"} :
          folder' = [i \in Instances |-> IF i \in before THEN "link" ELSE folder[i]]
    /\ UNCHANGED <<targets, fileVars, game, launching, history>>

Unlinked(f) == IF f = "link" THEN "none" ELSE f

\* disable_all
DisableFolder ==
    /\ MainLoopIsFree
    /\ folder' = [i \in Instances |-> Unlinked(folder[i])]
    /\ targets' = targets \ {"saves"}
    /\ UNCHANGED <<fileVars, game, launching, history>>

-----------------------------------------------------------------------------
(* Launches.  apply_to_instance is their first step.                         *)

Merged(old, new) == [k \in Options |-> IF new[k] = NotThere THEN old[k] ELSE new[k]]

Shared(values) == [k \in Options |-> IF k \in LocalOptions THEN NotThere ELSE values[k]]

\* What the file of j tells for a launch of i.
Taken(i, j) == IF j = i THEN options[j].values ELSE Shared(options[j].values)

\* Mutant: the files are merged in the order the directory lists them.
CombinedAsListed(i) ==
    [k \in Options |->
        LET tellers == {j \in Instances : Taken(i, j)[k] # NotThere}
        IN  IF tellers = {} THEN fallback[k] ELSE Taken(i, CHOOSE j \in tellers : TRUE)[k]]

\* create_combined_options_txt: later files overwrite earlier ones, so an option is
\* as the latest file has it that has it at all.
Combined(i) ==
    [k \in Options |->
        LET tellers == {j \in Instances : Taken(i, j)[k] # NotThere}
            last == CHOOSE j \in tellers : \A h \in tellers : options[h].time <= options[j].time
        IN  IF tellers = {} THEN fallback[k] ELSE Taken(i, last)[k]]

ApplyFolder(i) ==
    folder' = [folder EXCEPT ![i] = IF "saves" \notin targets THEN Unlinked(@)
                                    ELSE IF @ = "none" THEN "link" ELSE @]

ApplyOptions(i) ==
    IF "options" \in targets
    THEN /\ options' = [options EXCEPT ![i] = [time |-> clock', values |-> Combined(i)]]
         /\ fallback' = Combined(i)
    ELSE UNCHANGED <<options, fallback>>

\* find_latest
Latest(j) == \A k \in Instances : servers[k].time <= servers[j].time

\* The latest list is copied, and the copy is the latest from now on.
ApplyServers(i) ==
    IF "servers" \notin targets \/ Latest(i) THEN UNCHANGED servers
    ELSE \E j \in Instances : Latest(j) /\ servers' = [servers EXCEPT ![i] = [servers[j] EXCEPT !.time = clock']]

\* What was set last, anywhere, and of the local options what the instance has.
DueTo(i) ==
    [options |-> [k \in Options |-> IF k \in LocalOptions THEN options[i].values[k] ELSE lastSet[k]],
     list |-> lastList,
     linkable |-> folder[i] \in {"none", "link"}]

\* Also if the game of the instance runs.
Prelaunch(i) ==
    /\ MainLoopIsFree
    /\ Tick
    /\ ApplyFolder(i) /\ ApplyOptions(i) /\ ApplyServers(i)
    /\ launching' = {i} /\ due' = DueTo(i)
    /\ UNCHANGED <<targets, game, lastSet, lastList, stale>>

\* The launch is cancelled, it fails or the launcher ends; or the game runs already.
EndLaunch ==
    /\ launching # {}
    /\ launching' = {} /\ due' = NothingDue
    /\ UNCHANGED <<targets, folder, fileVars, game, lastSet, lastList, stale>>

\* The game reads its options; what is not there has its default.
StartGame(i) ==
    /\ i \in launching /\ ~Running(i)
    /\ game' = [game EXCEPT ![i] = <<Merged([k \in Options |-> Default], options[i].values)>>]
    /\ launching' = {} /\ due' = NothingDue
    /\ UNCHANGED <<targets, folder, fileVars, lastSet, lastList, stale>>

-----------------------------------------------------------------------------
(* The games and the user.                                                   *)

\* A game writes all options it knows, one of which may be changed.
WriteOptions(i, changed) ==
    LET values == [k \in Options |-> IF k \in changed THEN clock' ELSE game[i][1][k]] IN
    /\ Running(i)
    /\ Tick
    /\ game' = [game EXCEPT ![i] = <<values>>]
    /\ options' = [options EXCEPT ![i] = [time |-> clock', values |-> values]]
    /\ lastSet' = [k \in Options |-> IF k \in changed THEN clock' ELSE lastSet[k]]
    /\ stale' = (stale \/ Shared(game[i][1]) # Shared(lastSet))
    /\ due' = [due EXCEPT !.options = IF i \in launching THEN values ELSE @]
    /\ UNCHANGED <<targets, folder, fallback, servers, launching, lastList>>

SaveServers(i) ==
    /\ Running(i)
    /\ Tick
    /\ servers' = [servers EXCEPT ![i] = [time |-> clock', list |-> clock']]
    /\ lastList' = clock'
    /\ due' = [due EXCEPT !.list = IF i \in launching THEN clock' ELSE @]
    /\ UNCHANGED <<targets, folder, options, fallback, game, launching, lastSet, stale>>

SaveWorld(i) ==
    /\ Running(i) /\ folder[i] = "none"
    /\ folder' = [folder EXCEPT ![i] = "own"]
    /\ UNCHANGED <<targets, fileVars, game, launching, history>>

MoveFolderAway(i) ==
    /\ folder[i] \in {"own", "foreign"}
    /\ folder' = [folder EXCEPT ![i] = "none"]
    /\ UNCHANGED <<targets, fileVars, game, launching, history>>

Exit(i) ==
    /\ Running(i)
    /\ game' = [game EXCEPT ![i] = <<>>]
    /\ UNCHANGED <<targets, folder, fileVars, launching, history>>

SyncNext ==
    \/ \E t \in {"options", "servers"} : WantFile(t)
    \/ EnableFolder \/ EnableFails \/ DisableFolder \/ EndLaunch
    \/ \E i \in Instances :
         \/ Prelaunch(i) \/ StartGame(i)
         \/ \E changed \in {{}} \cup {{k} : k \in Options} : WriteOptions(i, changed)
         \/ SaveServers(i) \/ SaveWorld(i) \/ MoveFolderAway(i) \/ Exit(i)

SyncSpec == SyncInit /\ [][SyncNext]_syncVars

-----------------------------------------------------------------------------
\* A game starts with what is synced and with nothing else: the list of servers that
\* was saved last, wherever, when its launch began, or by a game of the instance that
\* was not over then; the options that were set last till then, but its own resource
\* packs; the shared folder exactly if that is wanted, although enabling it may have
\* stopped half-way (syncing.rs:12-71, 105-149, backend.rs:634-646).  The exceptions:
\* a folder that is in the way, and options once two games that run at a time have
\* overwritten them.  What another game writes between the first step of a launch and
\* the start is not there: the code does not look again.
GamesStartInSync ==
    [][\A i \in Instances : ~Running(i) /\ Running(i)' =>
          /\ due.linkable => (folder[i] = "link" <=> "saves" \in targets)
          /\ "servers" \in targets => servers[i].list = due.list
          /\ "options" \in targets /\ ~stale => Shared(game'[i][1]) = Shared(due.options)
          /\ \A k \in LocalOptions \cap Options :
                due.options[k] # NotThere => game'[i][1][k] = due.options[k]]_syncVars
=============================================================================
