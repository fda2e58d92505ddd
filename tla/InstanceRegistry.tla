-------------------------- MODULE InstanceRegistry --------------------------
(***************************************************************************)
(* How the backend keeps its table of instances in step with the folders   *)
(* in the launcher's "instances" directory: load_all_instances,            *)
(* load_instance_from_path, remove_instance, create_instance and           *)
(* rename_instance in backend/src/backend.rs, the slab of id_slab.rs and   *)
(* the watcher's events in backend/src/backend_filesystem.rs.              *)
(*                                                                         *)
(* The main loop handles one request or one event at a time; folders       *)
(* change under it, and an event tells it so later.                        *)
(***************************************************************************)
EXTENDS Naturals, Sequences, FiniteSets

CONSTANTS
    Names,        \* names of instance folders
    None,
    Invalid,      \* WatchTarget::InvalidInstanceDir
    MaxEdits,     \* bound on the changes made to the folders from outside
    MaxRequests   \* bound on the user's requests

\* An InstanceID: a slot of the slab and the generation it was filled in.
Ids == [slot : Nat, gen : Nat]

ASSUME InstanceRegistryAssumption ==
    /\ None \notin Names
    /\ None \notin Ids /\ Invalid \notin Ids \cup {None}
    /\ MaxEdits \in Nat
    /\ MaxRequests \in Nat

Instances == [id : Ids, root : Names, dot : Names]
EventKinds == {"change", "remove", "rename", "infoChanged", "infoRemoved",
               "rootRemoved", "rootChanged"}
Events == [kind : EventKinds, name : Names \cup {None}, to : Names \cup {None}]
Event(kind, n, m) == [kind |-> kind, name |-> n, to |-> m]

VARIABLES
    dir,          \* each folder: "absent", "bare", or "info": it has a readable info_v1.json
    rootExists,   \* the "instances" directory is there
    edits,
    kernel,       \* folders whose children the operating system watches
    rootKernel,   \* does it watch "instances"?
    events,       \* undelivered events, oldest first
    slab,         \* BackendStateInstances.instances
    byPath,       \* instance_by_path: the last id given to a folder, or None
    generation,   \* instances_generation
    target,       \* WatchTarget of each folder: an id, Invalid or None
    rootTarget,   \* has "instances" a WatchTarget?
    toLoad,       \* folders load_instance_from_path is still to be called for
    fromInfo,     \* the call comes from an event of info_v1.json
    toWatch,      \* the watch the main loop is about to set
    requests,     \* messages of the user not yet handled, oldest first
    sent,         \* requests sent so far
    shown,        \* what the frontend shows: id and name of each instance
    dead,         \* the main loop panicked
    troubles      \* history: unusual things that happened to the folders

diskVars == <<dir, rootExists, edits, kernel, rootKernel, events>>
tableVars == <<slab, byPath, generation, shown>>
watchVars == <<target, rootTarget>>
loopVars == <<toLoad, fromInfo, toWatch, dead>>
userVars == <<requests, sent>>
vars == <<diskVars, tableVars, watchVars, loopVars, userVars, troubles>>

NoWatch == [name |-> None, target |-> None]

Present == {n \in Names : dir[n] # "absent"}

\* The launcher has started and is about to load the folders it has listed.
Init ==
    /\ dir \in [Names -> {"absent", "bare", "info"}]
    /\ rootExists = TRUE /\ edits = 0
    /\ kernel = {} /\ rootKernel = TRUE
    /\ events = <<>>
    /\ slab = {} /\ byPath = [n \in Names |-> None] /\ generation = 0 /\ shown = {}
    /\ target = [n \in Names |-> None] /\ rootTarget = TRUE
    /\ toLoad = Present /\ fromInfo = FALSE /\ toWatch = NoWatch /\ dead = FALSE
    /\ requests = <<>> /\ sent = 0
    /\ troubles = {}

-----------------------------------------------------------------------------
(* Folders change: by hand, or by the launcher's own requests.              *)

Emit(cond, e) == IF cond THEN Append(events, e) ELSE events

MakeDir(n) ==
    /\ rootExists /\ dir[n] = "absent"
    /\ dir' = [dir EXCEPT ![n] = "bare"]
    /\ events' = Emit(rootKernel, Event("change", n, None))
    /\ UNCHANGED <<rootExists, kernel, rootKernel>>

WriteInfo(n) ==
    /\ dir[n] # "absent"
    /\ dir' = [dir EXCEPT ![n] = "info"]
    /\ events' = Emit(n \in kernel, Event("infoChanged", n, None))
    /\ UNCHANGED <<rootExists, kernel, rootKernel>>

RemoveInfo(n) ==
    /\ dir[n] = "info"
    /\ dir' = [dir EXCEPT ![n] = "bare"]
    /\ events' = Emit(n \in kernel, Event("infoRemoved", n, None))
    /\ UNCHANGED <<rootExists, kernel, rootKernel>>

RemoveDir(n) ==
    /\ dir[n] # "absent"
    /\ dir' = [dir EXCEPT ![n] = "absent"]
    /\ kernel' = kernel \ {n}
    /\ events' = Emit(rootKernel, Event("remove", n, None))
    /\ UNCHANGED <<rootExists, rootKernel>>

\* A folder that is there has something in it: nothing is renamed over it.
RenameDir(n, m) ==
    /\ dir[n] # "absent" /\ dir[m] = "absent"
    /\ dir' = [dir EXCEPT ![n] = "absent", ![m] = dir[n]]
    /\ kernel' = kernel \ {n}
    /\ events' = Emit(rootKernel, Event("rename", n, m))
    /\ UNCHANGED <<rootExists, rootKernel>>

\* The launcher's own directory is always watched.
RemoveRoot ==
    /\ rootExists
    /\ rootExists' = FALSE
    /\ dir' = [n \in Names |-> "absent"]
    /\ kernel' = {} /\ rootKernel' = FALSE
    /\ events' = Append(events, Event("rootRemoved", None, None))

MakeRoot ==
    /\ ~rootExists
    /\ rootExists' = TRUE
    /\ events' = Append(events, Event("rootChanged", None, None))
    /\ UNCHANGED <<dir, kernel, rootKernel>>

\* Between a load and the watch that follows it a change is not reported, and
\* before a new "instances" is watched the removal of a folder in it is not.
EditTroubles(rename) ==
    troubles \cup (IF toWatch # NoWatch THEN {"gap"} ELSE {})
             \cup (IF rename THEN {"rename"} ELSE {})
             \cup (IF /\ ~rootKernel /\ rootExists'
                        /\ \E n \in kernel : dir'[n] = "absent" THEN {"unseen"} ELSE {})

Edit ==
    /\ edits < MaxEdits /\ edits' = edits + 1
    /\ \/ /\ \/ \E n \in Names : MakeDir(n) \/ WriteInfo(n) \/ RemoveInfo(n) \/ RemoveDir(n)
             \/ RemoveRoot
             \/ MakeRoot
          /\ troubles' = EditTroubles(FALSE)
       \/ /\ \E n, m \in Names : RenameDir(n, m)
          /\ troubles' = EditTroubles(TRUE)
    /\ UNCHANGED <<tableVars, watchVars, loopVars, userVars>>

-----------------------------------------------------------------------------
(* The table.                                                               *)

\* Mutant: a slot is looked up without a look at the generation.
FindBySlot(id) == {i \in slab : id \in Ids /\ i.id.slot = id.slot}

\* IdSlab::get: the instance with this id, if it is still there.
Find(id) == {i \in slab : i.id = id}

FreeSlots == {s \in 1..Cardinality(slab) + 1 : \A i \in slab : i.id.slot # s}

Entry(i) == [id |-> i.id, name |-> i.root]

\* Mutant: the frontend is not told.
ForgetSilently(is) == slab' = slab \ is /\ UNCHANGED shown

Forget(is) ==
    /\ slab' = slab \ is
    /\ shown' = {s \in shown : \A i \in is : s.id # i.id}

\* The instances are other folders' from now on, for the frontend too.
Rebase(is, new) ==
    /\ slab' = (slab \ is) \cup new
    /\ shown' = {s \in shown : \A i \in is : s.id # i.id} \cup {Entry(i) : i \in new}

-----------------------------------------------------------------------------
(* load_instance_from_path, in the two steps the folders can change between. *)

Busy == toLoad # {} \/ toWatch # NoWatch \/ dead

\* No instance can be read from the folder: one read from it before goes.
LoadFails(n) ==
    /\ dir[n] # "info"
    /\ Forget(Find(byPath[n]))
    /\ toWatch' = IF fromInfo THEN NoWatch ELSE [name |-> n, target |-> Invalid]
    /\ UNCHANGED <<byPath, generation>>

\* copy_basic_attributes_from: the content folders stay what they were, and
\* the folder is not watched again.
LoadUpdates(n) ==
    /\ dir[n] = "info"
    /\ Find(byPath[n]) # {}
    /\ Rebase(Find(byPath[n]), {[i EXCEPT !.root = n] : i \in Find(byPath[n])})
    /\ UNCHANGED <<byPath, generation, toWatch>>

NewInstance(id, n) == [id |-> id, root |-> n, dot |-> n]

LoadInserts(n) ==
    /\ dir[n] = "info"
    /\ Find(byPath[n]) = {}
    /\ \E s \in FreeSlots :
          LET id == [slot |-> s, gen |-> generation]
              new == NewInstance(id, n)
          IN  /\ slab' = slab \cup {new}
              /\ shown' = shown \cup {Entry(new)}
              /\ byPath' = [byPath EXCEPT ![n] = id]
              /\ toWatch' = [name |-> n, target |-> id]
    /\ generation' = generation + 1

LoadInstance(n) ==
    /\ n \in toLoad /\ toWatch = NoWatch
    /\ toLoad' = toLoad \ {n}
    /\ LoadFails(n) \/ LoadUpdates(n) \/ LoadInserts(n)
    /\ UNCHANGED <<diskVars, watchVars, fromInfo, dead, userVars, troubles>>

\* Mutant: a folder that is watched stays watched as what it was.
WatchOnce(n, t) ==
    IF dir[n] = "absent" \/ target[n] # None
    THEN UNCHANGED <<target, kernel>>
    ELSE target' = [target EXCEPT ![n] = t] /\ kernel' = kernel \cup {n}

\* watch_filesystem: a folder that is not there is not watched.
Watch(n, t) ==
    IF dir[n] = "absent"
    THEN UNCHANGED <<target, kernel>>
    ELSE target' = [target EXCEPT ![n] = t] /\ kernel' = kernel \cup {n}

SetWatch ==
    /\ toWatch # NoWatch
    /\ Watch(toWatch.name, toWatch.target)
    /\ toWatch' = NoWatch
    /\ UNCHANGED <<dir, rootExists, edits, rootKernel, events, tableVars, rootTarget, toLoad,
                   fromInfo, dead, userVars, troubles>>

-----------------------------------------------------------------------------
(* The watcher's events.                                                    *)

Delivers(kind) == ~Busy /\ events # <<>> /\ Head(events).kind = kind /\ events' = Tail(events)

\* Mutant: the folder is not loaded.
LoadsNothing(n, info) == UNCHANGED <<toLoad, fromInfo>>

\* A folder that may become an instance, or the parent of one that did.
Loads(n, info) == toLoad' = {n} /\ fromInfo' = info

Ignored == UNCHANGED <<toLoad, fromInfo>>

DeliverChange ==
    /\ Delivers("change")
    /\ LET n == Head(events).name
       IN  IF rootTarget /\ dir[n] # "absent" THEN Loads(n, FALSE) ELSE Ignored
    /\ UNCHANGED <<dir, rootExists, edits, kernel, rootKernel, tableVars, watchVars, toWatch, dead>>

DeliverRemove ==
    /\ Delivers("remove")
    /\ LET n == Head(events).name
       IN  /\ Forget(Find(target[n]))
           /\ target' = [target EXCEPT ![n] = None]
    /\ UNCHANGED <<dir, rootExists, edits, kernel, rootKernel, byPath, generation, rootTarget, loopVars>>

\* An instance follows its folder.  instance_by_path does not.
DeliverRename ==
    /\ Delivers("rename")
    /\ LET n == Head(events).name
           m == Head(events).to
           cleared == [target EXCEPT ![n] = None]
           moved == {[i EXCEPT !.root = m, !.dot = m] : i \in Find(target[n])}
       IN  IF Find(target[n]) # {}
           THEN /\ Rebase(Find(target[n]), moved)
                /\ IF dir[m] = "absent"
                   THEN target' = cleared /\ UNCHANGED kernel
                   ELSE target' = [cleared EXCEPT ![m] = target[n]] /\ kernel' = kernel \cup {m}
                /\ Ignored
           ELSE /\ target' = cleared
                /\ IF rootTarget /\ dir[m] # "absent" THEN Loads(m, FALSE) ELSE Ignored
                /\ UNCHANGED <<slab, shown, kernel>>
    /\ UNCHANGED <<dir, rootExists, edits, rootKernel, byPath, generation, rootTarget, toWatch, dead>>

DeliverInfoChanged ==
    /\ Delivers("infoChanged")
    /\ LET n == Head(events).name
       IN  IF target[n] # None /\ Find(target[n]) = {} THEN Loads(n, TRUE) ELSE Ignored
    /\ UNCHANGED <<dir, rootExists, edits, kernel, rootKernel, tableVars, watchVars, toWatch, dead>>

DeliverInfoRemoved ==
    /\ Delivers("infoRemoved")
    /\ LET n == Head(events).name
       IN  IF target[n] \in Ids
           THEN Forget(Find(target[n])) /\ Watch(n, Invalid)
           ELSE UNCHANGED <<slab, shown, target, kernel>>
    /\ UNCHANGED <<dir, rootExists, edits, rootKernel, byPath, generation, rootTarget, loopVars>>

DeliverRootRemoved ==
    /\ Delivers("rootRemoved")
    /\ IF rootTarget
       THEN Forget(slab) /\ byPath' = [n \in Names |-> None]
       ELSE UNCHANGED <<slab, shown, byPath>>
    /\ rootTarget' = FALSE
    /\ UNCHANGED <<dir, rootExists, edits, kernel, rootKernel, generation, target, loopVars>>

\* load_all_instances: read_dir(..).unwrap() panics when "instances" is gone.
DeliverRootChanged ==
    /\ Delivers("rootChanged")
    /\ IF rootExists
       THEN /\ rootTarget' = TRUE /\ rootKernel' = TRUE
            /\ toLoad' = Present /\ fromInfo' = FALSE
            /\ UNCHANGED dead
       ELSE /\ dead' = TRUE
            /\ UNCHANGED <<rootTarget, rootKernel, toLoad, fromInfo>>
    /\ UNCHANGED <<dir, rootExists, edits, kernel, tableVars, target, toWatch>>

\* Of two adjacent events of one path in one batch only the last is handled.
SamePath(e, f) ==
    /\ "rename" \notin {e.kind, f.kind}
    /\ e.name = f.name
    /\ \E kinds \in {{"change", "remove"}, {"infoChanged", "infoRemoved"},
                     {"rootChanged", "rootRemoved"}} : {e.kind, f.kind} \subseteq kinds

Coalesce ==
    /\ ~Busy /\ Len(events) > 1
    /\ SamePath(events[1], events[2])
    /\ events' = Tail(events)
    /\ troubles' = IF events[1].kind \in {"remove", "rootRemoved"}
                   THEN troubles \cup {"replaced"} ELSE troubles
    /\ UNCHANGED <<dir, rootExists, edits, kernel, rootKernel, tableVars, watchVars, loopVars, userVars>>

DeliverEvent ==
    /\ \/ DeliverChange \/ DeliverRemove \/ DeliverRename
       \/ DeliverInfoChanged \/ DeliverInfoRemoved
       \/ DeliverRootRemoved \/ DeliverRootChanged
    /\ UNCHANGED <<userVars, troubles>>

-----------------------------------------------------------------------------
(* The user's requests.                                                     *)

Request(op, id, n) == [op |-> op, id |-> id, name |-> n, at |-> generation]

SendRequest ==
    /\ sent < MaxRequests
    /\ sent' = sent + 1
    /\ \/ \E s \in shown : requests' = Append(requests, Request("delete", s.id, None))
       \/ \E s \in shown, n \in Names : requests' = Append(requests, Request("rename", s.id, n))
       \/ \E n \in Names : requests' = Append(requests, Request("create", None, n))
    /\ UNCHANGED <<diskVars, tableVars, watchVars, loopVars, troubles>>

Handles(op) == ~Busy /\ requests # <<>> /\ Head(requests).op = op /\ requests' = Tail(requests)

DeleteInstance ==
    /\ Handles("delete")
    /\ LET found == {i \in Find(Head(requests).id) : dir[i.root] # "absent"}
       IN  IF found = {} THEN UNCHANGED <<diskVars, troubles>>
           ELSE /\ \E i \in found : RemoveDir(i.root)
                /\ troubles' = EditTroubles(FALSE)
                /\ UNCHANGED edits
    /\ UNCHANGED <<tableVars, watchVars, loopVars, sent>>

NameUsed(n) == \E i \in slab : i.root = n

RenameInstance ==
    /\ Handles("rename")
    /\ LET n == Head(requests).name
           found == {i \in Find(Head(requests).id) : dir[i.root] # "absent"}
       IN  IF NameUsed(n) \/ dir[n] # "absent" \/ found = {}
           THEN UNCHANGED <<diskVars, troubles>>
           ELSE /\ \E i \in found : RenameDir(i.root, n)
                /\ troubles' = EditTroubles(TRUE)
                /\ UNCHANGED edits
    /\ UNCHANGED <<tableVars, watchVars, loopVars, sent>>

CreateInstance ==
    /\ Handles("create")
    /\ LET n == Head(requests).name
           watched == rootKernel \/ rootExists
           made == IF rootExists THEN events ELSE Append(events, Event("rootChanged", None, None))
           news == IF dir[n] = "absent"
                   THEN IF watched THEN <<Event("change", n, None)>> ELSE <<>>
                   ELSE IF n \in kernel THEN <<Event("infoChanged", n, None)>> ELSE <<>>
       IN  IF NameUsed(n) THEN UNCHANGED <<diskVars, rootTarget>>
           ELSE /\ rootTarget' = (rootTarget \/ rootExists)
                /\ rootKernel' = watched
                /\ rootExists' = TRUE
                /\ dir' = [dir EXCEPT ![n] = "info"]
                /\ events' = made \o news
                /\ UNCHANGED <<edits, kernel>>
    /\ UNCHANGED <<tableVars, target, loopVars, sent, troubles>>

HandleRequest == DeleteInstance \/ RenameInstance \/ CreateInstance

MainLoop ==
    \/ \E n \in Names : LoadInstance(n)
    \/ SetWatch
    \/ DeliverEvent
    \/ Coalesce
    \/ HandleRequest

Next == Edit \/ SendRequest \/ MainLoop

Spec == Init /\ [][Next]_vars

\* The main loop goes on as long as it has something to do.
FairSpec == Spec /\ WF_vars(MainLoop)

-----------------------------------------------------------------------------
(* Properties.                                                              *)

\* The type invariant.
TypeOK ==
    /\ dir \in [Names -> {"absent", "bare", "info"}]
    /\ rootExists \in BOOLEAN
    /\ edits \in Nat
    /\ kernel \subseteq Names
    /\ rootKernel \in BOOLEAN
    /\ events \in Seq(Events)
    /\ slab \subseteq Instances
    /\ byPath \in [Names -> Ids \cup {None}]
    /\ generation \in Nat
    /\ target \in [Names -> Ids \cup {None, Invalid}]
    /\ rootTarget \in BOOLEAN
    /\ toLoad \subseteq Names
    /\ fromInfo \in BOOLEAN
    /\ toWatch \in [name : Names, target : Ids \cup {Invalid}] \cup {NoWatch}
    /\ dead \in BOOLEAN
    /\ requests \in Seq([op : {"delete", "rename", "create"}, id : Ids \cup {None},
                         name : Names \cup {None}, at : Nat])
    /\ sent \in Nat
    /\ shown \subseteq [id : Ids, name : Names]
    /\ troubles \subseteq {"gap", "rename", "replaced", "unseen"}

\* What the frontend was told adds up to the table, whichever way instances
\* come, go and change their names.
FrontendMirrorsTable == shown = {Entry(i) : i \in slab}

\* One instance for each folder that is one, with its own paths, and every
\* folder watched as what it is.
RegistryMatchesDisk ==
    /\ \A n \in Names : dir[n] = "info" <=> NameUsed(n)
    /\ \A i, j \in slab : i.root = j.root => i = j
    /\ \A i \in slab : i.dot = i.root /\ target[i.root] = i.id
    /\ \A n \in Present : n \in kernel /\ (dir[n] = "bare" => target[n] = Invalid)

Settled == ~Busy /\ events = <<>> /\ rootExists

\* Once every event is handled the table is what is on disk, as long as
\* nothing changed between a load and its watch, no folder was renamed, none
\* was replaced within one batch of events and none removed from an
\* "instances" that is not watched yet.
SettledRegistryMatchesDisk == Settled /\ troubles = {} => RegistryMatchesDisk

\* A delete request removes at most the folder of an instance that was in
\* the table when the user asked, although slots are used again.
DeletesOnlyWhatWasShown ==
    [][DeleteInstance /\ dir' # dir =>
         \E i \in slab : /\ i.id.gen < Head(requests).at
                         /\ dir' = [dir EXCEPT ![i.root] = "absent"]]_vars

\* When the folders stop changing the table ends up as what is on disk.
EventuallyRegistered ==
    <>[](dead \/ troubles # {} \/ ~rootExists \/ RegistryMatchesDisk)
=============================================================================
