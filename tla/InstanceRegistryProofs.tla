----------------------- MODULE InstanceRegistryProofs -----------------------
(***************************************************************************)
(* Proofs about InstanceRegistry, for any set of folder names and any      *)
(* number of changes and requests.                                         *)
(*                                                                         *)
(* The argument about ids: an instance gets the generation as part of its  *)
(* id and the generation then grows, so every id in the table, and every   *)
(* id the frontend was shown, is older than the generation.  A slot is     *)
(* filled only if no instance has it.  So a request, which carries an id   *)
(* that was shown, finds the instance it was meant for or none.            *)
(*                                                                         *)
(* The argument about the disk follows the queue of events: see DiskInv.   *)
(***************************************************************************)
EXTENDS InstanceRegistry, TLAPS

\* An event of a folder names it; only those of "instances" do not.
NamedEvents ==
    {e \in Events : /\ e.kind \notin {"rootRemoved", "rootChanged"} => e.name \in Names
                    /\ e.kind = "rename" => e.to \in Names}

AnyRequest == [op : {"delete", "rename", "create"}, id : Ids \cup {None},
               name : Names \cup {None}, at : Nat]

\* A request about an instance carries the id of one that had been inserted
\* when the request was sent.
KnownRequests ==
    {r \in AnyRequest : /\ r.op \in {"delete", "rename"} => r.id \in Ids /\ r.id.gen < r.at
                        /\ r.op \in {"rename", "create"} => r.name \in Names}

\* No two instances share a slot, and every id is older than the generation.
SlotsAreUnique ==
    /\ \A i \in slab : i.id.gen < generation
    /\ \A i, j \in slab : i.id.slot = j.id.slot => i = j

\* An id that is no instance's any more is never an instance's again: what
\* IdSlab's generations are for.  A WatchTarget or an entry of
\* instance_by_path that dangles stays dangling.
DanglingIdsStayDangling ==
    [][\A id \in Ids : id.gen < generation /\ Find(id) = {} => Find(id)' = {}]_vars

\* TypeOK, by the parts that change together.
DiskOK ==
    /\ dir \in [Names -> {"absent", "bare", "info"}]
    /\ rootExists \in BOOLEAN
    /\ edits \in Nat
    /\ kernel \subseteq Names
    /\ rootKernel \in BOOLEAN
    /\ events \in Seq(NamedEvents)

TableOK ==
    /\ slab \subseteq Instances
    /\ byPath \in [Names -> Ids \cup {None}]
    /\ generation \in Nat
    /\ shown \subseteq [id : Ids, name : Names]
    /\ FrontendMirrorsTable
    /\ SlotsAreUnique

WatchOK ==
    /\ target \in [Names -> Ids \cup {None, Invalid}]
    /\ rootTarget \in BOOLEAN

LoopOK ==
    /\ toLoad \subseteq Names
    /\ fromInfo \in BOOLEAN
    /\ toWatch \in [name : Names, target : Ids \cup {Invalid}] \cup {NoWatch}
    /\ dead \in BOOLEAN

UserOK ==
    /\ requests \in Seq(KnownRequests)
    /\ sent \in Nat

IInv == DiskOK /\ TableOK /\ WatchOK /\ LoopOK /\ UserOK
        /\ troubles \subseteq {"gap", "rename", "replaced", "unseen"}

-----------------------------------------------------------------------------
(* The table's operations.                                                  *)

LEMMA FindIsPart == ASSUME NEW id PROVE Find(id) \subseteq slab /\ \A i \in Find(id) : i.id = id
  BY DEF Find

\* Forgetting every instance with some id, or all of them, keeps the
\* frontend in step.
LEMMA ForgetKeepsTable ==
    ASSUME TableOK, NEW is, is = slab \/ \E id : is = Find(id),
           Forget(is), byPath' \in [Names -> Ids \cup {None}], generation' = generation
    PROVE  TableOK'
  <1>1. \A i \in slab, j \in is : i.id = j.id => i \in is
    BY DEF Find
  <1>2. /\ slab' = slab \ is
        /\ shown' = {s \in shown : \A i \in is : s.id # i.id}
    BY DEF Forget
  <1>3. FrontendMirrorsTable'
    <2>1. shown = {Entry(i) : i \in slab}
      BY DEF TableOK, FrontendMirrorsTable
    <2>2. \A i : Entry(i).id = i.id
      BY DEF Entry
    <2>3. is \subseteq slab
      BY DEF Find
    <2>4. shown' = {Entry(i) : i \in slab \ is}
      BY <1>1, <1>2, <2>1, <2>2, <2>3
    <2> QED
      BY <1>2, <2>4 DEF FrontendMirrorsTable, Entry
  <1>4. SlotsAreUnique'
    BY <1>2 DEF TableOK, SlotsAreUnique
  <1> QED
    BY <1>2, <1>3, <1>4 DEF TableOK

\* So does giving the instance with some id other paths.
LEMMA RebaseKeepsTable ==
    ASSUME TableOK, NEW id, NEW new, new \subseteq Instances,
           \A j \in new : \E i \in Find(id) : j.id = i.id,
           \A j, k \in new : j = k,
           Rebase(Find(id), new), UNCHANGED <<byPath, generation>>
    PROVE  TableOK'
  <1>1. /\ slab' = (slab \ Find(id)) \cup new
        /\ shown' = {s \in shown : \A i \in Find(id) : s.id # i.id} \cup {Entry(i) : i \in new}
    BY DEF Rebase
  <1>2. shown' \subseteq [id : Ids, name : Names]
    BY <1>1 DEF TableOK, Entry, Instances
  <1>3. FrontendMirrorsTable'
    <2>1. shown = {Entry(i) : i \in slab}
      BY DEF TableOK, FrontendMirrorsTable
    <2>2. \A i : Entry(i).id = i.id
      BY DEF Entry
    <2>3. {s \in shown : \A i \in Find(id) : s.id # i.id} = {Entry(i) : i \in slab \ Find(id)}
      BY <2>1, <2>2 DEF Find
    <2> QED
      BY <1>1, <2>3 DEF FrontendMirrorsTable, Entry
  <1>4. SlotsAreUnique'
    BY <1>1 DEF TableOK, SlotsAreUnique, Find
  <1> QED
    BY <1>1, <1>2, <1>3, <1>4 DEF TableOK

\* At most one instance has an id.
LEMMA FindIsUnique ==
    ASSUME TableOK, NEW id
    PROVE  \A i, j \in Find(id) : i = j
  BY DEF Find, TableOK, SlotsAreUnique

LEMMA InsertKeepsTable ==
    ASSUME TableOK, NEW n \in Names, LoadInserts(n)
    PROVE  /\ TableOK'
           /\ toWatch' \in [name : Names, target : Ids \cup {Invalid}]
  <1> PICK s \in FreeSlots :
          LET id == [slot |-> s, gen |-> generation]
              new == NewInstance(id, n)
          IN  /\ slab' = slab \cup {new}
              /\ shown' = shown \cup {Entry(new)}
              /\ byPath' = [byPath EXCEPT ![n] = id]
              /\ toWatch' = [name |-> n, target |-> id]
    BY DEF LoadInserts
  <1> DEFINE id == [slot |-> s, gen |-> generation]
             new == NewInstance(id, n)
  <1>1. generation \in Nat /\ generation' = generation + 1
    BY DEF TableOK, LoadInserts
  <1>2. s \in Nat /\ \A i \in slab : i.id.slot # s
    BY DEF FreeSlots
  <1>3. id \in Ids /\ id.slot = s /\ id.gen = generation
    BY <1>1, <1>2 DEF Ids
  <1>4. new \in Instances /\ new.id = id
    BY <1>3 DEF NewInstance, Instances
  <1>5. slab' \subseteq Instances /\ byPath' \in [Names -> Ids \cup {None}]
    BY <1>3, <1>4 DEF TableOK
  <1>6. shown' \subseteq [id : Ids, name : Names]
    BY <1>4 DEF TableOK, Entry, Instances
  <1>7. FrontendMirrorsTable'
    BY DEF TableOK, FrontendMirrorsTable, Entry
  <1>8. SlotsAreUnique'
    <2>1. \A i \in slab' : i.id.gen < generation'
      <3>1. \A i \in slab : i.id.gen \in Nat /\ i.id.gen < generation
        BY DEF TableOK, SlotsAreUnique, Instances, Ids
      <3> QED
        BY <1>1, <1>3, <1>4, <3>1
    <2>2. \A i, j \in slab' : i.id.slot = j.id.slot => i = j
      BY <1>2, <1>3, <1>4 DEF TableOK, SlotsAreUnique
    <2> QED
      BY <2>1, <2>2 DEF SlotsAreUnique
  <1> QED
    BY <1>1, <1>3, <1>5, <1>6, <1>7, <1>8 DEF TableOK

-----------------------------------------------------------------------------
(* The folders.                                                             *)

LEMMA EventIsNamed ==
    ASSUME NEW kind \in EventKinds, NEW n \in Names \cup {None}, NEW m \in Names \cup {None},
           kind \notin {"rootRemoved", "rootChanged"} => n \in Names,
           kind = "rename" => m \in Names
    PROVE  Event(kind, n, m) \in NamedEvents
  BY DEF Event, NamedEvents, Events

LEMMA HeadIsNamed ==
    ASSUME DiskOK, events # <<>>
    PROVE  Head(events) \in NamedEvents /\ Tail(events) \in Seq(NamedEvents)
  BY DEF DiskOK

\* What a folder operation does, whoever performs it.
LEMMA FolderStep ==
    ASSUME DiskOK, edits' \in Nat,
           \/ \E n \in Names : MakeDir(n) \/ WriteInfo(n) \/ RemoveInfo(n) \/ RemoveDir(n)
           \/ \E n, m \in Names : RenameDir(n, m)
           \/ RemoveRoot
           \/ MakeRoot
    PROVE  DiskOK'
  <1> USE DEF DiskOK, Emit
  <1>1. ASSUME NEW n \in Names, MakeDir(n) PROVE DiskOK'
    <2>1. Event("change", n, None) \in NamedEvents
      BY EventIsNamed DEF EventKinds
    <2> QED
      BY <1>1, <2>1 DEF MakeDir
  <1>2. ASSUME NEW n \in Names, WriteInfo(n) PROVE DiskOK'
    <2>1. Event("infoChanged", n, None) \in NamedEvents
      BY EventIsNamed DEF EventKinds
    <2> QED
      BY <1>2, <2>1 DEF WriteInfo
  <1>3. ASSUME NEW n \in Names, RemoveInfo(n) PROVE DiskOK'
    <2>1. Event("infoRemoved", n, None) \in NamedEvents
      BY EventIsNamed DEF EventKinds
    <2> QED
      BY <1>3, <2>1 DEF RemoveInfo
  <1>4. ASSUME NEW n \in Names, RemoveDir(n) PROVE DiskOK'
    <2>1. Event("remove", n, None) \in NamedEvents
      BY EventIsNamed DEF EventKinds
    <2> QED
      BY <1>4, <2>1 DEF RemoveDir
  <1>5. ASSUME NEW n \in Names, NEW m \in Names, RenameDir(n, m) PROVE DiskOK'
    <2>1. Event("rename", n, m) \in NamedEvents
      BY EventIsNamed DEF EventKinds
    <2> QED
      BY <1>5, <2>1 DEF RenameDir
  <1>6. ASSUME RemoveRoot PROVE DiskOK'
    <2>1. Event("rootRemoved", None, None) \in NamedEvents
      BY EventIsNamed DEF EventKinds
    <2>2. dir' \in [Names -> {"absent", "bare", "info"}] /\ kernel' \subseteq Names
      BY <1>6 DEF RemoveRoot
    <2>3. events' \in Seq(NamedEvents)
      BY <1>6, <2>1 DEF RemoveRoot
    <2> QED
      BY <1>6, <2>2, <2>3 DEF RemoveRoot
  <1>7. ASSUME MakeRoot PROVE DiskOK'
    <2>1. Event("rootChanged", None, None) \in NamedEvents
      BY EventIsNamed DEF EventKinds
    <2> QED
      BY <1>7, <2>1 DEF MakeRoot
  <1> QED
    BY <1>1, <1>2, <1>3, <1>4, <1>5, <1>6, <1>7

LEMMA WatchStep ==
    ASSUME WatchOK, kernel \subseteq Names, rootTarget' \in BOOLEAN,
           NEW n \in Names, NEW t \in Ids \cup {Invalid}, Watch(n, t)
    PROVE  WatchOK' /\ kernel' \subseteq Names
  BY DEF WatchOK, Watch

LEMMA TableUnchanged ==
    ASSUME TableOK, UNCHANGED <<slab, byPath, generation, shown>>
    PROVE  TableOK'
  BY DEF TableOK, FrontendMirrorsTable, SlotsAreUnique, Entry

-----------------------------------------------------------------------------
(* Every step keeps the invariant.                                          *)

LEMMA InitHolds == Init => IInv
  <1> SUFFICES ASSUME Init PROVE IInv
    OBVIOUS
  <1> USE DEF Init
  <1>1. DiskOK
    BY DEF DiskOK
  <1>2. TableOK
    BY DEF TableOK, FrontendMirrorsTable, SlotsAreUnique
  <1>3. WatchOK
    BY DEF WatchOK
  <1>4. LoopOK
    BY DEF LoopOK, Present
  <1>5. UserOK
    BY DEF UserOK
  <1> QED
    BY <1>1, <1>2, <1>3, <1>4, <1>5 DEF IInv

LEMMA EditStep ==
    ASSUME IInv, Edit
    PROVE  IInv'
  <1>1. DiskOK'
    <2>1. DiskOK /\ edits' \in Nat
      BY DEF IInv, DiskOK, Edit
    <2>2. \/ \E n \in Names : MakeDir(n) \/ WriteInfo(n) \/ RemoveInfo(n) \/ RemoveDir(n)
          \/ \E n, m \in Names : RenameDir(n, m)
          \/ RemoveRoot
          \/ MakeRoot
      BY DEF Edit
    <2> QED
      BY <2>1, <2>2, FolderStep
  <1>2. TableOK' /\ WatchOK' /\ LoopOK' /\ UserOK'
    <2>1. UNCHANGED <<slab, byPath, generation, shown>>
      BY DEF Edit, tableVars
    <2> QED
      BY <2>1, TableUnchanged DEF IInv, Edit, WatchOK, LoopOK, UserOK, watchVars, loopVars, userVars
  <1>3. troubles' \subseteq {"gap", "rename", "replaced", "unseen"}
    BY DEF IInv, Edit, EditTroubles
  <1> QED
    BY <1>1, <1>2, <1>3 DEF IInv

LEMMA SendStep ==
    ASSUME IInv, SendRequest
    PROVE  IInv'
  <1>1. \A e \in shown : e.id \in Ids /\ e.id.gen < generation
    BY DEF IInv, TableOK, FrontendMirrorsTable, SlotsAreUnique, Entry
  <1>2. generation \in Nat
    BY DEF IInv, TableOK
  <1>3. \A e \in shown : Request("delete", e.id, None) \in KnownRequests
    BY <1>1, <1>2 DEF Request, KnownRequests, AnyRequest
  <1>4. \A e \in shown, n \in Names : Request("rename", e.id, n) \in KnownRequests
    BY <1>1, <1>2 DEF Request, KnownRequests, AnyRequest
  <1>5. \A n \in Names : Request("create", None, n) \in KnownRequests
    BY <1>2 DEF Request, KnownRequests, AnyRequest
  <1>6. UserOK'
    BY <1>3, <1>4, <1>5 DEF SendRequest, IInv, UserOK
  <1>7. UNCHANGED <<slab, byPath, generation, shown>>
    BY DEF SendRequest, tableVars
  <1>8. DiskOK' /\ TableOK' /\ WatchOK' /\ LoopOK'
    BY <1>7, TableUnchanged
    DEF SendRequest, IInv, DiskOK, WatchOK, LoopOK, diskVars, watchVars, loopVars
  <1> QED
    BY <1>6, <1>8 DEF IInv, SendRequest

LEMMA LoadStep ==
    ASSUME IInv, NEW n \in Names, LoadInstance(n)
    PROVE  IInv'
  <1>1. DiskOK' /\ WatchOK' /\ UserOK'
    BY DEF IInv, LoadInstance, DiskOK, WatchOK, UserOK, diskVars, watchVars, userVars
  <1>2. toLoad' \subseteq Names /\ fromInfo' \in BOOLEAN /\ dead' \in BOOLEAN
    BY DEF IInv, LoadInstance, LoopOK
  <1>3. TableOK' /\ toWatch' \in [name : Names, target : Ids \cup {Invalid}] \cup {NoWatch}
    <2>1. CASE LoadFails(n)
      <3>1. Forget(Find(byPath[n])) /\ UNCHANGED <<byPath, generation>>
        BY <2>1 DEF LoadFails
      <3>2. TableOK'
        BY <3>1, ForgetKeepsTable DEF IInv, TableOK
      <3> QED
        BY <2>1, <3>2 DEF LoadFails
    <2>2. CASE LoadUpdates(n)
      <3> DEFINE new == {[i EXCEPT !.root = n] : i \in Find(byPath[n])}
      <3>1. Rebase(Find(byPath[n]), new) /\ UNCHANGED <<byPath, generation, toWatch>>
        BY <2>2 DEF LoadUpdates
      <3>2. Find(byPath[n]) \subseteq Instances
        BY FindIsPart DEF IInv, TableOK
      <3>3. \A i \in Instances : /\ [i EXCEPT !.root = n] \in Instances
                                 /\ [i EXCEPT !.root = n].id = i.id
        BY DEF Instances
      <3>4. new \subseteq Instances /\ \A j \in new : \E i \in Find(byPath[n]) : j.id = i.id
        BY <3>2, <3>3
      <3>5. \A j, k \in new : j = k
        BY FindIsUnique DEF IInv
      <3> HIDE DEF new
      <3>6. TableOK'
        BY <3>1, <3>4, <3>5, RebaseKeepsTable DEF IInv
      <3> QED
        BY <3>1, <3>6 DEF IInv, LoopOK
    <2>3. CASE LoadInserts(n)
      BY <2>3, InsertKeepsTable DEF IInv
    <2> QED
      BY <2>1, <2>2, <2>3 DEF LoadInstance
  <1> QED
    BY <1>1, <1>2, <1>3 DEF IInv, LoopOK, LoadInstance

LEMMA SetWatchStep ==
    ASSUME IInv, SetWatch
    PROVE  IInv'
  <1>1. toWatch.name \in Names /\ toWatch.target \in Ids \cup {Invalid}
    BY DEF IInv, LoopOK, SetWatch
  <1>2. WatchOK' /\ kernel' \subseteq Names
    BY <1>1, WatchStep DEF IInv, WatchOK, DiskOK, SetWatch
  <1>3. DiskOK' /\ LoopOK' /\ UserOK'
    BY <1>2 DEF SetWatch, IInv, DiskOK, LoopOK, UserOK, userVars
  <1>4. UNCHANGED <<slab, byPath, generation, shown>>
    BY DEF SetWatch, tableVars
  <1>5. TableOK'
    BY <1>4, TableUnchanged DEF IInv
  <1> QED
    BY <1>2, <1>3, <1>5 DEF IInv, SetWatch

LEMMA DeliverStep ==
    ASSUME IInv, DeliverEvent
    PROVE  IInv'
  <1>1. UserOK' /\ troubles' \subseteq {"gap", "rename", "replaced", "unseen"}
    BY DEF DeliverEvent, IInv, UserOK, userVars
  <1>2. SUFFICES DiskOK' /\ TableOK' /\ WatchOK' /\ LoopOK'
    BY <1>1 DEF IInv
  <1> USE DEF IInv, Delivers
  <1>3. CASE DeliverChange
    <2>1. UNCHANGED <<slab, byPath, generation, shown>>
      BY <1>3 DEF DeliverChange, tableVars
    <2>2. DiskOK' /\ Head(events).name \in Names
      BY <1>3, HeadIsNamed DEF DeliverChange, DiskOK, NamedEvents
    <2>3. WatchOK'
      BY <1>3 DEF DeliverChange, WatchOK, watchVars
    <2>4. LoopOK'
      BY <1>3, <2>2 DEF DeliverChange, LoopOK, Loads, Ignored
    <2> QED
      BY <2>1, <2>2, <2>3, <2>4, TableUnchanged
  <1>4. CASE DeliverRemove
    <2>1. Forget(Find(target[Head(events).name])) /\ UNCHANGED <<byPath, generation>>
      BY <1>4 DEF DeliverRemove
    <2>2. TableOK'
      BY <2>1, ForgetKeepsTable DEF TableOK
    <2>3. DiskOK'
      BY <1>4, HeadIsNamed DEF DeliverRemove, DiskOK
    <2>4. WatchOK' /\ LoopOK'
      BY <1>4 DEF DeliverRemove, WatchOK, LoopOK, loopVars
    <2> QED
      BY <2>2, <2>3, <2>4
  <1>5. CASE DeliverRename
    <2> DEFINE n == Head(events).name
               m == Head(events).to
               cleared == [target EXCEPT ![n] = None]
               moved == {[i EXCEPT !.root = m, !.dot = m] : i \in Find(target[n])}
    <2>1. events' \in Seq(NamedEvents) /\ n \in Names /\ m \in Names
      BY <1>5, HeadIsNamed DEF DeliverRename, DiskOK, NamedEvents
    <2>2. cleared \in [Names -> Ids \cup {None, Invalid}]
      BY DEF WatchOK
    <2>3. UNCHANGED <<dir, rootExists, edits, rootKernel, byPath, generation, rootTarget, toWatch, dead>>
      BY <1>5 DEF DeliverRename
    <2>4. CASE Find(target[n]) # {}
      <3>1. Rebase(Find(target[n]), moved) /\ UNCHANGED <<toLoad, fromInfo>>
        BY <1>5, <2>4 DEF DeliverRename, Ignored
      <3>2. Find(target[n]) \subseteq Instances
        BY FindIsPart DEF TableOK
      <3>3. \A i \in Instances : /\ [i EXCEPT !.root = m, !.dot = m] \in Instances
                                 /\ [i EXCEPT !.root = m, !.dot = m].id = i.id
        BY <2>1 DEF Instances
      <3>4. moved \subseteq Instances /\ \A j \in moved : \E i \in Find(target[n]) : j.id = i.id
        BY <3>2, <3>3
      <3>5. \A j, k \in moved : j = k
        BY FindIsUnique
      <3>6. TableOK'
        <4> HIDE DEF n, moved
        <4> QED
          BY <2>3, <3>1, <3>4, <3>5, RebaseKeepsTable
      <3>7. target[n] \in Ids \cup {None, Invalid}
        BY <2>1 DEF WatchOK
      <3>8. target' \in [Names -> Ids \cup {None, Invalid}] /\ kernel' \subseteq Names
        <4>1. \/ target' = cleared /\ UNCHANGED kernel
              \/ target' = [cleared EXCEPT ![m] = target[n]] /\ kernel' = kernel \cup {m}
          BY <1>5, <2>4 DEF DeliverRename
        <4> HIDE DEF n, m, cleared
        <4> QED
          BY <2>1, <2>2, <3>7, <4>1 DEF DiskOK
      <3> QED
        BY <2>1, <2>3, <3>1, <3>6, <3>8 DEF DiskOK, WatchOK, LoopOK
    <2>5. CASE Find(target[n]) = {}
      <3>1. target' = cleared /\ UNCHANGED <<slab, shown, kernel>>
        BY <1>5, <2>5 DEF DeliverRename
      <3>2. toLoad' \subseteq Names /\ fromInfo' \in BOOLEAN
        BY <1>5, <2>1, <2>5 DEF DeliverRename, LoopOK, Loads, Ignored
      <3> QED
        BY <2>1, <2>2, <2>3, <3>1, <3>2, TableUnchanged DEF DiskOK, WatchOK, LoopOK
    <2> QED
      BY <2>4, <2>5
  <1>6. CASE DeliverInfoChanged
    <2>1. UNCHANGED <<slab, byPath, generation, shown>>
      BY <1>6 DEF DeliverInfoChanged, tableVars
    <2>2. DiskOK' /\ Head(events).name \in Names
      BY <1>6, HeadIsNamed DEF DeliverInfoChanged, DiskOK, NamedEvents
    <2>3. WatchOK'
      BY <1>6 DEF DeliverInfoChanged, WatchOK, watchVars
    <2>4. LoopOK'
      BY <1>6, <2>2 DEF DeliverInfoChanged, LoopOK, Loads, Ignored
    <2> QED
      BY <2>1, <2>2, <2>3, <2>4, TableUnchanged
  <1>7. CASE DeliverInfoRemoved
    <2> DEFINE n == Head(events).name
    <2>1. events' \in Seq(NamedEvents) /\ n \in Names
      BY <1>7, HeadIsNamed DEF DeliverInfoRemoved, DiskOK, NamedEvents
    <2>2. /\ UNCHANGED <<dir, rootExists, edits, rootKernel, byPath, generation, rootTarget>>
          /\ UNCHANGED loopVars
      BY <1>7 DEF DeliverInfoRemoved
    <2>3. CASE target[n] \in Ids
      <3>1. Forget(Find(target[n])) /\ Watch(n, Invalid)
        BY <1>7, <2>3 DEF DeliverInfoRemoved
      <3>2. TableOK'
        BY <2>2, <3>1, ForgetKeepsTable DEF TableOK
      <3>3. WatchOK' /\ kernel' \subseteq Names
        BY <2>1, <2>2, <3>1, WatchStep DEF DiskOK, WatchOK
      <3> QED
        BY <2>1, <2>2, <3>2, <3>3 DEF DiskOK, LoopOK, loopVars
    <2>4. CASE target[n] \notin Ids
      <3>1. UNCHANGED <<slab, shown, target, kernel>>
        BY <1>7, <2>4 DEF DeliverInfoRemoved
      <3> QED
        BY <2>1, <2>2, <3>1, TableUnchanged DEF DiskOK, WatchOK, LoopOK, loopVars
    <2> QED
      BY <2>3, <2>4
  <1>8. CASE DeliverRootRemoved
    <2>1. DiskOK' /\ WatchOK' /\ LoopOK'
      BY <1>8, HeadIsNamed DEF DeliverRootRemoved, DiskOK, WatchOK, LoopOK, loopVars
    <2>2. CASE rootTarget
      <3>1. /\ Forget(slab) /\ byPath' = [n \in Names |-> None]
            /\ UNCHANGED generation
        BY <1>8, <2>2 DEF DeliverRootRemoved
      <3> QED
        BY <2>1, <3>1, ForgetKeepsTable
    <2>3. CASE ~rootTarget
      <3>1. UNCHANGED <<slab, byPath, generation, shown>>
        BY <1>8, <2>3 DEF DeliverRootRemoved
      <3> QED
        BY <2>1, <3>1, TableUnchanged
    <2> QED
      BY <2>2, <2>3
  <1>9. CASE DeliverRootChanged
    <2>1. UNCHANGED <<slab, byPath, generation, shown>>
      BY <1>9 DEF DeliverRootChanged, tableVars
    <2>2. DiskOK'
      BY <1>9, HeadIsNamed DEF DeliverRootChanged, DiskOK
    <2>3. WatchOK'
      BY <1>9 DEF DeliverRootChanged, WatchOK
    <2>4. LoopOK'
      BY <1>9 DEF DeliverRootChanged, LoopOK, Present
    <2> QED
      BY <2>1, <2>2, <2>3, <2>4, TableUnchanged
  <1> QED
    BY <1>3, <1>4, <1>5, <1>6, <1>7, <1>8, <1>9 DEF DeliverEvent

LEMMA CoalesceStep ==
    ASSUME IInv, Coalesce
    PROVE  IInv'
  <1>1. events # <<>>
    BY DEF Coalesce, IInv, DiskOK
  <1>2. DiskOK'
    BY <1>1, HeadIsNamed DEF Coalesce, IInv, DiskOK
  <1>3. UNCHANGED <<slab, byPath, generation, shown>>
    BY DEF Coalesce, tableVars
  <1>4. WatchOK' /\ LoopOK' /\ UserOK'
    BY DEF Coalesce, IInv, WatchOK, LoopOK, UserOK, watchVars, loopVars, userVars
  <1>5. troubles' \subseteq {"gap", "rename", "replaced", "unseen"}
    BY DEF Coalesce, IInv
  <1> QED
    BY <1>2, <1>3, <1>4, <1>5, TableUnchanged DEF IInv

LEMMA RequestIsKnown ==
    ASSUME UserOK, requests # <<>>
    PROVE  Head(requests) \in KnownRequests /\ Tail(requests) \in Seq(KnownRequests)
  BY DEF UserOK

LEMMA RequestStep ==
    ASSUME IInv, HandleRequest
    PROVE  IInv'
  <1> USE DEF IInv, Handles
  <1>1. /\ UNCHANGED <<slab, byPath, generation, shown>>
        /\ UNCHANGED <<target, loopVars, sent>>
    BY DEF HandleRequest, DeleteInstance, RenameInstance, CreateInstance, tableVars, watchVars
  <1>2. TableOK' /\ LoopOK'
    BY <1>1, TableUnchanged DEF LoopOK, loopVars
  <1>3. requests # <<>> /\ requests' = Tail(requests)
    BY DEF HandleRequest, DeleteInstance, RenameInstance, CreateInstance
  <1>4. UserOK'
    BY <1>1, <1>3, RequestIsKnown DEF UserOK
  <1>5. \A i \in slab : i.root \in Names
    BY DEF TableOK, Instances
  <1>6. SUFFICES DiskOK' /\ WatchOK' /\ troubles' \subseteq {"gap", "rename", "replaced", "unseen"}
    BY <1>2, <1>4
  <1>7. CASE DeleteInstance
    <2>1. WatchOK'
      BY <1>7 DEF DeleteInstance, WatchOK, watchVars
    <2>2. troubles' \subseteq {"gap", "rename", "replaced", "unseen"}
      BY <1>7 DEF DeleteInstance, EditTroubles
    <2>3. CASE UNCHANGED diskVars
      BY <2>1, <2>2, <2>3 DEF DiskOK, diskVars
    <2>4. CASE ~UNCHANGED diskVars
      <3>1. (\E n \in Names : RemoveDir(n)) /\ UNCHANGED edits
        BY <1>5, <1>7, <2>4, FindIsPart DEF DeleteInstance
      <3>2. edits' \in Nat
        BY <3>1 DEF DiskOK
      <3> QED
        BY <2>1, <2>2, <3>1, <3>2, FolderStep
    <2> QED
      BY <2>3, <2>4
  <1>8. CASE RenameInstance
    <2>1. WatchOK'
      BY <1>8 DEF RenameInstance, WatchOK, watchVars
    <2>2. troubles' \subseteq {"gap", "rename", "replaced", "unseen"}
      BY <1>8 DEF RenameInstance, EditTroubles
    <2>3. CASE UNCHANGED diskVars
      BY <2>1, <2>2, <2>3 DEF DiskOK, diskVars
    <2>4. CASE ~UNCHANGED diskVars
      <3>1. Head(requests) \in KnownRequests /\ Head(requests).op = "rename"
        BY <1>8, RequestIsKnown DEF RenameInstance
      <3>2. Head(requests).name \in Names
        BY <3>1 DEF KnownRequests
      <3>3. (\E n, m \in Names : RenameDir(n, m)) /\ UNCHANGED edits
        BY <1>5, <1>8, <2>4, <3>2, FindIsPart DEF RenameInstance
      <3>4. edits' \in Nat
        BY <3>3 DEF DiskOK
      <3> QED
        BY <2>1, <2>2, <3>3, <3>4, FolderStep
    <2> QED
      BY <2>3, <2>4
  <1>9. CASE CreateInstance
    <2> DEFINE n == Head(requests).name
    <2>1. n \in Names /\ n # None
      <3>1. Head(requests) \in KnownRequests /\ Head(requests).op = "create"
        BY <1>9, RequestIsKnown DEF CreateInstance
      <3> QED
        BY <3>1, InstanceRegistryAssumption DEF KnownRequests
    <2>2. UNCHANGED <<target, troubles>>
      BY <1>9 DEF CreateInstance
    <2>3. CASE NameUsed(n)
      BY <1>9, <2>2, <2>3 DEF CreateInstance, DiskOK, WatchOK, diskVars
    <2>4. CASE ~NameUsed(n)
      <3> DEFINE made == IF rootExists THEN events ELSE Append(events, Event("rootChanged", None, None))
                 news == IF dir[n] = "absent"
                         THEN IF rootKernel \/ rootExists THEN <<Event("change", n, None)>> ELSE <<>>
                         ELSE IF n \in kernel THEN <<Event("infoChanged", n, None)>> ELSE <<>>
      <3>1. /\ rootTarget' = (rootTarget \/ rootExists)
            /\ rootKernel' = (rootKernel \/ rootExists)
            /\ rootExists' = TRUE
            /\ dir' = [dir EXCEPT ![n] = "info"]
            /\ events' = made \o news
            /\ UNCHANGED <<edits, kernel>>
        BY <1>9, <2>4 DEF CreateInstance
      <3>2. /\ Event("rootChanged", None, None) \in NamedEvents
            /\ Event("change", n, None) \in NamedEvents
            /\ Event("infoChanged", n, None) \in NamedEvents
        BY <2>1, EventIsNamed DEF EventKinds
      <3>3. made \in Seq(NamedEvents)
        BY <3>2 DEF DiskOK
      <3>4. news \in Seq(NamedEvents)
        BY <3>2
      <3>5. events' \in Seq(NamedEvents)
        <4> HIDE DEF made, news
        <4> QED
          BY <3>1, <3>3, <3>4
      <3>6. rootTarget' \in BOOLEAN /\ rootKernel' \in BOOLEAN
        BY <3>1 DEF WatchOK, DiskOK
      <3>7. dir' \in [Names -> {"absent", "bare", "info"}]
        BY <3>1 DEF DiskOK
      <3> QED
        BY <2>2, <3>1, <3>5, <3>6, <3>7 DEF DiskOK, WatchOK
    <2> QED
      BY <2>3, <2>4
  <1> QED
    BY <1>7, <1>8, <1>9 DEF HandleRequest

LEMMA StutterStep ==
    ASSUME IInv, UNCHANGED vars
    PROVE  IInv'
  <1>1. UNCHANGED <<slab, byPath, generation, shown>>
    BY DEF vars, tableVars
  <1>2. TableOK'
    BY <1>1, TableUnchanged DEF IInv
  <1> QED
    BY <1>2 DEF IInv, DiskOK, WatchOK, LoopOK, UserOK,
                vars, diskVars, watchVars, loopVars, userVars

LEMMA NextHolds == IInv /\ [Next]_vars => IInv'
  <1> SUFFICES ASSUME IInv, [Next]_vars PROVE IInv'
    OBVIOUS
  <1> QED
    BY EditStep, SendStep, LoadStep, SetWatchStep, DeliverStep, CoalesceStep, RequestStep,
       StutterStep DEF Next, MainLoop

THEOREM Invariance == Spec => []IInv
  BY InitHolds, NextHolds, PTL DEF Spec

-----------------------------------------------------------------------------
(* What follows.                                                            *)

\* The types of the state, each event and request with what its handler
\* unwraps.
THEOREM TypeCorrect == Spec => []TypeOK
  <1>1. IInv => TypeOK
    <2>1. Seq(NamedEvents) \subseteq Seq(Events)
      BY DEF NamedEvents
    <2>2. Seq(KnownRequests) \subseteq Seq(AnyRequest)
      BY DEF KnownRequests
    <2> QED
      BY <2>1, <2>2 DEF IInv, DiskOK, TableOK, WatchOK, LoopOK, UserOK, TypeOK, AnyRequest
  <1> QED
    BY <1>1, Invariance, PTL

\* InstanceAdded, InstanceRemoved and InstanceModified add up to the table.
THEOREM FrontendInStep == Spec => []FrontendMirrorsTable
  <1>1. IInv => FrontendMirrorsTable
    BY DEF IInv, TableOK
  <1> QED
    BY <1>1, Invariance, PTL

\* delete_instance removes only the folder of an instance that had been
\* inserted before the user asked, however often slots were used again.
THEOREM StaleRequestsAreHarmless == Spec => DeletesOnlyWhatWasShown
  <1>1. ASSUME IInv, DeleteInstance, dir' # dir
        PROVE  \E i \in slab : /\ i.id.gen < Head(requests).at
                               /\ dir' = [dir EXCEPT ![i.root] = "absent"]
    <2>1. Head(requests) \in KnownRequests /\ Head(requests).op = "delete"
      BY <1>1, RequestIsKnown DEF IInv, DeleteInstance, Handles
    <2>2. Head(requests).id.gen < Head(requests).at
      BY <2>1 DEF KnownRequests
    <2>3. PICK i \in Find(Head(requests).id) : RemoveDir(i.root)
      BY <1>1 DEF DeleteInstance, diskVars
    <2>4. i \in slab /\ i.id = Head(requests).id
      BY <2>3 DEF Find
    <2> QED
      BY <2>2, <2>3, <2>4 DEF RemoveDir
  <1>2. IInv /\ [Next]_vars =>
          [DeleteInstance /\ dir' # dir =>
             \E i \in slab : /\ i.id.gen < Head(requests).at
                             /\ dir' = [dir EXCEPT ![i.root] = "absent"]]_vars
    BY <1>1
  <1> QED
    BY <1>2, Invariance, PTL DEF Spec, DeletesOnlyWhatWasShown

\* An instance of the next table was there before or is of this generation.
LEMMA NewIdsAreOfTheGeneration ==
    ASSUME IInv, [Next]_vars
    PROVE  \A i \in slab' : i.id.gen = generation \/ \E j \in slab : j.id = i.id
  <1> DEFINE Known(t) == \A i \in t : i.id.gen = generation \/ \E j \in slab : j.id = i.id
  <1>1. ASSUME NEW is, Forget(is) PROVE Known(slab')
    BY <1>1 DEF Forget
  <1>2. ASSUME UNCHANGED slab PROVE Known(slab')
    BY <1>2
  <1>3. ASSUME NEW n \in Names, LoadInstance(n) PROVE Known(slab')
    <2>1. CASE LoadFails(n)
      BY <1>1, <2>1 DEF LoadFails
    <2>2. CASE LoadUpdates(n)
      <3>1. \A i \in slab : [i EXCEPT !.root = n].id = i.id
        BY DEF IInv, TableOK, Instances
      <3> QED
        BY <2>2, <3>1 DEF LoadUpdates, Rebase, Find
    <2>3. CASE LoadInserts(n)
      <3>1. PICK k \in FreeSlots :
               slab' = slab \cup {NewInstance([slot |-> k, gen |-> generation], n)}
        BY <2>3 DEF LoadInserts
      <3>2. NewInstance([slot |-> k, gen |-> generation], n).id.gen = generation
        BY DEF NewInstance
      <3> QED
        BY <3>1, <3>2
    <2> QED
      BY <1>3, <2>1, <2>2, <2>3 DEF LoadInstance
  <1>4. ASSUME DeliverEvent PROVE Known(slab')
    <2>1. CASE DeliverRename
      <3> DEFINE n == Head(events).name
                 m == Head(events).to
                 moved == {[i EXCEPT !.root = m, !.dot = m] : i \in Find(target[n])}
      <3>1. UNCHANGED slab \/ Rebase(Find(target[n]), moved)
        BY <2>1 DEF DeliverRename
      <3>2. \A i \in slab : [i EXCEPT !.root = m, !.dot = m].id = i.id
        BY DEF IInv, TableOK, Instances
      <3>3. \A i \in moved : \E j \in slab : j.id = i.id
        BY <3>2 DEF Find
      <3> HIDE DEF n, m, moved
      <3> QED
        BY <1>2, <3>1, <3>3 DEF Rebase
    <2>2. CASE DeliverRemove \/ DeliverInfoRemoved \/ DeliverRootRemoved
      BY <1>1, <1>2, <2>2 DEF DeliverRemove, DeliverInfoRemoved, DeliverRootRemoved
    <2>3. CASE DeliverChange \/ DeliverInfoChanged \/ DeliverRootChanged
      BY <1>2, <2>3 DEF DeliverChange, DeliverInfoChanged, DeliverRootChanged, tableVars
    <2> QED
      BY <1>4, <2>1, <2>2, <2>3 DEF DeliverEvent
  <1>5. ASSUME Edit \/ SendRequest \/ SetWatch \/ Coalesce \/ HandleRequest \/ UNCHANGED vars
        PROVE  Known(slab')
    <2>1. UNCHANGED slab
      BY <1>5 DEF Edit, SendRequest, SetWatch, Coalesce, HandleRequest, DeleteInstance,
                  RenameInstance, CreateInstance, vars, tableVars
    <2> QED
      BY <1>2, <2>1
  <1> QED
    BY <1>3, <1>4, <1>5 DEF Next, MainLoop

\* IdSlab never answers for an id whose instance went: not even when the slot
\* is filled again.
THEOREM IdsAreNotUsedAgain == Spec => DanglingIdsStayDangling
  <1>1. ASSUME IInv, [Next]_vars, NEW id \in Ids, id.gen < generation, Find(id) = {}
        PROVE  Find(id)' = {}
    <2>1. generation \in Nat /\ id.gen # generation
      BY <1>1 DEF IInv, TableOK, Ids
    <2>2. \A i \in slab' : i.id # id
      BY <1>1, <2>1, NewIdsAreOfTheGeneration DEF Find
    <2> QED
      BY <2>2 DEF Find
  <1>2. IInv /\ [Next]_vars =>
          [\A id \in Ids : id.gen < generation /\ Find(id) = {} => Find(id)' = {}]_vars
    BY <1>1
  <1> QED
    BY <1>2, Invariance, PTL DEF Spec, DanglingIdsStayDangling

-----------------------------------------------------------------------------
(* Once the events are handled the table is what is on disk.                *)
(*                                                                          *)
(* The queue is what separates them.  For each folder the invariant says    *)
(* which event still waits when the table or the watches are not what the   *)
(* disk is, and, as a handler looks at the disk of now for an event of      *)
(* before, which event comes after one that is out of date.                 *)

Change(n) == Event("change", n, None)
Remove(n) == Event("remove", n, None)
InfoChanged(n) == Event("infoChanged", n, None)
InfoRemoved(n) == Event("infoRemoved", n, None)
RootRemoved == Event("rootRemoved", None, None)
RootChanged == Event("rootChanged", None, None)

\* What makes the main loop read a folder, or take its instance away.
Arrivals(n) == {Change(n), RootChanged}
Departures(n) == {Remove(n), RootRemoved}
InfoNews(n) == {Change(n), InfoChanged(n), RootChanged}
InfoLoss(n) == {Change(n), InfoRemoved(n), RootChanged}

\* One of S waits in the queue q; one of S waits behind every e in it.
Has(q, S) == \E k \in 1..Len(q) : q[k] \in S
Followed(q, e, S) ==
    \A k \in 1..Len(q) : q[k] = e => \E j \in 1..Len(q) : j > k /\ q[j] \in S

Clean == troubles = {} /\ ~dead
Purged == slab = {} /\ toLoad = {} /\ toWatch = NoWatch

\* Folders are not renamed, and "instances" comes back right after it went.
QueueOK ==
    /\ \A k \in 1..Len(events) :
          \/ events[k] \in {RootRemoved, RootChanged}
          \/ \E n \in Names : events[k] \in {Change(n), Remove(n), InfoChanged(n), InfoRemoved(n)}
    /\ ~rootExists /\ events # <<>> => events[Len(events)] = RootRemoved
    /\ \A k \in 1..Len(events) : events[k] = RootRemoved =>
          IF k = Len(events) THEN ~rootExists ELSE events[k + 1] = RootChanged
    /\ \A k \in 2..Len(events) : events[k] = RootChanged => events[k - 1] = RootRemoved

\* Nothing is loaded from an "instances" that is gone or is to be read again.
RootOK ==
    /\ events # <<>> /\ Head(events) = RootChanged => Purged
    /\ ~rootTarget => /\ Purged
                      /\ IF events = <<>> THEN ~rootExists
                         ELSE Head(events) \in {RootRemoved, RootChanged}
    /\ ~rootKernel => /\ Has(events, {RootRemoved}) \/ Purged
                      /\ rootExists => Has(events, {RootChanged})
    /\ ~rootExists => ~rootKernel /\ kernel = {} /\ Present = {}

\* An instance is found from its folder by both maps, and from no other.
PathsOK ==
    /\ \A i \in slab : /\ i.dot = i.root /\ byPath[i.root] = i.id
                       /\ \/ target[i.root] = i.id
                          \/ toWatch = [name |-> i.root, target |-> i.id]
    /\ \A i \in slab, n \in Names : target[n] = i.id \/ byPath[n] = i.id => i.root = n

\* The watch about to be set is of what was just loaded.
WatchIsRight(n, t) ==
    \/ t = Invalid /\ ~NameUsed(n) /\ dir[n] # "info"
    \/ dir[n] = "info" /\ \E i \in slab : i.root = n /\ i.id = t

StepOK ==
    /\ toWatch # NoWatch => WatchIsRight(toWatch.name, toWatch.target)
    /\ fromInfo => \A n \in toLoad : toLoad = {n} /\ ~NameUsed(n) /\ target[n] # None

\* A map holds no id that is still to be given.
IdsAreOld ==
    /\ \A n \in Names : /\ target[n] \in Ids => target[n].gen < generation
                        /\ byPath[n] \in Ids => byPath[n].gen < generation
    /\ toWatch.target \in Ids => toWatch.target.gen < generation

\* The folder is there, or may come without an event of its own.
Coming(n) == n \in Present \/ (rootExists /\ ~rootKernel)

\* What differs between the disk and the table, and what waits to mend it.
FolderOK(n) ==
    /\ n \in kernel => n \in Present
    /\ n \in Present => \/ n \in kernel /\ (target[n] = Invalid \/ NameUsed(n))
                        \/ n \in toLoad /\ ~fromInfo
                        \/ toWatch.name = n
                        \/ Has(events, Arrivals(n))
    /\ NameUsed(n) /\ n \notin kernel => toWatch.name = n \/ Has(events, Departures(n))
    /\ dir[n] = "info" /\ ~NameUsed(n) => n \in toLoad \/ Has(events, InfoNews(n))
    /\ dir[n] = "bare" /\ NameUsed(n) =>
          n \in toLoad \/ Has(events, InfoLoss(n)) \/ Has(events, {RootRemoved})

\* What waits behind an event of the folder that is out of date.
OrderOK(n) ==
    /\ Coming(n) => Followed(events, Remove(n), Arrivals(n))
    /\ Coming(n) /\ n \notin kernel => /\ Followed(events, InfoChanged(n), Arrivals(n))
                                       /\ Followed(events, InfoRemoved(n), Arrivals(n))
    /\ dir[n] = "info" => Followed(events, InfoRemoved(n), InfoNews(n))
    /\ dir[n] = "bare" => Followed(events, InfoChanged(n), InfoLoss(n))

InStep ==
    /\ QueueOK /\ RootOK /\ PathsOK /\ StepOK
    /\ \A n \in Names : FolderOK(n) /\ OrderOK(n)

DiskInv == IInv /\ IdsAreOld /\ (Clean => InStep)

-----------------------------------------------------------------------------
(* The queue.                                                               *)

LEMMA HasAppend ==
    ASSUME NEW T, NEW q \in Seq(T), NEW e \in T, NEW S
    PROVE  Has(Append(q, e), S) <=> Has(q, S) \/ e \in S
  <1>1. Len(q) \in Nat /\ Len(Append(q, e)) = Len(q) + 1
    OBVIOUS
  <1>2. Append(q, e)[Len(q) + 1] = e /\ \A k \in 1..Len(q) : Append(q, e)[k] = q[k]
    OBVIOUS
  <1>3. 1..Len(q) + 1 = 1..Len(q) \cup {Len(q) + 1}
    BY <1>1
  <1> QED
    BY <1>1, <1>2, <1>3 DEF Has

LEMMA HasTail ==
    ASSUME NEW T, NEW q \in Seq(T), q # <<>>, NEW S
    PROVE  Has(q, S) <=> Head(q) \in S \/ Has(Tail(q), S)
  <1>1. /\ Len(q) \in Nat \ {0} /\ Len(Tail(q)) = Len(q) - 1 /\ Head(q) = q[1]
        /\ \A k \in 1..Len(q) - 1 : Tail(q)[k] = q[k + 1]
    OBVIOUS
  <1>2. ASSUME Has(q, S) PROVE Head(q) \in S \/ Has(Tail(q), S)
    <2> PICK k \in 1..Len(q) : q[k] \in S
      BY <1>2 DEF Has
    <2>1. CASE k = 1
      BY <1>1, <2>1
    <2>2. CASE k > 1
      <3>1. k - 1 \in 1..Len(q) - 1 /\ Tail(q)[k - 1] = q[k]
        BY <1>1, <2>2
      <3> QED
        BY <1>1, <3>1 DEF Has
    <2> QED
      BY <2>1, <2>2
  <1>3. ASSUME Head(q) \in S PROVE Has(q, S)
    BY <1>1, <1>3 DEF Has
  <1>4. ASSUME Has(Tail(q), S) PROVE Has(q, S)
    <2> PICK k \in 1..Len(q) - 1 : Tail(q)[k] \in S
      BY <1>1, <1>4 DEF Has
    <2>1. k + 1 \in 1..Len(q) /\ q[k + 1] \in S
      BY <1>1
    <2> QED
      BY <2>1 DEF Has
  <1> QED
    BY <1>2, <1>3, <1>4

LEMMA FollowedAppend ==
    ASSUME NEW T, NEW q \in Seq(T), NEW e \in T, NEW f, NEW S,
           f # e, Followed(q, f, S) \/ e \in S
    PROVE  Followed(Append(q, e), f, S)
  <1> DEFINE r == Append(q, e)
  <1>1. Len(q) \in Nat /\ Len(r) = Len(q) + 1
    OBVIOUS
  <1>2. r[Len(q) + 1] = e /\ \A k \in 1..Len(q) : r[k] = q[k]
    OBVIOUS
  <1> HIDE DEF r
  <1> SUFFICES ASSUME NEW k \in 1..Len(r), r[k] = f
               PROVE  \E j \in 1..Len(r) : j > k /\ r[j] \in S
    BY DEF Followed, r
  <1>3. k \in 1..Len(q) /\ q[k] = f
    BY <1>1, <1>2
  <1>4. CASE e \in S
    BY <1>1, <1>2, <1>3, <1>4
  <1>5. CASE Followed(q, f, S)
    <2> PICK j \in 1..Len(q) : j > k /\ q[j] \in S
      BY <1>3, <1>5 DEF Followed
    <2> QED
      BY <1>1, <1>2
  <1> QED
    BY <1>4, <1>5

LEMMA FollowedTail ==
    ASSUME NEW T, NEW q \in Seq(T), q # <<>>, NEW f, NEW S, Followed(q, f, S)
    PROVE  /\ Followed(Tail(q), f, S)
           /\ Head(q) = f => Has(Tail(q), S)
  <1> DEFINE r == Tail(q)
  <1>1. /\ Len(q) \in Nat \ {0} /\ Len(r) = Len(q) - 1 /\ Head(q) = q[1]
        /\ \A k \in 1..Len(q) - 1 : r[k] = q[k + 1]
    OBVIOUS
  <1> HIDE DEF r
  <1>2. ASSUME NEW k \in 1..Len(q), q[k] = f
        PROVE  \E j \in 1..Len(r) : j > k - 1 /\ r[j] \in S
    <2> PICK j \in 1..Len(q) : j > k /\ q[j] \in S
      BY <1>2 DEF Followed
    <2>1. j - 1 \in 1..Len(r) /\ j - 1 > k - 1 /\ r[j - 1] = q[j]
      BY <1>1
    <2> QED
      BY <2>1
  <1>3. Followed(r, f, S)
    <2> SUFFICES ASSUME NEW k \in 1..Len(r), r[k] = f
                 PROVE  \E j \in 1..Len(r) : j > k /\ r[j] \in S
      BY DEF Followed
    <2>1. k + 1 \in 1..Len(q) /\ q[k + 1] = f /\ (k + 1) - 1 = k
      BY <1>1
    <2> QED
      BY <1>2, <2>1
  <1>4. ASSUME Head(q) = f PROVE Has(r, S)
    <2>1. 1 \in 1..Len(q) /\ q[1] = f
      BY <1>1, <1>4
    <2> QED
      BY <1>2, <2>1 DEF Has
  <1> QED
    BY <1>3, <1>4 DEF r

LEMMA FollowedHas ==
    ASSUME NEW q, NEW e, NEW S, Followed(q, e, S), Has(q, {e})
    PROVE  Has(q, S)
  BY DEF Has, Followed

LEMMA WaitsForMore ==
    ASSUME NEW q, NEW S, NEW R, S \subseteq R
    PROVE  /\ Has(q, S) => Has(q, R)
           /\ \A e : Followed(q, e, S) => Followed(q, e, R)
  BY DEF Has, Followed

\* Events of different kinds, or of different folders, are different.
LEMMA EventsDiffer ==
    /\ \A n, m : /\ Change(n) = Change(m) <=> n = m
                 /\ Remove(n) = Remove(m) <=> n = m
                 /\ InfoChanged(n) = InfoChanged(m) <=> n = m
                 /\ InfoRemoved(n) = InfoRemoved(m) <=> n = m
                 /\ Change(n) # Remove(m) /\ Change(n) # InfoChanged(m) /\ Change(n) # InfoRemoved(m)
                 /\ Remove(n) # InfoChanged(m) /\ Remove(n) # InfoRemoved(m)
                 /\ InfoChanged(n) # InfoRemoved(m)
    /\ \A n : /\ RootRemoved \notin {Change(n), Remove(n), InfoChanged(n), InfoRemoved(n)}
              /\ RootChanged \notin {Change(n), Remove(n), InfoChanged(n), InfoRemoved(n)}
    /\ RootRemoved # RootChanged
  <1>1. \A k, j, n, m, a, b : Event(k, n, a) = Event(j, m, b) => k = j /\ n = m
    BY DEF Event
  <1> QED
    BY <1>1 DEF Change, Remove, InfoChanged, InfoRemoved, RootRemoved, RootChanged

LEMMA EventsAreEvents ==
    /\ \A n \in Names : {Change(n), Remove(n), InfoChanged(n), InfoRemoved(n)} \subseteq NamedEvents
    /\ {RootRemoved, RootChanged} \subseteq NamedEvents
  BY EventIsNamed DEF Change, Remove, InfoChanged, InfoRemoved, RootRemoved, RootChanged, EventKinds

\* What waits for the folder goes on waiting.
QueueKeeps(n) ==
    /\ Has(events, Arrivals(n)) => Has(events', Arrivals(n))
    /\ Has(events, Departures(n)) => Has(events', Departures(n))
    /\ Has(events, InfoNews(n)) => Has(events', InfoNews(n))
    /\ Has(events, InfoLoss(n)) => Has(events', InfoLoss(n))
    /\ Has(events, {RootRemoved}) => Has(events', {RootRemoved})
    /\ Followed(events, Remove(n), Arrivals(n)) => Followed(events', Remove(n), Arrivals(n))
    /\ Followed(events, InfoChanged(n), Arrivals(n)) => Followed(events', InfoChanged(n), Arrivals(n))
    /\ Followed(events, InfoRemoved(n), Arrivals(n)) => Followed(events', InfoRemoved(n), Arrivals(n))
    /\ Followed(events, InfoRemoved(n), InfoNews(n)) => Followed(events', InfoRemoved(n), InfoNews(n))
    /\ Followed(events, InfoChanged(n), InfoLoss(n)) => Followed(events', InfoChanged(n), InfoLoss(n))

LEMMA SameKeeps == ASSUME events' = events, NEW n PROVE QueueKeeps(n)
  BY DEF QueueKeeps

LEMMA AppendKeeps ==
    ASSUME DiskOK, NEW e \in NamedEvents, events' = Append(events, e), NEW n
    PROVE  e \notin {Remove(n), InfoChanged(n), InfoRemoved(n)} => QueueKeeps(n)
  <1> SUFFICES ASSUME e \notin {Remove(n), InfoChanged(n), InfoRemoved(n)} PROVE QueueKeeps(n)
    OBVIOUS
  <1>0. events \in Seq(NamedEvents)
    BY DEF DiskOK
  <1>1. \A S : Has(events, S) => Has(events', S)
    BY <1>0, HasAppend
  <1>2. \A f, S : f # e /\ Followed(events, f, S) => Followed(events', f, S)
    BY <1>0, FollowedAppend
  <1> QED
    BY <1>1, <1>2 DEF QueueKeeps

LEMMA AppendHas ==
    ASSUME DiskOK, NEW e \in NamedEvents, events' = events \/ events' = Append(events, e), NEW S
    PROVE  Has(events, S) => Has(events', S)
  <1>1. CASE events' = events
    BY <1>1
  <1>2. CASE events' = Append(events, e)
    <2>1. events \in Seq(NamedEvents)
      BY DEF DiskOK
    <2> QED
      BY <1>2, <2>1, HasAppend
  <1> QED
    BY <1>1, <1>2

LEMMA AppendAdds ==
    ASSUME DiskOK, NEW e \in NamedEvents, events' = Append(events, e), NEW S, e \in S
    PROVE  Has(events', S)
  <1>1. events \in Seq(NamedEvents)
    BY DEF DiskOK
  <1> QED
    BY <1>1, HasAppend

LEMMA TailHas ==
    ASSUME DiskOK, events # <<>>, events' = Tail(events), NEW S, Has(events, S), Head(events) \notin S
    PROVE  Has(events', S)
  <1>1. events \in Seq(NamedEvents)
    BY DEF DiskOK
  <1> QED
    BY <1>1, HasTail

LEMMA TailFollowed ==
    ASSUME DiskOK, events # <<>>, events' = Tail(events), NEW f, NEW S, Followed(events, f, S)
    PROVE  Followed(events', f, S) /\ (Head(events) = f => Has(events', S))
  <1>1. events \in Seq(NamedEvents)
    BY DEF DiskOK
  <1> QED
    BY <1>1, FollowedTail

LEMMA TailKeeps ==
    ASSUME DiskOK, events # <<>>, events' = Tail(events), NEW n,
           Head(events) \notin {RootRemoved, RootChanged},
           Head(events) \notin {Change(n), Remove(n), InfoChanged(n), InfoRemoved(n)}
    PROVE  QueueKeeps(n)
  <1>1. \A S : Has(events, S) /\ Head(events) \notin S => Has(events', S)
    BY TailHas
  <1>2. \A f, S : Followed(events, f, S) => Followed(events', f, S)
    BY TailFollowed
  <1>3. /\ Head(events) \notin Arrivals(n) /\ Head(events) \notin Departures(n)
        /\ Head(events) \notin InfoNews(n) /\ Head(events) \notin InfoLoss(n)
    BY DEF Arrivals, Departures, InfoNews, InfoLoss
  <1> QED
    BY <1>1, <1>2, <1>3 DEF QueueKeeps

\* A step that has nothing to do with a folder.
LEMMA FolderFrame ==
    ASSUME NEW n, FolderOK(n), OrderOK(n), QueueKeeps(n),
           dir'[n] = dir[n], n \in kernel' <=> n \in kernel, target'[n] = target[n],
           NameUsed(n)' <=> NameUsed(n), n \in Names,
           n \in toLoad => n \in toLoad' /\ (fromInfo' => fromInfo),
           toWatch.name = n => toWatch'.name = n,
           Coming(n)' => Coming(n)
    PROVE  FolderOK(n)' /\ OrderOK(n)'
  <1>1. n \in Present' <=> n \in Present
    BY DEF Present
  <1> USE DEF QueueKeeps
  <1>2. FolderOK(n)'
    <2>1. n \in kernel' => n \in Present'
      BY <1>1 DEF FolderOK
    <2>2. n \in Present' => \/ n \in kernel' /\ (target'[n] = Invalid \/ NameUsed(n)')
                            \/ n \in toLoad' /\ ~fromInfo'
                            \/ toWatch'.name = n
                            \/ Has(events', Arrivals(n))
      BY <1>1 DEF FolderOK
    <2>3. NameUsed(n)' /\ n \notin kernel' => toWatch'.name = n \/ Has(events', Departures(n))
      BY DEF FolderOK
    <2>4. dir'[n] = "info" /\ ~NameUsed(n)' => n \in toLoad' \/ Has(events', InfoNews(n))
      BY DEF FolderOK
    <2>5. dir'[n] = "bare" /\ NameUsed(n)' =>
             n \in toLoad' \/ Has(events', InfoLoss(n)) \/ Has(events', {RootRemoved})
      BY DEF FolderOK
    <2> QED
      BY <2>1, <2>2, <2>3, <2>4, <2>5 DEF FolderOK, Arrivals, Departures, InfoNews, InfoLoss,
         Change, Remove, InfoChanged, InfoRemoved
  <1>3. OrderOK(n)'
    <2>1. Coming(n)' => Followed(events', Remove(n), Arrivals(n))
      BY DEF OrderOK
    <2>2. Coming(n)' /\ n \notin kernel' => /\ Followed(events', InfoChanged(n), Arrivals(n))
                                            /\ Followed(events', InfoRemoved(n), Arrivals(n))
      BY DEF OrderOK
    <2>3. dir'[n] = "info" => Followed(events', InfoRemoved(n), InfoNews(n))
      BY DEF OrderOK
    <2>4. dir'[n] = "bare" => Followed(events', InfoChanged(n), InfoLoss(n))
      BY DEF OrderOK
    <2> QED
      BY <2>1, <2>2, <2>3, <2>4 DEF OrderOK
  <1> QED
    BY <1>2, <1>3

LEMMA QueueAppend ==
    ASSUME DiskOK, QueueOK, rootExists, rootExists', NEW n \in Names,
           NEW e \in {Change(n), Remove(n), InfoChanged(n), InfoRemoved(n)},
           events' = Append(events, e)
    PROVE  /\ QueueOK'
           /\ Head(events') = (IF events = <<>> THEN e ELSE Head(events)) /\ events' # <<>>
  <1> DEFINE r == Append(events, e)
  <1>0. events \in Seq(NamedEvents) /\ e \in NamedEvents
    BY EventsAreEvents DEF DiskOK
  <1>1. Len(events) \in Nat /\ Len(r) = Len(events) + 1
    BY <1>0
  <1>2. r[Len(r)] = e /\ \A k \in 1..Len(events) : r[k] = events[k]
    BY <1>0
  <1>3. r # <<>> /\ Head(r) = IF events = <<>> THEN e ELSE Head(events)
    BY <1>0
  <1>4. e \notin {RootRemoved, RootChanged}
    BY EventsDiffer
  <1> HIDE DEF r
  <1>5. \A k \in 1..Len(r) : \/ r[k] \in {RootRemoved, RootChanged}
                             \/ \E m \in Names : r[k] \in {Change(m), Remove(m), InfoChanged(m), InfoRemoved(m)}
    <2> TAKE k \in 1..Len(r)
    <2>1. CASE k = Len(r)
      BY <1>2, <2>1
    <2>2. CASE k \in 1..Len(events)
      BY <1>2, <2>2 DEF QueueOK
    <2> QED
      BY <1>1, <2>1, <2>2
  <1>6. \A k \in 1..Len(r) : r[k] = RootRemoved =>
           IF k = Len(r) THEN ~rootExists' ELSE r[k + 1] = RootChanged
    <2> SUFFICES ASSUME NEW k \in 1..Len(r), r[k] = RootRemoved
                 PROVE  k # Len(r) /\ r[k + 1] = RootChanged
      OBVIOUS
    <2>1. k \in 1..Len(events) /\ events[k] = RootRemoved
      BY <1>1, <1>2, <1>4
    <2>2. k # Len(events) /\ events[k + 1] = RootChanged
      BY <2>1 DEF QueueOK
    <2>3. k + 1 \in 1..Len(events) /\ k # Len(r)
      BY <1>1, <2>1, <2>2
    <2> QED
      BY <1>2, <2>2, <2>3
  <1>7. \A k \in 2..Len(r) : r[k] = RootChanged => r[k - 1] = RootRemoved
    <2> SUFFICES ASSUME NEW k \in 2..Len(r), r[k] = RootChanged PROVE r[k - 1] = RootRemoved
      OBVIOUS
    <2>1. k \in 2..Len(events) /\ k \in 1..Len(events) /\ k - 1 \in 1..Len(events)
      BY <1>1, <1>2, <1>4
    <2> QED
      BY <1>2, <2>1 DEF QueueOK
  <1> QED
    BY <1>3, <1>5, <1>6, <1>7 DEF QueueOK, r

LEMMA QueueTail ==
    ASSUME DiskOK, QueueOK, events # <<>>, events' = Tail(events), UNCHANGED rootExists
    PROVE  /\ QueueOK'
           /\ events' # <<>> /\ Head(events') = RootChanged => Head(events) = RootRemoved
           /\ Head(events) = RootRemoved => IF events' = <<>> THEN ~rootExists
                                            ELSE Head(events') = RootChanged
  <1> DEFINE r == Tail(events)
  <1>0. events \in Seq(NamedEvents)
    BY DEF DiskOK
  <1>1. Len(events) \in Nat \ {0} /\ Len(r) = Len(events) - 1 /\ Head(events) = events[1]
    BY <1>0
  <1>2. \A k \in 1..Len(r) : r[k] = events[k + 1]
    BY <1>0
  <1>r. r \in Seq(NamedEvents)
    BY <1>0
  <1> HIDE DEF r
  <1>3. /\ r = <<>> <=> Len(r) = 0
        /\ r # <<>> => Head(r) = r[1]
    BY <1>r
  <1>4. \A k \in 1..Len(r) : \/ r[k] \in {RootRemoved, RootChanged}
                             \/ \E m \in Names : r[k] \in {Change(m), Remove(m), InfoChanged(m), InfoRemoved(m)}
    <2> TAKE k \in 1..Len(r)
    <2>1. k + 1 \in 1..Len(events)
      BY <1>1
    <2> QED
      BY <1>2, <2>1 DEF QueueOK
  <1>5. \A k \in 1..Len(r) : r[k] = RootRemoved =>
           IF k = Len(r) THEN ~rootExists ELSE r[k + 1] = RootChanged
    <2> SUFFICES ASSUME NEW k \in 1..Len(r), r[k] = RootRemoved
                 PROVE  IF k = Len(r) THEN ~rootExists ELSE r[k + 1] = RootChanged
      OBVIOUS
    <2>1. k + 1 \in 1..Len(events) /\ events[k + 1] = RootRemoved
      BY <1>1, <1>2
    <2>2. IF k + 1 = Len(events) THEN ~rootExists ELSE events[(k + 1) + 1] = RootChanged
      BY <2>1 DEF QueueOK
    <2>3. CASE k = Len(r)
      BY <1>1, <2>2, <2>3
    <2>4. CASE k # Len(r)
      <3>1. k + 1 \in 1..Len(r) /\ k + 1 # Len(events)
        BY <1>1, <2>4
      <3> QED
        BY <1>2, <2>2, <2>4, <3>1
    <2> QED
      BY <2>3, <2>4
  <1>6. \A k \in 2..Len(r) : r[k] = RootChanged => r[k - 1] = RootRemoved
    <2> SUFFICES ASSUME NEW k \in 2..Len(r), r[k] = RootChanged PROVE r[k - 1] = RootRemoved
      OBVIOUS
    <2>1. /\ k + 1 \in 2..Len(events) /\ k \in 1..Len(r) /\ k - 1 \in 1..Len(r)
          /\ (k - 1) + 1 = k /\ (k + 1) - 1 = k
      BY <1>1
    <2>2. events[k + 1] = RootChanged
      BY <1>2, <2>1
    <2>3. events[(k + 1) - 1] = RootRemoved
      BY <2>1, <2>2 DEF QueueOK
    <2> QED
      BY <1>2, <2>1, <2>3
  <1>7. ~rootExists /\ r # <<>> => r[Len(r)] = RootRemoved
    <2> SUFFICES ASSUME ~rootExists, r # <<>> PROVE r[Len(r)] = RootRemoved
      OBVIOUS
    <2>1. Len(r) \in 1..Len(r) /\ Len(r) + 1 = Len(events)
      BY <1>1, <1>3
    <2> QED
      BY <1>2, <2>1 DEF QueueOK
  <1>8. r # <<>> /\ Head(r) = RootChanged => Head(events) = RootRemoved
    <2> SUFFICES ASSUME r # <<>>, Head(r) = RootChanged PROVE events[1] = RootRemoved
      BY <1>1
    <2>1. 1 \in 1..Len(r) /\ 2 \in 2..Len(events) /\ 1 + 1 = 2 /\ 2 - 1 = 1
      BY <1>1, <1>3
    <2>2. events[2] = RootChanged
      BY <1>2, <1>3, <2>1
    <2> QED
      BY <2>1, <2>2 DEF QueueOK
  <1>9. Head(events) = RootRemoved => IF r = <<>> THEN ~rootExists ELSE Head(r) = RootChanged
    <2> SUFFICES ASSUME events[1] = RootRemoved
                 PROVE  IF r = <<>> THEN ~rootExists ELSE Head(r) = RootChanged
      BY <1>1
    <2>1. 1 \in 1..Len(events) /\ 1 + 1 = 2
      BY <1>1
    <2>2. IF 1 = Len(events) THEN ~rootExists ELSE events[1 + 1] = RootChanged
      BY <2>1 DEF QueueOK
    <2>3. CASE r = <<>>
      BY <1>1, <1>3, <2>2, <2>3
    <2>4. CASE r # <<>>
      <3>1. 1 \in 1..Len(r) /\ Len(events) # 1
        BY <1>1, <1>3, <2>4
      <3> QED
        BY <1>2, <1>3, <2>1, <2>2, <2>4, <3>1
    <2> QED
      BY <2>3, <2>4
  <1> QED
    BY <1>4, <1>5, <1>6, <1>7, <1>8, <1>9 DEF QueueOK, r

-----------------------------------------------------------------------------
(* Folders change while the table stays.                                    *)

TableStays ==
    /\ UNCHANGED <<slab, byPath, target, toLoad, fromInfo, toWatch>>
    /\ toWatch = NoWatch

LEMMA PathsStay ==
    ASSUME InStep, TableStays
    PROVE  PathsOK' /\ StepOK' /\ \A n : NameUsed(n)' <=> NameUsed(n)
  <1>1. \A n : NameUsed(n)' <=> NameUsed(n)
    BY DEF TableStays, NameUsed
  <1>2. PathsOK'
    BY DEF InStep, TableStays, PathsOK
  <1>3. StepOK'
    <2>1. toWatch' = NoWatch
      BY DEF TableStays, NoWatch
    <2>2. fromInfo' => \A n \in toLoad' : toLoad' = {n} /\ ~NameUsed(n)' /\ target'[n] # None
      BY <1>1 DEF InStep, TableStays, StepOK
    <2>3. NoWatch' = NoWatch
      BY DEF NoWatch
    <2> QED
      BY <2>1, <2>2, <2>3 DEF StepOK, NameUsed
  <1> QED
    BY <1>1, <1>2, <1>3

\* An event of a folder joins the queue, or none does.
LEMMA RootStays ==
    ASSUME DiskOK, WatchOK, WatchOK', InStep, TableStays, rootExists, rootExists',
           NEW n \in Names, NEW e \in {Change(n), Remove(n), InfoChanged(n), InfoRemoved(n)},
           events' = events \/ events' = Append(events, e),
           rootTarget => rootTarget', rootKernel => rootKernel'
    PROVE  QueueOK' /\ RootOK'
  <1>0. QueueOK /\ RootOK
    BY DEF InStep
  <1>1. /\ QueueOK'
        /\ events # <<>> => events' # <<>> /\ Head(events') = Head(events)
        /\ events = <<>> => events' = <<>> \/ Head(events') = e
    <2>1. CASE events' = events
      BY <1>0, <2>1 DEF QueueOK
    <2>2. CASE events' = Append(events, e)
      BY <1>0, <2>2, QueueAppend
    <2> QED
      BY <2>1, <2>2
  <1>2. e \notin {RootRemoved, RootChanged}
    BY EventsDiffer
  <1>3. Purged' <=> Purged
    BY DEF Purged, TableStays, NoWatch
  <1>4. \A S : Has(events, S) => Has(events', S)
    <2>1. e \in NamedEvents
      BY EventsAreEvents
    <2> QED
      BY <2>1, AppendHas
  <1>5. events' # <<>> /\ Head(events') = RootChanged => Purged'
    BY <1>0, <1>1, <1>2, <1>3 DEF RootOK
  <1>6. ~rootTarget' => /\ Purged'
                        /\ IF events' = <<>> THEN ~rootExists'
                           ELSE Head(events') \in {RootRemoved, RootChanged}
    BY <1>0, <1>1, <1>3 DEF RootOK
  <1>7. ~rootKernel' => /\ Has(events', {RootRemoved}) \/ Purged'
                        /\ rootExists' => Has(events', {RootChanged})
    BY <1>0, <1>3, <1>4 DEF RootOK
  <1> QED
    BY <1>1, <1>5, <1>6, <1>7 DEF RootOK, RootRemoved, RootChanged

\* InStep for the next state, from its parts.
LEMMA InStepParts ==
    ASSUME QueueOK', RootOK', PathsOK', StepOK', \A m \in Names : FolderOK(m)' /\ OrderOK(m)'
    PROVE  InStep'
  BY DEF InStep

LEMMA OtherFolders ==
    ASSUME DiskOK, InStep, TableStays, NEW n \in Names, NEW m \in Names, m # n,
           NEW e \in {Change(n), Remove(n), InfoChanged(n), InfoRemoved(n)},
           events' = events \/ events' = Append(events, e),
           dir'[m] = dir[m], m \in kernel' <=> m \in kernel,
           rootExists' => rootExists, rootKernel => rootKernel'
    PROVE  FolderOK(m)' /\ OrderOK(m)'
  <1>1. QueueKeeps(m)
    <2>1. e \in NamedEvents /\ e \notin {Remove(m), InfoChanged(m), InfoRemoved(m)}
      BY EventsAreEvents, EventsDiffer
    <2> QED
      BY <2>1, AppendKeeps, SameKeeps
  <1>2. FolderOK(m) /\ OrderOK(m)
    BY DEF InStep
  <1>3. Coming(m)' => Coming(m)
    BY DEF Coming, Present
  <1>4. NameUsed(m)' <=> NameUsed(m)
    BY PathsStay
  <1>5. target'[m] = target[m] /\ toLoad' = toLoad /\ fromInfo' = fromInfo /\ toWatch' = toWatch
    BY DEF TableStays
  <1> QED
    BY <1>1, <1>2, <1>3, <1>4, <1>5, FolderFrame

\* What is left to say of a folder that is not being loaded or watched.
LEMMA FolderParts ==
    ASSUME NEW n \in Names,
           n \in kernel' => n \in Present',
           n \in Present' => \/ n \in kernel' /\ (target'[n] = Invalid \/ NameUsed(n)')
                             \/ n \in toLoad' /\ ~fromInfo'
                             \/ toWatch'.name = n
                             \/ Has(events', Arrivals(n)),
           NameUsed(n)' /\ n \notin kernel' => toWatch'.name = n \/ Has(events', Departures(n)),
           dir'[n] = "info" /\ ~NameUsed(n)' => n \in toLoad' \/ Has(events', InfoNews(n)),
           dir'[n] = "bare" /\ NameUsed(n)' =>
              n \in toLoad' \/ Has(events', InfoLoss(n)) \/ Has(events', {RootRemoved})
    PROVE  FolderOK(n)'
  BY DEF FolderOK, Arrivals, Departures, InfoNews, InfoLoss, Change, Remove, InfoChanged, InfoRemoved

LEMMA OrderParts ==
    ASSUME NEW n \in Names,
           Coming(n)' => Followed(events', Remove(n), Arrivals(n)),
           Coming(n)' /\ n \notin kernel' => /\ Followed(events', InfoChanged(n), Arrivals(n))
                                             /\ Followed(events', InfoRemoved(n), Arrivals(n)),
           dir'[n] = "info" => Followed(events', InfoRemoved(n), InfoNews(n)),
           dir'[n] = "bare" => Followed(events', InfoChanged(n), InfoLoss(n))
    PROVE  OrderOK(n)'
  BY DEF OrderOK

LEMMA SetsOfEvents ==
    \A n : /\ Arrivals(n) \subseteq InfoNews(n) /\ Arrivals(n) \subseteq InfoLoss(n)
           /\ {RootChanged} \subseteq Arrivals(n) /\ {RootRemoved} \subseteq Departures(n)
           /\ {Change(n)} \subseteq Arrivals(n) /\ {Remove(n)} \subseteq Departures(n)
           /\ {InfoChanged(n)} \subseteq InfoNews(n) /\ {InfoRemoved(n)} \subseteq InfoLoss(n)
  BY DEF Arrivals, Departures, InfoNews, InfoLoss

\* A folder is made, with its info file or without, and the event of it
\* waits unless a new "instances" is to be read anyway.
LEMMA FolderMade ==
    ASSUME DiskOK, WatchOK, WatchOK', InStep, TableStays, rootExists, rootExists',
           NEW n \in Names, dir[n] = "absent", kernel' = kernel,
           NEW v \in {"bare", "info"}, dir' = [dir EXCEPT ![n] = v],
           \/ rootKernel' /\ events' = Append(events, Change(n))
           \/ ~rootKernel' /\ events' = events /\ v = "bare",
           rootTarget => rootTarget', rootKernel => rootKernel'
    PROVE  InStep'
  <1> DEFINE e == Change(n)
  <1>1. QueueOK' /\ RootOK'
    <2>1. e \in {Change(n), Remove(n), InfoChanged(n), InfoRemoved(n)} /\ (events' = events \/ events' = Append(events, e))
      OBVIOUS
    <2> QED
      BY <2>1, RootStays
  <1>2. PathsOK' /\ StepOK' /\ \A m : NameUsed(m)' <=> NameUsed(m)
    BY PathsStay
  <1>3. ASSUME NEW m \in Names, m # n PROVE FolderOK(m)' /\ OrderOK(m)'
    <2>1. dir'[m] = dir[m]
      BY <1>3 DEF DiskOK
    <2>2. e \in {Change(n), Remove(n), InfoChanged(n), InfoRemoved(n)} /\ (events' = events \/ events' = Append(events, e))
      OBVIOUS
    <2> QED
      BY <1>3, <2>1, <2>2, OtherFolders
  <1>4. dir'[n] = v /\ n \in Present' /\ n \notin Present /\ n \notin kernel
    BY DEF DiskOK, Present, InStep, FolderOK
  <1>5. FolderOK(n) /\ OrderOK(n)
    BY DEF InStep
  <1>6. Has(events', Arrivals(n)) /\ Has(events', InfoNews(n)) /\ Has(events', InfoLoss(n))
    <2>1. Has(events', Arrivals(n))
      <3>1. CASE events' = Append(events, Change(n))
        <4>1. events \in Seq(NamedEvents) /\ e \in NamedEvents /\ e \in Arrivals(n)
          BY EventsAreEvents DEF DiskOK, Arrivals
        <4> QED
          BY <3>1, <4>1, HasAppend
      <3>2. CASE ~rootKernel' /\ events' = events
        <4>1. Has(events, {RootChanged})
          BY <3>2 DEF InStep, RootOK
        <4> QED
          BY <3>2, <4>1, SetsOfEvents, WaitsForMore
      <3> QED
        BY <3>1, <3>2
    <2> QED
      BY <2>1, SetsOfEvents, WaitsForMore
  <1>7. Has(events, Departures(n)) => Has(events', Departures(n))
    <2>1. e \in NamedEvents /\ (events' = events \/ events' = Append(events, e))
      BY EventsAreEvents
    <2> HIDE DEF e
    <2> QED
      BY <2>1, AppendHas
  <1>8. FolderOK(n)'
    <2>1. NameUsed(n)' => Has(events', Departures(n))
      <3>1. NoWatch.name # n
        BY InstanceRegistryAssumption DEF NoWatch
      <3> QED
        BY <1>2, <1>4, <1>5, <1>7, <3>1 DEF FolderOK, TableStays
    <2>2. n \in kernel' => n \in Present'
      BY <1>4
    <2> QED
      BY <1>6, <2>1, <2>2, FolderParts
  <1>9. /\ Followed(events', Remove(n), Arrivals(n))
        /\ Followed(events', InfoChanged(n), Arrivals(n))
        /\ Followed(events', InfoRemoved(n), Arrivals(n))
    <2>1. CASE events' = Append(events, Change(n))
      <3>1. events \in Seq(NamedEvents) /\ e \in NamedEvents /\ e \in Arrivals(n)
        BY EventsAreEvents DEF DiskOK, Arrivals
      <3>2. e \notin {Remove(n), InfoChanged(n), InfoRemoved(n)}
        BY EventsDiffer
      <3> HIDE DEF e
      <3> QED
        BY <2>1, <3>1, <3>2, FollowedAppend DEF e
    <2>2. CASE ~rootKernel' /\ events' = events
      BY <1>4, <1>5, <2>2 DEF OrderOK, Coming
    <2> QED
      BY <2>1, <2>2
  <1>10. OrderOK(n)'
    <2>1. Followed(events', InfoRemoved(n), InfoNews(n)) /\ Followed(events', InfoChanged(n), InfoLoss(n))
      BY <1>9, SetsOfEvents, WaitsForMore
    <2> QED
      BY <1>9, <2>1, OrderParts
  <1> QED
    BY <1>1, <1>2, <1>3, <1>8, <1>10, InStepParts

\* A folder that is there gets its info file.
LEMMA InfoWritten ==
    ASSUME DiskOK, WatchOK, WatchOK', InStep, TableStays, rootExists' = rootExists,
           NEW n \in Names, dir[n] # "absent", kernel' = kernel, dir' = [dir EXCEPT ![n] = "info"],
           events' = Emit(n \in kernel, InfoChanged(n)),
           rootTarget => rootTarget', rootKernel => rootKernel'
    PROVE  InStep'
  <1> DEFINE e == InfoChanged(n)
  <1>0. /\ e \in {Change(n), Remove(n), InfoChanged(n), InfoRemoved(n)} /\ e \in NamedEvents
        /\ events' = events \/ events' = Append(events, e)
    BY EventsAreEvents DEF Emit
  <1>a. n \in Present /\ n \in Present' /\ rootExists /\ rootExists' /\ dir'[n] = "info"
    BY DEF Present, DiskOK, InStep, RootOK
  <1>1. QueueOK' /\ RootOK'
    BY <1>0, <1>a, RootStays
  <1>2. PathsOK' /\ StepOK' /\ \A m : NameUsed(m)' <=> NameUsed(m)
    BY PathsStay
  <1>3. ASSUME NEW m \in Names, m # n PROVE FolderOK(m)' /\ OrderOK(m)'
    <2>1. dir'[m] = dir[m]
      BY <1>3 DEF DiskOK
    <2> QED
      BY <1>0, <1>3, <1>a, <2>1, OtherFolders
  <1>4. FolderOK(n) /\ OrderOK(n)
    BY DEF InStep
  <1>5. NoWatch.name # n /\ toWatch = NoWatch /\ toWatch' = NoWatch
    BY InstanceRegistryAssumption DEF NoWatch, TableStays
  <1>6. \A S : Has(events, S) => Has(events', S)
    <2> HIDE DEF e
    <2> QED
      BY <1>0, AppendHas
  <1>7. Coming(n)
    BY <1>a DEF Coming
  <1>8. n \in kernel => Has(events', InfoNews(n))
    <2> SUFFICES ASSUME n \in kernel PROVE Has(events', InfoNews(n))
      OBVIOUS
    <2>1. events' = Append(events, e) /\ e \in InfoNews(n) /\ e \in NamedEvents
      BY EventsAreEvents DEF Emit, InfoNews
    <2> HIDE DEF e
    <2> QED
      BY <2>1, AppendAdds
  <1>9. FolderOK(n)'
    <2>1. \/ n \in kernel' /\ (target'[n] = Invalid \/ NameUsed(n)')
          \/ n \in toLoad' /\ ~fromInfo'
          \/ Has(events', Arrivals(n))
      BY <1>2, <1>4, <1>5, <1>6, <1>a DEF FolderOK, TableStays
    <2>2. NameUsed(n)' /\ n \notin kernel' => Has(events', Departures(n))
      BY <1>2, <1>4, <1>5, <1>6 DEF FolderOK
    <2>3. ~NameUsed(n)' => n \in toLoad' \/ Has(events', InfoNews(n))
      <3>1. Has(events', Arrivals(n)) => Has(events', InfoNews(n))
        BY SetsOfEvents, WaitsForMore
      <3> QED
        BY <1>8, <2>1, <3>1
    <2> QED
      BY <1>a, <2>1, <2>2, <2>3, FolderParts
  <1>10. OrderOK(n)'
    <2>1. CASE n \in kernel
      <3>1. events' = Append(events, e) /\ events \in Seq(NamedEvents)
        BY <2>1 DEF Emit, DiskOK
      <3>2. e \notin {Remove(n), InfoRemoved(n)} /\ e \in InfoNews(n)
        BY EventsDiffer DEF InfoNews
      <3>3. Followed(events, Remove(n), Arrivals(n))
        BY <1>4, <1>7 DEF OrderOK
      <3>4. Followed(events', Remove(n), Arrivals(n)) /\ Followed(events', InfoRemoved(n), InfoNews(n))
        <4> HIDE DEF e
        <4> QED
          BY <1>0, <3>1, <3>2, <3>3, FollowedAppend
      <3> QED
        BY <1>a, <2>1, <3>4, OrderParts
    <2>2. CASE n \notin kernel
      <3>1. events' = events
        BY <2>2 DEF Emit
      <3>2. /\ Followed(events', Remove(n), Arrivals(n))
            /\ Followed(events', InfoChanged(n), Arrivals(n))
            /\ Followed(events', InfoRemoved(n), Arrivals(n))
        BY <1>4, <1>7, <2>2, <3>1 DEF OrderOK
      <3>3. Followed(events', InfoRemoved(n), InfoNews(n))
        BY <3>2, SetsOfEvents, WaitsForMore
      <3> QED
        BY <1>a, <3>2, <3>3, OrderParts
    <2> QED
      BY <2>1, <2>2
  <1> QED
    BY <1>1, <1>2, <1>3, <1>9, <1>10, InStepParts

\* A folder loses its info file.
LEMMA InfoTaken ==
    ASSUME DiskOK, WatchOK, InStep, TableStays, UNCHANGED rootTarget,
           NEW n \in Names, RemoveInfo(n)
    PROVE  InStep'
  <1> DEFINE e == InfoRemoved(n)
  <1>0. /\ e \in {Change(n), Remove(n), InfoChanged(n), InfoRemoved(n)} /\ e \in NamedEvents
        /\ events' = events \/ events' = Append(events, e)
    BY EventsAreEvents DEF Emit, RemoveInfo, InfoRemoved
  <1>a. /\ n \in Present /\ n \in Present' /\ rootExists /\ rootExists' /\ dir'[n] = "bare"
        /\ kernel' = kernel /\ rootKernel' = rootKernel
    BY DEF Present, DiskOK, InStep, RootOK, RemoveInfo
  <1>1. QueueOK' /\ RootOK'
    <2>1. WatchOK'
      BY DEF WatchOK, TableStays
    <2> QED
      BY <1>0, <1>a, <2>1, RootStays
  <1>2. PathsOK' /\ StepOK' /\ \A m : NameUsed(m)' <=> NameUsed(m)
    BY PathsStay
  <1>3. ASSUME NEW m \in Names, m # n PROVE FolderOK(m)' /\ OrderOK(m)'
    <2>1. dir'[m] = dir[m]
      BY <1>3 DEF DiskOK, RemoveInfo
    <2> QED
      BY <1>0, <1>3, <1>a, <2>1, OtherFolders
  <1>4. FolderOK(n) /\ OrderOK(n)
    BY DEF InStep
  <1>5. NoWatch.name # n /\ toWatch = NoWatch /\ toWatch' = NoWatch
    BY InstanceRegistryAssumption DEF NoWatch, TableStays
  <1>6. \A S : Has(events, S) => Has(events', S)
    <2> HIDE DEF e
    <2> QED
      BY <1>0, AppendHas
  <1>7. Coming(n)
    BY <1>a DEF Coming
  <1>b. n \in kernel => events' = Append(events, e)
    BY DEF Emit, RemoveInfo, InfoRemoved
  <1>c. n \notin kernel => events' = events
    BY DEF Emit, RemoveInfo
  <1>8. n \in kernel => Has(events', InfoLoss(n))
    <2>1. e \in NamedEvents /\ e \in InfoLoss(n)
      BY EventsAreEvents DEF InfoLoss
    <2> HIDE DEF e
    <2> QED
      BY <1>b, <2>1, AppendAdds
  <1>9. FolderOK(n)'
    <2>1. \/ n \in kernel' /\ (target'[n] = Invalid \/ NameUsed(n)')
          \/ n \in toLoad' /\ ~fromInfo'
          \/ Has(events', Arrivals(n))
      BY <1>2, <1>4, <1>5, <1>6, <1>a DEF FolderOK, TableStays
    <2>2. NameUsed(n)' /\ n \notin kernel' => Has(events', Departures(n))
      BY <1>2, <1>4, <1>5, <1>6, <1>a DEF FolderOK
    <2>3. NameUsed(n)' => Has(events', InfoLoss(n)) \/ Has(events', {RootRemoved})
      <3>1. ASSUME n \notin kernel, NameUsed(n)'
            PROVE  Has(events', InfoLoss(n)) \/ Has(events', {RootRemoved})
        <4>1. Has(events', {Remove(n)}) \/ Has(events', {RootRemoved})
          BY <1>a, <2>2, <3>1 DEF Has, Departures
        <4>2. ASSUME Has(events', {Remove(n)}) PROVE Has(events', InfoLoss(n))
          <5>1. Followed(events', Remove(n), Arrivals(n))
            BY <1>4, <1>7, <1>c, <3>1 DEF OrderOK
          <5>2. Has(events', Arrivals(n))
            BY <4>2, <5>1, FollowedHas
          <5> QED
            BY <5>2, SetsOfEvents, WaitsForMore
        <4> QED
          BY <4>1, <4>2
      <3> QED
        BY <1>8, <3>1
    <2> QED
      BY <1>a, <2>1, <2>2, <2>3, FolderParts
  <1>10. OrderOK(n)'
    <2>1. CASE n \in kernel
      <3>1. events' = Append(events, e) /\ events \in Seq(NamedEvents)
        BY <1>b, <2>1 DEF DiskOK
      <3>2. e \notin {Remove(n), InfoChanged(n)} /\ e \in InfoLoss(n)
        BY EventsDiffer DEF InfoLoss
      <3>3. Followed(events, Remove(n), Arrivals(n))
        BY <1>4, <1>7 DEF OrderOK
      <3>4. Followed(events', Remove(n), Arrivals(n)) /\ Followed(events', InfoChanged(n), InfoLoss(n))
        <4> HIDE DEF e
        <4> QED
          BY <1>0, <3>1, <3>2, <3>3, FollowedAppend
      <3> QED
        BY <1>a, <2>1, <3>4, OrderParts
    <2>2. CASE n \notin kernel
      <3>1. /\ Followed(events', Remove(n), Arrivals(n))
            /\ Followed(events', InfoChanged(n), Arrivals(n))
            /\ Followed(events', InfoRemoved(n), Arrivals(n))
        BY <1>4, <1>7, <1>c, <2>2 DEF OrderOK
      <3>2. Followed(events', InfoChanged(n), InfoLoss(n))
        BY <3>1, SetsOfEvents, WaitsForMore
      <3> QED
        BY <1>a, <3>1, <3>2, OrderParts
    <2> QED
      BY <2>1, <2>2
  <1> QED
    BY <1>1, <1>2, <1>3, <1>9, <1>10, InStepParts

\* A folder goes.  Unless a new "instances" is not watched yet, the event of
\* it waits; a watched folder does not go before that.
LEMMA FolderGone ==
    ASSUME DiskOK, WatchOK, InStep, TableStays, UNCHANGED rootTarget,
           NEW n \in Names, RemoveDir(n), n \in kernel => rootKernel
    PROVE  InStep'
  <1> DEFINE e == Remove(n)
  <1>0. /\ e \in {Change(n), Remove(n), InfoChanged(n), InfoRemoved(n)} /\ e \in NamedEvents
        /\ events' = events \/ events' = Append(events, e)
    BY EventsAreEvents DEF Emit, RemoveDir, Remove
  <1>a. /\ n \in Present /\ n \notin Present' /\ rootExists /\ rootExists' /\ dir'[n] = "absent"
        /\ kernel' = kernel \ {n} /\ rootKernel' = rootKernel
    BY DEF Present, DiskOK, InStep, RootOK, RemoveDir
  <1>1. QueueOK' /\ RootOK'
    <2>1. WatchOK'
      BY DEF WatchOK, TableStays
    <2> QED
      BY <1>0, <1>a, <2>1, RootStays
  <1>2. PathsOK' /\ StepOK' /\ \A m : NameUsed(m)' <=> NameUsed(m)
    BY PathsStay
  <1>3. ASSUME NEW m \in Names, m # n PROVE FolderOK(m)' /\ OrderOK(m)'
    <2>1. dir'[m] = dir[m]
      BY <1>3 DEF DiskOK, RemoveDir
    <2> QED
      BY <1>0, <1>3, <1>a, <2>1, OtherFolders
  <1>4. FolderOK(n) /\ OrderOK(n)
    BY DEF InStep
  <1>5. NoWatch.name # n /\ toWatch = NoWatch
    BY InstanceRegistryAssumption DEF NoWatch, TableStays
  <1>b. rootKernel => events' = Append(events, e)
    BY DEF Emit, RemoveDir, Remove
  <1>c. ~rootKernel => events' = events
    BY DEF Emit, RemoveDir
  <1>6. FolderOK(n)'
    <2>1. NameUsed(n)' => Has(events', Departures(n))
      <3>1. CASE rootKernel
        <4>1. e \in NamedEvents /\ e \in Departures(n)
          BY EventsAreEvents DEF Departures
        <4> HIDE DEF e
        <4> QED
          BY <1>b, <3>1, <4>1, AppendAdds
      <3>2. CASE ~rootKernel
        BY <1>2, <1>4, <1>5, <1>c, <3>2 DEF FolderOK
      <3> QED
        BY <3>1, <3>2
    <2> QED
      BY <1>a, <2>1, FolderParts
  <1>7. OrderOK(n)'
    <2>1. ASSUME Coming(n)' PROVE ~rootKernel /\ Coming(n) /\ n \notin kernel
      BY <1>a, <2>1 DEF Coming
    <2>2. Coming(n)' => /\ Followed(events', Remove(n), Arrivals(n))
                        /\ Followed(events', InfoChanged(n), Arrivals(n))
                        /\ Followed(events', InfoRemoved(n), Arrivals(n))
      BY <1>4, <1>c, <2>1 DEF OrderOK
    <2> QED
      BY <1>a, <2>2, OrderParts
  <1> QED
    BY <1>1, <1>2, <1>3, <1>6, <1>7, InStepParts

\* "instances" goes, with every folder in it.
LEMMA RootGone ==
    ASSUME DiskOK, WatchOK, InStep, TableStays, UNCHANGED rootTarget, RemoveRoot
    PROVE  InStep'
  <1> DEFINE e == RootRemoved
             r == Append(events, e)
  <1>0. /\ events' = r /\ events \in Seq(NamedEvents) /\ e \in NamedEvents
        /\ rootExists /\ ~rootExists' /\ ~rootKernel' /\ kernel' = {}
        /\ \A n \in Names : dir'[n] = "absent"
    BY EventsAreEvents DEF RemoveRoot, RootRemoved, DiskOK
  <1>1. QueueOK'
    <2>1. Len(events) \in Nat /\ Len(r) = Len(events) + 1
      BY <1>0
    <2>2. r[Len(r)] = e /\ \A k \in 1..Len(events) : r[k] = events[k]
      BY <1>0
    <2>3. e # RootChanged
      BY EventsDiffer
    <2> HIDE DEF r
    <2>4. \A k \in 1..Len(r) : \/ r[k] \in {RootRemoved, RootChanged}
                               \/ \E m \in Names : r[k] \in {Change(m), Remove(m), InfoChanged(m), InfoRemoved(m)}
      <3> TAKE k \in 1..Len(r)
      <3>1. CASE k = Len(r)
        BY <2>2, <3>1
      <3>2. CASE k \in 1..Len(events)
        BY <2>2, <3>2 DEF InStep, QueueOK
      <3> QED
        BY <2>1, <3>1, <3>2
    <2>5. \A k \in 1..Len(r) : r[k] = RootRemoved =>
             IF k = Len(r) THEN ~rootExists' ELSE r[k + 1] = RootChanged
      <3> SUFFICES ASSUME NEW k \in 1..Len(r), r[k] = RootRemoved, k # Len(r)
                   PROVE  r[k + 1] = RootChanged
        BY <1>0
      <3>1. k \in 1..Len(events) /\ events[k] = RootRemoved
        BY <2>1, <2>2
      <3>2. k # Len(events) /\ events[k + 1] = RootChanged
        BY <1>0, <3>1 DEF InStep, QueueOK
      <3>3. k + 1 \in 1..Len(events)
        BY <2>1, <3>1, <3>2
      <3> QED
        BY <2>2, <3>2, <3>3
    <2>6. \A k \in 2..Len(r) : r[k] = RootChanged => r[k - 1] = RootRemoved
      <3> SUFFICES ASSUME NEW k \in 2..Len(r), r[k] = RootChanged PROVE r[k - 1] = RootRemoved
        OBVIOUS
      <3>1. k \in 2..Len(events) /\ k \in 1..Len(events) /\ k - 1 \in 1..Len(events)
        BY <2>1, <2>2, <2>3
      <3> QED
        BY <2>2, <3>1 DEF InStep, QueueOK
    <2> QED
      BY <1>0, <2>2, <2>4, <2>5, <2>6 DEF QueueOK
  <1>2. RootOK'
    <2>1. events' # <<>> /\ Head(events') = IF events = <<>> THEN e ELSE Head(events)
      BY <1>0
    <2>2. Purged' <=> Purged
      BY DEF Purged, TableStays, NoWatch
    <2>3. Has(events', {RootRemoved})
      <3>1. e \in {RootRemoved} /\ events' = Append(events, e)
        BY <1>0
      <3> HIDE DEF e
      <3> QED
        BY <1>0, <3>1, AppendAdds
    <2>4. Head(events') = RootChanged => Purged'
      BY <2>1, <2>2, EventsDiffer DEF InStep, RootOK
    <2>5. ~rootTarget' => Purged' /\ Head(events') \in {RootRemoved, RootChanged}
      BY <1>0, <2>1, <2>2 DEF InStep, RootOK
    <2>6. Present' = {}
      BY <1>0 DEF Present
    <2> QED
      BY <1>0, <2>1, <2>3, <2>4, <2>5, <2>6 DEF RootOK, RootRemoved, RootChanged
  <1>3. PathsOK' /\ StepOK'
    BY PathsStay
  <1>4. ASSUME NEW n \in Names PROVE FolderOK(n)' /\ OrderOK(n)'
    <2>1. /\ n \notin kernel' /\ n \notin Present' /\ dir'[n] = "absent" /\ ~Coming(n)'
      BY <1>0 DEF Present, Coming
    <2>2. Has(events', Departures(n))
      <3>1. e \in Departures(n) /\ events' = Append(events, e)
        BY <1>0 DEF Departures
      <3> HIDE DEF e
      <3> QED
        BY <1>0, <3>1, AppendAdds
    <2> QED
      BY <2>1, <2>2, FolderParts, OrderParts
  <1> QED
    BY <1>1, <1>2, <1>3, <1>4, InStepParts

\* "instances" comes back, empty or with a folder the launcher makes.
LEMMA RootMade ==
    ASSUME DiskOK, DiskOK', WatchOK, InStep, TableStays, UNCHANGED <<rootTarget, kernel, rootKernel>>,
           ~rootExists, rootExists', events' = Append(events, RootChanged)
    PROVE  InStep'
  <1> DEFINE e == RootChanged
             r == Append(events, e)
  <1>0. /\ events' = r /\ events \in Seq(NamedEvents) /\ e \in NamedEvents
        /\ kernel = {} /\ Present = {} /\ ~rootKernel
    BY EventsAreEvents DEF DiskOK, InStep, RootOK
  <1>1. QueueOK'
    <2>1. Len(events) \in Nat /\ Len(r) = Len(events) + 1
      BY <1>0
    <2>2. r[Len(r)] = e /\ \A k \in 1..Len(events) : r[k] = events[k]
      BY <1>0
    <2>3. e # RootRemoved /\ (events = <<>> <=> Len(events) = 0)
      BY <1>0, EventsDiffer
    <2> HIDE DEF r
    <2>4. \A k \in 1..Len(r) : \/ r[k] \in {RootRemoved, RootChanged}
                               \/ \E m \in Names : r[k] \in {Change(m), Remove(m), InfoChanged(m), InfoRemoved(m)}
      <3> TAKE k \in 1..Len(r)
      <3>1. CASE k = Len(r)
        BY <2>2, <3>1
      <3>2. CASE k \in 1..Len(events)
        BY <2>2, <3>2 DEF InStep, QueueOK
      <3> QED
        BY <2>1, <3>1, <3>2
    <2>5. \A k \in 1..Len(r) : r[k] = RootRemoved =>
             IF k = Len(r) THEN ~rootExists' ELSE r[k + 1] = RootChanged
      <3> SUFFICES ASSUME NEW k \in 1..Len(r), r[k] = RootRemoved
                   PROVE  k # Len(r) /\ r[k + 1] = RootChanged
        OBVIOUS
      <3>1. k \in 1..Len(events) /\ events[k] = RootRemoved
        BY <2>1, <2>2, <2>3
      <3>2. CASE k = Len(events)
        BY <2>1, <2>2, <3>2
      <3>3. CASE k # Len(events)
        <4>1. events[k + 1] = RootChanged /\ k + 1 \in 1..Len(events)
          BY <2>1, <3>1, <3>3 DEF InStep, QueueOK
        <4> QED
          BY <2>1, <2>2, <3>1, <4>1
      <3> QED
        BY <3>2, <3>3
    <2>6. \A k \in 2..Len(r) : r[k] = RootChanged => r[k - 1] = RootRemoved
      <3> SUFFICES ASSUME NEW k \in 2..Len(r), r[k] = RootChanged PROVE r[k - 1] = RootRemoved
        OBVIOUS
      <3>1. CASE k = Len(r)
        <4>1. k - 1 = Len(events) /\ Len(events) \in 1..Len(events) /\ events # <<>>
          BY <2>1, <2>3, <3>1
        <4> QED
          BY <2>2, <4>1 DEF InStep, QueueOK
      <3>2. CASE k # Len(r)
        <4>1. k \in 2..Len(events) /\ k \in 1..Len(events) /\ k - 1 \in 1..Len(events)
          BY <2>1, <3>2
        <4> QED
          BY <2>2, <4>1 DEF InStep, QueueOK
      <3> QED
        BY <3>1, <3>2
    <2> QED
      BY <1>0, <2>4, <2>5, <2>6 DEF QueueOK
  <1>2. RootOK'
    <2>1. events' # <<>> /\ Head(events') = IF events = <<>> THEN e ELSE Head(events)
      BY <1>0
    <2>2. Purged' <=> Purged
      BY DEF Purged, TableStays, NoWatch
    <2>3. Has(events', {RootChanged}) /\ (Has(events, {RootRemoved}) => Has(events', {RootRemoved}))
      <3>1. e \in {RootChanged} /\ events' = Append(events, e)
        BY <1>0
      <3> HIDE DEF e
      <3> QED
        BY <1>0, <3>1, AppendAdds, AppendHas
    <2>4. Head(events') = RootChanged => Purged'
      <3>1. events = <<>> => ~Has(events, {RootRemoved})
        BY DEF Has
      <3> QED
        BY <1>0, <2>1, <2>2, <3>1 DEF InStep, RootOK
    <2>5. ~rootTarget' => Purged' /\ Head(events') \in {RootRemoved, RootChanged}
      BY <1>0, <2>1, <2>2 DEF InStep, RootOK
    <2>6. ~rootKernel' => Has(events', {RootRemoved}) \/ Purged'
      BY <1>0, <2>2, <2>3 DEF InStep, RootOK
    <2> QED
      BY <2>1, <2>3, <2>4, <2>5, <2>6 DEF RootOK, RootRemoved, RootChanged
  <1>3. PathsOK' /\ StepOK' /\ \A m : NameUsed(m)' <=> NameUsed(m)
    BY PathsStay
  <1>4. ASSUME NEW n \in Names PROVE FolderOK(n)' /\ OrderOK(n)'
    <2>0. e \in NamedEvents /\ events' = Append(events, e)
      BY <1>0
    <2>1. e \in Arrivals(n) /\ e \in InfoNews(n) /\ e \in InfoLoss(n)
      BY DEF Arrivals, InfoNews, InfoLoss
    <2>2. e \notin {Remove(n), InfoChanged(n), InfoRemoved(n)}
      BY EventsDiffer
    <2>3. NoWatch.name # n /\ toWatch = NoWatch
      BY InstanceRegistryAssumption DEF NoWatch, TableStays
    <2>4. FolderOK(n)'
      <3>1. Has(events', Arrivals(n)) /\ Has(events', InfoNews(n)) /\ Has(events', InfoLoss(n))
        <4> HIDE DEF e
        <4> QED
          BY <2>0, <2>1, AppendAdds
      <3>2. NameUsed(n) => Has(events, Departures(n))
        BY <1>0, <2>3 DEF InStep, FolderOK
      <3>3. NameUsed(n)' => Has(events', Departures(n))
        <4> HIDE DEF e
        <4> QED
          BY <1>3, <2>0, <3>2, AppendHas
      <3>4. n \notin kernel'
        BY <1>0
      <3> QED
        BY <3>1, <3>3, <3>4, FolderParts
    <2>5. OrderOK(n)'
      <3>1. /\ Followed(events', Remove(n), Arrivals(n))
            /\ Followed(events', InfoChanged(n), Arrivals(n))
            /\ Followed(events', InfoRemoved(n), Arrivals(n))
        <4> HIDE DEF e
        <4> QED
          BY <1>0, <2>0, <2>1, <2>2, FollowedAppend
      <3>2. Followed(events', InfoRemoved(n), InfoNews(n)) /\ Followed(events', InfoChanged(n), InfoLoss(n))
        BY <3>1, SetsOfEvents, WaitsForMore
      <3> QED
        BY <3>1, <3>2, OrderParts
    <2> QED
      BY <2>4, <2>5
  <1> QED
    BY <1>1, <1>2, <1>3, <1>4, InStepParts

-----------------------------------------------------------------------------
(* The steps of the environment and of the requests.                        *)

LEMMA NothingUnseen ==
    ASSUME NEW rename, troubles' = EditTroubles(rename), Clean'
    PROVE  /\ Clean \/ dead # dead'
           /\ toWatch = NoWatch /\ ~rename
           /\ rootExists' /\ ~rootKernel => \A n \in kernel : dir'[n] # "absent"
  BY DEF EditTroubles, Clean

LEMMA EditInStep ==
    ASSUME DiskInv, Edit, Clean'
    PROVE  InStep'
  <1>1. /\ UNCHANGED <<slab, byPath, target, rootTarget, toLoad, fromInfo, toWatch, dead>>
        /\ DiskOK /\ WatchOK
    BY DEF Edit, tableVars, watchVars, loopVars, DiskInv, IInv
  <1>1a. DiskOK' /\ WatchOK'
    BY EditStep DEF DiskInv, IInv
  <1>2. CASE /\ \/ \E n \in Names : MakeDir(n) \/ WriteInfo(n) \/ RemoveInfo(n) \/ RemoveDir(n)
                \/ RemoveRoot
                \/ MakeRoot
             /\ troubles' = EditTroubles(FALSE)
    <2>1. /\ Clean /\ toWatch = NoWatch
          /\ rootExists' /\ ~rootKernel => \A n \in kernel : dir'[n] # "absent"
      BY <1>1, <1>2, NothingUnseen
    <2>2. InStep /\ TableStays
      BY <1>1, <2>1 DEF DiskInv, TableStays
    <2>3. ASSUME NEW n \in Names, MakeDir(n) PROVE InStep'
      <3>1. /\ rootExists /\ rootExists' /\ dir[n] = "absent" /\ kernel' = kernel /\ rootKernel' = rootKernel
            /\ dir' = [dir EXCEPT ![n] = "bare"]
            /\ events' = IF rootKernel THEN Append(events, Change(n)) ELSE events
        BY <2>3 DEF MakeDir, Emit, Change
      <3>2. \/ rootKernel' /\ events' = Append(events, Change(n))
            \/ ~rootKernel' /\ events' = events
        BY <3>1
      <3> QED
        BY <1>1, <1>1a, <2>2, <3>1, <3>2, FolderMade
    <2>4. ASSUME NEW n \in Names, WriteInfo(n) PROVE InStep'
      <3>1. /\ rootExists' = rootExists /\ dir[n] # "absent" /\ kernel' = kernel /\ rootKernel' = rootKernel
            /\ dir' = [dir EXCEPT ![n] = "info"]
            /\ events' = Emit(n \in kernel, InfoChanged(n))
        BY <2>4 DEF WriteInfo, InfoChanged
      <3> QED
        BY <1>1, <1>1a, <2>2, <3>1, InfoWritten
    <2>5. ASSUME NEW n \in Names, RemoveInfo(n) PROVE InStep'
      BY <1>1, <2>2, <2>5, InfoTaken
    <2>6. ASSUME NEW n \in Names, RemoveDir(n) PROVE InStep'
      <3>1. rootExists' /\ dir'[n] = "absent"
        BY <2>2, <2>6 DEF RemoveDir, DiskInv, IInv, DiskOK, InStep, RootOK, Present
      <3>2. n \in kernel => rootKernel
        BY <2>1, <3>1
      <3> QED
        BY <1>1, <2>2, <2>6, <3>2, FolderGone
    <2>7. CASE RemoveRoot
      BY <1>1, <2>2, <2>7, RootGone
    <2>8. CASE MakeRoot
      <3>1. ~rootExists /\ rootExists' /\ UNCHANGED <<kernel, rootKernel>> /\ events' = Append(events, RootChanged)
        BY <2>8 DEF MakeRoot, RootChanged
      <3> QED
        BY <1>1, <1>1a, <2>2, <3>1, RootMade
    <2> QED
      BY <1>2, <2>3, <2>4, <2>5, <2>6, <2>7, <2>8
  <1>3. CASE troubles' = EditTroubles(TRUE)
    BY <1>3, NothingUnseen
  <1> QED
    BY <1>2, <1>3 DEF Edit

LEMMA SameInStep ==
    ASSUME InStep, UNCHANGED <<dir, rootExists, kernel, rootKernel, events, slab, byPath, target,
                               rootTarget, toLoad, fromInfo, toWatch>>
    PROVE  InStep'
  <1>1. QueueOK' /\ RootOK'
    BY DEF InStep, QueueOK, RootOK, Purged, NoWatch, Present, Has, RootRemoved, RootChanged
  <1>2. \A n : NameUsed(n)' <=> NameUsed(n)
    BY DEF NameUsed
  <1>3. PathsOK' /\ StepOK'
    BY DEF InStep, PathsOK, StepOK, WatchIsRight, NoWatch, NameUsed
  <1>4. ASSUME NEW n \in Names PROVE FolderOK(n)' /\ OrderOK(n)'
    <2>1. QueueKeeps(n)
      BY SameKeeps
    <2>2. FolderOK(n) /\ OrderOK(n)
      BY DEF InStep
    <2>3. Coming(n)' => Coming(n)
      BY DEF Coming, Present
    <2> QED
      BY <1>2, <2>1, <2>2, <2>3, FolderFrame
  <1> QED
    BY <1>1, <1>3, <1>4, InStepParts

LEMMA RequestInStep ==
    ASSUME DiskInv, HandleRequest, Clean'
    PROVE  InStep'
  <1>1. /\ UNCHANGED <<slab, byPath, target, toLoad, fromInfo, toWatch, dead>>
        /\ DiskOK /\ WatchOK /\ toWatch = NoWatch
    BY DEF HandleRequest, DeleteInstance, RenameInstance, CreateInstance, Handles, Busy, tableVars,
       watchVars, loopVars, DiskInv, IInv
  <1>2. DiskOK' /\ WatchOK'
    BY RequestStep DEF DiskInv, IInv
  <1>3. TableStays
    BY <1>1 DEF TableStays
  <1>4. ASSUME UNCHANGED diskVars, UNCHANGED rootTarget, Clean PROVE InStep'
    BY <1>1, <1>4, SameInStep DEF diskVars, DiskInv
  <1>5. CASE DeleteInstance
    <2>1. UNCHANGED rootTarget
      BY <1>5 DEF DeleteInstance, watchVars
    <2>2. CASE UNCHANGED diskVars /\ UNCHANGED troubles
      BY <1>1, <1>4, <2>1, <2>2 DEF Clean
    <2>3. CASE ~(UNCHANGED diskVars /\ UNCHANGED troubles)
      <3>1. (\E i \in slab : RemoveDir(i.root)) /\ troubles' = EditTroubles(FALSE)
        BY <1>5, <2>3, FindIsPart DEF DeleteInstance
      <3> PICK i \in slab : RemoveDir(i.root)
        BY <3>1
      <3> DEFINE n == i.root
      <3>2. n \in Names
        BY DEF DiskInv, IInv, TableOK, Instances
      <3>3. InStep /\ (rootExists' /\ ~rootKernel => \A m \in kernel : dir'[m] # "absent")
        BY <1>1, <3>1, NothingUnseen DEF DiskInv
      <3>4. rootExists' /\ dir'[n] = "absent"
        BY <1>1, <3>2, <3>3 DEF RemoveDir, DiskOK, InStep, RootOK, Present
      <3>5. n \in kernel => rootKernel
        BY <3>3, <3>4
      <3> HIDE DEF n
      <3>6. RemoveDir(n)
        BY DEF n
      <3> QED
        BY <1>1, <1>3, <2>1, <3>2, <3>3, <3>5, <3>6, FolderGone
    <2> QED
      BY <2>2, <2>3
  <1>6. CASE RenameInstance
    <2>1. UNCHANGED rootTarget
      BY <1>6 DEF RenameInstance, watchVars
    <2>2. CASE troubles' = EditTroubles(TRUE)
      BY <2>2, NothingUnseen
    <2>3. CASE UNCHANGED <<diskVars, troubles>>
      BY <1>1, <1>4, <2>1, <2>3 DEF Clean
    <2> QED
      BY <1>6, <2>2, <2>3 DEF RenameInstance
  <1>7. CASE CreateInstance
    <2> DEFINE n == Head(requests).name
               made == IF rootExists THEN events ELSE Append(events, Event("rootChanged", None, None))
               news == IF dir[n] = "absent"
                       THEN IF rootKernel \/ rootExists THEN <<Event("change", n, None)>> ELSE <<>>
                       ELSE IF n \in kernel THEN <<Event("infoChanged", n, None)>> ELSE <<>>
    <2>1. n \in Names
      <3>1. requests # <<>> /\ Head(requests).op = "create"
        BY <1>7 DEF CreateInstance, Handles
      <3> QED
        BY <3>1, RequestIsKnown DEF KnownRequests, DiskInv, IInv
    <2>2. Clean /\ InStep
      BY <1>1, <1>7 DEF CreateInstance, Clean, DiskInv
    <2>3. CASE NameUsed(n)
      BY <1>4, <1>7, <2>2, <2>3 DEF CreateInstance
    <2>4. CASE ~NameUsed(n)
      <3>1. /\ rootTarget' = (rootTarget \/ rootExists)
            /\ rootKernel' = (rootKernel \/ rootExists)
            /\ rootExists' = TRUE
            /\ dir' = [dir EXCEPT ![n] = "info"]
            /\ events' = made \o news
            /\ UNCHANGED <<edits, kernel>>
        BY <1>7, <2>4 DEF CreateInstance
      <3>2. /\ events \in Seq(NamedEvents)
            /\ {Change(n), InfoChanged(n), RootChanged} \subseteq NamedEvents
        BY <1>1, <2>1, EventsAreEvents DEF DiskOK
      <3>3. \A q \in Seq(NamedEvents), e \in NamedEvents : q \o <<e>> = Append(q, e) /\ q \o <<>> = q
        OBVIOUS
      <3>4. CASE ~rootExists
        <4>1. ~rootKernel /\ dir[n] = "absent"
          BY <2>1, <2>2, <3>4 DEF InStep, RootOK, Present
        <4>2. news = <<>> /\ made = Append(events, RootChanged)
          BY <3>4, <4>1 DEF RootChanged
        <4>3. events' = Append(events, RootChanged)
          <5>1. Append(events, RootChanged) \in Seq(NamedEvents)
            BY <3>2
          <5> QED
            BY <3>1, <3>2, <3>3, <4>2, <5>1
        <4>4. rootTarget' = rootTarget /\ rootKernel' = rootKernel /\ kernel' = kernel
          BY <1>1, <3>1, <3>4, <4>1 DEF WatchOK, DiskOK
        <4> QED
          BY <1>1, <1>2, <1>3, <2>2, <3>1, <3>4, <4>3, <4>4, RootMade
      <3>5. CASE rootExists
        <4>1. made = events /\ rootKernel' /\ rootTarget' /\ rootExists' /\ kernel' = kernel
          BY <3>1, <3>5
        <4>2. CASE dir[n] = "absent"
          <5>1. news = <<Change(n)>>
            BY <3>5, <4>2 DEF Change
          <5>2. events' = Append(events, Change(n))
            BY <3>1, <3>2, <3>3, <4>1, <5>1
          <5> HIDE DEF n, made, news
          <5> QED
            BY <1>1, <1>2, <1>3, <2>1, <2>2, <3>1, <3>5, <4>1, <4>2, <5>2, FolderMade
        <4>3. CASE dir[n] # "absent"
          <5>1. news = IF n \in kernel THEN <<InfoChanged(n)>> ELSE <<>>
            BY <4>3 DEF InfoChanged
          <5>2. events' = Emit(n \in kernel, InfoChanged(n))
            BY <3>1, <3>2, <3>3, <4>1, <5>1 DEF Emit
          <5>3. rootExists' = rootExists
            BY <1>1, <3>1, <3>5 DEF DiskOK
          <5> HIDE DEF n, made, news
          <5> QED
            BY <1>1, <1>2, <1>3, <2>1, <2>2, <3>1, <4>1, <4>3, <5>2, <5>3, InfoWritten
        <4> QED
          BY <4>2, <4>3
      <3> QED
        BY <3>4, <3>5
    <2> QED
      BY <2>3, <2>4
  <1> QED
    BY <1>5, <1>6, <1>7 DEF HandleRequest

-----------------------------------------------------------------------------
(* A folder is loaded and watched.                                          *)

\* Both maps lead from a folder to its instance, if it has one.
LEMMA FolderFinds ==
    ASSUME IInv, PathsOK, toWatch = NoWatch, NEW n \in Names
    PROVE  /\ Find(target[n]) = {i \in slab : i.root = n}
           /\ Find(byPath[n]) = {i \in slab : i.root = n}
           /\ \A i, j \in slab : i.root = n /\ j.root = n => i = j
           /\ \A i \in slab : i.id \in Ids /\ i.root \in Names /\ target[i.root] = i.id
  <1>1. \A i \in slab : i.id \in Ids /\ i.root \in Names
    BY DEF IInv, TableOK, Instances
  <1>2. \A i \in slab : NoWatch # [name |-> i.root, target |-> i.id]
    BY <1>1, InstanceRegistryAssumption DEF NoWatch
  <1>3. \A i \in slab : target[i.root] = i.id /\ byPath[i.root] = i.id
    BY <1>2 DEF PathsOK
  <1>4. \A i \in slab : target[n] = i.id \/ byPath[n] = i.id => i.root = n
    BY DEF PathsOK
  <1>5. \A i, j \in slab : i.id = j.id => i = j
    BY DEF IInv, TableOK, SlotsAreUnique
  <1> QED
    BY <1>1, <1>3, <1>4, <1>5 DEF Find

\* While a folder is being loaded or watched, "instances" is there and known.
LEMMA BusyWithRoot ==
    ASSUME InStep, ~Purged
    PROVE  /\ events # <<>> => Head(events) # RootChanged
           /\ rootTarget
           /\ ~rootKernel => Has(events, {RootRemoved})
  BY DEF InStep, RootOK

\* The root and the queue when only the table and the watches of folders change.
LEMMA RootKept ==
    ASSUME InStep, ~Purged, UNCHANGED <<events, rootExists, rootTarget, rootKernel, dir>>,
           kernel' \subseteq Present \cup kernel
    PROVE  QueueOK' /\ RootOK'
  <1>1. QueueOK'
    BY DEF InStep, QueueOK
  <1>2. /\ events' # <<>> => Head(events') # RootChanged
        /\ rootTarget'
        /\ ~rootKernel' => /\ Has(events', {RootRemoved})
                           /\ rootExists' => Has(events', {RootChanged})
        /\ ~rootExists' => ~rootKernel' /\ kernel' = {} /\ Present' = {}
    BY BusyWithRoot DEF InStep, RootOK, Present
  <1> QED
    BY <1>1, <1>2 DEF RootOK, RootRemoved, RootChanged

\* An order kept by the queue and the disk.
LEMMA OrderKept ==
    ASSUME InStep, UNCHANGED <<events, dir, rootExists, rootKernel>>, kernel \subseteq kernel',
           NEW n \in Names
    PROVE  OrderOK(n)'
  <1>1. Coming(n)' => Coming(n)
    BY DEF Coming, Present
  <1>2. OrderOK(n)
    BY DEF InStep
  <1> QED
    BY <1>1, <1>2, OrderParts DEF OrderOK

LEMMA LoadInStep ==
    ASSUME DiskInv, Clean, NEW n \in Names, LoadInstance(n)
    PROVE  InStep'
  <1>1. InStep /\ IInv /\ IdsAreOld /\ PathsOK /\ StepOK
    BY DEF DiskInv, InStep
  <1>2. /\ UNCHANGED <<dir, rootExists, kernel, rootKernel, events, target, rootTarget, fromInfo>>
        /\ toLoad' = toLoad \ {n} /\ toWatch = NoWatch /\ n \in toLoad
    BY DEF LoadInstance, diskVars, watchVars
  <1>3. ~Purged
    BY <1>2 DEF Purged
  <1>4. QueueOK' /\ RootOK'
    BY <1>1, <1>2, <1>3, RootKept
  <1>5. \A m \in Names : OrderOK(m)' /\ FolderOK(m)
    BY <1>1, <1>2, OrderKept DEF InStep
  <1>6. /\ Find(byPath[n]) = {i \in slab : i.root = n}
        /\ \A i, j \in slab : i.root = n /\ j.root = n => i = j
        /\ \A i \in slab : i.id \in Ids /\ i.root \in Names /\ target[i.root] = i.id
    BY <1>1, <1>2, FolderFinds
  <1>7. \A m \in Names : NoWatch.name # m
    BY InstanceRegistryAssumption DEF NoWatch
  <1>8. \A m : m \in Present' <=> m \in Present
    BY <1>2 DEF Present
  <1>9. ASSUME NEW m \in Names, m # n, NameUsed(m)' <=> NameUsed(m) PROVE FolderOK(m)'
    <2>1. m \in toLoad => m \in toLoad'
      BY <1>2, <1>9
    <2>2. toWatch.name # m
      BY <1>2, <1>7
    <2>3. FolderOK(m) /\ OrderOK(m) /\ QueueKeeps(m)
      BY <1>1, <1>2, SameKeeps DEF InStep
    <2>4. Coming(m)' => Coming(m)
      BY <1>2 DEF Coming, Present
    <2> QED
      BY <1>2, <1>9, <2>1, <2>2, <2>3, <2>4, FolderFrame
  <1>10. CASE LoadFails(n)
    <2>1. /\ slab' = {i \in slab : i.root # n} /\ byPath' = byPath /\ dir[n] # "info"
          /\ toWatch' = IF fromInfo THEN NoWatch ELSE [name |-> n, target |-> Invalid]
      BY <1>6, <1>10 DEF LoadFails, Forget
    <2>2. ~NameUsed(n)' /\ \A m \in Names : m # n => (NameUsed(m)' <=> NameUsed(m))
      BY <2>1 DEF NameUsed
    <2>3. PathsOK'
      BY <1>1, <1>2, <1>6, <2>1 DEF PathsOK
    <2>4. StepOK'
      <3>1. toWatch' # NoWatch => toWatch' = [name |-> n, target |-> Invalid]
        BY <2>1
      <3>2. toWatch' # NoWatch' => WatchIsRight(toWatch.name, toWatch.target)'
        BY <1>2, <2>1, <2>2, <3>1 DEF WatchIsRight, NoWatch, NameUsed
      <3>3. fromInfo' => toLoad' = {}
        BY <1>1, <1>2 DEF StepOK
      <3> QED
        BY <3>2, <3>3 DEF StepOK
    <2>5. FolderOK(n)'
      <3>1. n \in Present' => \/ n \in kernel' /\ (target'[n] = Invalid \/ NameUsed(n)')
                              \/ toWatch'.name = n
                              \/ Has(events', Arrivals(n))
        <4>1. CASE fromInfo
          <5>1. ~NameUsed(n)
            BY <1>1, <1>2, <4>1 DEF StepOK
          <5>2. FolderOK(n) /\ toWatch.name # n
            BY <1>2, <1>5, <1>7
          <5> QED
            BY <1>2, <1>8, <4>1, <5>1, <5>2 DEF FolderOK
        <4>2. CASE ~fromInfo
          BY <2>1, <4>2
        <4> QED
          BY <4>1, <4>2
      <3>2. n \in kernel' => n \in Present'
        BY <1>2, <1>5, <1>8 DEF FolderOK
      <3> QED
        BY <1>2, <2>1, <2>2, <3>1, <3>2, FolderParts
    <2> QED
      BY <1>4, <1>5, <1>9, <2>2, <2>3, <2>4, <2>5, InStepParts
  <1>11. CASE LoadUpdates(n)
    <2>1. NameUsed(n) /\ dir[n] = "info" /\ UNCHANGED <<byPath, toWatch>>
      BY <1>6, <1>11 DEF LoadUpdates, NameUsed
    <2>2. slab' = slab
      <3>1. slab' = (slab \ Find(byPath[n])) \cup {[i EXCEPT !.root = n] : i \in Find(byPath[n])}
        BY <1>11 DEF LoadUpdates, Rebase
      <3>2. \A i \in Find(byPath[n]) : [i EXCEPT !.root = n] = i
        <4>1. \A i \in slab : i \in Instances
          BY <1>1 DEF IInv, TableOK
        <4> QED
          BY <1>6, <4>1 DEF Instances
      <3>3. Find(byPath[n]) \subseteq slab
        BY FindIsPart
      <3> QED
        BY <3>1, <3>2, <3>3
    <2>3. \A m : NameUsed(m)' <=> NameUsed(m)
      BY <2>2 DEF NameUsed
    <2>4. ~fromInfo
      BY <1>1, <1>2, <2>1 DEF StepOK
    <2>5. PathsOK' /\ StepOK'
      BY <1>1, <1>2, <2>1, <2>2, <2>4 DEF PathsOK, StepOK, NoWatch
    <2>6. FolderOK(n)'
      <3>1. n \in Present /\ n \in Present' /\ Coming(n) /\ rootExists
        BY <1>1, <1>8, <2>1 DEF Present, Coming, InStep, RootOK
      <3>2. n \notin kernel => Has(events, Arrivals(n))
        <4> SUFFICES ASSUME n \notin kernel PROVE Has(events, Arrivals(n))
          OBVIOUS
        <4>1. Has(events, {Remove(n)}) \/ Has(events, {RootRemoved})
          BY <1>2, <1>5, <1>7, <2>1 DEF FolderOK, Has, Departures
        <4>2. CASE Has(events, {Remove(n)})
          BY <1>1, <3>1, <4>2, FollowedHas DEF InStep, OrderOK
        <4>3. CASE Has(events, {RootRemoved})
          <5> PICK k \in 1..Len(events) : events[k] = RootRemoved
            BY <4>3 DEF Has
          <5>1. k # Len(events) /\ events[k + 1] = RootChanged
            BY <1>1, <3>1 DEF InStep, QueueOK
          <5>2. k + 1 \in 1..Len(events)
            <6>1. Len(events) \in Nat
              BY <1>1 DEF IInv, DiskOK
            <6> QED
              BY <5>1, <6>1
          <5>3. RootChanged \in Arrivals(n)
            BY DEF Arrivals
          <5> QED
            BY <5>1, <5>2, <5>3 DEF Has
        <4> QED
          BY <4>1, <4>2, <4>3
      <3>3. NameUsed(n)' /\ n \notin kernel' => Has(events', Departures(n))
        BY <1>2, <1>5, <1>7, <2>1 DEF FolderOK
      <3> QED
        BY <1>2, <2>1, <2>3, <3>1, <3>2, <3>3, FolderParts
    <2> QED
      BY <1>4, <1>5, <1>9, <2>3, <2>5, <2>6, InStepParts
  <1>12. CASE LoadInserts(n)
    <2>0. PICK s \in FreeSlots :
            LET id == [slot |-> s, gen |-> generation]
                new == NewInstance(id, n)
            IN  /\ slab' = slab \cup {new}
                /\ byPath' = [byPath EXCEPT ![n] = id]
                /\ toWatch' = [name |-> n, target |-> id]
      BY <1>12 DEF LoadInserts
    <2> DEFINE id == [slot |-> s, gen |-> generation]
               new == NewInstance(id, n)
    <2>1. /\ slab' = slab \cup {new} /\ byPath' = [byPath EXCEPT ![n] = id]
          /\ toWatch' = [name |-> n, target |-> id] /\ dir[n] = "info"
      BY <1>12, <2>0 DEF LoadInserts
    <2>2. new.id = id /\ new.root = n /\ new.dot = n /\ id \in Ids /\ id.gen = generation
      <3>1. s \in Nat /\ generation \in Nat
        BY <1>1 DEF FreeSlots, IInv, TableOK
      <3> QED
        BY <3>1 DEF NewInstance, Ids
    <2>3. /\ \A i \in slab : i.id # id /\ i.root # n
          /\ \A m \in Names : target[m] # id /\ byPath[m] # id
      <3>1. \A i \in slab : i.id.gen < generation
        BY <1>1 DEF IInv, TableOK, SlotsAreUnique
      <3>2. generation \in Nat
        BY <1>1 DEF IInv, TableOK
      <3>3. \A i \in slab : i.root # n
        BY <1>6, <1>12 DEF LoadInserts
      <3>4. \A x : x = id => ~(x.gen < generation)
        BY <2>2, <3>2
      <3> QED
        BY <1>1, <2>2, <3>1, <3>3, <3>4 DEF IdsAreOld
    <2> HIDE DEF id, new
    <2>4. NameUsed(n)' /\ \A m \in Names : m # n => (NameUsed(m)' <=> NameUsed(m))
      BY <2>1, <2>2 DEF NameUsed
    <2>5. PathsOK'
      <3>1. byPath'[n] = id /\ \A m \in Names : m # n => byPath'[m] = byPath[m]
        BY <1>1, <2>1 DEF IInv, TableOK
      <3>2. ASSUME NEW i \in slab
            PROVE  /\ i.dot = i.root /\ byPath'[i.root] = i.id /\ target[i.root] = i.id
                   /\ \A m \in Names : target[m] = i.id \/ byPath'[m] = i.id => i.root = m
        BY <1>1, <1>6, <2>3, <3>1 DEF PathsOK
      <3>3. /\ new.dot = new.root /\ byPath'[new.root] = new.id
            /\ toWatch' = [name |-> new.root, target |-> new.id]
            /\ \A m \in Names : target[m] = new.id \/ byPath'[m] = new.id => new.root = m
        BY <2>1, <2>2, <2>3, <3>1
      <3> QED
        BY <1>2, <2>1, <3>2, <3>3 DEF PathsOK
    <2>6. StepOK'
      <3>1. \E i \in slab' : i.root = n /\ i.id = id
        BY <2>1, <2>2
      <3>2. toWatch'.name = n /\ toWatch'.target = id /\ dir'[n] = "info"
        BY <1>2, <2>1
      <3>3. WatchIsRight(toWatch.name, toWatch.target)'
        BY <3>1, <3>2 DEF WatchIsRight
      <3>4. fromInfo' => toLoad' = {}
        BY <1>1, <1>2 DEF StepOK
      <3> QED
        BY <3>3, <3>4 DEF StepOK
    <2>7. FolderOK(n)'
      <3>1. toWatch'.name = n /\ dir'[n] = "info"
        BY <1>2, <2>1
      <3>2. n \in kernel' => n \in Present'
        BY <1>2, <1>5, <1>8 DEF FolderOK
      <3> QED
        BY <2>4, <3>1, <3>2, FolderParts
    <2> QED
      BY <1>4, <1>5, <1>9, <2>4, <2>5, <2>6, <2>7, InStepParts
  <1> QED
    BY <1>10, <1>11, <1>12 DEF LoadInstance

LEMMA SetWatchInStep ==
    ASSUME DiskInv, Clean, SetWatch
    PROVE  InStep'
  <1>1. InStep /\ IInv /\ PathsOK /\ StepOK
    BY DEF DiskInv, InStep
  <1>0. /\ toWatch.name \in Names /\ toWatch.target \in Ids \cup {Invalid}
        /\ toWatch = [name |-> toWatch.name, target |-> toWatch.target]
    BY <1>1 DEF IInv, LoopOK, SetWatch
  <1> PICK n \in Names, t \in Ids \cup {Invalid} : toWatch.name = n /\ toWatch.target = t
    BY <1>0
  <1>2. /\ UNCHANGED <<dir, rootExists, rootKernel, events, slab, byPath, rootTarget, toLoad, fromInfo>>
        /\ toWatch # NoWatch /\ toWatch' = NoWatch
        /\ Watch(n, t)
    BY DEF SetWatch, tableVars
  <1>3. /\ n \in Names /\ t \in Ids \cup {Invalid} /\ toWatch = [name |-> n, target |-> t]
        /\ target \in [Names -> Ids \cup {None, Invalid}] /\ t # None
    BY <1>0, <1>1, InstanceRegistryAssumption DEF IInv, WatchOK
  <1>4. WatchIsRight(n, t)
    BY <1>1, <1>2 DEF StepOK
  <1>5. ~Purged
    BY <1>2 DEF Purged
  <1>6. /\ kernel' \subseteq Present \cup kernel /\ kernel \subseteq kernel'
        /\ n \in Present => n \in kernel' /\ target'[n] = t
        /\ n \notin Present => kernel' = kernel /\ target' = target
        /\ \A m \in Names : m # n => target'[m] = target[m] /\ (m \in kernel' <=> m \in kernel)
    BY <1>2, <1>3 DEF Watch, Present
  <1>7. QueueOK' /\ RootOK'
    BY <1>1, <1>2, <1>5, <1>6, RootKept
  <1>8. \A m \in Names : OrderOK(m)' /\ FolderOK(m)
    BY <1>1, <1>2, <1>6, OrderKept DEF InStep
  <1>9. \A m : (NameUsed(m)' <=> NameUsed(m)) /\ (m \in Present' <=> m \in Present)
    BY <1>2 DEF NameUsed, Present
  <1>10. \A i \in slab : i.id \in Ids /\ i.root \in Names
    BY <1>1 DEF IInv, TableOK, Instances
  <1>11. \A i, j \in slab : i.id = j.id => i = j
    BY <1>1 DEF IInv, TableOK, SlotsAreUnique
  <1>12. PathsOK'
    <2>1. ASSUME NEW i \in slab
          PROVE  i.dot = i.root /\ byPath[i.root] = i.id /\ target'[i.root] = i.id
      <3>1. CASE i.root = n
        <4>1. dir[n] = "info" /\ \E j \in slab : j.root = n /\ j.id = t
          BY <1>4, <3>1 DEF WatchIsRight, NameUsed
        <4>2. t = i.id
          BY <1>1, <3>1, <4>1 DEF PathsOK
        <4>3. n \in Present
          BY <1>3, <4>1 DEF Present
        <4> QED
          BY <1>1, <1>6, <3>1, <4>2, <4>3 DEF PathsOK
      <3>2. CASE i.root # n
        <4>1. toWatch # [name |-> i.root, target |-> i.id]
          BY <1>3, <3>2
        <4> QED
          BY <1>1, <1>6, <1>10, <3>2, <4>1 DEF PathsOK
      <3> QED
        BY <3>1, <3>2
    <2>2. ASSUME NEW i \in slab, NEW m \in Names, target'[m] = i.id \/ byPath[m] = i.id
          PROVE  i.root = m
      <3>1. CASE m = n /\ n \in Present /\ target'[m] = i.id
        <4>1. t = i.id
          BY <1>6, <3>1
        <4>2. \E j \in slab : j.root = n /\ j.id = t
          BY <1>4, <1>10, <4>1, InstanceRegistryAssumption DEF WatchIsRight
        <4> QED
          BY <1>11, <3>1, <4>1, <4>2
      <3>2. CASE ~(m = n /\ n \in Present /\ target'[m] = i.id)
        BY <1>1, <1>6, <2>2, <3>2 DEF PathsOK
      <3> QED
        BY <3>1, <3>2
    <2> QED
      BY <1>2, <2>1, <2>2 DEF PathsOK
  <1>13. StepOK'
    <2>1. NoWatch' = NoWatch
      BY DEF NoWatch
    <2>2. fromInfo' => \A m \in toLoad' : toLoad' = {m} /\ ~NameUsed(m)' /\ target'[m] # None
      <3>1. \A m \in toLoad : m \in Names
        BY <1>1 DEF IInv, LoopOK
      <3>2. \A m \in Names : target'[m] = target[m] \/ target'[m] = t
        BY <1>6
      <3> QED
        BY <1>1, <1>2, <1>3, <1>9, <3>1, <3>2 DEF StepOK
    <2> QED
      BY <1>2, <2>1, <2>2 DEF StepOK
  <1>14. ASSUME NEW m \in Names, m # n PROVE FolderOK(m)'
    <2>1. FolderOK(m) /\ OrderOK(m) /\ QueueKeeps(m)
      BY <1>1, <1>2, SameKeeps DEF InStep
    <2>2. Coming(m)' => Coming(m)
      BY <1>2 DEF Coming, Present
    <2>3. toWatch.name # m
      BY <1>14
    <2>4. dir'[m] = dir[m] /\ toLoad' = toLoad /\ fromInfo' = fromInfo
      BY <1>2
    <2> QED
      BY <1>6, <1>9, <1>14, <2>1, <2>2, <2>3, <2>4, FolderFrame
  <1>15. FolderOK(n)'
    <2>1. CASE n \in Present
      <3>1. n \in kernel' /\ n \in Present' /\ target'[n] = t
        BY <1>6, <1>9, <2>1
      <3>2. t = Invalid \/ NameUsed(n)'
        BY <1>4, <1>9 DEF WatchIsRight, NameUsed
      <3>3. dir'[n] = "info" /\ ~NameUsed(n)' => n \in toLoad' \/ Has(events', InfoNews(n))
        BY <1>2, <1>3, <1>8, <1>9 DEF FolderOK
      <3>4. dir'[n] = "bare" /\ NameUsed(n)' =>
               n \in toLoad' \/ Has(events', InfoLoss(n)) \/ Has(events', {RootRemoved})
        BY <1>2, <1>3, <1>8, <1>9 DEF FolderOK
      <3> QED
        BY <1>3, <3>1, <3>2, <3>3, <3>4, FolderParts
    <2>2. CASE n \notin Present
      <3>1. n \notin kernel' /\ n \notin Present' /\ dir'[n] = "absent"
        BY <1>2, <1>3, <1>6, <1>8, <1>9, <2>2 DEF FolderOK, Present
      <3>2. ~NameUsed(n)'
        BY <1>2, <1>4, <1>9, <3>1 DEF WatchIsRight
      <3> QED
        BY <1>3, <3>1, <3>2, FolderParts
    <2> QED
      BY <2>1, <2>2
  <1> QED
    BY <1>7, <1>8, <1>12, <1>13, <1>14, <1>15, InStepParts

-----------------------------------------------------------------------------
(* An event is handled.                                                     *)

\* What holds before any event is handled.
LEMMA Delivery ==
    ASSUME DiskInv, Clean, events # <<>>, events' = Tail(events), ~Busy, UNCHANGED rootExists
    PROVE  /\ IInv /\ DiskOK /\ WatchOK /\ InStep /\ QueueOK /\ RootOK /\ PathsOK /\ StepOK
           /\ toLoad = {} /\ toWatch = NoWatch
           /\ \A n \in Names : FolderOK(n) /\ OrderOK(n)
           /\ \A n \in Names : NoWatch.name # n
           /\ QueueOK'
           /\ events' # <<>> /\ Head(events') = RootChanged => Head(events) = RootRemoved
           /\ Head(events) \notin {RootRemoved, RootChanged} => rootTarget
           /\ \/ Head(events) \in {RootRemoved, RootChanged}
              \/ \E n \in Names : Head(events) \in {Change(n), Remove(n), InfoChanged(n), InfoRemoved(n)}
  <1>1. /\ IInv /\ DiskOK /\ WatchOK /\ InStep /\ QueueOK /\ RootOK /\ PathsOK /\ StepOK
        /\ \A n \in Names : FolderOK(n) /\ OrderOK(n)
    BY DEF DiskInv, IInv, InStep
  <1>2. toLoad = {} /\ toWatch = NoWatch
    BY DEF Busy
  <1>3. \A n \in Names : NoWatch.name # n
    BY InstanceRegistryAssumption DEF NoWatch
  <1>4. /\ QueueOK'
        /\ events' # <<>> /\ Head(events') = RootChanged => Head(events) = RootRemoved
    BY <1>1, QueueTail
  <1>5. Head(events) \notin {RootRemoved, RootChanged} => rootTarget
    BY <1>1 DEF RootOK
  <1>6. 1 \in 1..Len(events) /\ Head(events) = events[1]
    <2>1. events \in Seq(NamedEvents)
      BY <1>1 DEF DiskOK
    <2> QED
      BY <2>1
  <1>7. \/ Head(events) \in {RootRemoved, RootChanged}
        \/ \E n \in Names : Head(events) \in {Change(n), Remove(n), InfoChanged(n), InfoRemoved(n)}
    BY <1>1, <1>6 DEF QueueOK
  <1> QED
    BY <1>1, <1>2, <1>3, <1>4, <1>5, <1>7

\* The root, after an event of a folder: while a folder is to be loaded
\* from a directory that is not watched, the removal of it still waits.
LEMMA RootTail ==
    ASSUME DiskInv, Clean, events # <<>>, events' = Tail(events), ~Busy,
           Head(events) \notin {RootRemoved, RootChanged},
           UNCHANGED <<dir, rootExists, rootKernel, rootTarget>>,
           kernel' \subseteq Present \cup kernel,
           slab' \subseteq slab, toWatch' = toWatch
    PROVE  RootOK'
  <1>1. /\ DiskOK /\ QueueOK /\ RootOK /\ rootTarget /\ toLoad = {}
        /\ events' # <<>> => Head(events') # RootChanged
    BY Delivery
  <1>2. ~rootKernel => Has(events, {RootRemoved}) \/ Purged
    BY <1>1 DEF RootOK
  <1>3. ~rootKernel => Has(events', {RootRemoved})
    <2> SUFFICES ASSUME ~rootKernel PROVE Has(events', {RootRemoved})
      OBVIOUS
    <2>0. events \in Seq(NamedEvents) /\ Len(events) \in Nat /\ Len(events) # 0 /\ Head(events) = events[1]
      BY <1>1 DEF DiskOK
    <2>1. Has(events, {RootRemoved})
      <3>1. CASE rootExists
        <4>1. Has(events, {RootChanged})
          BY <1>1, <3>1 DEF RootOK
        <4> PICK k \in 1..Len(events) : events[k] = RootChanged
          BY <4>1 DEF Has
        <4>2. k \in 2..Len(events) /\ k - 1 \in 1..Len(events)
          BY <2>0
        <4>3. events[k - 1] = RootRemoved
          BY <1>1, <4>2 DEF QueueOK
        <4> QED
          BY <4>2, <4>3 DEF Has
      <3>2. CASE ~rootExists
        <4>1. events[Len(events)] = RootRemoved /\ Len(events) \in 1..Len(events)
          BY <1>1, <2>0, <3>2 DEF QueueOK
        <4> QED
          BY <4>1 DEF Has
      <3> QED
        BY <3>1, <3>2
    <2> QED
      BY <1>1, <2>1, TailHas
  <1>4. ~rootKernel /\ rootExists => Has(events', {RootChanged})
    <2>1. ~rootKernel /\ rootExists => Has(events, {RootChanged})
      BY <1>1 DEF RootOK
    <2>2. Head(events) \notin {RootChanged}
      OBVIOUS
    <2> QED
      BY <1>1, <2>1, <2>2, TailHas
  <1>5. ~rootExists => ~rootKernel /\ kernel' = {} /\ Present' = {}
    BY <1>1 DEF RootOK, Present
  <1> QED
    BY <1>1, <1>3, <1>4, <1>5 DEF RootOK, RootRemoved, RootChanged

\* The order behind the events that are left is what it was.
LEMMA OrderTail ==
    ASSUME DiskOK, events # <<>>, events' = Tail(events), NEW n \in Names, OrderOK(n),
           UNCHANGED dir, Coming(n)' => Coming(n), n \in kernel => n \in kernel'
    PROVE  OrderOK(n)'
  <1>1. \A f, S : Followed(events, f, S) => Followed(events', f, S)
    BY TailFollowed
  <1>2. Coming(n)' => Followed(events', Remove(n), Arrivals(n))
    BY <1>1 DEF OrderOK
  <1>3. Coming(n)' /\ n \notin kernel' => /\ Followed(events', InfoChanged(n), Arrivals(n))
                                          /\ Followed(events', InfoRemoved(n), Arrivals(n))
    BY <1>1 DEF OrderOK
  <1>4. dir'[n] = "info" => Followed(events', InfoRemoved(n), InfoNews(n))
    BY <1>1 DEF OrderOK
  <1>5. dir'[n] = "bare" => Followed(events', InfoChanged(n), InfoLoss(n))
    BY <1>1 DEF OrderOK
  <1> QED
    BY <1>2, <1>3, <1>4, <1>5, OrderParts

LEMMA OtherFoldersWait ==
    ASSUME DiskInv, Clean, events # <<>>, events' = Tail(events), ~Busy,
           NEW n \in Names, Head(events) \in {Change(n), Remove(n), InfoChanged(n), InfoRemoved(n)},
           UNCHANGED <<dir, rootExists, rootKernel>>, toWatch' = toWatch,
           NEW m \in Names, m # n, m \in kernel' <=> m \in kernel, target'[m] = target[m],
           NameUsed(m)' <=> NameUsed(m)
    PROVE  FolderOK(m)' /\ OrderOK(m)'
  <1>1. /\ DiskOK /\ toLoad = {} /\ toWatch = NoWatch /\ FolderOK(m) /\ OrderOK(m)
    BY Delivery
  <1>2. /\ Head(events) \notin {RootRemoved, RootChanged}
        /\ Head(events) \notin {Change(m), Remove(m), InfoChanged(m), InfoRemoved(m)}
    BY EventsDiffer
  <1>3. QueueKeeps(m)
    BY <1>1, <1>2, TailKeeps
  <1>4. Coming(m)' => Coming(m)
    BY DEF Coming, Present
  <1>5. m \in toLoad => m \in toLoad' /\ (fromInfo' => fromInfo)
    BY <1>1
  <1> QED
    BY <1>1, <1>3, <1>4, <1>5, FolderFrame

\* The kind of an event tells which it is.
LEMMA HeadByKind ==
    ASSUME DiskInv, Clean, events # <<>>, events' = Tail(events), ~Busy, UNCHANGED rootExists
    PROVE  /\ Head(events).kind = "change" => \E n \in Names : Head(events) = Change(n) /\ Head(events).name = n
           /\ Head(events).kind = "remove" => \E n \in Names : Head(events) = Remove(n) /\ Head(events).name = n
           /\ Head(events).kind = "infoChanged" =>
                 \E n \in Names : Head(events) = InfoChanged(n) /\ Head(events).name = n
           /\ Head(events).kind = "infoRemoved" =>
                 \E n \in Names : Head(events) = InfoRemoved(n) /\ Head(events).name = n
           /\ Head(events).kind = "rootRemoved" => Head(events) = RootRemoved
           /\ Head(events).kind = "rootChanged" => Head(events) = RootChanged
           /\ Head(events).kind # "rename"
  <1>1. \/ Head(events) \in {RootRemoved, RootChanged}
        \/ \E n \in Names : Head(events) \in {Change(n), Remove(n), InfoChanged(n), InfoRemoved(n)}
    BY Delivery
  <1>2. \A n : /\ Change(n).kind = "change" /\ Change(n).name = n
               /\ Remove(n).kind = "remove" /\ Remove(n).name = n
               /\ InfoChanged(n).kind = "infoChanged" /\ InfoChanged(n).name = n
               /\ InfoRemoved(n).kind = "infoRemoved" /\ InfoRemoved(n).name = n
    BY DEF Change, Remove, InfoChanged, InfoRemoved, Event
  <1>3. RootRemoved.kind = "rootRemoved" /\ RootChanged.kind = "rootChanged"
    BY DEF RootRemoved, RootChanged, Event
  <1>4. CASE Head(events) \in {RootRemoved, RootChanged}
    BY <1>3, <1>4
  <1>5. ASSUME NEW n \in Names, Head(events) \in {Change(n), Remove(n), InfoChanged(n), InfoRemoved(n)}
        PROVE  \/ Head(events) = Change(n) /\ Head(events).kind = "change" /\ Head(events).name = n
               \/ Head(events) = Remove(n) /\ Head(events).kind = "remove" /\ Head(events).name = n
               \/ Head(events) = InfoChanged(n) /\ Head(events).kind = "infoChanged" /\ Head(events).name = n
               \/ Head(events) = InfoRemoved(n) /\ Head(events).kind = "infoRemoved" /\ Head(events).name = n
    BY <1>2, <1>5
  <1> QED
    BY <1>1, <1>4, <1>5

\* The instances and the step of the loop when no instance comes or goes.
LEMMA PathsKept ==
    ASSUME DiskInv, Clean, toWatch = NoWatch, UNCHANGED <<slab, byPath, target, toWatch>>
    PROVE  PathsOK' /\ \A m : NameUsed(m)' <=> NameUsed(m)
  BY DEF DiskInv, InStep, PathsOK, NameUsed

LEMMA ChangeInStep ==
    ASSUME DiskInv, Clean, DeliverChange
    PROVE  InStep'
  <1>1. /\ events # <<>> /\ events' = Tail(events) /\ ~Busy /\ Head(events).kind = "change"
        /\ UNCHANGED <<dir, rootExists, kernel, rootKernel, slab, byPath, target, rootTarget, toWatch>>
    BY DEF DeliverChange, Delivers, tableVars, watchVars
  <1> PICK n \in Names : Head(events) = Change(n) /\ Head(events).name = n
    BY <1>1, HeadByKind
  <1>2. /\ IInv /\ DiskOK /\ InStep /\ toLoad = {} /\ toWatch = NoWatch /\ QueueOK'
        /\ FolderOK(n) /\ OrderOK(n) /\ NoWatch.name # n
    BY <1>1, Delivery
  <1>3. Head(events) \notin {RootRemoved, RootChanged}
    BY EventsDiffer
  <1>4. rootTarget
    BY <1>1, <1>3, Delivery
  <1>5. IF n \in Present THEN toLoad' = {n} /\ fromInfo' = FALSE ELSE UNCHANGED <<toLoad, fromInfo>>
    BY <1>4 DEF DeliverChange, Loads, Ignored, Present
  <1>6. RootOK'
    BY <1>1, <1>3, RootTail
  <1>7. PathsOK' /\ \A m : NameUsed(m)' <=> NameUsed(m)
    BY <1>1, <1>2, PathsKept
  <1>8. StepOK'
    <2>1. toWatch' = NoWatch /\ NoWatch' = NoWatch
      BY <1>1, <1>2 DEF NoWatch
    <2>2. fromInfo' => toLoad' = {}
      BY <1>2, <1>5
    <2> QED
      BY <2>1, <2>2 DEF StepOK
  <1>9. ASSUME NEW m \in Names, m # n PROVE FolderOK(m)' /\ OrderOK(m)'
    <2>1. Head(events) \in {Change(n), Remove(n), InfoChanged(n), InfoRemoved(n)}
      OBVIOUS
    <2> QED
      BY <1>1, <1>7, <1>9, <2>1, OtherFoldersWait
  <1>10. n \in Present' <=> n \in Present
    BY <1>1 DEF Present
  <1>11. OrderOK(n)'
    <2>1. Coming(n)' => Coming(n)
      BY <1>1, <1>10 DEF Coming
    <2> QED
      BY <1>1, <1>2, <2>1, OrderTail
  <1>12. FolderOK(n)'
    <2>1. NameUsed(n)' /\ n \notin kernel' => Has(events', Departures(n))
      <3>1. Has(events, Departures(n)) => Has(events', Departures(n))
        <4>1. Head(events) \notin Departures(n)
          BY EventsDiffer DEF Departures
        <4> QED
          BY <1>1, <1>2, <4>1, TailHas
      <3> QED
        BY <1>1, <1>2, <1>7, <3>1 DEF FolderOK
    <2>2. CASE n \in Present
      <3>1. n \in toLoad' /\ ~fromInfo' /\ n \in Present'
        BY <1>5, <1>10, <2>2
      <3> QED
        BY <2>1, <3>1, FolderParts
    <2>3. CASE n \notin Present
      <3>1. n \notin kernel' /\ n \notin Present' /\ dir'[n] = "absent"
        BY <1>1, <1>2, <1>10, <2>3 DEF FolderOK, Present
      <3> QED
        BY <2>1, <3>1, FolderParts
    <2> QED
      BY <2>2, <2>3
  <1> QED
    BY <1>2, <1>6, <1>7, <1>8, <1>9, <1>11, <1>12, InStepParts

LEMMA RemoveInStep ==
    ASSUME DiskInv, Clean, DeliverRemove
    PROVE  InStep'
  <1>1. /\ events # <<>> /\ events' = Tail(events) /\ ~Busy /\ Head(events).kind = "remove"
        /\ UNCHANGED <<dir, rootExists, kernel, rootKernel, byPath, rootTarget, toLoad, fromInfo, toWatch>>
    BY DEF DeliverRemove, Delivers, loopVars
  <1> PICK n \in Names : Head(events) = Remove(n) /\ Head(events).name = n
    BY <1>1, HeadByKind
  <1>2. /\ IInv /\ DiskOK /\ WatchOK /\ InStep /\ toLoad = {} /\ toWatch = NoWatch /\ QueueOK'
        /\ FolderOK(n) /\ OrderOK(n) /\ NoWatch.name # n /\ PathsOK
    BY <1>1, Delivery
  <1>3. Head(events) \notin {RootRemoved, RootChanged}
    BY EventsDiffer
  <1>4. /\ Find(target[n]) = {i \in slab : i.root = n}
        /\ \A i \in slab : i.id \in Ids /\ i.root \in Names /\ target[i.root] = i.id
    BY <1>2, FolderFinds
  <1>5. slab' = {i \in slab : i.root # n} /\ target' = [target EXCEPT ![n] = None]
    BY <1>4 DEF DeliverRemove, Forget
  <1>6. RootOK'
    <2>1. slab' \subseteq slab /\ kernel' \subseteq Present \cup kernel
      BY <1>1, <1>5
    <2> QED
      BY <1>1, <1>3, <2>1, RootTail
  <1>7. ~NameUsed(n)' /\ \A m \in Names : m # n => (NameUsed(m)' <=> NameUsed(m)) /\ target'[m] = target[m]
    BY <1>2, <1>5 DEF NameUsed, WatchOK
  <1>8. PathsOK'
    <2>1. \A m \in Names : target'[m] = target[m] \/ target'[m] = None
      BY <1>2, <1>5 DEF WatchOK
    <2>2. \A i \in slab : i.id # None
      BY <1>4, InstanceRegistryAssumption
    <2>3. \A i \in slab' : i \in slab /\ target'[i.root] = i.id
      BY <1>2, <1>4, <1>5, <1>7
    <2> QED
      BY <1>1, <1>2, <2>1, <2>2, <2>3 DEF PathsOK
  <1>9. StepOK'
    BY <1>1, <1>2 DEF StepOK, NoWatch
  <1>10. ASSUME NEW m \in Names, m # n PROVE FolderOK(m)' /\ OrderOK(m)'
    <2>1. Head(events) \in {Change(n), Remove(n), InfoChanged(n), InfoRemoved(n)}
      OBVIOUS
    <2> QED
      BY <1>1, <1>7, <1>10, <2>1, OtherFoldersWait
  <1>11. n \in Present' <=> n \in Present
    BY <1>1 DEF Present
  <1>12. OrderOK(n)'
    <2>1. Coming(n)' => Coming(n)
      BY <1>1, <1>11 DEF Coming
    <2> QED
      BY <1>1, <1>2, <2>1, OrderTail
  <1>13. FolderOK(n)'
    <2>1. n \in Present => Has(events', Arrivals(n)) /\ Has(events', InfoNews(n))
      <3> SUFFICES ASSUME n \in Present PROVE Has(events', Arrivals(n)) /\ Has(events', InfoNews(n))
        OBVIOUS
      <3>1. Followed(events, Remove(n), Arrivals(n))
        BY <1>2 DEF OrderOK, Coming
      <3>2. Has(events', Arrivals(n))
        BY <1>1, <1>2, <3>1, TailFollowed
      <3> QED
        BY <3>2, SetsOfEvents, WaitsForMore
    <2>2. n \in kernel' => n \in Present'
      BY <1>1, <1>2, <1>11 DEF FolderOK
    <2>3. dir'[n] = "info" => n \in Present
      BY <1>1 DEF Present
    <2> QED
      BY <1>7, <1>11, <2>1, <2>2, <2>3, FolderParts
  <1> QED
    BY <1>2, <1>6, <1>8, <1>9, <1>10, <1>12, <1>13, InStepParts

LEMMA InfoChangedInStep ==
    ASSUME DiskInv, Clean, DeliverInfoChanged
    PROVE  InStep'
  <1>1. /\ events # <<>> /\ events' = Tail(events) /\ ~Busy /\ Head(events).kind = "infoChanged"
        /\ UNCHANGED <<dir, rootExists, kernel, rootKernel, slab, byPath, target, rootTarget, toWatch>>
    BY DEF DeliverInfoChanged, Delivers, tableVars, watchVars
  <1> PICK n \in Names : Head(events) = InfoChanged(n) /\ Head(events).name = n
    BY <1>1, HeadByKind
  <1>2. /\ IInv /\ DiskOK /\ InStep /\ toLoad = {} /\ toWatch = NoWatch /\ QueueOK' /\ PathsOK
        /\ FolderOK(n) /\ OrderOK(n) /\ NoWatch.name # n
    BY <1>1, Delivery
  <1>3. Head(events) \notin {RootRemoved, RootChanged}
    BY EventsDiffer
  <1>4. Find(target[n]) = {} <=> ~NameUsed(n)
    BY <1>2, FolderFinds DEF NameUsed
  <1>5. IF target[n] # None /\ ~NameUsed(n) THEN toLoad' = {n} /\ fromInfo' = TRUE
        ELSE UNCHANGED <<toLoad, fromInfo>>
    BY <1>4 DEF DeliverInfoChanged, Loads, Ignored
  <1>6. RootOK'
    BY <1>1, <1>3, RootTail
  <1>7. PathsOK' /\ \A m : NameUsed(m)' <=> NameUsed(m)
    BY <1>1, <1>2, PathsKept
  <1>8. StepOK'
    <2>1. toWatch' = NoWatch /\ NoWatch' = NoWatch
      BY <1>1, <1>2 DEF NoWatch
    <2>2. fromInfo' => \A m \in toLoad' : toLoad' = {m} /\ ~NameUsed(m)' /\ target'[m] # None
      BY <1>1, <1>2, <1>5, <1>7
    <2> QED
      BY <2>1, <2>2 DEF StepOK
  <1>9. ASSUME NEW m \in Names, m # n PROVE FolderOK(m)' /\ OrderOK(m)'
    <2>1. Head(events) \in {Change(n), Remove(n), InfoChanged(n), InfoRemoved(n)}
      OBVIOUS
    <2> QED
      BY <1>1, <1>7, <1>9, <2>1, OtherFoldersWait
  <1>10. n \in Present' <=> n \in Present
    BY <1>1 DEF Present
  <1>11. OrderOK(n)'
    <2>1. Coming(n)' => Coming(n)
      BY <1>1, <1>10 DEF Coming
    <2> QED
      BY <1>1, <1>2, <2>1, OrderTail
  <1>12. FolderOK(n)'
    <2>1. /\ Has(events, Arrivals(n)) => Has(events', Arrivals(n))
          /\ Has(events, Departures(n)) => Has(events', Departures(n))
          /\ Has(events, InfoLoss(n)) => Has(events', InfoLoss(n))
          /\ Has(events, {RootRemoved}) => Has(events', {RootRemoved})
      <3>1. /\ Head(events) \notin Arrivals(n) /\ Head(events) \notin Departures(n)
            /\ Head(events) \notin InfoLoss(n) /\ Head(events) \notin {RootRemoved}
        BY EventsDiffer DEF Arrivals, Departures, InfoLoss
      <3> QED
        BY <1>1, <1>2, <3>1, TailHas
    <2>2. n \in Present => \/ n \in kernel /\ (target[n] = Invalid \/ NameUsed(n))
                           \/ Has(events', Arrivals(n))
      BY <1>2, <2>1 DEF FolderOK
    <2>3. NameUsed(n) /\ n \notin kernel => Has(events', Departures(n))
      BY <1>2, <2>1 DEF FolderOK
    <2>4. dir[n] = "info" /\ ~NameUsed(n) => n \in toLoad' \/ Has(events', InfoNews(n))
      <3> SUFFICES ASSUME dir[n] = "info", ~NameUsed(n), n \notin toLoad'
                   PROVE  Has(events', InfoNews(n))
        OBVIOUS
      <3>1. target[n] = None /\ n \in Present
        BY <1>5 DEF Present
      <3>2. Has(events', Arrivals(n))
        BY <2>2, <3>1, InstanceRegistryAssumption
      <3> QED
        BY <3>2, SetsOfEvents, WaitsForMore
    <2>5. dir[n] = "bare" /\ NameUsed(n) => Has(events', InfoLoss(n)) \/ Has(events', {RootRemoved})
      BY <1>2, <2>1 DEF FolderOK
    <2>6. n \in kernel => n \in Present
      BY <1>2 DEF FolderOK
    <2> QED
      BY <1>1, <1>7, <1>10, <2>2, <2>3, <2>4, <2>5, <2>6, FolderParts
  <1> QED
    BY <1>2, <1>6, <1>7, <1>8, <1>9, <1>11, <1>12, InStepParts

LEMMA InfoRemovedInStep ==
    ASSUME DiskInv, Clean, DeliverInfoRemoved
    PROVE  InStep'
  <1>1. /\ events # <<>> /\ events' = Tail(events) /\ ~Busy /\ Head(events).kind = "infoRemoved"
        /\ UNCHANGED <<dir, rootExists, rootKernel, byPath, rootTarget, toLoad, fromInfo, toWatch>>
    BY DEF DeliverInfoRemoved, Delivers, loopVars
  <1> PICK n \in Names : Head(events) = InfoRemoved(n) /\ Head(events).name = n
    BY <1>1, HeadByKind
  <1>2. /\ IInv /\ DiskOK /\ WatchOK /\ InStep /\ toLoad = {} /\ toWatch = NoWatch /\ QueueOK'
        /\ FolderOK(n) /\ OrderOK(n) /\ NoWatch.name # n /\ PathsOK
    BY <1>1, Delivery
  <1>3. Head(events) \notin {RootRemoved, RootChanged}
    BY EventsDiffer
  <1>4. /\ Find(target[n]) = {i \in slab : i.root = n}
        /\ \A i \in slab : i.id \in Ids /\ i.root \in Names /\ target[i.root] = i.id
    BY <1>2, FolderFinds
  <1>5. slab' = {i \in slab : i.root # n}
    <2>1. CASE target[n] \in Ids
      BY <1>4, <2>1 DEF DeliverInfoRemoved, Forget
    <2>2. CASE target[n] \notin Ids
      <3>1. slab' = slab
        BY <2>2 DEF DeliverInfoRemoved
      <3>2. \A i \in slab : i.root # n
        BY <1>4, <2>2
      <3> QED
        BY <3>1, <3>2
    <2> QED
      BY <2>1, <2>2
  <1>6. /\ kernel \subseteq kernel' /\ kernel' \subseteq Present \cup kernel
        /\ \A m \in Names : m # n => target'[m] = target[m] /\ (m \in kernel' <=> m \in kernel)
        /\ target'[n] = target[n] \/ target'[n] = Invalid
        /\ n \in Present /\ target[n] \in Ids => n \in kernel' /\ target'[n] = Invalid
        /\ target[n] \notin Ids => kernel' = kernel /\ target' = target
    BY <1>2 DEF DeliverInfoRemoved, Watch, Present, WatchOK
  <1>7. RootOK'
    <2>1. slab' \subseteq slab
      BY <1>5
    <2> QED
      BY <1>1, <1>3, <1>6, <2>1, RootTail
  <1>8. ~NameUsed(n)' /\ \A m \in Names : m # n => (NameUsed(m)' <=> NameUsed(m))
    BY <1>5 DEF NameUsed
  <1>9. PathsOK'
    <2>1. \A m \in Names : target'[m] = target[m] \/ target'[m] = Invalid
      BY <1>6
    <2>2. \A i \in slab : i.id # Invalid
      BY <1>4, InstanceRegistryAssumption
    <2>3. \A i \in slab' : i \in slab /\ target'[i.root] = i.id
      BY <1>4, <1>5, <1>6
    <2> QED
      BY <1>1, <1>2, <2>1, <2>2, <2>3 DEF PathsOK
  <1>10. StepOK'
    BY <1>1, <1>2 DEF StepOK, NoWatch
  <1>11. ASSUME NEW m \in Names, m # n PROVE FolderOK(m)' /\ OrderOK(m)'
    <2>1. Head(events) \in {Change(n), Remove(n), InfoChanged(n), InfoRemoved(n)}
      OBVIOUS
    <2> QED
      BY <1>1, <1>6, <1>8, <1>11, <2>1, OtherFoldersWait
  <1>12. n \in Present' <=> n \in Present
    BY <1>1 DEF Present
  <1>13. OrderOK(n)'
    <2>1. Coming(n)' => Coming(n)
      BY <1>1, <1>12 DEF Coming
    <2> QED
      BY <1>1, <1>2, <1>6, <2>1, OrderTail
  <1>14. FolderOK(n)'
    <2>1. n \in kernel' => n \in Present'
      BY <1>2, <1>6, <1>12 DEF FolderOK
    <2>2. n \in Present => (n \in kernel' /\ target'[n] = Invalid) \/ Has(events', Arrivals(n))
      <3>1. ASSUME target[n] \notin Ids, Has(events, Arrivals(n)) PROVE Has(events', Arrivals(n))
        <4>1. Head(events) \notin Arrivals(n)
          BY EventsDiffer DEF Arrivals
        <4> QED
          BY <1>1, <1>2, <3>1, <4>1, TailHas
      <3>2. ASSUME target[n] \notin Ids PROVE ~NameUsed(n)
        BY <1>4, <3>2 DEF NameUsed
      <3> QED
        BY <1>2, <1>6, <3>1, <3>2 DEF FolderOK
    <2>3. dir[n] = "info" => Has(events', InfoNews(n))
      <3> SUFFICES ASSUME dir[n] = "info" PROVE Has(events', InfoNews(n))
        OBVIOUS
      <3>1. Followed(events, InfoRemoved(n), InfoNews(n))
        BY <1>2 DEF OrderOK
      <3> QED
        BY <1>1, <1>2, <3>1, TailFollowed
    <2> QED
      BY <1>1, <1>8, <1>12, <2>1, <2>2, <2>3, FolderParts
  <1> QED
    BY <1>2, <1>7, <1>9, <1>10, <1>11, <1>13, <1>14, InStepParts

LEMMA RootRemovedInStep ==
    ASSUME DiskInv, Clean, DeliverRootRemoved
    PROVE  InStep'
  <1>1. /\ events # <<>> /\ events' = Tail(events) /\ ~Busy /\ Head(events).kind = "rootRemoved"
        /\ UNCHANGED <<dir, rootExists, kernel, rootKernel, target, toLoad, fromInfo, toWatch>>
        /\ ~rootTarget'
    BY DEF DeliverRootRemoved, Delivers, loopVars
  <1>2. Head(events) = RootRemoved
    BY <1>1, HeadByKind
  <1>3. /\ IInv /\ DiskOK /\ InStep /\ QueueOK /\ RootOK /\ toLoad = {} /\ toWatch = NoWatch /\ QueueOK'
        /\ \A n \in Names : FolderOK(n) /\ OrderOK(n)
    BY <1>1, Delivery
  <1>4. slab' = {}
    BY <1>3 DEF DeliverRootRemoved, Forget, RootOK, Purged
  <1>5. Purged'
    BY <1>1, <1>3, <1>4 DEF Purged, NoWatch
  <1>6. IF events' = <<>> THEN ~rootExists ELSE Head(events') = RootChanged
    BY <1>1, <1>2, <1>3, QueueTail
  <1>7. rootExists => Has(events', {RootChanged})
    <2>1. events' \in Seq(NamedEvents)
      BY <1>1, <1>3, HeadIsNamed
    <2>2. rootExists => events' # <<>> /\ Head(events') \in {RootChanged}
      BY <1>6
    <2> QED
      BY <2>1, <2>2, HasTail
  <1>8. RootOK'
    <2>1. ~rootExists' => ~rootKernel' /\ kernel' = {} /\ Present' = {}
      BY <1>1, <1>3 DEF RootOK, Present
    <2>2. IF events' = <<>> THEN ~rootExists' ELSE Head(events') \in {RootRemoved, RootChanged}
      BY <1>1, <1>6
    <2>3. rootExists' => Has(events', {RootChanged})
      BY <1>1, <1>7
    <2> QED
      BY <1>5, <2>1, <2>2, <2>3 DEF RootOK, RootRemoved, RootChanged
  <1>9. PathsOK' /\ StepOK'
    BY <1>1, <1>3, <1>4 DEF PathsOK, StepOK, NoWatch
  <1>10. ASSUME NEW n \in Names PROVE FolderOK(n)' /\ OrderOK(n)'
    <2>1. ~NameUsed(n)' /\ (n \in Present' <=> n \in Present)
      BY <1>1, <1>4 DEF NameUsed, Present
    <2>2. n \in Present => rootExists
      BY <1>3 DEF RootOK
    <2>3. rootExists => Has(events', Arrivals(n)) /\ Has(events', InfoNews(n))
      <3>1. {RootChanged} \subseteq Arrivals(n) /\ {RootChanged} \subseteq InfoNews(n)
        BY DEF Arrivals, InfoNews
      <3> QED
        BY <1>7, <3>1, WaitsForMore
    <2>4. dir'[n] = "info" => n \in Present
      BY <1>1 DEF Present
    <2>5. n \in kernel' => n \in Present'
      BY <1>1, <1>3, <2>1 DEF FolderOK
    <2>6. FolderOK(n)'
      BY <2>1, <2>2, <2>3, <2>4, <2>5, FolderParts
    <2>7. OrderOK(n)'
      <3>1. Coming(n)' => Coming(n)
        BY <1>1, <2>1 DEF Coming
      <3> QED
        BY <1>1, <1>3, <3>1, OrderTail
    <2> QED
      BY <2>6, <2>7
  <1> QED
    BY <1>3, <1>8, <1>9, <1>10, InStepParts

LEMMA RootChangedInStep ==
    ASSUME DiskInv, Clean, DeliverRootChanged, Clean'
    PROVE  InStep'
  <1>1. /\ events # <<>> /\ events' = Tail(events) /\ ~Busy /\ Head(events).kind = "rootChanged"
        /\ UNCHANGED <<dir, rootExists, kernel, slab, byPath, target, toWatch>>
    BY DEF DeliverRootChanged, Delivers, tableVars
  <1>2. /\ rootExists /\ rootTarget' = TRUE /\ rootKernel' = TRUE
        /\ toLoad' = Present /\ fromInfo' = FALSE
    BY DEF DeliverRootChanged, Clean
  <1>3. Head(events) = RootChanged
    BY <1>1, HeadByKind
  <1>4. /\ IInv /\ DiskOK /\ InStep /\ RootOK /\ toWatch = NoWatch /\ QueueOK'
        /\ events' # <<>> => Head(events') # RootChanged
        /\ \A n \in Names : FolderOK(n) /\ OrderOK(n)
    BY <1>1, <1>3, Delivery, EventsDiffer
  <1>5. slab = {}
    BY <1>1, <1>3, <1>4 DEF RootOK, Purged
  <1>6. RootOK'
    BY <1>1, <1>2, <1>4 DEF RootOK, RootChanged
  <1>7. PathsOK' /\ \A m : ~NameUsed(m)'
    BY <1>1, <1>5 DEF PathsOK, NameUsed
  <1>8. StepOK'
    BY <1>1, <1>2, <1>4 DEF StepOK, NoWatch
  <1>9. ASSUME NEW n \in Names PROVE FolderOK(n)' /\ OrderOK(n)'
    <2>1. n \in Present' <=> n \in Present
      BY <1>1 DEF Present
    <2>2. FolderOK(n)'
      <3>1. n \in Present => n \in toLoad' /\ ~fromInfo'
        BY <1>2
      <3>2. n \in kernel' => n \in Present'
        BY <1>1, <1>4, <2>1 DEF FolderOK
      <3>3. dir'[n] = "info" => n \in Present
        BY <1>1 DEF Present
      <3> QED
        BY <1>7, <2>1, <3>1, <3>2, <3>3, FolderParts
    <2>3. OrderOK(n)'
      <3>1. Coming(n)' => Coming(n)
        BY <1>2, <2>1 DEF Coming
      <3> QED
        BY <1>1, <1>4, <3>1, OrderTail
    <2> QED
      BY <2>2, <2>3
  <1> QED
    BY <1>4, <1>6, <1>7, <1>8, <1>9, InStepParts

\* An event superseded by the next one of its path is not missed.
LEMMA CoalesceInStep ==
    ASSUME DiskInv, Clean, Coalesce, Clean'
    PROVE  InStep'
  <1>1. /\ events # <<>> /\ events' = Tail(events) /\ ~Busy
        /\ UNCHANGED <<dir, rootExists, kernel, rootKernel, slab, byPath, target, rootTarget,
                       toLoad, fromInfo, toWatch>>
        /\ SamePath(events[1], events[2]) /\ events[1].kind \notin {"remove", "rootRemoved"}
        /\ Len(events) > 1
    BY DEF Coalesce, tableVars, watchVars, loopVars, Clean, DiskInv, IInv, DiskOK
  <1>2. /\ IInv /\ DiskOK /\ InStep /\ QueueOK /\ RootOK /\ toLoad = {} /\ toWatch = NoWatch
        /\ QueueOK' /\ \A n \in Names : FolderOK(n) /\ OrderOK(n) /\ NoWatch.name # n
    BY <1>1, Delivery
  <1>3. /\ Head(events) = events[1] /\ Head(events') = events[2]
        /\ events' \in Seq(NamedEvents) /\ events' # <<>>
    <2> DEFINE q == Tail(events)
    <2>1. events \in Seq(NamedEvents) /\ Len(events) \in Nat /\ events' = q
      BY <1>1, <1>2 DEF DiskOK
    <2>2. q \in Seq(NamedEvents) /\ Len(q) = Len(events) - 1 /\ q[1] = events[2] /\ Head(events) = events[1]
      BY <1>1, <2>1
    <2> HIDE DEF q
    <2>3. q # <<>> /\ Head(q) = q[1]
      BY <1>1, <2>1, <2>2
    <2> QED
      BY <2>1, <2>2, <2>3
  <1>4. \A S : Head(events') \in S => Has(events', S)
    BY <1>3, HasTail
  <1>5. PathsOK' /\ \A m : NameUsed(m)' <=> NameUsed(m)
    BY <1>1, <1>2, PathsKept
  <1>6. StepOK'
    BY <1>1, <1>2 DEF StepOK, NoWatch
  <1>7. \A m : m \in Present' <=> m \in Present
    BY <1>1 DEF Present
  <1>8. \A m \in Names : OrderOK(m)'
    <2> TAKE m \in Names
    <2>1. Coming(m)' => Coming(m)
      BY <1>1, <1>7 DEF Coming
    <2> QED
      BY <1>1, <1>2, <2>1, OrderTail
  <1>9. CASE Head(events) \in {RootRemoved, RootChanged}
    <2>1. /\ RootRemoved.kind = "rootRemoved" /\ RootRemoved.name = None
          /\ RootChanged.kind = "rootChanged" /\ RootChanged.name = None
      BY DEF RootRemoved, RootChanged, Event
    <2>2. Head(events) = RootChanged
      BY <1>1, <1>3, <1>9, <2>1
    <2>3. Head(events') = RootRemoved
      <3>1. Head(events') # RootChanged
        BY <1>1, <1>3, <2>2, Delivery, EventsDiffer
      <3>2. Head(events').kind \in {"rootRemoved", "rootChanged"}
        BY <1>1, <1>3, <2>1, <2>2 DEF SamePath
      <3>3. \A n : /\ Change(n).kind = "change" /\ Remove(n).kind = "remove"
                   /\ InfoChanged(n).kind = "infoChanged" /\ InfoRemoved(n).kind = "infoRemoved"
        BY DEF Change, Remove, InfoChanged, InfoRemoved, Event
      <3>4. 2 \in 1..Len(events)
        BY <1>1, <1>2 DEF DiskOK
      <3>5. \/ events[2] \in {RootRemoved, RootChanged}
            \/ \E n \in Names : events[2] \in {Change(n), Remove(n), InfoChanged(n), InfoRemoved(n)}
        BY <1>2, <3>4 DEF QueueOK
      <3> QED
        BY <1>3, <3>1, <3>2, <3>3, <3>5
    <2>4. Purged /\ Purged'
      BY <1>1, <1>2, <2>2 DEF RootOK, Purged, NoWatch
    <2>5. rootExists => Has(events', {RootChanged})
      <3> SUFFICES ASSUME rootExists PROVE Has(events', {RootChanged})
        OBVIOUS
      <3>1. 1 \in 1..Len(events') /\ events'[1] = RootRemoved /\ Len(events') \in Nat
        BY <1>3, <2>3
      <3>2. 1 # Len(events') /\ events'[1 + 1] = RootChanged
        BY <1>1, <1>2, <3>1 DEF QueueOK, RootRemoved, RootChanged
      <3>3. 1 + 1 \in 1..Len(events')
        BY <3>1, <3>2
      <3> QED
        BY <3>2, <3>3 DEF Has
    <2>6. RootOK'
      <3>1. Has(events', {RootRemoved})
        BY <1>4, <2>3
      <3>2. ~rootExists' => ~rootKernel' /\ kernel' = {} /\ Present' = {}
        BY <1>1, <1>2 DEF RootOK, Present
      <3>3. Head(events') # RootChanged
        BY <2>3, EventsDiffer
      <3> QED
        BY <1>1, <1>3, <2>3, <2>4, <2>5, <3>1, <3>2, <3>3 DEF RootOK, RootRemoved, RootChanged
    <2>7. ASSUME NEW n \in Names PROVE FolderOK(n)'
      <3>1. ~NameUsed(n)'
        BY <1>5, <2>4 DEF Purged, NameUsed
      <3>2. n \in Present => Has(events', Arrivals(n)) /\ Has(events', InfoNews(n))
        <4>1. n \in Present => rootExists
          BY <1>2 DEF RootOK
        <4>2. {RootChanged} \subseteq Arrivals(n) /\ {RootChanged} \subseteq InfoNews(n)
          BY DEF Arrivals, InfoNews
        <4> QED
          BY <2>5, <4>1, <4>2, WaitsForMore
      <3>3. n \in kernel' => n \in Present'
        BY <1>1, <1>2, <1>7 DEF FolderOK
      <3>4. dir'[n] = "info" => n \in Present
        BY <1>1 DEF Present
      <3> QED
        BY <1>7, <3>1, <3>2, <3>3, <3>4, FolderParts
    <2> QED
      BY <1>2, <1>5, <1>6, <1>8, <2>6, <2>7, InStepParts
  <1>10. ASSUME NEW n \in Names, Head(events) \in {Change(n), Remove(n), InfoChanged(n), InfoRemoved(n)}
         PROVE  InStep'
    <2>1. Head(events) \notin {RootRemoved, RootChanged}
      BY <1>10, EventsDiffer
    <2>2. RootOK'
      <3>1. slab' \subseteq slab /\ kernel' \subseteq Present \cup kernel
        BY <1>1
      <3> QED
        BY <1>1, <2>1, <3>1, RootTail
    <2>3. ASSUME NEW m \in Names, m # n PROVE FolderOK(m)'
      BY <1>1, <1>5, <1>10, <2>3, OtherFoldersWait
    <2>4. \A m : /\ Change(m).kind = "change" /\ Remove(m).kind = "remove"
                 /\ InfoChanged(m).kind = "infoChanged" /\ InfoRemoved(m).kind = "infoRemoved"
                 /\ Change(m).name = m /\ Remove(m).name = m
                 /\ InfoChanged(m).name = m /\ InfoRemoved(m).name = m
      BY DEF Change, Remove, InfoChanged, InfoRemoved, Event
    <2>5. /\ Head(events) # Remove(n)
          /\ Head(events) = Change(n) => Head(events') \in {Change(n), Remove(n)}
          /\ Head(events) \in {InfoChanged(n), InfoRemoved(n)} =>
                Head(events') \in {InfoChanged(n), InfoRemoved(n)}
      <3>1. 2 \in 1..Len(events)
        BY <1>1, <1>2 DEF DiskOK
      <3>2. \/ events[2] \in {RootRemoved, RootChanged}
            \/ \E m \in Names : events[2] \in {Change(m), Remove(m), InfoChanged(m), InfoRemoved(m)}
        BY <1>2, <3>1 DEF QueueOK
      <3>3. RootRemoved.kind = "rootRemoved" /\ RootChanged.kind = "rootChanged"
        BY DEF RootRemoved, RootChanged, Event
      <3>4. Head(events) # Remove(n)
        BY <1>1, <1>3, <2>4
      <3>5. /\ Head(events) = Change(n) => events[2].kind \in {"change", "remove"} /\ events[2].name = n
            /\ Head(events) \in {InfoChanged(n), InfoRemoved(n)} =>
                  events[2].kind \in {"infoChanged", "infoRemoved"} /\ events[2].name = n
        BY <1>1, <1>3, <2>4 DEF SamePath
      <3>6. CASE events[2] \in {RootRemoved, RootChanged}
        BY <1>10, <3>3, <3>4, <3>5, <3>6
      <3>7. ASSUME NEW m \in Names,
                   events[2] \in {Change(m), Remove(m), InfoChanged(m), InfoRemoved(m)}
            PROVE  /\ events[2].name = n => m = n
                   /\ events[2].kind \in {"change", "remove"} => events[2] \in {Change(m), Remove(m)}
                   /\ events[2].kind \in {"infoChanged", "infoRemoved"} =>
                         events[2] \in {InfoChanged(m), InfoRemoved(m)}
        BY <2>4, <3>7
      <3> QED
        BY <1>3, <3>2, <3>4, <3>5, <3>6, <3>7
    <2>6. \A S : Has(events, S) /\ Head(events) \notin S => Has(events', S)
      BY <1>1, <1>2, TailHas
    <2>7. \A f, S : Followed(events, f, S) => Followed(events', f, S)
      BY <1>1, <1>2, TailFollowed
    <2>8. /\ Has(events, Departures(n)) => Has(events', Departures(n))
          /\ Has(events, {RootRemoved}) => Has(events', {RootRemoved})
      BY <1>10, <2>1, <2>5, <2>6, EventsDiffer DEF Departures
    <2>9. FolderOK(n) /\ OrderOK(n)
      BY <1>2
    <2>10. ASSUME n \in Present
           PROVE  /\ Head(events) = Change(n) => Has(events', Arrivals(n))
                  /\ Has(events, Arrivals(n)) => Has(events', Arrivals(n))
      <3>1. ASSUME Head(events) = Change(n) PROVE Has(events', Arrivals(n))
        <4>1. CASE Head(events') = Change(n)
          BY <1>4, <4>1 DEF Arrivals
        <4>2. CASE Head(events') = Remove(n)
          <5>1. Has(events', {Remove(n)})
            BY <1>4, <4>2
          <5>2. Followed(events', Remove(n), Arrivals(n))
            BY <2>7, <2>9, <2>10 DEF OrderOK, Coming
          <5> QED
            BY <5>1, <5>2, FollowedHas
        <4> QED
          BY <2>5, <3>1, <4>1, <4>2
      <3>2. Head(events) # Change(n) => Head(events) \notin Arrivals(n)
        BY <2>1 DEF Arrivals
      <3> QED
        BY <2>6, <3>1, <3>2
    <2>11. ASSUME dir[n] = "info", Has(events, InfoNews(n)) PROVE Has(events', InfoNews(n))
      <3>0. n \in Present
        BY <2>11 DEF Present
      <3>1. CASE Head(events) = Change(n)
        BY <2>10, <3>0, <3>1, SetsOfEvents, WaitsForMore
      <3>2. CASE Head(events) = InfoChanged(n)
        <4>1. CASE Head(events') = InfoChanged(n)
          BY <1>4, <4>1 DEF InfoNews
        <4>2. CASE Head(events') = InfoRemoved(n)
          <5>1. Has(events', {InfoRemoved(n)})
            BY <1>4, <4>2
          <5>2. Followed(events', InfoRemoved(n), InfoNews(n))
            BY <2>7, <2>9, <2>11 DEF OrderOK
          <5> QED
            BY <5>1, <5>2, FollowedHas
        <4> QED
          BY <2>5, <3>2, <4>1, <4>2
      <3>3. CASE Head(events) \notin {Change(n), InfoChanged(n)}
        <4>1. Head(events) \notin InfoNews(n)
          BY <2>1, <3>3 DEF InfoNews
        <4> QED
          BY <2>6, <2>11, <4>1
      <3> QED
        BY <3>1, <3>2, <3>3
    <2>12. ASSUME dir[n] = "bare", Has(events, InfoLoss(n)) PROVE Has(events', InfoLoss(n))
      <3>0. n \in Present
        BY <2>12 DEF Present
      <3>1. CASE Head(events) = Change(n)
        BY <2>10, <3>0, <3>1, SetsOfEvents, WaitsForMore
      <3>2. CASE Head(events) = InfoRemoved(n)
        <4>1. CASE Head(events') = InfoRemoved(n)
          BY <1>4, <4>1 DEF InfoLoss
        <4>2. CASE Head(events') = InfoChanged(n)
          <5>1. Has(events', {InfoChanged(n)})
            BY <1>4, <4>2
          <5>2. Followed(events', InfoChanged(n), InfoLoss(n))
            BY <2>7, <2>9, <2>12 DEF OrderOK
          <5> QED
            BY <5>1, <5>2, FollowedHas
        <4> QED
          BY <2>5, <3>2, <4>1, <4>2
      <3>3. CASE Head(events) \notin {Change(n), InfoRemoved(n)}
        <4>1. Head(events) \notin InfoLoss(n)
          BY <2>1, <3>3 DEF InfoLoss
        <4> QED
          BY <2>6, <2>12, <4>1
      <3> QED
        BY <3>1, <3>2, <3>3
    <2>13. FolderOK(n)'
      <3>1. n \in Present => \/ n \in kernel /\ (target[n] = Invalid \/ NameUsed(n))
                             \/ Has(events', Arrivals(n))
        BY <1>2, <2>9, <2>10 DEF FolderOK
      <3>2. NameUsed(n) /\ n \notin kernel => Has(events', Departures(n))
        BY <1>2, <2>8, <2>9 DEF FolderOK
      <3>3. dir[n] = "info" /\ ~NameUsed(n) => Has(events', InfoNews(n))
        BY <1>2, <2>9, <2>11 DEF FolderOK
      <3>4. dir[n] = "bare" /\ NameUsed(n) => Has(events', InfoLoss(n)) \/ Has(events', {RootRemoved})
        BY <1>2, <2>8, <2>9, <2>12 DEF FolderOK
      <3>5. n \in kernel => n \in Present
        BY <2>9 DEF FolderOK
      <3> QED
        BY <1>1, <1>5, <1>7, <3>1, <3>2, <3>3, <3>4, <3>5, FolderParts
    <2>14. \A m \in Names : FolderOK(m)'
      BY <2>3, <2>13
    <2> QED
      BY <1>2, <1>5, <1>6, <1>8, <2>2, <2>14, InStepParts
  <1> QED
    BY <1>1, <1>9, <1>10, Delivery

-----------------------------------------------------------------------------
(* The invariant.                                                           *)

LEMMA IdsStayOld ==
    ASSUME IInv, IdsAreOld, [Next]_vars
    PROVE  IdsAreOld'
  <1> DEFINE Old(x, g) == x \in Ids => x.gen < g
  <1>0. /\ generation \in Nat /\ generation' \in Nat /\ generation <= generation'
        /\ target \in [Names -> Ids \cup {None, Invalid}] /\ byPath \in [Names -> Ids \cup {None}]
    <2>1. generation' = generation \/ generation' = generation + 1
      BY DEF Next, Edit, SendRequest, MainLoop, LoadInstance, LoadFails, LoadUpdates, LoadInserts,
         SetWatch, DeliverEvent, DeliverChange, DeliverRemove, DeliverRename, DeliverInfoChanged,
         DeliverInfoRemoved, DeliverRootRemoved, DeliverRootChanged, Coalesce, HandleRequest,
         DeleteInstance, RenameInstance, CreateInstance, tableVars, vars
    <2> QED
      BY <2>1 DEF IInv, TableOK, WatchOK
  <1>1. \A x : Old(x, generation) => Old(x, generation')
    BY <1>0 DEF Ids
  <1>2. None \notin Ids /\ Invalid \notin Ids
    BY InstanceRegistryAssumption
  <1>3. \A n \in Names : Old(target[n], generation') /\ Old(byPath[n], generation')
    BY <1>0, <1>1 DEF IdsAreOld
  <1>4. Old(toWatch.target, generation')
    BY <1>1 DEF IdsAreOld
  <1>5. NoWatch.target \notin Ids
    BY <1>2 DEF NoWatch
  <1> HIDE DEF Old
  <1>6. SUFFICES /\ \A n \in Names : Old(target'[n], generation') /\ Old(byPath'[n], generation')
                 /\ Old(toWatch'.target, generation')
    BY DEF IdsAreOld, Old
  <1>7. CASE UNCHANGED <<target, byPath, toWatch>>
    BY <1>3, <1>4, <1>7
  <1>8. ASSUME NEW n \in Names, LoadInstance(n)
        PROVE  /\ \A m \in Names : Old(target'[m], generation') /\ Old(byPath'[m], generation')
               /\ Old(toWatch'.target, generation')
    <2>1. target' = target
      BY <1>8 DEF LoadInstance, watchVars
    <2>2. CASE LoadFails(n)
      <3>1. byPath' = byPath /\ toWatch'.target \notin Ids
        BY <1>2, <1>5, <2>2 DEF LoadFails
      <3> QED
        BY <1>3, <2>1, <3>1 DEF Old
    <2>3. CASE LoadUpdates(n)
      BY <1>3, <1>4, <2>1, <2>3 DEF LoadUpdates
    <2>4. CASE LoadInserts(n)
      <3>1. PICK s : /\ byPath' = [byPath EXCEPT ![n] = [slot |-> s, gen |-> generation]]
                     /\ toWatch' = [name |-> n, target |-> [slot |-> s, gen |-> generation]]
                     /\ generation' = generation + 1
        BY <2>4 DEF LoadInserts
      <3>2. Old([slot |-> s, gen |-> generation], generation')
        BY <1>0, <3>1 DEF Old
      <3>3. \A m \in Names : byPath'[m] = byPath[m] \/ byPath'[m] = [slot |-> s, gen |-> generation]
        BY <1>0, <3>1
      <3> QED
        BY <1>3, <2>1, <3>1, <3>2, <3>3
    <2> QED
      BY <1>8, <2>2, <2>3, <2>4 DEF LoadInstance
  <1>9. CASE SetWatch
    <2>1. byPath' = byPath /\ toWatch' = NoWatch
      BY <1>9 DEF SetWatch, tableVars
    <2>2. \A m \in Names : target'[m] = target[m] \/ target'[m] = toWatch.target
      BY <1>0, <1>9 DEF SetWatch, Watch
    <2> QED
      BY <1>3, <1>4, <1>5, <2>1, <2>2 DEF Old
  <1>10. CASE DeliverRemove
    <2>1. /\ byPath' = byPath /\ toWatch' = toWatch
          /\ \A m \in Names : target'[m] = target[m] \/ target'[m] = None
      BY <1>0, <1>10 DEF DeliverRemove, loopVars
    <2> QED
      BY <1>2, <1>3, <1>4, <2>1 DEF Old
  <1>11. CASE DeliverRename
    <2> DEFINE n == Head(events).name
               p == Head(events).to
               cleared == [target EXCEPT ![n] = None]
    <2>0. Head(events) \in NamedEvents
      BY <1>11, HeadIsNamed DEF IInv, DeliverRename, Delivers
    <2>1. n \in Names
      <3>1. Head(events).kind = "rename"
        BY <1>11 DEF DeliverRename, Delivers
      <3> QED
        BY <2>0, <3>1 DEF NamedEvents
    <2>2. byPath' = byPath /\ toWatch' = toWatch
      BY <1>11 DEF DeliverRename
    <2>3. target' = cleared \/ target' = [cleared EXCEPT ![p] = target[n]]
      BY <1>11 DEF DeliverRename
    <2> HIDE DEF n, p
    <2>4. \A m \in Names : target'[m] \in {target[m], None, target[n]}
      BY <1>0, <2>3
    <2> QED
      BY <1>2, <1>3, <1>4, <2>1, <2>2, <2>4 DEF Old
  <1>12. CASE DeliverInfoRemoved
    <2>1. /\ byPath' = byPath /\ toWatch' = toWatch
          /\ \A m \in Names : target'[m] = target[m] \/ target'[m] = Invalid
      BY <1>0, <1>12 DEF DeliverInfoRemoved, Watch, loopVars
    <2> QED
      BY <1>2, <1>3, <1>4, <2>1 DEF Old
  <1>13. CASE DeliverRootRemoved
    <2>1. /\ target' = target /\ toWatch' = toWatch
          /\ \A m \in Names : byPath'[m] = byPath[m] \/ byPath'[m] = None
      BY <1>13 DEF DeliverRootRemoved, loopVars
    <2> QED
      BY <1>2, <1>3, <1>4, <2>1 DEF Old
  <1> QED
    BY <1>7, <1>8, <1>9, <1>10, <1>11, <1>12, <1>13
    DEF Next, Edit, SendRequest, MainLoop, DeliverEvent, DeliverChange, DeliverInfoChanged,
        DeliverRootChanged, Coalesce, HandleRequest, DeleteInstance, RenameInstance, CreateInstance,
        tableVars, watchVars, loopVars, vars

LEMMA InitInStep == Init => DiskInv
  <1> SUFFICES ASSUME Init PROVE DiskInv
    OBVIOUS
  <1>1. IInv
    BY InitHolds
  <1>2. events = <<>> /\ Len(events) = 0 /\ rootExists /\ rootTarget /\ rootKernel
    BY DEF Init
  <1>3. IdsAreOld
    BY InstanceRegistryAssumption DEF Init, IdsAreOld, NoWatch
  <1>4. QueueOK /\ RootOK
    BY <1>2 DEF QueueOK, RootOK
  <1>5. PathsOK /\ StepOK /\ \A n : ~NameUsed(n)
    BY DEF Init, PathsOK, StepOK, NameUsed
  <1>6. ASSUME NEW n \in Names PROVE FolderOK(n) /\ OrderOK(n)
    <2>1. \A f, S : Followed(events, f, S)
      BY <1>2 DEF Followed
    <2>2. n \notin kernel /\ ~fromInfo /\ (n \in Present => n \in toLoad) /\ (dir[n] = "info" => n \in Present)
      BY DEF Init, Present
    <2> QED
      BY <1>5, <2>1, <2>2 DEF FolderOK, OrderOK
  <1> QED
    BY <1>1, <1>3, <1>4, <1>5, <1>6 DEF DiskInv, InStep

LEMMA NextInStep == DiskInv /\ [Next]_vars => DiskInv'
  <1> SUFFICES ASSUME DiskInv, [Next]_vars PROVE DiskInv'
    OBVIOUS
  <1>1. IInv' /\ IdsAreOld'
    BY NextHolds, IdsStayOld DEF DiskInv
  <1>2. SUFFICES ASSUME Clean' PROVE InStep'
    BY <1>1 DEF DiskInv
  <1>3. CASE Edit
    BY <1>2, <1>3, EditInStep
  <1>4. CASE HandleRequest
    BY <1>2, <1>4, RequestInStep
  <1>5. CASE SendRequest \/ UNCHANGED vars
    <2>1. Clean /\ UNCHANGED <<diskVars, tableVars, watchVars, loopVars>>
      BY <1>2, <1>5 DEF SendRequest, vars, Clean, loopVars
    <2> QED
      BY <2>1, SameInStep DEF DiskInv, diskVars, tableVars, watchVars, loopVars
  <1>6. ASSUME NEW n \in Names, LoadInstance(n) PROVE InStep'
    BY <1>2, <1>6, LoadInStep DEF LoadInstance, Clean
  <1>7. CASE SetWatch
    BY <1>2, <1>7, SetWatchInStep DEF SetWatch, Clean
  <1>8. CASE Coalesce
    <2>1. Clean
      BY <1>2, <1>8 DEF Coalesce, Clean, loopVars
    <2> QED
      BY <1>2, <1>8, <2>1, CoalesceInStep
  <1>9. CASE DeliverEvent
    <2>1. troubles = {}
      BY <1>2, <1>9 DEF DeliverEvent, Clean
    <2>2. Clean
      BY <1>2, <1>9, <2>1 DEF DeliverEvent, DeliverChange, DeliverRemove, DeliverRename,
         DeliverInfoChanged, DeliverInfoRemoved, DeliverRootRemoved, DeliverRootChanged, Clean,
         loopVars, Delivers, Busy
    <2>3. CASE DeliverRename
      BY <2>2, <2>3, HeadByKind DEF DeliverRename, Delivers
    <2> QED
      BY <1>2, <1>9, <2>2, <2>3, ChangeInStep, RemoveInStep, InfoChangedInStep, InfoRemovedInStep,
         RootRemovedInStep, RootChangedInStep DEF DeliverEvent
  <1> QED
    BY <1>3, <1>4, <1>5, <1>6, <1>7, <1>8, <1>9 DEF Next, MainLoop

\* Once every event is handled, the table, the watches and the folders agree,
\* for any set of folders and any number of changes and requests.
THEOREM TableFollowsDisk == Spec => []SettledRegistryMatchesDisk
  <1>1. DiskInv => SettledRegistryMatchesDisk
    <2> SUFFICES ASSUME DiskInv, Settled, troubles = {} PROVE RegistryMatchesDisk
      BY DEF SettledRegistryMatchesDisk
    <2>1. Clean /\ toLoad = {} /\ toWatch = NoWatch /\ events = <<>>
      BY DEF Settled, Busy, Clean
    <2>2. InStep /\ IInv
      BY <2>1 DEF DiskInv
    <2>3. \A S : ~Has(events, S)
      BY <2>1 DEF Has
    <2>4. ASSUME NEW n \in Names
          PROVE  /\ n \in kernel => n \in Present
                 /\ n \in Present => n \in kernel /\ (target[n] = Invalid \/ NameUsed(n))
                 /\ NameUsed(n) => n \in kernel
                 /\ dir[n] = "info" => NameUsed(n)
                 /\ dir[n] = "bare" => ~NameUsed(n)
      <3>1. NoWatch.name # n
        BY InstanceRegistryAssumption DEF NoWatch
      <3> QED
        BY <2>1, <2>2, <2>3, <3>1 DEF InStep, FolderOK
    <2>5. \A n \in Names : dir[n] \in {"absent", "bare", "info"} /\ (n \in Present <=> dir[n] # "absent")
      BY <2>2 DEF IInv, DiskOK, Present
    <2>6. \A n \in Names : dir[n] = "info" <=> NameUsed(n)
      BY <2>4, <2>5
    <2>7. \A i \in slab : i.root \in Names /\ i.dot = i.root /\ target[i.root] = i.id
      BY <2>1, <2>2, FolderFinds DEF InStep, PathsOK, IInv, TableOK, Instances
    <2>8. \A i, j \in slab : i.root = j.root => i = j
      <3> SUFFICES ASSUME NEW i \in slab, NEW j \in slab, i.root = j.root PROVE i = j
        OBVIOUS
      <3>1. i.id = j.id
        BY <2>7
      <3> QED
        BY <2>2, <3>1 DEF IInv, TableOK, SlotsAreUnique
    <2>9. \A n \in Present : n \in kernel /\ (dir[n] = "bare" => target[n] = Invalid)
      BY <2>4 DEF Present
    <2> QED
      BY <2>6, <2>7, <2>8, <2>9 DEF RegistryMatchesDisk
  <1> QED
    BY <1>1, InitInStep, NextInStep, PTL DEF Spec
=============================================================================
