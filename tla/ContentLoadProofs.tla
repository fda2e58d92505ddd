------------------------- MODULE ContentLoadProofs -------------------------
(***************************************************************************)
(* Proofs about ContentLoad, for any set of files, any number of loading   *)
(* tasks and any number of changes.                                        *)
(*                                                                         *)
(* The heart is that pending_load always names the task that reads: a task *)
(* begins to read only under the lock and only if that signal is notified. *)
(* So at most one task reads, the state a finishing task finds is Loading  *)
(* or LoadingDirty, and the unreachable!() arms are not reached.           *)
(*                                                                         *)
(* That the list ends up right rests on a second invariant, FreshInv: an   *)
(* entry is wrong only while a mark or an event of its file, or of the     *)
(* file it is renamed from or to, is on its way, for the list that is kept *)
(* and for the one a task is reading.                                      *)
(***************************************************************************)
EXTENDS ContentLoad, TLAPS

\* The task that reads is the one whose signal pending_load holds.
ReaderIsPending == \A l \in Loaders : pc[l] = "read" => pendingLoad = l

\* While a task reads, the shared state says so.
ReadingIsLoading ==
    \A l \in Loaders : pc[l] = "read" => loadState \in {"Loading", "LoadingDirty"}

\* A loading state has a task behind it as long as no load is cancelled.
LoaderIfNotCancelled == ~AllowCancel => LoadingHasLoader

Protocol ==
    /\ ReaderIsPending
    /\ ReadingIsLoading
    /\ LoaderIfNotCancelled
    /\ DirtyStateMatchesMarks
    /\ NoLostWakeup

IInv == TypeOK /\ Protocol

-----------------------------------------------------------------------------
(* What the helpers return.                                                 *)

LEMMA AlternateType ==
    ASSUME NEW p \in Paths
    PROVE  Alternate(p) \in Paths
  BY DEF Alternate, Paths

LEMMA FoundAtType ==
    ASSUME disk \in [Paths -> Nat], NEW p \in Paths, NEW taken
    PROVE  FoundAt(p, taken) \subseteq Summaries
  <1>1. Alternate(p) \in Paths
    BY AlternateType
  <1> QED
    BY <1>1 DEF FoundAt, Summary, Summaries

LEMMA KeptType ==
    ASSUME NEW s \in Summaries
    PROVE  Kept(s) \subseteq Summaries
  <1>1. s.path \in Paths /\ s.version \in Nat
    BY DEF Summaries
  <1>2. Alternate(s.path) \in Paths
    BY <1>1, AlternateType
  <1> QED
    BY <1>1, <1>2 DEF Kept, Summary, Summaries

\* A mark keeps the states that mean "a task reads" and turns a clean state
\* into the dirty one of the same kind.
LEMMA DirtyStateFacts ==
    ASSUME NEW s \in LoadStates
    PROVE  /\ DirtyState(s) \in LoadStates
           /\ s \in {"Loading", "LoadingDirty"} => DirtyState(s) = "LoadingDirty"
           /\ s \in {"Loaded", "LoadedDirty"} => DirtyState(s) = "LoadedDirty"
           /\ s = "Unloaded" => DirtyState(s) = "Unloaded"
  BY DEF DirtyState, LoadStates

\* A task that finds Loading or LoadingDirty does not reach unreachable!().
LEMMA FinishedStateFacts ==
    ASSUME NEW s \in {"Loading", "LoadingDirty"}
    PROVE  /\ FinishedState(s) \in {"Loaded", "LoadedDirty"}
           /\ FinishedState(s) = "LoadedDirty" <=> s = "LoadingDirty"
  BY DEF FinishedState

-----------------------------------------------------------------------------
LEMMA InitHolds == Init => IInv
  <1> SUFFICES ASSUME Init PROVE IInv
    OBVIOUS
  <1>1. TypeOK
    <2>1. NoJob \in Jobs
      BY DEF NoJob, Jobs
    <2>2. disk \in [Paths -> Nat]
      BY DEF Init
    <2>3. /\ pc \in [Loaders -> {"idle", "check", "read", "send"}]
          /\ awaiting \in [Loaders -> Loaders \cup {None}]
          /\ job \in [Loaders -> Jobs]
      BY <2>1 DEF Init
    <2>4. /\ folder \in {"absent", "unwatched", "watched"}
          /\ edits \in Nat
          /\ pathEvents \subseteq Paths
          /\ folderEvents \subseteq {"removed", "created"}
          /\ alive \in BOOLEAN /\ watchingPath \in BOOLEAN
          /\ loadState \in LoadStates
          /\ dirtyPaths \subseteq Paths
          /\ allDirty \in BOOLEAN
          /\ pendingLoad \in Loaders \cup {None}
          /\ listed \in BOOLEAN
          /\ summaries \subseteq Summaries /\ shown \subseteq Summaries
      BY DEF Init, LoadStates
    <2> QED
      BY <2>2, <2>3, <2>4 DEF TypeOK
  <1>2. Protocol
    BY DEF Init, Protocol, ReaderIsPending, ReadingIsLoading, LoaderIfNotCancelled, LoadingHasLoader,
           DirtyStateMatchesMarks, NoLostWakeup
  <1> QED
    BY <1>1, <1>2 DEF IInv

\* A step that touches only the folder on disk.
DiskType ==
    /\ disk \in [Paths -> Nat]
    /\ folder \in {"absent", "unwatched", "watched"}
    /\ edits \in Nat
    /\ pathEvents \subseteq Paths
    /\ folderEvents \subseteq {"removed", "created"}

\* The rest of the type invariant.
LoaderType ==
    /\ alive \in BOOLEAN
    /\ watchingPath \in BOOLEAN
    /\ loadState \in LoadStates
    /\ dirtyPaths \subseteq Paths
    /\ allDirty \in BOOLEAN
    /\ pendingLoad \in Loaders \cup {None}
    /\ listed \in BOOLEAN
    /\ summaries \subseteq Summaries
    /\ shown \subseteq Summaries
    /\ pc \in [Loaders -> {"idle", "check", "read", "send"}]
    /\ awaiting \in [Loaders -> Loaders \cup {None}]
    /\ job \in [Loaders -> Jobs]

LEMMA TypeSplits == TypeOK <=> DiskType /\ LoaderType
  BY DEF TypeOK, DiskType, LoaderType

LEMMA TypeSplitsPrimed == TypeOK' <=> DiskType' /\ LoaderType'
  BY TypeSplits DEF TypeOK, DiskType, LoaderType

LEMMA EnvironmentPreserves ==
    ASSUME IInv, Environment
    PROVE  IInv'
  <1>1. UNCHANGED <<alive, watchingPath, markVars, listVars, taskVars>>
    BY DEF Environment
  <1>2. Protocol'
    BY <1>1 DEF IInv, markVars, listVars, taskVars, Protocol, ReaderIsPending, ReadingIsLoading,
                LoaderIfNotCancelled, LoadingHasLoader, DirtyStateMatchesMarks, NoLostWakeup
  <1>3. DiskType'
    <2>1. DiskType
      BY TypeSplits DEF IInv
    <2> USE <2>1 DEF DiskType, Edit, Report
    <2>2. ASSUME NEW p \in Paths, WriteFile(p) PROVE DiskType'
      BY <2>2 DEF WriteFile
    <2>3. ASSUME NEW p \in Paths, RemoveFile(p) PROVE DiskType'
      BY <2>3 DEF RemoveFile
    <2>4. ASSUME NEW p \in Paths, RenameFile(p) PROVE DiskType'
      <3>1. Alternate(p) \in Paths
        BY AlternateType
      <3>2. disk[p] \in Nat
        OBVIOUS
      <3>3. disk' \in [Paths -> Nat]
        BY <2>4, <3>1, <3>2 DEF RenameFile
      <3> QED
        BY <2>4, <3>1, <3>3 DEF RenameFile
    <2>5. ASSUME NEW p \in Paths, WriteChildState(p) PROVE DiskType'
      <3>1. [mod |-> p.mod, ext |-> "jar"] \in Paths
        BY DEF Paths
      <3>2. disk' \in [Paths -> Nat]
        BY <2>5 DEF WriteChildState
      <3> QED
        BY <2>5, <3>1, <3>2 DEF WriteChildState
    <2>6. CASE RemoveFolder
      BY <2>6 DEF RemoveFolder
    <2>7. CASE CreateFolder
      BY <2>7 DEF CreateFolder
    <2> QED
      BY <2>2, <2>3, <2>4, <2>5, <2>6, <2>7 DEF Environment
  <1>4. LoaderType'
    BY <1>1, TypeSplits DEF IInv, LoaderType, markVars, listVars, taskVars
  <1> QED
    BY <1>2, <1>3, <1>4, TypeSplitsPrimed DEF IInv

\* A mark, whichever of the two kinds it is: a dirty state for a task that
\* reads and for a list that is there, and nothing else in the protocol.
LEMMA MarkPreserves ==
    ASSUME IInv,
           MarkAllDirty \/ \E p \in Paths : MarkDirty(p),
           UNCHANGED <<alive, watchingPath, listVars, taskVars>>
    PROVE  LoaderType' /\ Protocol'
  <1>1. loadState \in LoadStates /\ allDirty \in BOOLEAN /\ dirtyPaths \subseteq Paths
    BY DEF IInv, TypeOK
  <1>2. \/ UNCHANGED markVars
        \/ /\ loadState' = DirtyState(loadState)
           /\ allDirty' \/ dirtyPaths' # {}
           /\ allDirty' \in BOOLEAN /\ dirtyPaths' \subseteq Paths
    BY <1>1 DEF MarkDirty, MarkAllDirty
  <1>3. CASE UNCHANGED markVars
    <2>1. LoaderType'
      BY <1>3, TypeSplits DEF IInv, LoaderType, markVars, listVars, taskVars
    <2>2. Protocol'
      BY <1>3 DEF IInv, markVars, listVars, taskVars, Protocol, ReaderIsPending,
                  ReadingIsLoading, LoaderIfNotCancelled, LoadingHasLoader, DirtyStateMatchesMarks, NoLostWakeup
    <2> QED
      BY <2>1, <2>2
  <1>4. CASE /\ loadState' = DirtyState(loadState)
             /\ allDirty' \/ dirtyPaths' # {}
             /\ allDirty' \in BOOLEAN /\ dirtyPaths' \subseteq Paths
    <2>1. /\ loadState' \in LoadStates
          /\ loadState \in {"Loading", "LoadingDirty"} <=> loadState' = "LoadingDirty"
          /\ loadState \in {"Loaded", "LoadedDirty"} <=> loadState' = "LoadedDirty"
          /\ loadState' \in {"Unloaded", "LoadingDirty", "LoadedDirty"}
      BY <1>1, <1>4, DirtyStateFacts DEF LoadStates
    <2>2. LoaderType'
      BY <1>4, <2>1, TypeSplits DEF IInv, LoaderType, listVars, taskVars
    <2>3. ReaderIsPending' /\ NoLostWakeup'
      BY DEF IInv, Protocol, listVars, taskVars, ReaderIsPending, NoLostWakeup
    <2>4. ReadingIsLoading' /\ LoaderIfNotCancelled'
      BY <2>1 DEF IInv, Protocol, taskVars, ReadingIsLoading, LoaderIfNotCancelled, LoadingHasLoader
    <2>5. DirtyStateMatchesMarks'
      BY <1>4, <2>1 DEF DirtyStateMatchesMarks
    <2> QED
      BY <2>2, <2>3, <2>4, <2>5 DEF Protocol
  <1> QED
    BY <1>2, <1>3, <1>4

LEMMA DeliverPreserves ==
    ASSUME IInv, Deliver
    PROVE  IInv'
  <1>1. DiskType'
    BY TypeSplits DEF IInv, DiskType, Deliver, DeliverPathEvent, DeliverFolderRemoved,
                      DeliverFolderCreated
  <1>2. LoaderType' /\ Protocol'
    BY MarkPreserves DEF Deliver, DeliverPathEvent, DeliverFolderRemoved, DeliverFolderCreated
  <1> QED
    BY <1>1, <1>2, TypeSplitsPrimed DEF IInv

-----------------------------------------------------------------------------
(* The tasks.  No task but the one that reads changes what a reader has.    *)

\* StartLoad, AwaitPending, ReturnCached and InstanceGone: a task that does
\* not read goes on without reading, and no mark or list changes.
LEMMA BystanderPreserves ==
    ASSUME IInv, NEW l \in Loaders,
           StartLoad(l) \/ AwaitPending(l) \/ ReturnCached(l) \/ InstanceGone(l)
    PROVE  IInv'
  <1>1. TypeOK /\ Protocol
    BY DEF IInv
  <1>2. UNCHANGED <<alive, markVars, listVars, job>>
    BY DEF StartLoad, AwaitPending, ReturnCached, InstanceGone
  <1>3. pc[l] # "read" /\ \E q \in {"idle", "check"} : pc' = [pc EXCEPT ![l] = q]
    <2>1. CASE StartLoad(l)
      BY <2>1 DEF StartLoad
    <2>2. CASE AwaitPending(l)
      BY <1>1, <2>2 DEF AwaitPending, AtLoopTop, TypeOK
    <2>3. CASE ReturnCached(l)
      BY <2>3 DEF ReturnCached, AtLoopTop
    <2>4. CASE InstanceGone(l)
      BY <2>4 DEF InstanceGone, AtLoopTop
    <2> QED
      BY <2>1, <2>2, <2>3, <2>4
  <1>4. \A k \in Loaders : pc'[k] = "read" <=> pc[k] = "read"
    BY <1>1, <1>3 DEF TypeOK
  <1>5. awaiting' = awaiting \/ (LoadPending /\ awaiting' = [awaiting EXCEPT ![l] = pendingLoad])
    BY DEF StartLoad, AwaitPending, ReturnCached, InstanceGone
  <1>6. DiskType'
    BY <1>1, TypeSplits DEF DiskType, diskVars, StartLoad, AwaitPending, ReturnCached, InstanceGone
  <1>7. LoaderType'
    <2>1. watchingPath' \in BOOLEAN
      BY <1>1 DEF TypeOK, StartLoad, AwaitPending, ReturnCached, InstanceGone
    <2>2. pc' \in [Loaders -> {"idle", "check", "read", "send"}]
      BY <1>1, <1>3 DEF TypeOK
    <2>3. awaiting' \in [Loaders -> Loaders \cup {None}]
      BY <1>1, <1>5 DEF TypeOK
    <2> QED
      BY <1>1, <1>2, <2>1, <2>2, <2>3 DEF TypeOK, LoaderType, markVars, listVars
  <1>8. ReaderIsPending' /\ ReadingIsLoading' /\ DirtyStateMatchesMarks'
    BY <1>1, <1>2, <1>4 DEF Protocol, ReaderIsPending, ReadingIsLoading,
                            DirtyStateMatchesMarks, markVars, listVars
  <1>9. LoaderIfNotCancelled'
    BY <1>1, <1>2, <1>4 DEF Protocol, LoaderIfNotCancelled, LoadingHasLoader, markVars
  <1>10. NoLostWakeup'
    <2> SUFFICES ASSUME NEW k \in Loaders, awaiting'[k] # None
                 PROVE  pc'[awaiting'[k]] = "read"
      BY DEF NoLostWakeup
    <2>1. CASE awaiting'[k] = awaiting[k]
      BY <1>1, <1>4, <2>1 DEF Protocol, NoLostWakeup, TypeOK
    <2>2. CASE awaiting'[k] = pendingLoad /\ LoadPending
      BY <1>1, <1>4, <2>2 DEF LoadPending, TypeOK
    <2> QED
      BY <1>1, <1>5, <2>1, <2>2 DEF TypeOK
  <1> QED
    BY <1>6, <1>7, <1>8, <1>9, <1>10, TypeSplitsPrimed DEF IInv, Protocol

\* The step the whole protocol is for: only a task that finds the pending
\* signal notified begins to read, and then nobody else reads.
LEMMA BeginLoadPreserves ==
    ASSUME IInv, NEW l \in Loaders, BeginLoad(l)
    PROVE  IInv'
  <1>1. TypeOK /\ Protocol /\ l # None
    BY ContentLoadAssumption DEF IInv
  <1>2. \A k \in Loaders : pc[k] # "read"
    BY <1>1, ContentLoadAssumption DEF Protocol, ReaderIsPending, BeginLoad, LoadPending
  <1>3. pc' = [pc EXCEPT ![l] = "read"] /\ pendingLoad' = l /\ loadState' = "Loading"
        /\ allDirty' = FALSE /\ dirtyPaths' = {} /\ awaiting' = awaiting /\ alive' = alive
    BY DEF BeginLoad
  <1>4. \A k \in Loaders : pc'[k] = "read" <=> k = l
    BY <1>1, <1>2, <1>3 DEF TypeOK
  <1>5. job' \in [Loaders -> Jobs]
    <2>1. TakenPaths \subseteq Paths
      BY <1>1 DEF TakenPaths, TypeOK
    <2>2. [taken |-> TakenPaths,
           todo  |-> TakenPaths,
           keep  |-> {s \in summaries : ~Touches(TakenPaths, s.path)},
           found |-> {}] \in Jobs
      BY <1>1, <2>1 DEF Jobs, TypeOK
    <2> QED
      BY <1>1, <2>2 DEF BeginLoad, TypeOK
  <1>6. DiskType'
    BY <1>1, TypeSplits DEF DiskType, diskVars, BeginLoad
  <1>7. LoaderType'
    <2>1. pc' \in [Loaders -> {"idle", "check", "read", "send"}]
      BY <1>1, <1>3 DEF TypeOK
    <2> QED
      BY <1>1, <1>3, <1>5, <2>1 DEF TypeOK, LoaderType, BeginLoad, LoadStates
  <1>8. ReaderIsPending' /\ ReadingIsLoading' /\ DirtyStateMatchesMarks'
    BY <1>3, <1>4 DEF ReaderIsPending, ReadingIsLoading, DirtyStateMatchesMarks
  <1>9. LoaderIfNotCancelled'
    BY <1>4 DEF LoaderIfNotCancelled, LoadingHasLoader
  <1>10. NoLostWakeup'
    BY <1>1, <1>2, <1>3 DEF Protocol, NoLostWakeup, TypeOK
  <1> QED
    BY <1>6, <1>7, <1>8, <1>9, <1>10, TypeSplitsPrimed DEF IInv, Protocol

\* Reading changes only what the reader has read so far.
LEMMA ReadingPreserves ==
    ASSUME IInv, NEW l \in Loaders,
           (\E p \in Paths : ReadPath(l, p)) \/ (\E s \in job[l].keep : KeepOld(l, s))
    PROVE  IInv'
  <1>1. TypeOK /\ Protocol
    BY DEF IInv
  <1>2. UNCHANGED <<diskVars, alive, watchingPath, markVars, listVars, pc, awaiting>>
    BY DEF ReadPath, KeepOld
  <1>3. job' \in [Loaders -> Jobs]
    <2>1. job[l] \in Jobs
      BY <1>1 DEF TypeOK
    <2>2. ASSUME NEW p \in Paths, ReadPath(l, p) PROVE job' \in [Loaders -> Jobs]
      <3>1. FoundAt(p, job[l].taken) \subseteq Summaries
        BY <1>1, FoundAtType DEF TypeOK
      <3>2. job' = [job EXCEPT ![l] = [job[l] EXCEPT
                       !.todo = job[l].todo \ {p},
                       !.found = job[l].found \cup FoundAt(p, job[l].taken)]]
        BY <1>1, <2>1, <2>2 DEF ReadPath, TypeOK, Jobs
      <3>3. [job[l] EXCEPT !.todo = job[l].todo \ {p},
                           !.found = job[l].found \cup FoundAt(p, job[l].taken)] \in Jobs
        BY <2>1, <3>1 DEF Jobs
      <3> QED
        BY <1>1, <3>2, <3>3 DEF TypeOK
    <2>3. ASSUME NEW s \in job[l].keep, KeepOld(l, s) PROVE job' \in [Loaders -> Jobs]
      <3>1. s \in Summaries
        BY <2>1 DEF Jobs
      <3>2. Kept(s) \subseteq Summaries
        BY <3>1, KeptType
      <3>3. job' = [job EXCEPT ![l] = [job[l] EXCEPT
                       !.keep = job[l].keep \ {s}, !.found = job[l].found \cup Kept(s)]]
        BY <1>1, <2>1, <2>3 DEF KeepOld, TypeOK, Jobs
      <3>4. [job[l] EXCEPT !.keep = job[l].keep \ {s},
                           !.found = job[l].found \cup Kept(s)] \in Jobs
        BY <2>1, <3>2 DEF Jobs
      <3> QED
        BY <1>1, <3>3, <3>4 DEF TypeOK
    <2> QED
      BY <2>2, <2>3
  <1>4. TypeOK'
    BY <1>1, <1>2, <1>3 DEF TypeOK, diskVars, markVars, listVars
  <1>5. Protocol'
    BY <1>1, <1>2 DEF Protocol, ReaderIsPending, ReadingIsLoading, LoaderIfNotCancelled,
                      LoadingHasLoader, DirtyStateMatchesMarks, NoLostWakeup, markVars, listVars
  <1> QED
    BY <1>4, <1>5 DEF IInv

\* A task that stops reading, for whatever reason, notifies those who await it.
LEMMA NotifyFacts ==
    ASSUME IInv, NEW l \in Loaders, Notify(l),
           NEW q \in {"idle", "send"}, pc' = [pc EXCEPT ![l] = q]
    PROVE  /\ pc' \in [Loaders -> {"idle", "check", "read", "send"}]
           /\ awaiting' \in [Loaders -> Loaders \cup {None}]
           /\ \A k \in Loaders : pc'[k] = "read" <=> pc[k] = "read" /\ k # l
           /\ NoLostWakeup'
  <1>1. TypeOK /\ NoLostWakeup
    BY DEF IInv, Protocol
  <1>2. /\ pc' \in [Loaders -> {"idle", "check", "read", "send"}]
        /\ awaiting' \in [Loaders -> Loaders \cup {None}]
    BY <1>1 DEF Notify, TypeOK
  <1>3. \A k \in Loaders : pc'[k] = "read" <=> pc[k] = "read" /\ k # l
    BY <1>1 DEF TypeOK
  <1>4. NoLostWakeup'
    <2> SUFFICES ASSUME NEW k \in Loaders, awaiting'[k] # None
                 PROVE  pc'[awaiting'[k]] = "read"
      BY DEF NoLostWakeup
    <2>1. awaiting'[k] = awaiting[k] /\ awaiting[k] # l
      BY <1>1 DEF Notify, TypeOK
    <2>2. pc[awaiting[k]] = "read" /\ awaiting[k] \in Loaders
      BY <1>1, <2>1 DEF NoLostWakeup, TypeOK
    <2> QED
      BY <1>3, <2>1, <2>2
  <1> QED
    BY <1>2, <1>3, <1>4

LEMMA FinishLoadPreserves ==
    ASSUME IInv, NEW l \in Loaders, FinishLoad(l)
    PROVE  IInv'
  <1>1. TypeOK /\ Protocol /\ pc[l] = "read"
    BY DEF IInv, FinishLoad, ReadingDone
  <1>2. /\ pc' \in [Loaders -> {"idle", "check", "read", "send"}]
        /\ awaiting' \in [Loaders -> Loaders \cup {None}]
        /\ \A k \in Loaders : pc'[k] = "read" <=> pc[k] = "read" /\ k # l
        /\ NoLostWakeup'
    <2>1. Notify(l) /\ pc' = [pc EXCEPT ![l] = "send"]
      BY DEF FinishLoad
    <2> QED
      BY <2>1, NotifyFacts
  <1>3. \A k \in Loaders : pc'[k] # "read"
    BY <1>1, <1>2 DEF Protocol, ReaderIsPending
  <1>4. loadState \in {"Loading", "LoadingDirty"} /\ loadState' = FinishedState(loadState)
    BY <1>1 DEF Protocol, ReadingIsLoading, FinishLoad
  <1>5. loadState' \in {"Loaded", "LoadedDirty"}
        /\ (loadState' = "LoadedDirty" <=> loadState = "LoadingDirty")
    BY <1>4, FinishedStateFacts
  <1>6. DiskType'
    BY <1>1, TypeSplits DEF DiskType, diskVars, FinishLoad
  <1>7. LoaderType'
    <2>1. job[l].found \subseteq Summaries
      <3>1. job[l] \in Jobs
        BY <1>1 DEF TypeOK
      <3> QED
        BY <3>1 DEF Jobs
    <2> QED
      BY <1>1, <1>2, <1>5, <2>1 DEF TypeOK, LoaderType, FinishLoad, LoadStates
  <1>8. ReaderIsPending' /\ ReadingIsLoading'
    BY <1>3 DEF ReaderIsPending, ReadingIsLoading
  <1>9. LoaderIfNotCancelled'
    BY <1>5 DEF LoaderIfNotCancelled, LoadingHasLoader
  <1>10. DirtyStateMatchesMarks'
    BY <1>1, <1>4, <1>5 DEF Protocol, DirtyStateMatchesMarks, FinishLoad
  <1> QED
    BY <1>2, <1>6, <1>7, <1>8, <1>9, <1>10, TypeSplitsPrimed DEF IInv, Protocol

\* SendList, FinishAfterRemoval and CancelLoad: a task leaves.  A reader is
\* lost only to a cancellation or after the instance is gone.
LEMMA LeavingPreserves ==
    ASSUME IInv, NEW l \in Loaders, SendList(l) \/ FinishAfterRemoval(l) \/ CancelLoad(l)
    PROVE  IInv'
  <1>1. TypeOK /\ Protocol /\ Leave(l) /\ (pc[l] = "send" \/ AllowCancel \/ ~alive)
    BY DEF IInv, SendList, FinishAfterRemoval, CancelLoad
  <1>2. UNCHANGED <<diskVars, alive, watchingPath, markVars, pendingLoad, listed, summaries>>
    BY DEF SendList, FinishAfterRemoval, CancelLoad, listVars
  <1>3. /\ pc' \in [Loaders -> {"idle", "check", "read", "send"}]
        /\ awaiting' \in [Loaders -> Loaders \cup {None}]
        /\ \A k \in Loaders : pc'[k] = "read" <=> pc[k] = "read" /\ k # l
        /\ NoLostWakeup'
    <2>1. Notify(l) /\ pc' = [pc EXCEPT ![l] = "idle"]
      BY <1>1 DEF Leave
    <2> QED
      BY <2>1, NotifyFacts
  <1>4. DiskType'
    BY <1>1, <1>2, TypeSplits DEF DiskType, diskVars
  <1>5. LoaderType'
    <2>1. NoJob \in Jobs
      BY DEF NoJob, Jobs
    <2>2. job' \in [Loaders -> Jobs]
      BY <1>1, <2>1 DEF Leave, TypeOK
    <2>3. shown' \subseteq Summaries
      <3>1. job[l].found \subseteq Summaries
        <4>1. job[l] \in Jobs
          BY <1>1 DEF TypeOK
        <4> QED
          BY <4>1 DEF Jobs
      <3> QED
        BY <1>1, <3>1 DEF TypeOK, SendList, FinishAfterRemoval, CancelLoad, listVars
    <2> QED
      BY <1>1, <1>2, <1>3, <2>2, <2>3 DEF TypeOK, LoaderType, markVars
  <1>6. ReaderIsPending' /\ ReadingIsLoading' /\ DirtyStateMatchesMarks'
    BY <1>1, <1>2, <1>3 DEF Protocol, ReaderIsPending, ReadingIsLoading,
                            DirtyStateMatchesMarks, markVars
  <1>7. LoaderIfNotCancelled'
    BY <1>1, <1>2, <1>3 DEF Protocol, LoaderIfNotCancelled, LoadingHasLoader, markVars
  <1> QED
    BY <1>3, <1>4, <1>5, <1>6, <1>7, TypeSplitsPrimed DEF IInv, Protocol

LEMMA RemoveInstancePreserves ==
    ASSUME IInv, RemoveInstance
    PROVE  IInv'
  <1>1. UNCHANGED <<diskVars, watchingPath, markVars, listVars, taskVars>> /\ alive' = FALSE
    BY DEF RemoveInstance
  <1>2. TypeOK'
    BY <1>1 DEF IInv, TypeOK, diskVars, markVars, listVars, taskVars
  <1>3. Protocol'
    BY <1>1 DEF IInv, Protocol, ReaderIsPending, ReadingIsLoading, LoaderIfNotCancelled,
                LoadingHasLoader, DirtyStateMatchesMarks, NoLostWakeup, markVars, listVars, taskVars
  <1> QED
    BY <1>2, <1>3 DEF IInv

LEMMA StutterPreserves ==
    ASSUME IInv, UNCHANGED vars
    PROVE  IInv'
  <1>1. UNCHANGED <<diskVars, alive, watchingPath, markVars, listVars, taskVars>>
    BY DEF vars
  <1>2. TypeOK'
    BY <1>1 DEF IInv, TypeOK, diskVars, markVars, listVars, taskVars
  <1>3. Protocol'
    BY <1>1 DEF IInv, Protocol, ReaderIsPending, ReadingIsLoading, LoaderIfNotCancelled,
                LoadingHasLoader, DirtyStateMatchesMarks, NoLostWakeup, markVars, listVars, taskVars
  <1> QED
    BY <1>2, <1>3 DEF IInv

LEMMA NextPreserves == IInv /\ [Next]_vars => IInv'
  <1> SUFFICES ASSUME IInv, [Next]_vars PROVE IInv'
    OBVIOUS
  <1>1. CASE Environment
    BY <1>1, EnvironmentPreserves
  <1>2. CASE Deliver
    BY <1>2, DeliverPreserves
  <1>3. CASE RemoveInstance
    BY <1>3, RemoveInstancePreserves
  <1>4. ASSUME NEW l \in Loaders, StartLoad(l) \/ LoadStep(l) \/ CancelLoad(l) PROVE IInv'
    <2>1. CASE StartLoad(l) \/ AwaitPending(l) \/ ReturnCached(l) \/ InstanceGone(l)
      BY <2>1, BystanderPreserves
    <2>2. CASE BeginLoad(l)
      BY <2>2, BeginLoadPreserves
    <2>3. CASE (\E p \in Paths : ReadPath(l, p)) \/ (\E s \in job[l].keep : KeepOld(l, s))
      BY <2>3, ReadingPreserves
    <2>4. CASE FinishLoad(l)
      BY <2>4, FinishLoadPreserves
    <2>5. CASE SendList(l) \/ FinishAfterRemoval(l) \/ CancelLoad(l)
      BY <2>5, LeavingPreserves
    <2> QED
      BY <1>4, <2>1, <2>2, <2>3, <2>4, <2>5 DEF LoadStep
  <1>5. CASE UNCHANGED vars
    BY <1>5, StutterPreserves
  <1> QED
    BY <1>1, <1>2, <1>3, <1>4, <1>5 DEF Next

-----------------------------------------------------------------------------
(* The theorems.                                                            *)

LEMMA Invariance == Spec => []IInv
  BY InitHolds, NextPreserves, PTL DEF Spec

\* Every variable keeps its type; above all load_state is always one of the
\* five states: the unreachable!() arms at the end of Instance::load_content
\* are not reached, however loads, changes and cancellations interleave.
THEOREM TypeCorrect == Spec => []TypeOK
  <1>1. IInv => TypeOK
    BY DEF IInv
  <1> QED
    BY <1>1, Invariance, PTL

\* Any number of tasks may ask for the list: at most one of them is between
\* taking the marks and publishing the list in Instance::load_content.
THEOREM OneReader == Spec => []SingleFlight
  <1>1. IInv => SingleFlight
    BY DEF IInv, Protocol, ReaderIsPending, SingleFlight
  <1> QED
    BY <1>1, Invariance, PTL

\* BridgeDataLoadState is dirty exactly while ContentFolderState holds a mark,
\* although mark_dirty and load_content update the two at different times.
THEOREM DirtyStateSound == Spec => []DirtyStateMatchesMarks
  <1>1. IInv => DirtyStateMatchesMarks
    BY DEF IInv, Protocol
  <1> QED
    BY <1>1, Invariance, PTL

\* No task is left waiting for the KeepAliveNotifySignal of a load that ended,
\* failed or was dropped.
THEOREM WaitersAreWoken == Spec => []NoLostWakeup
  <1>1. IInv => NoLostWakeup
    BY DEF IInv, Protocol
  <1> QED
    BY <1>1, Invariance, PTL

\* If no load is cancelled, a page that sees Loading or LoadingDirty, and so
\* sends no request of its own, has a task that will answer it.
THEOREM LoadingIsAnswered ==
    ASSUME ~AllowCancel
    PROVE  Spec => []LoadingHasLoader
  <1>1. IInv => LoadingHasLoader
    BY DEF IInv, Protocol, LoaderIfNotCancelled
  <1> QED
    BY <1>1, Invariance, PTL

-----------------------------------------------------------------------------
(* The list and the folder.  An entry may be wrong only while its file or   *)
(* its alternate is marked or has an event on its way (Changing), and that  *)
(* holds of the list a task is about to publish, too (Coming): nothing is   *)
(* read before the folder is watched (FolderWatched).                       *)

Changing(p) == allDirty \/ folderEvents # {} \/ Touches(dirtyPaths, p) \/ Touches(pathEvents, p)

\* The entry is what the folder holds now.
Present(s) == disk[s.path] # 0 /\ s.version = disk[s.path]

\* FoundAt and Kept of a folder d.
FoundIn(d, p, taken) ==
    IF d[p] # 0 THEN {Summary(p, d[p])}
    ELSE IF Alternate(p) \notin taken /\ d[Alternate(p)] # 0
         THEN {Summary(Alternate(p), d[Alternate(p)])}
         ELSE {}

KeptIn(d, s) ==
    IF d[s.path] # 0 THEN {s}
    ELSE IF d[Alternate(s.path)] # 0 THEN {Summary(Alternate(s.path), s.version)} ELSE {}

\* What a task that reads would publish if d did not change any more.
Coming(d, j, s) ==
    \/ s \in j.found
    \/ \E p \in j.todo : s \in FoundIn(d, p, j.taken)
    \/ \E o \in j.keep : s \in KeptIn(d, o)

FolderWatched ==
    /\ \A p \in Paths : disk[p] # 0 => folder # "absent"
    /\ alive /\ (listed \/ \E l \in Loaders : pc[l] # "idle") => watchingPath
    /\ alive /\ watchingPath /\ folder = "unwatched" => "created" \in folderEvents

NoTwins == AllowTwins \/ \A p \in Paths : disk[p] = 0 \/ disk[Alternate(p)] = 0

ReadsRight(l) ==
    \A s \in Summaries : Changing(s.path) \/ (Coming(disk, job[l], s) <=> Present(s))
ListedRight ==
    \A s \in Summaries : Changing(s.path) \/ (s \in summaries <=> Present(s))

Noticed ==
    alive /\ ~AllowTwins /\ ~AllowCancel =>
        /\ \A l \in Loaders : pc[l] = "read" => ReadsRight(l)
        /\ listed /\ (\A l \in Loaders : pc[l] # "read") => ListedRight

FreshInv == FolderWatched /\ NoTwins /\ Noticed

\* A path and its alternate are the two of their mod.
LEMMA PathFacts ==
    ASSUME NEW p \in Paths
    PROVE  /\ Alternate(p) \in Paths
           /\ Alternate(Alternate(p)) = p
           /\ \A q \in Paths : q.mod = p.mod => q \in {p, Alternate(p)}
           /\ \A q \in Paths : Touches({q}, p) <=> q \in {p, Alternate(p)}
  <1>1. Alternate(p) \in Paths
    BY AlternateType
  <1>2. Alternate(Alternate(p)) = p
    BY DEF Alternate, Paths
  <1>3. ASSUME NEW q \in Paths, q.mod = p.mod PROVE q \in {p, Alternate(p)}
    BY <1>3 DEF Alternate, Paths
  <1> QED
    BY <1>1, <1>2, <1>3 DEF Touches

LEMMA FoundFacts ==
    ASSUME NEW d \in [Paths -> Nat], NEW p \in Paths, NEW taken, NEW s \in FoundIn(d, p, taken)
    PROVE  /\ s.path \in {p, Alternate(p)}
           /\ d[s.path] # 0 /\ s.version = d[s.path]
  BY DEF FoundIn, Summary

LEMMA KeptFacts ==
    ASSUME NEW d \in [Paths -> Nat], NEW o \in Summaries, NEW s \in KeptIn(d, o)
    PROVE  /\ s.path \in {o.path, Alternate(o.path)}
           /\ d[o.path] # 0 => s = o
  BY DEF KeptIn, Summary

\* Whether an entry comes depends on its file and the alternate.
LEMMA ComingDepends ==
    ASSUME NEW d \in [Paths -> Nat], NEW e \in [Paths -> Nat], NEW j \in Jobs, NEW s \in Summaries,
           d[s.path] = e[s.path], d[Alternate(s.path)] = e[Alternate(s.path)],
           Coming(d, j, s)
    PROVE  Coming(e, j, s)
  <1>1. s.path \in Paths /\ Alternate(s.path) \in Paths /\ Alternate(Alternate(s.path)) = s.path
    BY PathFacts DEF Summaries
  <1>2. ASSUME NEW p \in j.todo, s \in FoundIn(d, p, j.taken) PROVE s \in FoundIn(e, p, j.taken)
    <2>1. p \in Paths
      BY DEF Jobs
    <2>2. p \in {s.path, Alternate(s.path)}
      BY <1>1, <1>2, <2>1, FoundFacts, PathFacts
    <2>3. d[p] = e[p] /\ d[Alternate(p)] = e[Alternate(p)]
      BY <1>1, <2>2
    <2> QED
      BY <1>2, <2>3 DEF FoundIn
  <1>3. ASSUME NEW o \in j.keep, s \in KeptIn(d, o) PROVE s \in KeptIn(e, o)
    <2>1. o \in Summaries /\ o.path \in Paths
      BY DEF Jobs, Summaries
    <2>2. o.path \in {s.path, Alternate(s.path)}
      BY <1>1, <1>3, <2>1, KeptFacts, PathFacts
    <2>3. d[o.path] = e[o.path] /\ d[Alternate(o.path)] = e[Alternate(o.path)]
      BY <1>1, <2>2
    <2> QED
      BY <1>3, <2>3 DEF KeptIn
  <1> QED
    BY <1>2, <1>3 DEF Coming

LEMMA FreshInit == Init => FreshInv
  BY DEF Init, FreshInv, FolderWatched, NoTwins, Noticed

\* A step that publishes nothing and reads nothing keeps the lists right if
\* the paths whose files it changes are then said to be changing.
LEMMA NoticedKept ==
    ASSUME TypeOK, disk' \in [Paths -> Nat], Noticed, alive' => alive, UNCHANGED <<listed, summaries>>,
           \A l \in Loaders : pc'[l] = "read" <=> pc[l] = "read",
           \A l \in Loaders : pc[l] = "read" => job'[l] = job[l],
           \A p \in Paths : alive /\ ~Changing(p)' =>
               ~Changing(p) /\ disk'[p] = disk[p] /\ disk'[Alternate(p)] = disk[Alternate(p)]
    PROVE  Noticed'
  <1> SUFFICES ASSUME alive', ~AllowTwins, ~AllowCancel
               PROVE  /\ \A l \in Loaders : pc'[l] = "read" => ReadsRight(l)'
                      /\ listed' /\ (\A l \in Loaders : pc'[l] # "read") => ListedRight'
    BY DEF Noticed
  <1>1. ASSUME NEW s \in Summaries
        PROVE  ~Changing(s.path)' => /\ ~Changing(s.path)
                                     /\ disk'[s.path] = disk[s.path]
                                     /\ disk'[Alternate(s.path)] = disk[Alternate(s.path)]
                                     /\ Present(s)' <=> Present(s)
    <2>1. s.path \in Paths
      BY DEF Summaries
    <2> QED
      BY <2>1 DEF Present
  <1>2. ASSUME NEW l \in Loaders, pc'[l] = "read", NEW s \in Summaries, ~Changing(s.path)'
        PROVE  Coming(disk', job'[l], s) <=> Present(s)'
    <2>1. pc[l] = "read" /\ job'[l] = job[l] /\ job[l] \in Jobs
      BY <1>2 DEF TypeOK
    <2>2. Coming(disk, job[l], s) <=> Present(s)
      BY <1>1, <1>2, <2>1 DEF Noticed, ReadsRight
    <2>3. Coming(disk', job[l], s) <=> Coming(disk, job[l], s)
      BY <1>1, <1>2, <2>1, ComingDepends DEF TypeOK
    <2> QED
      BY <1>1, <1>2, <2>1, <2>2, <2>3
  <1>3. ASSUME listed', \A l \in Loaders : pc'[l] # "read", NEW s \in Summaries, ~Changing(s.path)'
        PROVE  s \in summaries' <=> Present(s)'
    <2>1. s \in summaries <=> Present(s)
      BY <1>1, <1>3 DEF Noticed, ListedRight
    <2> QED
      BY <1>1, <1>3, <2>1
  <1> QED
    BY <1>2, <1>3 DEF ReadsRight, ListedRight

LEMMA EnvironmentFresh ==
    ASSUME IInv, FreshInv, Environment
    PROVE  FreshInv'
  <1>1. TypeOK /\ TypeOK'
    BY EnvironmentPreserves DEF IInv
  <1>2. UNCHANGED <<alive, watchingPath, markVars, listVars, taskVars>>
    BY DEF Environment
  <1> USE DEF Edit, Report
  <1>3. FolderWatched'
    <2>1. ASSUME NEW p \in Paths, WriteFile(p) \/ RemoveFile(p) \/ RenameFile(p) \/ WriteChildState(p)
          PROVE  UNCHANGED <<folder, folderEvents>> /\ folder # "absent"
      BY <2>1 DEF WriteFile, RemoveFile, RenameFile, WriteChildState, FreshInv, FolderWatched
    <2>2. ASSUME UNCHANGED <<folder, folderEvents>>, folder # "absent" PROVE FolderWatched'
      BY <1>2, <2>2 DEF FreshInv, FolderWatched, listVars, taskVars
    <2>3. CASE RemoveFolder
      BY <1>2, <2>3 DEF RemoveFolder, FreshInv, FolderWatched, listVars, taskVars
    <2>4. CASE CreateFolder
      BY <1>2, <2>4 DEF CreateFolder, FreshInv, FolderWatched, listVars, taskVars
    <2> QED
      BY <2>1, <2>2, <2>3, <2>4 DEF Environment
  <1>4. NoTwins'
    <2> SUFFICES ASSUME ~AllowTwins, NEW q \in Paths PROVE disk'[q] = 0 \/ disk'[Alternate(q)] = 0
      BY DEF NoTwins
    <2>1. Alternate(q) \in Paths /\ Alternate(Alternate(q)) = q /\ (disk[q] = 0 \/ disk[Alternate(q)] = 0)
      BY PathFacts DEF FreshInv, NoTwins
    <2>2. ASSUME NEW p \in Paths, WriteFile(p) PROVE disk'[q] = 0 \/ disk'[Alternate(q)] = 0
      <3>1. disk[Alternate(p)] = 0 /\ disk' = [disk EXCEPT ![p] = edits + 1] /\ disk \in [Paths -> Nat]
        BY <1>1, <2>2 DEF WriteFile, TypeOK
      <3>2. Alternate(Alternate(p)) = p
        BY PathFacts
      <3>3. CASE q = p
        BY <2>1, <3>1, <3>2, <3>3 DEF Alternate
      <3>4. CASE Alternate(q) = p
        BY <2>1, <3>1, <3>2, <3>4 DEF Alternate
      <3>5. CASE q # p /\ Alternate(q) # p
        BY <2>1, <3>1, <3>5
      <3> QED
        BY <3>3, <3>4, <3>5
    <2>3. ASSUME NEW p \in Paths, RemoveFile(p) PROVE disk'[q] = 0 \/ disk'[Alternate(q)] = 0
      BY <1>1, <2>1, <2>3 DEF RemoveFile, TypeOK
    <2>4. ASSUME NEW p \in Paths, RenameFile(p) PROVE disk'[q] = 0 \/ disk'[Alternate(q)] = 0
      BY <1>1, <2>1, <2>4, PathFacts DEF RenameFile, TypeOK
    <2>5. ASSUME NEW p \in Paths, WriteChildState(p) PROVE disk'[q] = 0 \/ disk'[Alternate(q)] = 0
      BY <1>1, <2>1, <2>5 DEF WriteChildState, TypeOK
    <2>6. CASE RemoveFolder \/ CreateFolder
      BY <2>1, <2>6 DEF RemoveFolder, CreateFolder
    <2> QED
      BY <2>2, <2>3, <2>4, <2>5, <2>6 DEF Environment
  <1>5. ASSUME alive => ~watchingPath PROVE Noticed'
    <2>1. alive' = alive /\ listed' = listed /\ pc' = pc
      BY <1>2 DEF listVars, taskVars
    <2>2. alive => ~listed /\ \A l \in Loaders : pc[l] = "idle"
      BY <1>5 DEF FreshInv, FolderWatched
    <2> QED
      BY <2>1, <2>2 DEF Noticed
  <1>6. ASSUME alive, watchingPath PROVE Noticed'
    <2>1. ASSUME NEW p \in Paths, ~Changing(p)'
          PROVE  ~Changing(p) /\ disk'[p] = disk[p] /\ disk'[Alternate(p)] = disk[Alternate(p)]
      <3>1. /\ ~allDirty /\ ~Touches(dirtyPaths, p)
            /\ folderEvents' = {} /\ ~Touches(pathEvents', p)
            /\ Alternate(p) \in Paths /\ Alternate(Alternate(p)) = p
        BY <1>2, <2>1, PathFacts DEF Changing, markVars
      <3>2. folderEvents = {}
        BY <3>1 DEF Environment, WriteFile, RemoveFile, RenameFile, WriteChildState, RemoveFolder, CreateFolder
      <3>3. folder # "unwatched"
        BY <1>6, <3>2 DEF FreshInv, FolderWatched
      <3>4. CASE RemoveFolder \/ CreateFolder
        <4>1. folder = "watched" \/ folder = "absent"
          BY <1>1, <3>3 DEF TypeOK
        <4>2. CASE RemoveFolder
          BY <3>1, <4>1, <4>2 DEF RemoveFolder
        <4>3. CASE CreateFolder
          BY <1>6, <3>1, <4>3 DEF CreateFolder
        <4> QED
          BY <3>4, <4>2, <4>3
      <3>5. ASSUME NEW q \in Paths, WriteFile(q) \/ RemoveFile(q) \/ RenameFile(q) \/ WriteChildState(q)
            PROVE  /\ pathEvents \subseteq pathEvents' /\ q \notin {p, Alternate(p)}
                   /\ disk'[p] = disk[p] /\ disk'[Alternate(p)] = disk[Alternate(p)]
        <4>1. folder = "watched"
          BY <1>1, <3>3, <3>5 DEF TypeOK, WriteFile, RemoveFile, RenameFile, WriteChildState,
                                  FreshInv, FolderWatched
        <4>2. Alternate(q) \in Paths /\ Alternate(Alternate(q)) = q /\ disk \in [Paths -> Nat]
          BY <1>1, PathFacts DEF TypeOK
        <4>3. CASE WriteFile(q) \/ RemoveFile(q)
          <5>1. pathEvents' = pathEvents \cup {q}
            BY <4>1, <4>3 DEF WriteFile, RemoveFile
          <5>2. q \notin {p, Alternate(p)}
            BY <3>1, <5>1 DEF Touches
          <5> QED
            BY <3>1, <4>2, <4>3, <5>1, <5>2 DEF WriteFile, RemoveFile
        <4>4. CASE RenameFile(q)
          <5>1. pathEvents' = pathEvents \cup {q, Alternate(q)}
            BY <4>1, <4>4 DEF RenameFile
          <5>2. {q, Alternate(q)} \cap {p, Alternate(p)} = {}
            BY <3>1, <5>1 DEF Touches
          <5> QED
            BY <3>1, <4>2, <4>4, <5>1, <5>2 DEF RenameFile
        <4>5. CASE WriteChildState(q)
          <5> DEFINE r == [mod |-> q.mod, ext |-> "jar"]
          <5>1. pathEvents' = pathEvents \cup {r}
            BY <4>1, <4>5 DEF WriteChildState
          <5>2. r \in Paths /\ r.mod = q.mod /\ r \notin {p, Alternate(p)}
            BY <3>1, <5>1 DEF Touches, Paths
          <5>3. p.mod # q.mod /\ Alternate(p).mod # q.mod
            BY <3>1, <5>2, PathFacts DEF Alternate
          <5>4. disk'[p] = disk[p] /\ disk'[Alternate(p)] = disk[Alternate(p)]
            BY <3>1, <4>5, <5>3 DEF WriteChildState
          <5> QED
            BY <5>1, <5>3, <5>4
        <4> QED
          BY <3>5, <4>3, <4>4, <4>5
      <3>6. pathEvents \subseteq pathEvents' => ~Touches(pathEvents, p)
        BY <3>1 DEF Touches
      <3>7. CASE \E q \in Paths : WriteFile(q) \/ RemoveFile(q) \/ RenameFile(q) \/ WriteChildState(q)
        BY <3>1, <3>2, <3>5, <3>6, <3>7 DEF Changing
      <3> QED
        BY <3>1, <3>2, <3>4, <3>6, <3>7 DEF Environment, Changing
    <2>2. disk' \in [Paths -> Nat] /\ alive' = alive
      BY <1>1, <1>2 DEF TypeOK
    <2>3. UNCHANGED <<listed, summaries, pc, job>>
      BY <1>2 DEF listVars, taskVars
    <2>4. \A p \in Paths : ~Changing(p)' =>
             ~Changing(p) /\ disk'[p] = disk[p] /\ disk'[Alternate(p)] = disk[Alternate(p)]
      BY <2>1
    <2>5. Noticed
      BY DEF FreshInv
    <2> HIDE DEF Changing
    <2> QED
      BY <1>1, <2>2, <2>3, <2>4, <2>5, NoticedKept
  <1>7. (alive => ~watchingPath) \/ (alive /\ watchingPath)
    OBVIOUS
  <1>8. Noticed'
    BY <1>5, <1>6, <1>7
  <1> QED
    BY <1>3, <1>4, <1>8 DEF FreshInv

LEMMA DeliverFresh ==
    ASSUME IInv, FreshInv, Deliver
    PROVE  FreshInv'
  <1>1. TypeOK /\ TypeOK'
    BY DeliverPreserves DEF IInv
  <1>2. UNCHANGED <<disk, alive, watchingPath, listVars, taskVars>>
    BY DEF Deliver, DeliverPathEvent, DeliverFolderRemoved, DeliverFolderCreated
  <1>3. FolderWatched'
    <2>1. ASSUME NEW p \in Paths, DeliverPathEvent(p) PROVE FolderWatched'
      BY <1>2, <2>1 DEF DeliverPathEvent, FreshInv, FolderWatched, listVars, taskVars
    <2>2. CASE DeliverFolderRemoved
      BY <1>2, <2>2 DEF DeliverFolderRemoved, FreshInv, FolderWatched, listVars, taskVars
    <2>3. CASE DeliverFolderCreated
      BY <1>2, <2>3 DEF DeliverFolderCreated, FreshInv, FolderWatched, listVars, taskVars
    <2> QED
      BY <2>1, <2>2, <2>3 DEF Deliver
  <1>4. ASSUME alive, NEW p \in Paths, ~Changing(p)' PROVE ~Changing(p)
    <2>1. CASE DeliverFolderRemoved \/ DeliverFolderCreated
      <3>1. MarkAllDirty
        BY <2>1 DEF DeliverFolderRemoved, DeliverFolderCreated
      <3>2. allDirty'
        BY <1>4, <3>1 DEF MarkAllDirty, markVars
      <3> QED
        BY <1>4, <3>2 DEF Changing
    <2>2. ASSUME NEW q \in Paths, DeliverPathEvent(q) PROVE ~Changing(p)
      <3>1. pathEvents' = pathEvents \ {q} /\ MarkDirty(q) /\ UNCHANGED folderEvents
        BY <2>2 DEF DeliverPathEvent
      <3>2. (allDirty => allDirty') /\ dirtyPaths \subseteq dirtyPaths' /\ (allDirty' \/ q \in dirtyPaths')
        BY <1>4, <3>1 DEF MarkDirty, markVars
      <3> QED
        BY <1>4, <3>1, <3>2 DEF Changing, Touches
    <2> QED
      BY <2>1, <2>2 DEF Deliver
  <1>5. Noticed'
    BY <1>1, <1>2, <1>4, NoticedKept DEF FreshInv, listVars, taskVars, TypeOK
  <1>6. NoTwins'
    BY <1>2 DEF FreshInv, NoTwins
  <1> QED
    BY <1>3, <1>5, <1>6 DEF FreshInv

\* Tasks that come and go without reading.
LEMMA BystanderFresh ==
    ASSUME IInv, FreshInv, NEW l \in Loaders,
           \/ StartLoad(l) \/ AwaitPending(l) \/ ReturnCached(l) \/ InstanceGone(l)
           \/ SendList(l) \/ FinishAfterRemoval(l) \/ CancelLoad(l)
    PROVE  FreshInv'
  <1>1. TypeOK
    BY DEF IInv
  <1>2. UNCHANGED <<disk, edits, pathEvents, folderEvents, alive, markVars, listed, summaries>>
    BY DEF StartLoad, AwaitPending, ReturnCached, InstanceGone, SendList, FinishAfterRemoval,
           CancelLoad, diskVars, listVars
  <1>3. FolderWatched'
    <2>1. CASE StartLoad(l)
      <3>1. alive => watchingPath'
        BY <2>1 DEF StartLoad
      <3>2. folder' = folder \/ (folder = "unwatched" /\ folder' = "watched")
        BY <2>1 DEF StartLoad
      <3>3. alive /\ ~watchingPath => folder' # "unwatched"
        BY <2>1 DEF StartLoad
      <3> QED
        BY <1>2, <3>1, <3>2, <3>3 DEF FreshInv, FolderWatched
    <2>2. CASE ~StartLoad(l)
      <3>1. pc[l] # "idle" \/ ~alive \/ awaiting[l] # None
        BY <2>2 DEF AwaitPending, ReturnCached, InstanceGone, SendList, FinishAfterRemoval,
                    CancelLoad, AtLoopTop
      <3>2. UNCHANGED <<watchingPath, folder>>
        BY <2>2 DEF AwaitPending, ReturnCached, InstanceGone, SendList, FinishAfterRemoval,
                    CancelLoad, diskVars
      <3>3. \A k \in Loaders : pc'[k] # "idle" => pc[k] # "idle"
        BY <1>1, <2>2 DEF AwaitPending, ReturnCached, InstanceGone, SendList, FinishAfterRemoval,
                          CancelLoad, Leave, TypeOK
      <3> QED
        BY <1>2, <3>2, <3>3 DEF FreshInv, FolderWatched
    <2> QED
      BY <2>1, <2>2
  <1>4. NoTwins'
    BY <1>2 DEF FreshInv, NoTwins
  <1>5. \A p \in Paths : Changing(p)' <=> Changing(p)
    BY <1>2 DEF Changing, markVars
  <1>6. ASSUME CancelLoad(l) \/ FinishAfterRemoval(l) PROVE Noticed'
    <2>1. AllowCancel \/ ~alive
      BY <1>6 DEF CancelLoad, FinishAfterRemoval
    <2>2. alive' = alive
      BY <1>2
    <2> QED
      BY <2>1, <2>2 DEF Noticed
  <1>7. ASSUME \/ StartLoad(l) \/ AwaitPending(l) \/ ReturnCached(l) \/ InstanceGone(l) \/ SendList(l)
        PROVE  Noticed'
    <2>1. \A k \in Loaders : pc'[k] = "read" <=> pc[k] = "read"
      BY <1>1, <1>7 DEF StartLoad, AwaitPending, ReturnCached, InstanceGone, SendList, Leave, AtLoopTop, TypeOK
    <2>2. \A k \in Loaders : pc[k] = "read" => job'[k] = job[k]
      BY <1>1, <1>7 DEF StartLoad, AwaitPending, ReturnCached, InstanceGone, SendList, Leave, AtLoopTop, TypeOK
    <2>3. disk' \in [Paths -> Nat]
      BY <1>1, <1>2 DEF TypeOK
    <2>4. \A p \in Paths : ~Changing(p)' =>
             ~Changing(p) /\ disk'[p] = disk[p] /\ disk'[Alternate(p)] = disk[Alternate(p)]
      BY <1>2, <1>5
    <2>5. Noticed /\ alive' = alive /\ UNCHANGED <<listed, summaries>>
      BY <1>2 DEF FreshInv
    <2> QED
      BY <1>1, <2>1, <2>2, <2>3, <2>4, <2>5, NoticedKept
  <1>8. Noticed'
    BY <1>6, <1>7
  <1> QED
    BY <1>3, <1>4, <1>8 DEF FreshInv

\* The disk stays, the tasks do not go idle: what a reading step keeps.
LEMMA ReaderWatched ==
    ASSUME FreshInv, NEW l \in Loaders, pc[l] # "idle",
           UNCHANGED <<diskVars, alive, watchingPath>>
    PROVE  FolderWatched' /\ NoTwins'
  BY DEF FreshInv, FolderWatched, NoTwins, diskVars

\* What a load takes is what changed: what it leaves was right.
LEMMA BeginLoadFresh ==
    ASSUME IInv, FreshInv, NEW l \in Loaders, BeginLoad(l)
    PROVE  FreshInv'
  <1>1. TypeOK /\ Protocol
    BY DEF IInv
  <1>2. \A k \in Loaders : pc[k] # "read"
    BY <1>1, ContentLoadAssumption DEF Protocol, ReaderIsPending, BeginLoad, LoadPending
  <1> DEFINE j == [taken |-> TakenPaths,
                   todo  |-> TakenPaths,
                   keep  |-> {s \in summaries : ~Touches(TakenPaths, s.path)},
                   found |-> {}]
  <1>3. pc' = [pc EXCEPT ![l] = "read"] /\ job' = [job EXCEPT ![l] = j]
        /\ UNCHANGED <<diskVars, alive, watchingPath>>
    BY DEF BeginLoad
  <1>4. /\ \A k \in Loaders : pc'[k] = "read" <=> k = l
        /\ job'[l] = j
    BY <1>1, <1>2, <1>3 DEF TypeOK
  <1>5. FolderWatched' /\ NoTwins'
    BY <1>3, ReaderWatched DEF BeginLoad, AtLoopTop
  <1>6. ASSUME alive, ~AllowTwins, ~AllowCancel, NEW s \in Summaries, ~Changing(s.path)'
        PROVE  Coming(disk, j, s) <=> Present(s)
    <2>1. /\ s.path \in Paths /\ Alternate(s.path) \in Paths /\ Alternate(Alternate(s.path)) = s.path
          /\ s = Summary(s.path, s.version)
      BY PathFacts DEF Summaries, Summary
    <2>2. folderEvents = {} /\ ~Touches(pathEvents, s.path)
      BY <1>3, <1>6 DEF Changing, diskVars
    <2>3. TakenPaths \subseteq Paths /\ disk \in [Paths -> Nat] /\ summaries \subseteq Summaries
      BY <1>1 DEF TakenPaths, TypeOK
    <2>4. disk[s.path] = 0 \/ disk[Alternate(s.path)] = 0
      BY <1>6, <2>1 DEF FreshInv, NoTwins
    <2>5. CASE Touches(TakenPaths, s.path)
      <3>1. ASSUME NEW o \in j.keep PROVE s \notin KeptIn(disk, o)
        <4>1. o \in Summaries /\ o.path \in Paths /\ ~Touches(TakenPaths, o.path)
          BY <2>3 DEF Summaries
        <4>2. ASSUME s.path \in {o.path, Alternate(o.path)} PROVE FALSE
          BY <2>1, <2>5, <4>1, <4>2, PathFacts DEF Touches
        <4> QED
          BY <2>3, <4>1, <4>2, KeptFacts
      <3>2. ASSUME NEW p \in TakenPaths, s \in FoundIn(disk, p, TakenPaths) PROVE Present(s)
        BY <2>3, <3>2, FoundFacts DEF Present
      <3>3. ASSUME Present(s) PROVE \E p \in TakenPaths : s \in FoundIn(disk, p, TakenPaths)
        <4>1. CASE s.path \in TakenPaths
          <5>1. s \in FoundIn(disk, s.path, TakenPaths)
            BY <2>1, <3>3 DEF FoundIn, Present
          <5> QED
            BY <4>1, <5>1
        <4>2. CASE s.path \notin TakenPaths /\ Alternate(s.path) \in TakenPaths
          <5>1. s \in FoundIn(disk, Alternate(s.path), TakenPaths)
            BY <2>1, <2>4, <3>3, <4>2 DEF FoundIn, Present
          <5> QED
            BY <4>2, <5>1
        <4> QED
          BY <2>5, <4>1, <4>2 DEF Touches
      <3> QED
        BY <3>1, <3>2, <3>3 DEF Coming
    <2>6. CASE ~Touches(TakenPaths, s.path)
      <3>1. listed /\ ~allDirty /\ TakenPaths = dirtyPaths
        BY <2>1, <2>6 DEF TakenPaths, Touches
      <3>2. ASSUME NEW o \in Summaries, o.path \in {s.path, Alternate(s.path)}
            PROVE  o \in summaries <=> Present(o)
        <4>1. ~Changing(o.path)
          BY <2>1, <2>2, <2>6, <3>1, <3>2 DEF Changing, Touches
        <4> QED
          BY <1>2, <1>6, <3>1, <4>1 DEF FreshInv, Noticed, ListedRight
      <3>3. ASSUME NEW p \in TakenPaths PROVE s \notin FoundIn(disk, p, TakenPaths)
        <4>1. p \in Paths /\ Alternate(Alternate(p)) = p
          BY <2>3, PathFacts
        <4> QED
          BY <2>3, <2>6, <4>1, FoundFacts DEF Touches
      <3>4. ASSUME NEW o \in j.keep, s \in KeptIn(disk, o) PROVE Present(s)
        <4>1. o \in summaries /\ o \in Summaries /\ o.path \in Paths /\ Alternate(Alternate(o.path)) = o.path
          BY <2>3, PathFacts DEF Summaries
        <4>2. o.path \in {s.path, Alternate(s.path)}
          BY <2>3, <3>4, <4>1, KeptFacts
        <4>3. Present(o)
          BY <3>2, <4>1, <4>2
        <4> QED
          BY <2>3, <3>4, <4>1, <4>3, KeptFacts DEF Present
      <3>5. ASSUME Present(s) PROVE s \in j.keep /\ s \in KeptIn(disk, s)
        BY <2>6, <3>2, <3>5 DEF KeptIn, Present
      <3> QED
        BY <3>3, <3>4, <3>5 DEF Coming
    <2> QED
      BY <2>5, <2>6
  <1>7. Noticed'
    <2> SUFFICES ASSUME alive, ~AllowTwins, ~AllowCancel PROVE ReadsRight(l)'
      BY <1>3, <1>4 DEF Noticed
    <2>1. disk' = disk
      BY <1>3 DEF diskVars
    <2> QED
      BY <1>4, <1>6, <2>1 DEF ReadsRight, Present
  <1> QED
    BY <1>5, <1>7 DEF FreshInv

\* Reading a file moves it from what is still to come to what is found.
LEMMA ReadingFresh ==
    ASSUME IInv, FreshInv, NEW l \in Loaders,
           (\E p \in Paths : ReadPath(l, p)) \/ (\E s \in job[l].keep : KeepOld(l, s))
    PROVE  FreshInv'
  <1>1. TypeOK /\ job[l] \in Jobs
    BY DEF IInv, TypeOK
  <1>2. UNCHANGED <<diskVars, alive, watchingPath, markVars, listVars, pc, awaiting>> /\ pc[l] = "read"
    BY DEF ReadPath, KeepOld
  <1>3. FolderWatched' /\ NoTwins'
    BY <1>2, ReaderWatched
  <1>4. \A k \in Loaders : k # l => job'[k] = job[k]
    BY <1>1 DEF ReadPath, KeepOld, TypeOK
  <1>5. ASSUME NEW s PROVE Coming(disk, job'[l], s) <=> Coming(disk, job[l], s)
    <2>1. ASSUME NEW p \in Paths, ReadPath(l, p) PROVE Coming(disk, job'[l], s) <=> Coming(disk, job[l], s)
      <3>1. FoundAt(p, job[l].taken) = FoundIn(disk, p, job[l].taken)
        BY DEF FoundAt, FoundIn
      <3>2. /\ job'[l].todo = job[l].todo \ {p} /\ p \in job[l].todo
            /\ job'[l].found = job[l].found \cup FoundIn(disk, p, job[l].taken)
            /\ job'[l].keep = job[l].keep /\ job'[l].taken = job[l].taken
        BY <1>1, <2>1, <3>1 DEF ReadPath, Jobs, TypeOK
      <3> QED
        BY <3>2 DEF Coming
    <2>2. ASSUME NEW o \in job[l].keep, KeepOld(l, o) PROVE Coming(disk, job'[l], s) <=> Coming(disk, job[l], s)
      <3>1. Kept(o) = KeptIn(disk, o)
        BY DEF Kept, KeptIn
      <3>2. /\ job'[l].keep = job[l].keep \ {o}
            /\ job'[l].found = job[l].found \cup KeptIn(disk, o)
            /\ job'[l].todo = job[l].todo /\ job'[l].taken = job[l].taken
        BY <1>1, <2>2, <3>1 DEF KeepOld, Jobs, TypeOK
      <3> QED
        BY <3>2 DEF Coming
    <2> QED
      BY <2>1, <2>2
  <1>6. Noticed'
    <2>1. \A p \in Paths : Changing(p)' <=> Changing(p)
      BY <1>2 DEF Changing, diskVars, markVars
    <2>2. \A s : Present(s)' <=> Present(s)
      BY <1>2 DEF Present, diskVars
    <2>3. \A s \in Summaries : s.path \in Paths
      BY DEF Summaries
    <2>4. ASSUME NEW k \in Loaders, ReadsRight(k) PROVE ReadsRight(k)'
      <3>1. \A s \in Summaries : Coming(disk', job'[k], s) <=> Coming(disk, job[k], s)
        BY <1>2, <1>4, <1>5 DEF diskVars
      <3> QED
        BY <2>1, <2>2, <2>3, <2>4, <3>1 DEF ReadsRight
    <2> QED
      BY <1>2, <2>4 DEF FreshInv, Noticed
  <1> QED
    BY <1>3, <1>6 DEF FreshInv

LEMMA FinishLoadFresh ==
    ASSUME IInv, FreshInv, NEW l \in Loaders, FinishLoad(l)
    PROVE  FreshInv'
  <1>1. TypeOK /\ Protocol /\ pc[l] = "read" /\ job[l].todo = {} /\ job[l].keep = {}
    BY DEF IInv, FinishLoad, ReadingDone
  <1>2. UNCHANGED <<diskVars, alive, watchingPath, dirtyPaths, allDirty>> /\ summaries' = job[l].found
        /\ pc' = [pc EXCEPT ![l] = "send"]
    BY DEF FinishLoad
  <1>3. FolderWatched' /\ NoTwins'
    BY <1>1, <1>2, ReaderWatched
  <1>4. \A k \in Loaders : pc'[k] # "read"
    BY <1>1, <1>2 DEF Protocol, ReaderIsPending, TypeOK
  <1>5. \A s : Coming(disk, job[l], s) <=> s \in summaries'
    BY <1>1, <1>2 DEF Coming
  <1>6. /\ \A p : Changing(p)' <=> Changing(p)
        /\ \A s : Present(s)' <=> Present(s)
    BY <1>2 DEF Changing, Present, diskVars
  <1>7. Noticed'
    <2> SUFFICES ASSUME alive, ~AllowTwins, ~AllowCancel PROVE ListedRight'
      BY <1>2, <1>4 DEF Noticed
    <2>1. ReadsRight(l)
      BY <1>1 DEF FreshInv, Noticed
    <2> QED
      BY <1>5, <1>6, <2>1 DEF ReadsRight, ListedRight
  <1> QED
    BY <1>3, <1>7 DEF FreshInv

LEMMA FreshStep == IInv /\ FreshInv /\ [Next]_vars => FreshInv'
  <1> SUFFICES ASSUME IInv, FreshInv, [Next]_vars PROVE FreshInv'
    OBVIOUS
  <1>1. CASE Environment
    BY <1>1, EnvironmentFresh
  <1>2. CASE Deliver
    BY <1>2, DeliverFresh
  <1>3. CASE RemoveInstance
    BY <1>3 DEF RemoveInstance, FreshInv, FolderWatched, NoTwins, Noticed, diskVars
  <1>4. ASSUME NEW l \in Loaders, StartLoad(l) \/ LoadStep(l) \/ CancelLoad(l) PROVE FreshInv'
    BY <1>4, BystanderFresh, BeginLoadFresh, ReadingFresh, FinishLoadFresh DEF LoadStep
  <1>5. CASE UNCHANGED vars
    <2>1. UNCHANGED <<disk, folder, pathEvents, folderEvents, alive, watchingPath, dirtyPaths, allDirty,
                      listed, summaries, pc, job>>
      BY <1>5 DEF vars, diskVars, markVars, listVars, taskVars
    <2> QED
      BY <2>1 DEF FreshInv, FolderWatched, NoTwins, Noticed, ReadsRight, ListedRight, Changing, Present
  <1> QED
    BY <1>1, <1>2, <1>3, <1>4, <1>5 DEF Next

\* If no load is cancelled and no mod is there twice, the list is the folder's
\* once the watcher has told everything and the marks are read: for any files,
\* any number of tasks and any changes while they read (Instance::load_content).
THEOREM ListIsTheFolder ==
    ASSUME ~AllowTwins, ~AllowCancel
    PROVE  Spec => []SettledListMatchesFolder
  <1>1. ASSUME IInv, FreshInv PROVE SettledListMatchesFolder
    <2> SUFFICES ASSUME Settled PROVE summaries = FolderSummaries
      BY DEF SettledListMatchesFolder
    <2>1. /\ alive /\ listed /\ \A l \in Loaders : pc[l] # "read"
          /\ \A p : ~Changing(p)
      BY DEF Settled, Changing, Touches
    <2>2. \A s \in Summaries : s \in summaries <=> Present(s)
      BY <1>1, <2>1 DEF FreshInv, Noticed, ListedRight
    <2>3. summaries \subseteq Summaries /\ disk \in [Paths -> Nat]
      BY <1>1 DEF IInv, TypeOK
    <2>4. ASSUME NEW s \in summaries PROVE s \in FolderSummaries
      <3>1. s \in Summaries /\ s.path \in Paths /\ Present(s) /\ s = Summary(s.path, s.version)
        BY <2>2, <2>3 DEF Summaries, Summary
      <3> QED
        BY <3>1 DEF FolderSummaries, Present
    <2>5. ASSUME NEW p \in Paths, disk[p] # 0 PROVE Summary(p, disk[p]) \in summaries
      <3>1. Summary(p, disk[p]) \in Summaries /\ Present(Summary(p, disk[p]))
        BY <2>3, <2>5 DEF Summaries, Summary, Present
      <3> QED
        BY <2>2, <3>1
    <2> QED
      BY <2>4, <2>5 DEF FolderSummaries
  <1>2. IInv /\ FreshInv => SettledListMatchesFolder
    BY <1>1
  <1> QED
    BY <1>2, Invariance, FreshInit, FreshStep, PTL DEF Spec
=============================================================================
