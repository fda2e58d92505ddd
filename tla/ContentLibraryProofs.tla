------------------------ MODULE ContentLibraryProofs ------------------------
(***************************************************************************)
(* Proofs about ContentLibrary, for any launchers, tasks and hashes, files *)
(* of any size and any number of requests, failures and crashes.           *)
(*                                                                         *)
(* The argument: as long as nothing happened that spoils a file (Sound), a *)
(* file has at most one writer, because whoever creates it holds the lock  *)
(* of its hash and found it wrong, or is a copy that met nobody.  So what  *)
(* a writer has written is what it received (Contents), a file it reports  *)
(* as installed is whole or only its last chunk is on its way (Good), and  *)
(* nobody creates, truncates or removes a file that is good.               *)
(***************************************************************************)
EXTENDS ContentLibrary, TLAPS

Chunks == {"good", "bad", "hole"}
Phases == {"idle", "installing", "linking", "overriding", "launched"}
AllTroubles == Spoilt \cup {"not linked"}

TaskRecords ==
    [kind : {"download", "copy", "override"}, step : Steps, want : Hashes \cup {NoHash},
     locked : BOOLEAN, file : Files \cup {0}, count : Nat, pure : BOOLEAN,
     flight : {"none", "good", "bad"}, broken : BOOLEAN, kept : BOOLEAN]

\* The steps with the file of the hash in hand: open, or about to be removed.
OpenSteps == {"filelock", "stream", "discard", "remove", "write"}
LockedSteps == DownloadSteps \ {"lock"}
\* The future is gone or has succeeded; its last write may be under way.
LateSteps == InstalledSteps \cup {"over", "dropped"}

Writes(r) == r.step \in OpenSteps \/ r.flight # "none"

\* Its last chunk is being written, the file was reported as installed.
Lands(r) == r.flight # "none" /\ r.step \in InstalledSteps \cup {"over"}

\* The shape of a task, whatever the others do.
WellFormed(r) ==
    /\ r.step # "off" => r.want \in Hashes
    /\ r.step \in DownloadSteps \cup InstalledSteps \cup {"waiting", "exists"} => r.kept
    /\ r.step \in {"off", "dropped", "over"} => ~r.kept
    /\ r.step \in DownloadSteps => r.kind = "download"
    /\ r.step \in {"waiting", "exists"} => r.kind = "override"
    /\ r.step \in WriteSteps => r.kind # "download"
    /\ r.step \in DownloadSteps \cup WriteSteps \cup {"off", "waiting"} =>
           \/ r.step \in {"stream", "discard", "remove"}
           \/ /\ r.flight = "none" /\ r.pure /\ ~r.broken
              /\ r.step = "write" \/ r.count = 0
    /\ r.locked => r.step \in LockedSteps
    /\ Writes(r) => r.file # 0
    /\ r.flight # "none" =>
           r.step \in {"stream", "discard"} \cup LateSteps /\ r.count # 0 /\ ~r.broken
    /\ r.flight = "bad" => ~r.pure
    /\ r.broken => r.count # 0
    /\ r.step = "write" => r.count < Size
    /\ r.step \in {"over", "dropped"} => r.flight # "none"
    /\ Lands(r) => r.count = Size /\ r.pure

TypeOK ==
    /\ library \in [Hashes -> Files \cup {0}]
    /\ data \in [Files -> Seq(Chunks)]
    /\ link \in [Tasks -> Files \cup {0}]
    /\ old \in [Tasks -> BOOLEAN]
    /\ tasks \in [Tasks -> TaskRecords]
    /\ phase \in [Launchers -> Phases]
    /\ launch \in [Launchers -> BOOLEAN]
    /\ needs \in [Launchers -> SUBSET Hashes]
    /\ error \in [Launchers -> BOOLEAN]
    /\ left \in [{"requests", "mishaps", "crashes"} -> Nat]
    /\ troubles \subseteq AllTroubles

\* What the tasks of a launcher do in the phases of its request.
InPhase(l) ==
    /\ phase[l] = "idle" => ~launch[l] /\ ~error[l] /\ Current(l) = {}
    /\ phase[l] \in {"overriding", "launched"} => launch[l]
    /\ phase[l] = "installing" =>
           \A t \in Current(l) : tasks[t].kind = "override" => tasks[t].step = "waiting"
    /\ phase[l] = "linking" => ~launch[l] /\ \A t \in Current(l) : tasks[t].step \in InstalledSteps
    /\ phase[l] = "launched" => ~error[l] /\ \A t \in Current(l) : tasks[t].step = "installed"
    /\ \A t \in Mine(l) : tasks[t].step \in {"unlinked", "linked"} => phase[l] = "linking"
    /\ \A t \in Current(l) : tasks[t].kind = "override" => launch[l]
    /\ launch[l] /\ ~error[l] =>
           \A h \in needs[l] : \E t \in Current(l) :
               /\ tasks[t].kind = "download" /\ tasks[t].want = h
               /\ phase[l] \in {"overriding", "launched"} => tasks[t].step = "installed"

Shape ==
    /\ TypeOK
    /\ \A t \in Tasks : WellFormed(tasks[t])
    /\ \A l \in Launchers : InPhase(l)

-----------------------------------------------------------------------------
(* Files and their writers, as long as nothing is spoilt.                   *)

\* The locks of downloads are held and exclude each other.
Locking ==
    /\ \A t \in Tasks : tasks[t].step \in LockedSteps => tasks[t].locked
    /\ \A t, u \in Tasks : tasks[t].locked /\ tasks[u].locked /\ tasks[t].want = tasks[u].want => t = u

\* The library does not share files, and a file that is written is only the
\* library's file of the writer's hash.
Apart ==
    /\ \A g, h \in Hashes : library[g] = library[h] /\ library[g] # 0 => g = h
    /\ \A t \in Tasks, h \in Hashes :
           Writes(tasks[t]) /\ library[h] = tasks[t].file => tasks[t].want = h
    /\ \A t \in Tasks : tasks[t].step \in OpenSteps => library[tasks[t].want] = tasks[t].file

OneWriter ==
    \A t, u \in Tasks :
        Writes(tasks[t]) /\ Writes(tasks[u]) /\ tasks[t].file = tasks[u].file => t = u

\* Who is about to create the file has found it wrong, and nobody writes it.
Missing ==
    \A t \in Tasks : tasks[t].step = "request" =>
        LET f == library[tasks[t].want] IN
        f # 0 => data[f] # WholeFile /\ \A u \in Tasks : Writes(tasks[u]) => tasks[u].file # f

\* The chunks that a writer has on disk.
OnDisk(r) ==
    IF r.step = "remove" THEN 0 ELSE IF r.flight # "none" \/ r.broken THEN r.count - 1 ELSE r.count

Contents ==
    \A t \in Tasks : Writes(tasks[t]) =>
        LET d == data[tasks[t].file] IN
        /\ Len(d) = OnDisk(tasks[t])
        /\ tasks[t].pure => \A i \in 1..Len(d) : d[i] = "good"

\* A whole file, with nobody at it but perhaps a dropped download's last write,
\* or a file whose last chunk is on its way.
Good(f) ==
    \/ /\ data[f] = WholeFile
       /\ \A u \in Tasks : Writes(tasks[u]) /\ tasks[u].file = f => tasks[u].step = "dropped"
    \/ \E u \in Tasks : tasks[u].file = f /\ Lands(tasks[u])

InstalledIsGood ==
    \A t \in Tasks : tasks[t].step \in InstalledSteps /\ tasks[t].kind # "override" =>
        library[tasks[t].want] # 0 /\ Good(library[tasks[t].want])

LinkedIsGood == \A t \in Tasks : link[t] # 0 => Good(link[t])

Care == /\ Locking /\ Apart /\ OneWriter /\ Missing /\ Contents
        /\ InstalledIsGood /\ LinkedIsGood

IInv == Shape /\ (Sound => Care) /\ UpdateKeepsAVersion

-----------------------------------------------------------------------------
(* Records of tasks.                                                        *)

LEMMA IdleFacts ==
    Idle \in TaskRecords /\ WellFormed(Idle) /\ ~Idle.kept /\ ~Writes(Idle) /\ ~Lands(Idle)
    /\ ~Idle.locked /\ Idle.step = "off" /\ Idle.kept = FALSE /\ Idle.flight = "none"
  BY DEF Idle, TaskRecords, WellFormed, Writes, Lands, Steps, DownloadSteps, WriteSteps,
         InstalledSteps, LockedSteps, LateSteps, OpenSteps

LEMMA NewFacts ==
    ASSUME NEW kind \in {"download", "copy", "override"}, NEW h \in Hashes,
           NEW step \in {"lock", "compare", "waiting"},
           step = IF kind = "download" THEN "lock" ELSE IF kind = "copy" THEN "compare" ELSE "waiting"
    PROVE  /\ New(kind, step, h) \in TaskRecords /\ WellFormed(New(kind, step, h))
           /\ New(kind, step, h).kept /\ New(kind, step, h).kind = kind
           /\ New(kind, step, h).want = h /\ New(kind, step, h).step = step
           /\ ~New(kind, step, h).locked /\ ~Writes(New(kind, step, h))
  BY DEF New, Idle, TaskRecords, WellFormed, Writes, Lands, Steps, DownloadSteps, WriteSteps,
         InstalledSteps, LockedSteps, LateSteps, OpenSteps

\* What is left of a task that is dropped: it may go on writing what it wrote.
LEMMA LeftoverFacts ==
    ASSUME NEW r \in TaskRecords, WellFormed(r), r.kept
    PROVE  /\ Leftover(r) \in TaskRecords /\ WellFormed(Leftover(r))
           /\ ~Leftover(r).kept
           /\ Leftover(r).step \in {"off", "dropped", "over"} \cup WriteSteps
           /\ Leftover(r).locked => r.locked
           /\ Writes(Leftover(r)) => /\ Writes(r) /\ Leftover(r).file = r.file
                                     /\ Leftover(r).want = r.want
                                     /\ OnDisk(Leftover(r)) = OnDisk(r)
                                     /\ Leftover(r).pure = r.pure
           /\ Leftover(r).step \in OpenSteps => r.step = Leftover(r).step
           /\ Lands(r) => Lands(Leftover(r)) /\ Leftover(r).file = r.file
  <1> USE DEF TaskRecords, Steps, DownloadSteps, WriteSteps, InstalledSteps, LockedSteps, LateSteps,
              OpenSteps
  <1>1. CASE r.step \in {"compare", "overwrite", "write"}
    <2>1. Leftover(r) = [r EXCEPT !.kept = FALSE]
      BY <1>1 DEF Leftover
    <2> QED
      BY <1>1, <2>1 DEF WellFormed, Writes, Lands, OnDisk
  <1>2. CASE r.step \notin {"compare", "overwrite", "write"} /\ r.flight = "none"
    <2>1. Leftover(r) = Idle
      BY <1>2 DEF Leftover
    <2> QED
      BY <1>2, <2>1, IdleFacts DEF Lands
  <1>3. CASE r.step \notin {"compare", "overwrite", "write"} /\ r.flight # "none"
    <2> DEFINE s == IF r.step \in InstalledSteps THEN "over" ELSE "dropped"
    <2>1. Leftover(r) = [r EXCEPT !.step = s, !.locked = FALSE, !.kept = FALSE]
      BY <1>3 DEF Leftover
    <2>2. r.step \in {"stream", "discard"} \cup InstalledSteps
      BY <1>3 DEF WellFormed
    <2> DEFINE n == [r EXCEPT !.step = s, !.locked = FALSE, !.kept = FALSE]
    <2>3. /\ n \in TaskRecords /\ n.step = s /\ ~n.locked /\ ~n.kept
          /\ n.kind = r.kind /\ n.want = r.want /\ n.file = r.file /\ n.count = r.count
          /\ n.pure = r.pure /\ n.flight = r.flight /\ n.broken = r.broken
      <3> s \in Steps
        OBVIOUS
      <3> HIDE DEF s, Steps, DownloadSteps, WriteSteps, InstalledSteps, LockedSteps, LateSteps, OpenSteps
      <3>1. n \in TaskRecords
        BY DEF TaskRecords
      <3>2. n.step = s /\ ~n.locked /\ ~n.kept /\ n.kind = r.kind /\ n.want = r.want /\ n.file = r.file
        BY DEF TaskRecords
      <3>3. n.count = r.count /\ n.pure = r.pure /\ n.flight = r.flight /\ n.broken = r.broken
        BY DEF TaskRecords
      <3> QED
        BY <3>1, <3>2, <3>3
    <2>4. /\ s \in {"over", "dropped"}
          /\ s = "over" <=> r.step \in InstalledSteps
      OBVIOUS
    <2> HIDE DEF n, s
    <2>5. WellFormed(n)
      BY <1>3, <2>2, <2>3, <2>4 DEF WellFormed, Writes, Lands
    <2>6. Writes(r) /\ Writes(n) /\ OnDisk(n) = OnDisk(r) /\ (Lands(r) => Lands(n))
      BY <1>3, <2>2, <2>3, <2>4 DEF Writes, Lands, OnDisk
    <2> QED
      BY <2>1, <2>3, <2>4, <2>5, <2>6 DEF n
  <1> QED
    BY <1>1, <1>2, <1>3

-----------------------------------------------------------------------------
(* Tasks and the phases of requests.                                        *)

TasksOK ==
    /\ tasks \in [Tasks -> TaskRecords]
    /\ \A t \in Tasks : WellFormed(tasks[t])
    /\ \A l \in Launchers : InPhase(l)
    /\ phase \in [Launchers -> Phases]
    /\ launch \in [Launchers -> BOOLEAN]
    /\ needs \in [Launchers -> SUBSET Hashes]
    /\ error \in [Launchers -> BOOLEAN]

LEMMA ShapeHasTasks == Shape => TasksOK
  BY DEF Shape, TypeOK, TasksOK

LEMMA OwnerType == \A t \in Tasks : Owner[t] \in Launchers
  BY ContentLibraryAssumption

\* One task goes on.
Moves(t, new) ==
    /\ Becomes(t, new)
    /\ new \in TaskRecords /\ WellFormed(new)
    /\ new.kept = tasks[t].kept
    /\ tasks[t].step # "waiting"
    /\ new.kept => new.kind = tasks[t].kind /\ new.want = tasks[t].want
    /\ tasks[t].step \in InstalledSteps => new.step \in InstalledSteps
    /\ tasks[t].step = "installed" => new.step = "installed" \/ phase[Owner[t]] = "linking"
    /\ new.step \in {"unlinked", "linked"} => phase[Owner[t]] = "linking"
    /\ UNCHANGED requestVars

LEMMA MoveKeepsTasks ==
    ASSUME TasksOK, NEW t \in Tasks, NEW new, Moves(t, new)
    PROVE  TasksOK'
  <1>1. /\ \A u \in Tasks : tasks'[u] = IF u = t THEN new ELSE tasks[u]
        /\ tasks' \in [Tasks -> TaskRecords]
        /\ UNCHANGED <<phase, launch, needs, error>>
    BY DEF TasksOK, Moves, Becomes, requestVars
  <1>2. \A u \in Tasks : WellFormed(tasks'[u])
    BY <1>1 DEF TasksOK, Moves
  <1>3. ASSUME NEW l \in Launchers PROVE InPhase(l)'
    <2>1. InPhase(l)
      BY DEF TasksOK
    <2>2. Current(l)' = Current(l)
      BY <1>1 DEF Current, Mine, Moves
    <2>3. \A u \in Current(l) : /\ u \in Tasks /\ Owner[u] = l /\ tasks[u].kept
                                /\ tasks'[u].kind = tasks[u].kind /\ tasks'[u].want = tasks[u].want
      BY <1>1 DEF Current, Mine, Moves
    <2>4. \A u \in Current(l) : /\ tasks[u].step \in InstalledSteps => tasks'[u].step \in InstalledSteps
                                /\ tasks[u].step = "installed" /\ phase[l] # "linking" =>
                                       tasks'[u].step = "installed"
      BY <1>1, <2>3 DEF Moves
    <2>5. \A u \in Mine(l) : tasks'[u].step \in {"unlinked", "linked"} => phase[l] = "linking"
      BY <1>1, <2>1 DEF Moves, InPhase, Mine
    <2>6. launch[l] /\ ~error[l] =>
             \A h \in needs[l] : \E u \in Current(l) :
                 /\ tasks'[u].kind = "download" /\ tasks'[u].want = h
                 /\ phase[l] \in {"overriding", "launched"} => tasks'[u].step = "installed"
      BY <2>1, <2>3, <2>4 DEF InPhase
    <2>7. Mine(l)' = Mine(l)
      BY DEF Mine
    <2>8. \A u \in Current(l) : tasks[u].step = "waiting" => tasks'[u] = tasks[u]
      BY <1>1, <2>3 DEF Moves
    <2> QED
      BY <1>1, <2>1, <2>2, <2>3, <2>4, <2>5, <2>6, <2>7, <2>8 DEF InPhase
  <1> QED
    BY <1>1, <1>2, <1>3 DEF TasksOK

\* The tasks of S leave, the request of l ends with them or, in a launch, goes
\* on with an error.
Leaves(l, S) ==
    /\ S \subseteq Mine(l)
    /\ \A u \in Tasks : IF u \in S THEN tasks'[u] = Idle \/ (tasks[u].kept /\ tasks'[u] = Leftover(tasks[u]))
                        ELSE tasks'[u] = tasks[u]
    /\ \/ Ends(l) /\ Current(l) \subseteq S
       \/ /\ launch[l] /\ phase[l] \in {"installing", "overriding"}
          /\ error' = [error EXCEPT ![l] = TRUE] /\ UNCHANGED <<phase, launch, needs>>

LEMMA LeavingKeepsTasks ==
    ASSUME TasksOK, NEW l \in Launchers, NEW S, Leaves(l, S), tasks' \in [Tasks -> TaskRecords]
    PROVE  TasksOK'
  <1>1. \A u \in S : ~tasks'[u].kept /\ WellFormed(tasks'[u]) /\ tasks'[u].step \notin InstalledSteps
    BY IdleFacts, LeftoverFacts DEF TasksOK, Leaves, Mine, InstalledSteps, WriteSteps
  <1>2. \A u \in Tasks : u \notin S => tasks'[u] = tasks[u]
    BY DEF Leaves
  <1>3. \A u \in Tasks : WellFormed(tasks'[u])
    BY <1>1, <1>2 DEF TasksOK
  <1>4. /\ phase' \in [Launchers -> Phases] /\ launch' \in [Launchers -> BOOLEAN]
        /\ needs' \in [Launchers -> SUBSET Hashes] /\ error' \in [Launchers -> BOOLEAN]
    BY DEF TasksOK, Leaves, Ends, Enters, Phases
  <1>5. ASSUME NEW k \in Launchers, k # l PROVE InPhase(k)'
    <2>1. phase'[k] = phase[k] /\ launch'[k] = launch[k] /\ needs'[k] = needs[k] /\ error'[k] = error[k]
      BY <1>5 DEF TasksOK, Leaves, Ends, Enters
    <2>2. Mine(k)' = Mine(k) /\ Current(k)' = Current(k) /\ \A u \in Mine(k) : tasks'[u] = tasks[u]
      BY <1>2, <1>5 DEF Leaves, Mine, Current
    <2>3. Current(k) \subseteq Mine(k) /\ InPhase(k)
      BY DEF Current, TasksOK
    <2> QED
      BY <2>1, <2>2, <2>3 DEF InPhase
  <1>6. InPhase(l)'
    <2>1. /\ Mine(l)' = Mine(l) /\ Current(l)' \subseteq Current(l) \ S
          /\ \A u \in Mine(l) : u \notin S => tasks'[u] = tasks[u]
          /\ Mine(l) \subseteq Tasks
      BY <1>1, <1>2 DEF Mine, Current
    <2>2. InPhase(l) /\ Current(l) \subseteq Mine(l)
      BY DEF TasksOK, Current
    <2>3. \A u \in Mine(l) : tasks'[u].step \in {"unlinked", "linked"} =>
              u \notin S /\ u \in Current(l)' /\ phase[l] = "linking"
      BY <1>1, <1>3, <2>1, <2>2 DEF InPhase, WellFormed, InstalledSteps, Current, Mine
    <2>4. CASE Ends(l) /\ Current(l) \subseteq S
      <3>1. phase'[l] = "idle" /\ launch'[l] = FALSE /\ error'[l] = FALSE /\ Current(l)' = {}
        BY <2>1, <2>4 DEF TasksOK, Ends, Enters
      <3> QED
        BY <2>3, <3>1 DEF InPhase
    <2>5. CASE /\ launch[l] /\ phase[l] \in {"installing", "overriding"}
               /\ error' = [error EXCEPT ![l] = TRUE] /\ UNCHANGED <<phase, launch, needs>>
      <3>1. error'[l] = TRUE /\ phase'[l] = phase[l] /\ launch'[l]
        BY <2>5 DEF TasksOK
      <3>2. \A u \in Current(l)' : u \in Current(l) /\ tasks'[u] = tasks[u]
        BY <2>1, <2>2
      <3>3. phase[l] = "installing" =>
               \A u \in Current(l)' : tasks'[u].kind = "override" => tasks'[u].step = "waiting"
        BY <2>2, <3>2 DEF InPhase
      <3>4. \A u \in Mine(l)' : tasks'[u].step \in {"unlinked", "linked"} => phase[l] = "linking"
        BY <2>1, <2>3
      <3> QED
        BY <2>5, <3>1, <3>3, <3>4 DEF InPhase
    <2> QED
      BY <2>4, <2>5 DEF Leaves
  <1> QED
    BY <1>3, <1>4, <1>5, <1>6 DEF TasksOK

\* A request does not notice what happens to the others.
LEMMA OtherRequest ==
    ASSUME NEW k \in Launchers, InPhase(k), \A u \in Mine(k) : tasks'[u] = tasks[u],
           phase'[k] = phase[k], launch'[k] = launch[k], needs'[k] = needs[k], error'[k] = error[k]
    PROVE  InPhase(k)'
  <1>1. Mine(k)' = Mine(k) /\ Current(k)' = Current(k) /\ Current(k) \subseteq Mine(k)
    BY DEF Mine, Current
  <1>2. \A u \in Current(k) : tasks'[u] = tasks[u]
    BY <1>1
  <1>3. launch[k] /\ ~error[k] =>
           \A h \in needs[k] : \E t \in Current(k) :
               /\ tasks'[t].kind = "download" /\ tasks'[t].want = h
               /\ phase[k] \in {"overriding", "launched"} => tasks'[t].step = "installed"
    BY <1>2 DEF InPhase
  <1> QED
    BY <1>1, <1>2, <1>3 DEF InPhase

\* Free tasks become the tasks of a new request.
LEMMA StartInstallKeepsTasks ==
    ASSUME TasksOK, NEW l \in Launchers, StartInstall(l)
    PROVE  TasksOK'
  <1>1. PICK S \in SUBSET Free(l) \ {{}}, kind \in Kinds \ {"launch"} : \E want \in [S -> Hashes] :
            tasks' = [t \in Tasks |->
                        IF t \notin S THEN tasks[t]
                        ELSE New(kind, IF kind = "download" THEN "lock" ELSE "compare", want[t])]
    BY DEF StartInstall
  <1>2. PICK want \in [S -> Hashes] :
            tasks' = [t \in Tasks |->
                        IF t \notin S THEN tasks[t]
                        ELSE New(kind, IF kind = "download" THEN "lock" ELSE "compare", want[t])]
    BY <1>1
  <1>3. phase[l] = "idle" /\ phase' = [phase EXCEPT ![l] = "installing"] /\ UNCHANGED <<launch, needs, error>>
    BY DEF StartInstall
  <1>4. kind \in {"download", "copy"} /\ S \subseteq Mine(l) /\ S \subseteq Tasks
    BY ContentLibraryAssumption DEF Free, Mine
  <1>5. \A t \in S : /\ tasks'[t] \in TaskRecords /\ WellFormed(tasks'[t])
                     /\ tasks'[t].kind = kind /\ tasks'[t].step \in {"lock", "compare"}
    <2> SUFFICES ASSUME NEW t \in S
                 PROVE  /\ tasks'[t] \in TaskRecords /\ WellFormed(tasks'[t])
                        /\ tasks'[t].kind = kind /\ tasks'[t].step \in {"lock", "compare"}
      OBVIOUS
    <2>1. want[t] \in Hashes /\ tasks'[t] = New(kind, IF kind = "download" THEN "lock" ELSE "compare", want[t])
      BY <1>2, <1>4
    <2>2. CASE kind = "download"
      BY <2>1, <2>2, NewFacts
    <2>3. CASE kind = "copy"
      BY <2>1, <2>3, NewFacts
    <2> QED
      BY <1>4, <2>2, <2>3
  <1>6. \A t \in Tasks : t \notin S => tasks'[t] = tasks[t]
    BY <1>2
  <1>7. tasks' \in [Tasks -> TaskRecords] /\ \A t \in Tasks : WellFormed(tasks'[t])
    <2>1. \A t \in Tasks : tasks'[t] \in TaskRecords /\ WellFormed(tasks'[t])
      BY <1>5, <1>6 DEF TasksOK
    <2>2. tasks' = [t \in Tasks |-> tasks'[t]]
      BY <1>2
    <2> QED
      BY <2>1, <2>2
  <1>8. ASSUME NEW k \in Launchers PROVE InPhase(k)'
    <2>1. InPhase(k)
      BY DEF TasksOK
    <2>2. CASE k # l
      <3>1. Mine(k)' = Mine(k) /\ Current(k)' = Current(k) /\ \A u \in Mine(k) : tasks'[u] = tasks[u]
        BY <1>4, <1>6, <2>2 DEF Mine, Current
      <3>2. phase'[k] = phase[k] /\ Current(k) \subseteq Mine(k)
        BY <1>3, <2>2 DEF TasksOK, Current
      <3> QED
        BY <1>3, <2>1, <3>1, <3>2 DEF InPhase
    <2>3. CASE k = l
      <3>1. phase'[l] = "installing" /\ ~launch'[l] /\ Current(l) = {}
        BY <1>3, <2>1, <2>3 DEF TasksOK, InPhase
      <3>2. Mine(l)' = Mine(l) /\ Current(l)' \subseteq S
        BY <1>6, <3>1 DEF Mine, Current
      <3>3. \A t \in Mine(l) : tasks'[t].step \notin {"unlinked", "linked"}
        BY <1>3, <1>5, <1>6, <2>1, <2>3 DEF InPhase, Mine
      <3> QED
        BY <1>4, <1>5, <2>3, <3>1, <3>2, <3>3 DEF InPhase
    <2> QED
      BY <2>2, <2>3
  <1> QED
    BY <1>3, <1>7, <1>8 DEF TasksOK, Phases

LEMMA StartLaunchKeepsTasks ==
    ASSUME TasksOK, NEW l \in Launchers, StartLaunch(l)
    PROVE  TasksOK'
  <1>1. PICK S \in SUBSET Free(l) \ {{}} : \E downloads \in SUBSET S, want \in [S -> Hashes] :
            /\ tasks' = [t \in Tasks |->
                           IF t \notin S THEN tasks[t]
                           ELSE IF t \in downloads THEN New("download", "lock", want[t])
                           ELSE New("override", "waiting", want[t])]
            /\ needs' = [needs EXCEPT ![l] = {want[t] : t \in downloads}]
    BY DEF StartLaunch
  <1>2. PICK downloads \in SUBSET S, want \in [S -> Hashes] :
            /\ tasks' = [t \in Tasks |->
                           IF t \notin S THEN tasks[t]
                           ELSE IF t \in downloads THEN New("download", "lock", want[t])
                           ELSE New("override", "waiting", want[t])]
            /\ needs' = [needs EXCEPT ![l] = {want[t] : t \in downloads}]
    BY <1>1
  <1>3. /\ phase[l] = "idle" /\ phase' = [phase EXCEPT ![l] = "installing"]
        /\ launch' = [launch EXCEPT ![l] = TRUE] /\ UNCHANGED error
    BY DEF StartLaunch
  <1>4. S \subseteq Mine(l) /\ S \subseteq Tasks /\ downloads \subseteq S
    BY DEF Free, Mine
  <1>5. \A t \in S : /\ tasks'[t] \in TaskRecords /\ WellFormed(tasks'[t])
                     /\ tasks'[t].want = want[t] /\ tasks'[t].kept
                     /\ tasks'[t].step \in {"lock", "waiting"}
                     /\ t \in downloads => tasks'[t].kind = "download"
                     /\ t \notin downloads => tasks'[t].step = "waiting"
    <2> SUFFICES ASSUME NEW t \in S
                 PROVE  /\ tasks'[t] \in TaskRecords /\ WellFormed(tasks'[t])
                        /\ tasks'[t].want = want[t] /\ tasks'[t].kept
                        /\ tasks'[t].step \in {"lock", "waiting"}
                        /\ t \in downloads => tasks'[t].kind = "download"
                        /\ t \notin downloads => tasks'[t].step = "waiting"
      OBVIOUS
    <2>1. want[t] \in Hashes /\ t \in Tasks
      BY <1>4
    <2>2. CASE t \in downloads
      <3>1. tasks'[t] = New("download", "lock", want[t])
        BY <1>2, <2>1, <2>2
      <3> QED
        BY <2>1, <2>2, <3>1, NewFacts
    <2>3. CASE t \notin downloads
      <3>1. tasks'[t] = New("override", "waiting", want[t])
        BY <1>2, <2>1, <2>3
      <3> QED
        BY <2>1, <2>3, <3>1, NewFacts
    <2> QED
      BY <2>2, <2>3
  <1>6. \A t \in Tasks : t \notin S => tasks'[t] = tasks[t]
    BY <1>2
  <1>7. tasks' \in [Tasks -> TaskRecords] /\ \A t \in Tasks : WellFormed(tasks'[t])
    <2>1. \A t \in Tasks : tasks'[t] \in TaskRecords /\ WellFormed(tasks'[t])
      BY <1>5, <1>6 DEF TasksOK
    <2>2. tasks' = [t \in Tasks |-> tasks'[t]]
      BY <1>2
    <2> QED
      BY <2>1, <2>2
  <1>8. ASSUME NEW k \in Launchers PROVE InPhase(k)'
    <2>1. InPhase(k)
      BY DEF TasksOK
    <2>2. CASE k # l
      <3>1. Mine(k)' = Mine(k) /\ Current(k)' = Current(k) /\ \A u \in Mine(k) : tasks'[u] = tasks[u]
        BY <1>4, <1>6, <2>2 DEF Mine, Current
      <3>2. /\ phase'[k] = phase[k] /\ launch'[k] = launch[k] /\ needs'[k] = needs[k]
            /\ Current(k) \subseteq Mine(k)
        BY <1>2, <1>3, <2>2 DEF TasksOK, Current
      <3> QED
        BY <1>3, <2>1, <3>1, <3>2, OtherRequest
    <2>3. CASE k = l
      <3>1. /\ phase'[l] = "installing" /\ launch'[l] /\ needs'[l] = {want[t] : t \in downloads}
            /\ Current(l) = {}
        BY <1>2, <1>3, <2>1, <2>3 DEF TasksOK, InPhase
      <3>2. Mine(l)' = Mine(l) /\ S = Current(l)'
        BY <1>4, <1>5, <1>6, <3>1 DEF Mine, Current
      <3>3. \A t \in Mine(l) : tasks'[t].step \notin {"unlinked", "linked"}
        BY <1>3, <1>5, <1>6, <2>1, <2>3 DEF InPhase, Mine
      <3>4. \A h \in needs'[l] : \E t \in Current(l)' : tasks'[t].kind = "download" /\ tasks'[t].want = h
        BY <1>4, <1>5, <3>1, <3>2
      <3>5. \A t \in Current(l)' : tasks'[t].kind = "override" => tasks'[t].step = "waiting"
        BY <1>5, <3>2
      <3>6. InPhase(l)'
        BY <3>1, <3>2, <3>3, <3>4, <3>5 DEF InPhase
      <3> QED
        BY <2>3, <3>6
    <2> QED
      BY <2>2, <2>3
  <1>9. needs' \in [Launchers -> SUBSET Hashes]
    BY <1>2, <1>4 DEF TasksOK
  <1> QED
    BY <1>3, <1>7, <1>8, <1>9 DEF TasksOK, Phases

\* The phase of a request goes on.
LEMMA PhaseKeepsTasks ==
    ASSUME TasksOK, NEW l \in Launchers,
           \/ BeginLinking(l) /\ Enters(l, "linking") /\ UNCHANGED <<tasks, launch, needs, error>>
           \/ StartGame(l) /\ ~error[l]
           \/ PlaceOverrides(l)
    PROVE  TasksOK'
  <1>1. /\ UNCHANGED <<launch, needs, error>>
        /\ phase' \in [Launchers -> Phases]
        /\ \A k \in Launchers : k # l => phase'[k] = phase[k]
    BY DEF TasksOK, BeginLinking, StartGame, PlaceOverrides, Enters, Phases
  <1>2. InPhase(l) /\ Current(l) \subseteq Mine(l) /\ Mine(l)' = Mine(l) /\ Mine(l) \subseteq Tasks
    BY DEF TasksOK, Current, Mine
  <1>3. ASSUME \A u \in Tasks : u \notin Mine(l) => tasks'[u] = tasks[u], NEW k \in Launchers, k # l
        PROVE  InPhase(k)'
    <2>1. \A u \in Mine(k) : tasks'[u] = tasks[u]
      BY <1>3 DEF Mine
    <2> QED
      BY <1>1, <1>3, <2>1, OtherRequest DEF TasksOK
  <1>4. CASE /\ BeginLinking(l) /\ Enters(l, "linking") /\ UNCHANGED <<tasks, launch, needs, error>>
    <2>1. phase'[l] = "linking" /\ phase[l] = "installing" /\ ~launch[l] /\ AreInstalled(Current(l))
      BY <1>4 DEF BeginLinking, Enters, TasksOK
    <2>2. Current(l)' = Current(l)
      BY <1>4 DEF Current, Mine
    <2>3. InPhase(l)'
      BY <1>2, <1>4, <2>1, <2>2 DEF InPhase, AreInstalled, InstalledSteps
    <2> QED
      BY <1>1, <1>3, <1>4, <2>3 DEF TasksOK
  <1>5. CASE StartGame(l) /\ ~error[l]
    <2>1. /\ phase'[l] = "launched" /\ phase[l] = "overriding" /\ AreInstalled(Current(l))
          /\ UNCHANGED tasks
      BY <1>5 DEF StartGame, Enters, TasksOK
    <2>2. Current(l)' = Current(l)
      BY <2>1 DEF Current, Mine
    <2>3. InPhase(l)'
      BY <1>1, <1>2, <1>5, <2>1, <2>2 DEF InPhase, AreInstalled
    <2> QED
      BY <1>1, <1>3, <2>1, <2>3 DEF TasksOK
  <1>6. CASE PlaceOverrides(l)
    <2>1. /\ tasks' = [t \in Tasks |-> IF t \in Current(l) \ Downloads(l)
                                       THEN [tasks[t] EXCEPT !.step = "exists"] ELSE tasks[t]]
          /\ phase'[l] = "overriding" /\ phase[l] = "installing" /\ launch[l] /\ AreInstalled(Downloads(l))
      BY <1>6 DEF PlaceOverrides, Enters, TasksOK
    <2>2. \A t \in Current(l) \ Downloads(l) :
             /\ t \in Mine(l) /\ t \in Tasks /\ tasks[t] \in TaskRecords /\ WellFormed(tasks[t])
             /\ tasks[t].kind = "override" /\ tasks[t].step = "waiting" /\ tasks[t].kept
      BY <1>2, <2>1 DEF Downloads, Current, Mine, InPhase, TasksOK
    <2>3. ASSUME NEW r \in TaskRecords, WellFormed(r), r.kind = "override", r.step = "waiting"
          PROVE  LET n == [r EXCEPT !.step = "exists"] IN
                 /\ n \in TaskRecords /\ WellFormed(n) /\ n.kept = r.kept
                 /\ n.kind = "override" /\ n.want = r.want /\ n.step = "exists"
      BY <2>3 DEF TaskRecords, WellFormed, Writes, Lands, Steps, DownloadSteps, WriteSteps,
         InstalledSteps, LockedSteps, LateSteps, OpenSteps
    <2>4. \A t \in Current(l) \ Downloads(l) :
             /\ tasks'[t] \in TaskRecords /\ WellFormed(tasks'[t]) /\ tasks'[t].kept
             /\ tasks'[t].kind = "override" /\ tasks'[t].step = "exists"
      BY <2>1, <2>2, <2>3
    <2>5. \A t \in Tasks : t \notin Current(l) \ Downloads(l) => tasks'[t] = tasks[t]
      BY <2>1
    <2>6. tasks' \in [Tasks -> TaskRecords] /\ \A t \in Tasks : WellFormed(tasks'[t])
      <3>1. \A t \in Tasks : tasks'[t] \in TaskRecords /\ WellFormed(tasks'[t])
        BY <2>4, <2>5 DEF TasksOK
      <3>2. tasks' = [t \in Tasks |-> tasks'[t]]
        BY <2>1
      <3> QED
        BY <3>1, <3>2
    <2>7. Current(l)' = Current(l)
      BY <2>2, <2>4, <2>5 DEF Current, Mine
    <2>8. \A t \in Mine(l) : tasks'[t].step \notin {"unlinked", "linked"}
      BY <1>2, <2>1, <2>4, <2>5 DEF InPhase
    <2>9. launch[l] /\ ~error[l] =>
             \A h \in needs[l] : \E t \in Current(l) :
                 tasks'[t].kind = "download" /\ tasks'[t].want = h /\ tasks'[t].step = "installed"
      <3>1. ASSUME NEW t \in Current(l), tasks[t].kind = "download"
            PROVE  tasks'[t] = tasks[t] /\ tasks[t].step = "installed"
        BY <1>2, <2>1, <2>5, <3>1 DEF Downloads, AreInstalled
      <3> QED
        BY <1>2, <3>1 DEF InPhase
    <2>10. InPhase(l)'
      <3>1. phase'[l] = "overriding" /\ launch'[l] /\ launch[l] /\ error'[l] = error[l] /\ needs'[l] = needs[l]
        BY <1>1, <2>1
      <3> QED
        BY <1>2, <2>7, <2>8, <2>9, <3>1 DEF InPhase
    <2>11. \A u \in Tasks : u \notin Mine(l) => tasks'[u] = tasks[u]
      BY <1>2, <2>5
    <2> QED
      BY <1>1, <1>3, <2>6, <2>10, <2>11 DEF TasksOK
  <1> QED
    BY <1>4, <1>5, <1>6

-----------------------------------------------------------------------------
(* What the actions of a task make of its record.                           *)

Same(n, r) == n.kept = r.kept /\ n.kind = r.kind /\ n.want = r.want

LEMMA AdvanceFacts ==
    ASSUME NEW r \in TaskRecords, WellFormed(r), NEW s,
           <<r.step, s>> \in {<<"lock", "permit">>, <<"permit", "check">>, <<"check", "request">>,
                              <<"filelock", "stream">>, <<"stream", "discard">>, <<"discard", "remove">>,
                              <<"compare", "overwrite">>, <<"exists", "overwrite">>,
                              <<"installed", "unlinked">>, <<"unlinked", "linked">>},
           r.step = "discard" => r.flight = "none",
           NEW n, n = [r EXCEPT !.step = s]
    PROVE  /\ n \in TaskRecords /\ WellFormed(n) /\ Same(n, r) /\ n.step = s
           /\ n.locked = r.locked /\ n.file = r.file /\ n.count = r.count /\ n.pure = r.pure
           /\ n.flight = r.flight /\ n.broken = r.broken
  <1>1. /\ s \in {"permit", "check", "request", "stream", "discard", "remove", "overwrite", "unlinked", "linked"}
        /\ s \in Steps
    BY DEF Steps, DownloadSteps, WriteSteps, InstalledSteps
  <1>2. /\ n \in TaskRecords /\ n.step = s /\ n.kind = r.kind /\ n.want = r.want
        /\ n.locked = r.locked /\ n.file = r.file /\ n.count = r.count /\ n.pure = r.pure
        /\ n.flight = r.flight /\ n.broken = r.broken /\ n.kept = r.kept
    BY <1>1 DEF TaskRecords
  <1>3. WellFormed(n)
    BY <1>2 DEF WellFormed, Writes, Lands, DownloadSteps, WriteSteps,
                InstalledSteps, LockedSteps, LateSteps, OpenSteps
  <1> QED
    BY <1>2, <1>3 DEF Same

LEMMA LockedFacts ==
    ASSUME NEW r \in TaskRecords, WellFormed(r), r.step = "lock",
           NEW n, n = [r EXCEPT !.step = "permit", !.locked = TRUE]
    PROVE  /\ n \in TaskRecords /\ WellFormed(n) /\ Same(n, r) /\ n.step = "permit" /\ n.locked
           /\ ~Writes(n) /\ ~Writes(r)
  BY DEF TaskRecords, Same, WellFormed, Writes, Lands, Steps, DownloadSteps, WriteSteps,
         InstalledSteps, LockedSteps, LateSteps, OpenSteps

LEMMA InstalledFacts ==
    ASSUME NEW r \in TaskRecords, WellFormed(r),
           r.kept, r.step \in {"check", "compare", "exists", "overwrite", "write"} \/ (r.step = "stream" /\ r.pure /\ r.count = Size)
    PROVE  LET n == Installed(r) IN
           /\ n \in TaskRecords /\ WellFormed(n) /\ Same(n, r) /\ n.step = "installed" /\ ~n.locked
           /\ n.file = r.file /\ n.count = r.count /\ n.pure = r.pure
           /\ n.flight = r.flight /\ n.broken = r.broken
  <1> DEFINE n == Installed(r)
  <1>1. /\ n \in TaskRecords /\ n.step = "installed" /\ n.kind = r.kind /\ n.want = r.want
        /\ ~n.locked /\ n.file = r.file /\ n.count = r.count /\ n.pure = r.pure
        /\ n.flight = r.flight /\ n.broken = r.broken /\ n.kept = r.kept
    BY DEF Installed, TaskRecords, Steps, DownloadSteps, WriteSteps, InstalledSteps
  <1>2. WellFormed(n)
    BY <1>1 DEF WellFormed, Writes, Lands, DownloadSteps, WriteSteps,
                InstalledSteps, LockedSteps, LateSteps, OpenSteps
  <1> QED
    BY <1>1, <1>2 DEF Same

\* The records of a task that creates its file, and of one that receives a chunk.
Opened(r, s, f) == [r EXCEPT !.step = s, !.file = f]
Received(r, chunk, p) == [r EXCEPT !.count = @ + 1, !.flight = chunk, !.pure = p]

LEMMA CreatedFacts ==
    ASSUME NEW r \in TaskRecords, WellFormed(r), NEW s,
           <<r.step, s>> \in {<<"request", "filelock">>, <<"overwrite", "write">>},
           NEW f \in Files
    PROVE  LET n == Opened(r, s, f) IN
           /\ n \in TaskRecords /\ WellFormed(n) /\ Same(n, r) /\ n.step = s
           /\ n.file = f /\ n.locked = r.locked
           /\ n.count = 0 /\ n.pure /\ n.flight = "none" /\ ~n.broken
  <1> DEFINE n == Opened(r, s, f)
  <1>1. f # 0 /\ Size \in Nat \ {0}
    BY ContentLibraryAssumption
  <1>2. /\ n \in TaskRecords /\ n.step = s /\ n.kind = r.kind /\ n.want = r.want
        /\ n.locked = r.locked /\ n.file = f /\ n.count = r.count /\ n.pure = r.pure
        /\ n.flight = r.flight /\ n.broken = r.broken /\ n.kept = r.kept
    BY DEF Opened, TaskRecords, Steps, DownloadSteps, WriteSteps, InstalledSteps
  <1> HIDE DEF n
  <1>3. n.count = 0 /\ n.pure /\ n.flight = "none" /\ ~n.broken
    BY <1>2 DEF WellFormed, DownloadSteps, WriteSteps
  <1>4. WellFormed(n)
    BY <1>1, <1>2, <1>3 DEF WellFormed, Writes, Lands, DownloadSteps, WriteSteps,
                InstalledSteps, LockedSteps, LateSteps, OpenSteps
  <1> QED
    BY <1>2, <1>3, <1>4 DEF Same, n

LEMMA ReceivedFacts ==
    ASSUME NEW r \in TaskRecords, WellFormed(r), r.step = "stream", r.flight = "none", ~r.broken,
           NEW chunk \in {"good", "bad"}, NEW p \in BOOLEAN, p => r.pure /\ chunk = "good"
    PROVE  LET n == Received(r, chunk, p) IN
           /\ n \in TaskRecords /\ WellFormed(n) /\ Same(n, r) /\ n.step = "stream"
           /\ n.locked = r.locked /\ n.file = r.file /\ n.count = r.count + 1
           /\ n.flight = chunk /\ ~n.broken /\ (n.pure => r.pure)
  <1> DEFINE n == Received(r, chunk, p)
  <1>1. /\ n \in TaskRecords /\ n.step = "stream" /\ n.kind = r.kind /\ n.want = r.want
        /\ n.locked = r.locked /\ n.file = r.file /\ n.count = r.count + 1 /\ n.pure = p
        /\ n.flight = chunk /\ n.broken = r.broken /\ n.kept = r.kept /\ r.count \in Nat
    <2>1. r.count \in Nat /\ r.count + 1 \in Nat /\ chunk \in {"none", "good", "bad"}
      BY DEF Received, TaskRecords
    <2>2. n \in TaskRecords
      BY <2>1 DEF Received, TaskRecords
    <2>3. /\ n.step = "stream" /\ n.kind = r.kind /\ n.want = r.want
          /\ n.locked = r.locked /\ n.file = r.file /\ n.count = r.count + 1
          /\ n.flight = chunk /\ n.broken = r.broken /\ n.kept = r.kept
      BY DEF Received, TaskRecords
    <2>4. n.pure = p
      BY DEF Received, TaskRecords
    <2> QED
      BY <2>1, <2>2, <2>3, <2>4
  <1> HIDE DEF n
  <1>2. (n.flight = "bad" => ~n.pure) /\ (n.pure => r.pure)
    BY <1>1
  <1>3. n.count # 0 /\ n.flight # "none"
    BY <1>1
  <1>4. WellFormed(n)
    BY <1>1, <1>2, <1>3 DEF WellFormed, Writes, Lands, DownloadSteps, WriteSteps,
                InstalledSteps, LockedSteps, LateSteps, OpenSteps
  <1> QED
    BY <1>1, <1>2, <1>4 DEF Same, n

LEMMA LandedFacts ==
    ASSUME NEW r \in TaskRecords, WellFormed(r), r.flight # "none"
    PROVE  LET n == Landed(r) IN
           /\ n \in TaskRecords /\ WellFormed(n) /\ n.kept = r.kept /\ n.flight = "none"
           /\ IF r.step \in {"over", "dropped"} THEN n = Idle /\ ~r.kept
              ELSE /\ Same(n, r) /\ n.step = r.step /\ n.locked = r.locked /\ n.file = r.file
                   /\ n.count = r.count /\ n.pure = r.pure /\ n.broken = r.broken
  <1>1. CASE r.step \in {"over", "dropped"}
    <2>1. r.kept = FALSE /\ Landed(r) = Idle
      BY <1>1 DEF Landed, WellFormed, TaskRecords
    <2> QED
      BY <1>1, <2>1, IdleFacts
  <1>2. CASE r.step \notin {"over", "dropped"}
    <2> DEFINE n == Landed(r)
    <2>1. /\ n \in TaskRecords /\ n.step = r.step /\ n.kind = r.kind /\ n.want = r.want
          /\ n.locked = r.locked /\ n.file = r.file /\ n.count = r.count /\ n.pure = r.pure
          /\ n.flight = "none" /\ n.broken = r.broken /\ n.kept = r.kept
      BY <1>2 DEF Landed, TaskRecords
    <2>2. r.step \in {"stream", "discard"} \cup InstalledSteps
      BY <1>2 DEF WellFormed, LateSteps
    <2>3. WellFormed(n)
      BY <2>1, <2>2 DEF WellFormed, Writes, Lands, DownloadSteps, WriteSteps,
                InstalledSteps, LockedSteps, LateSteps, OpenSteps
    <2> QED
      BY <1>2, <2>1, <2>3 DEF Same
  <1> QED
    BY <1>1, <1>2

\* A task whose write is lost.
Lost(r) == [Landed(r) EXCEPT !.broken = r.step \notin {"over", "dropped"}]

LEMMA LostFacts ==
    ASSUME NEW r \in TaskRecords, WellFormed(r), r.flight # "none",
           NEW n, n = Lost(r)
    PROVE  /\ n \in TaskRecords /\ WellFormed(n) /\ n.kept = r.kept /\ n.flight = "none"
           /\ IF r.step \in {"over", "dropped"} THEN n = Idle /\ ~r.kept
              ELSE /\ Same(n, r) /\ n.step = r.step /\ n.locked = r.locked /\ n.file = r.file
                   /\ n.count = r.count /\ n.pure = r.pure /\ n.broken
  <1>1. CASE r.step \in {"over", "dropped"}
    <2>1. Landed(r) = Idle /\ r.kept = FALSE
      BY <1>1 DEF Landed, WellFormed, TaskRecords
    <2>2. (r.step \notin {"over", "dropped"}) = FALSE
      BY <1>1
    <2>3. n = [Idle EXCEPT !.broken = FALSE]
      BY <2>1, <2>2 DEF Lost
    <2>4. n = Idle
      BY <2>3 DEF Idle
    <2> QED
      BY <1>1, <2>1, <2>4, IdleFacts
  <1>2. CASE r.step \notin {"over", "dropped"}
    <2> DEFINE d == Landed(r)
    <2>1. /\ d \in TaskRecords /\ WellFormed(d) /\ d.flight = "none" /\ Same(d, r) /\ d.step = r.step
          /\ d.locked = r.locked /\ d.file = r.file /\ d.count = r.count /\ d.pure = r.pure
      BY <1>2, LandedFacts
    <2>2. n = [d EXCEPT !.broken = TRUE]
      BY <1>2 DEF Lost
    <2> HIDE DEF d
    <2>3. /\ n \in TaskRecords /\ n.step = d.step /\ n.kind = d.kind /\ n.want = d.want
          /\ n.locked = d.locked /\ n.file = d.file /\ n.count = d.count /\ n.pure = d.pure
          /\ n.flight = d.flight /\ n.broken /\ n.kept = d.kept
      BY <2>1, <2>2 DEF TaskRecords
    <2>4. r.count # 0 /\ r.step \in {"stream", "discard"} \cup InstalledSteps
      BY <1>2 DEF WellFormed, LateSteps
    <2>5. WellFormed(n)
      BY <2>1, <2>3, <2>4 DEF WellFormed, Writes, Lands, DownloadSteps, WriteSteps,
                InstalledSteps, LockedSteps, LateSteps, OpenSteps
    <2> QED
      BY <1>2, <2>1, <2>3, <2>5 DEF Same
  <1> QED
    BY <1>1, <1>2

LEMMA ChunkFacts ==
    ASSUME NEW r \in TaskRecords, WellFormed(r), r.step = "write", r.count + 1 # Size,
           NEW n, n = [r EXCEPT !.count = @ + 1]
    PROVE  /\ n \in TaskRecords /\ WellFormed(n) /\ Same(n, r) /\ n.step = "write"
           /\ n.locked = r.locked /\ n.file = r.file /\ n.count = r.count + 1
           /\ n.pure = r.pure /\ n.flight = r.flight /\ n.broken = r.broken
  <1>1. /\ n \in TaskRecords /\ n.step = "write" /\ n.kind = r.kind /\ n.want = r.want
        /\ n.locked = r.locked /\ n.file = r.file /\ n.count = r.count + 1 /\ n.pure = r.pure
        /\ n.flight = r.flight /\ n.broken = r.broken /\ n.kept = r.kept /\ r.count \in Nat
    BY DEF TaskRecords
  <1>2. n.count < Size
    <2>1. r.count < Size
      BY DEF WellFormed
    <2> QED
      BY <1>1, <2>1, ContentLibraryAssumption
  <1>3. WellFormed(n)
    BY <1>1, <1>2 DEF WellFormed, Writes, Lands, DownloadSteps, WriteSteps,
                InstalledSteps, LockedSteps, LateSteps, OpenSteps
  <1> QED
    BY <1>1, <1>3 DEF Same

-----------------------------------------------------------------------------
(* Every action of a task moves it or lets tasks leave.                     *)

LEMMA MovesIf ==
    ASSUME TasksOK, NEW t \in Tasks, NEW n \in TaskRecords, WellFormed(n), Same(n, tasks[t]),
           tasks' = [tasks EXCEPT ![t] = n], UNCHANGED requestVars, tasks[t].step # "waiting",
           tasks[t].step \notin InstalledSteps \/ n.step = tasks[t].step,
           n.step \in {"unlinked", "linked"} => n.step = tasks[t].step
    PROVE  Moves(t, n)
  <1>1. InPhase(Owner[t]) /\ t \in Mine(Owner[t])
    BY OwnerType DEF TasksOK, Mine
  <1>2. n.step \in {"unlinked", "linked"} => phase[Owner[t]] = "linking"
    BY <1>1 DEF InPhase
  <1>3. /\ tasks[t].step \in InstalledSteps => n.step \in InstalledSteps
        /\ tasks[t].step = "installed" => n.step = "installed"
    BY DEF InstalledSteps
  <1>4. n.kept = tasks[t].kept /\ n.kind = tasks[t].kind /\ n.want = tasks[t].want
    BY DEF Same
  <1> QED
    BY <1>2, <1>3, <1>4 DEF Moves, Becomes

LEMMA GoesMoves ==
    ASSUME TasksOK, NEW t \in Tasks, NEW s, Goes(t, s), UNCHANGED requestVars,
           <<tasks[t].step, s>> \in {<<"lock", "permit">>, <<"permit", "check">>, <<"check", "request">>,
                                     <<"filelock", "stream">>, <<"stream", "discard">>,
                                     <<"discard", "remove">>,
                                     <<"compare", "overwrite">>, <<"exists", "overwrite">>},
           tasks[t].step = "discard" => tasks[t].flight = "none"
    PROVE  \E n : Moves(t, n)
  <1> DEFINE n == [tasks[t] EXCEPT !.step = s]
  <1>1. /\ tasks[t] \in TaskRecords /\ WellFormed(tasks[t]) /\ tasks' = [tasks EXCEPT ![t] = n]
    BY DEF TasksOK, Goes, Becomes
  <1>2. n \in TaskRecords /\ WellFormed(n) /\ Same(n, tasks[t]) /\ n.step = s
    BY <1>1, AdvanceFacts
  <1>3. /\ tasks[t].step # "waiting" /\ tasks[t].step \notin InstalledSteps
        /\ s \notin {"unlinked", "linked"}
    BY DEF InstalledSteps
  <1> HIDE DEF n
  <1> QED
    BY <1>1, <1>2, <1>3, MovesIf

LEMMA CreateMoves ==
    ASSUME TasksOK, NEW t \in Tasks, NEW s, NEW f \in Files, UNCHANGED requestVars,
           <<tasks[t].step, s>> \in {<<"request", "filelock">>, <<"overwrite", "write">>},
           tasks' = [tasks EXCEPT ![t] = Opened(tasks[t], s, f)]
    PROVE  \E n : Moves(t, n)
  <1>1. tasks[t] \in TaskRecords /\ WellFormed(tasks[t])
    BY DEF TasksOK
  <1>2. LET n == Opened(tasks[t], s, f) IN
        n \in TaskRecords /\ WellFormed(n) /\ Same(n, tasks[t]) /\ n.step = s
    BY <1>1, CreatedFacts
  <1>3. /\ tasks[t].step # "waiting" /\ tasks[t].step \notin InstalledSteps
        /\ s \notin {"unlinked", "linked"}
    BY DEF InstalledSteps
  <1> QED
    BY <1>1, <1>2, <1>3, MovesIf

LEMMA DownloadMoves ==
    ASSUME TasksOK, NEW t \in Tasks,
           \/ TakeLock(t) \/ TakePermit(t) \/ CheckDisk(t) \/ Response(t) \/ LockFile(t)
           \/ ReceiveChunk(t) /\ ~tasks[t].broken
           \/ EndOfStream(t) \/ Discard(t)
    PROVE  \E n : Moves(t, n)
  <1> DEFINE r == tasks[t]
  <1>1. r \in TaskRecords /\ WellFormed(r)
    BY DEF TasksOK
  <1>2. r.step \in DownloadSteps => r.step \notin InstalledSteps /\ r.step # "waiting"
    BY DEF DownloadSteps, InstalledSteps
  <1>3. CASE TakeLock(t)
    <2>1. r.step = "lock" /\ UNCHANGED requestVars
      BY <1>3 DEF TakeLock
    <2>2. CASE Becomes(t, [tasks[t] EXCEPT !.step = "permit", !.locked = TRUE])
      <3> DEFINE n == [r EXCEPT !.step = "permit", !.locked = TRUE]
      <3>1. tasks' = [tasks EXCEPT ![t] = n]
        BY <2>2 DEF Becomes
      <3>2. n \in TaskRecords /\ WellFormed(n) /\ Same(n, r) /\ n.step = "permit"
        BY <1>1, <2>1, LockedFacts
      <3> HIDE DEF n
      <3> QED
        BY <1>1, <1>2, <2>1, <3>1, <3>2, MovesIf DEF DownloadSteps
    <2>3. CASE Goes(t, "permit")
      BY <2>1, <2>3, GoesMoves
    <2> QED
      BY <1>3, <2>2, <2>3 DEF TakeLock
  <1>4. CASE TakePermit(t)
    <2>1. r.step = "permit" /\ UNCHANGED requestVars /\ Goes(t, "check")
      BY <1>4 DEF TakePermit
    <2> QED
      BY <2>1, GoesMoves
  <1>5. CASE CheckDisk(t)
    <2>1. /\ r.step = "check" /\ UNCHANGED requestVars
          /\ tasks' = [tasks EXCEPT ![t] = Installed(r)] \/ Goes(t, "request")
      BY <1>5 DEF CheckDisk, Becomes, Goes
    <2>2. r.kept
      BY <1>1, <2>1 DEF WellFormed, DownloadSteps
    <2>3. CASE tasks' = [tasks EXCEPT ![t] = Installed(r)]
      BY <1>1, <1>2, <2>1, <2>2, <2>3, InstalledFacts, MovesIf DEF DownloadSteps
    <2>4. CASE Goes(t, "request")
      BY <2>1, <2>4, GoesMoves
    <2> QED
      BY <2>1, <2>3, <2>4
  <1>6. CASE Response(t)
    <2>1. r.step = "request" /\ UNCHANGED requestVars
      BY <1>6 DEF Response
    <2>2. PICK f \in Files : tasks' = [tasks EXCEPT ![t] = Opened(r, "filelock", f)]
      BY <1>6 DEF Response, Creates, Becomes, Opened
    <2> QED
      BY <2>1, <2>2, CreateMoves
  <1>7. CASE LockFile(t)
    <2>1. r.step = "filelock" /\ UNCHANGED requestVars /\ Goes(t, "stream")
      BY <1>7 DEF LockFile
    <2> QED
      BY <2>1, GoesMoves
  <1>8. CASE ReceiveChunk(t) /\ ~tasks[t].broken
    <2>1. r.step = "stream" /\ r.flight = "none" /\ UNCHANGED requestVars
      BY <1>8 DEF ReceiveChunk
    <2>2. PICK chunk \in {"good", "bad"} :
             tasks' = [tasks EXCEPT ![t] = [r EXCEPT !.count = @ + 1, !.flight = chunk,
                                                     !.pure = @ /\ chunk = "good"]]
      BY <1>8 DEF ReceiveChunk, Becomes
    <2> DEFINE p == r.pure /\ chunk = "good"
    <2>3. p \in BOOLEAN /\ (p => r.pure /\ chunk = "good") /\ ~r.broken
      BY <1>8
    <2>4. tasks' = [tasks EXCEPT ![t] = Received(r, chunk, p)]
      BY <2>2 DEF Received
    <2> HIDE DEF p
    <2>5. LET n == Received(r, chunk, p) IN
          n \in TaskRecords /\ WellFormed(n) /\ Same(n, r) /\ n.step = "stream"
      BY <1>1, <2>1, <2>3, ReceivedFacts
    <2> QED
      BY <1>2, <2>1, <2>4, <2>5, MovesIf DEF DownloadSteps
  <1>9. CASE EndOfStream(t)
    <2>1. /\ r.step = "stream" /\ UNCHANGED requestVars
          /\ \/ r.pure /\ r.count = Size /\ tasks' = [tasks EXCEPT ![t] = Installed(r)]
             \/ Goes(t, "discard")
      BY <1>9 DEF EndOfStream, Becomes
    <2>2. r.kept
      BY <1>1, <2>1 DEF WellFormed, DownloadSteps
    <2>3. CASE r.pure /\ r.count = Size /\ tasks' = [tasks EXCEPT ![t] = Installed(r)]
      BY <1>1, <1>2, <2>1, <2>2, <2>3, InstalledFacts, MovesIf DEF DownloadSteps
    <2>4. CASE Goes(t, "discard")
      BY <2>1, <2>4, GoesMoves
    <2> QED
      BY <2>1, <2>3, <2>4
  <1>10. CASE Discard(t)
    <2>1. r.step = "discard" /\ r.flight = "none" /\ UNCHANGED requestVars /\ Goes(t, "remove")
      BY <1>10 DEF Discard
    <2> QED
      BY <2>1, GoesMoves
  <1> QED
    BY <1>3, <1>4, <1>5, <1>6, <1>7, <1>8, <1>9, <1>10

LEMMA PoolMoves ==
    ASSUME TasksOK, NEW t \in Tasks,
           \/ WriteLands(t) \/ WriteLost(t) \/ Compare(t) \/ Overwrite(t) \/ WriteChunk(t)
           \/ WriteFails(t) /\ ~(tasks[t].kind = "copy" /\ tasks[t].kept)
    PROVE  \E n : Moves(t, n)
  <1> DEFINE r == tasks[t]
  <1>1. r \in TaskRecords /\ WellFormed(r)
    BY DEF TasksOK
  <1>2. r.step \in WriteSteps => r.step \notin InstalledSteps /\ r.step # "waiting"
    BY DEF WriteSteps, InstalledSteps
  <1>3. CASE WriteLands(t)
    <2>1. r.flight # "none" /\ UNCHANGED requestVars /\ tasks' = [tasks EXCEPT ![t] = Landed(r)]
      BY <1>3 DEF WriteLands, Becomes
    <2>2. r.step # "waiting"
      BY <1>1, <2>1 DEF WellFormed, LateSteps, InstalledSteps
    <2>3. CASE r.step \in {"over", "dropped"}
      BY <1>1, <2>1, <2>3, LandedFacts, IdleFacts DEF Moves, Becomes, InstalledSteps
    <2>4. CASE r.step \notin {"over", "dropped"}
      BY <1>1, <2>1, <2>2, <2>4, LandedFacts, MovesIf
    <2> QED
      BY <2>3, <2>4
  <1>4. CASE WriteLost(t)
    <2> DEFINE n == Lost(r)
    <2>1. r.flight # "none" /\ UNCHANGED requestVars /\ tasks' = [tasks EXCEPT ![t] = n]
      BY <1>4 DEF WriteLost, Becomes, Lost
    <2>2. r.step # "waiting"
      BY <1>1, <2>1 DEF WellFormed, LateSteps, InstalledSteps
    <2>3. /\ n \in TaskRecords /\ WellFormed(n) /\ n.kept = r.kept
          /\ IF r.step \in {"over", "dropped"} THEN n = Idle /\ ~r.kept ELSE Same(n, r) /\ n.step = r.step
      BY <1>1, <2>1, LostFacts
    <2> HIDE DEF n
    <2>4. CASE r.step \in {"over", "dropped"}
      BY <2>1, <2>2, <2>3, <2>4, IdleFacts DEF Moves, Becomes, InstalledSteps
    <2>5. CASE r.step \notin {"over", "dropped"}
      BY <2>1, <2>2, <2>3, <2>5, MovesIf
    <2> QED
      BY <2>4, <2>5
  <1>5. ASSUME r.step \in {"compare", "exists", "overwrite", "write"}, UNCHANGED requestVars,
               tasks' = [tasks EXCEPT ![t] = Closed(r)]
        PROVE  \E n : Moves(t, n)
    <2>1. CASE r.kept
      <3>1. Closed(r) = Installed(r)
        BY <2>1 DEF Closed
      <3> QED
        BY <1>1, <1>2, <1>5, <2>1, <3>1, InstalledFacts, MovesIf DEF WriteSteps
    <2>2. CASE ~r.kept
      <3>1. Closed(r) = Idle /\ r.kept = FALSE
        BY <1>1, <2>2 DEF Closed, TaskRecords
      <3> QED
        BY <1>2, <1>5, <2>2, <3>1, IdleFacts DEF Moves, Becomes, WriteSteps, InstalledSteps
    <2> QED
      BY <2>1, <2>2
  <1>6. CASE Compare(t)
    <2>1. /\ r.step \in {"compare", "exists"} /\ UNCHANGED requestVars
          /\ tasks' = [tasks EXCEPT ![t] = Closed(r)] \/ Goes(t, "overwrite")
      BY <1>6 DEF Compare, Becomes, Goes
    <2>2. CASE tasks' = [tasks EXCEPT ![t] = Closed(r)]
      BY <1>5, <2>1, <2>2
    <2>3. CASE Goes(t, "overwrite")
      BY <2>1, <2>3, GoesMoves
    <2> QED
      BY <2>1, <2>2, <2>3
  <1>7. CASE Overwrite(t)
    <2>1. r.step = "overwrite" /\ UNCHANGED requestVars
      BY <1>7 DEF Overwrite
    <2>2. PICK f \in Files : tasks' = [tasks EXCEPT ![t] = Opened(r, "write", f)]
      BY <1>7 DEF Overwrite, Creates, Becomes, Opened
    <2> QED
      BY <2>1, <2>2, CreateMoves
  <1>8. CASE WriteChunk(t)
    <2>1. r.step = "write" /\ UNCHANGED requestVars
      BY <1>8 DEF WriteChunk
    <2>2. CASE r.count + 1 = Size /\ tasks' = [tasks EXCEPT ![t] = Closed(r)]
      BY <1>5, <2>1, <2>2
    <2>3. CASE r.count + 1 # Size /\ tasks' = [tasks EXCEPT ![t] = [r EXCEPT !.count = @ + 1]]
      <3> DEFINE n == [r EXCEPT !.count = @ + 1]
      <3>1. n \in TaskRecords /\ WellFormed(n) /\ Same(n, r) /\ n.step = r.step
        BY <1>1, <2>1, <2>3, ChunkFacts
      <3>2. tasks' = [tasks EXCEPT ![t] = n]
        BY <2>3
      <3> HIDE DEF n
      <3> QED
        BY <1>2, <2>1, <3>1, <3>2, MovesIf DEF WriteSteps
    <2> QED
      BY <1>8, <2>2, <2>3 DEF WriteChunk, Becomes
  <1>9. CASE WriteFails(t) /\ ~(r.kind = "copy" /\ r.kept)
    BY <1>5, <1>9 DEF WriteFails, Becomes
  <1> QED
    BY <1>3, <1>4, <1>6, <1>7, <1>8, <1>9

LEMMA LinkMoves ==
    ASSUME TasksOK, NEW t \in Tasks, RemoveOld(t) \/ LinkNew(t)
    PROVE  \E n : Moves(t, n)
  <1> DEFINE r == tasks[t]
  <1>1. r \in TaskRecords /\ WellFormed(r) /\ UNCHANGED requestVars
    BY DEF TasksOK, RemoveOld, LinkNew
  <1>2. InPhase(Owner[t]) /\ t \in Mine(Owner[t])
    BY OwnerType DEF TasksOK, Mine
  <1>3. PICK s \in {"unlinked", "linked"} :
            /\ <<r.step, s>> \in {<<"installed", "unlinked">>, <<"unlinked", "linked">>}
            /\ Goes(t, s)
    BY DEF RemoveOld, LinkNew
  <1>4. phase[Owner[t]] = "linking"
    BY <1>2, <1>3 DEF RemoveOld, LinkNew, InPhase
  <1> DEFINE n == [tasks[t] EXCEPT !.step = s]
  <1>5. n \in TaskRecords /\ WellFormed(n) /\ Same(n, r) /\ n.step = s
    BY <1>1, <1>3, AdvanceFacts
  <1>6. Becomes(t, n) /\ r.step # "waiting" /\ s \in InstalledSteps
    BY <1>3 DEF Goes, InstalledSteps
  <1> HIDE DEF n
  <1> QED
    BY <1>1, <1>4, <1>5, <1>6 DEF Moves, Same

LEMMA DroppedType ==
    ASSUME TasksOK, NEW S
    PROVE  /\ \A u \in Tasks : Dropped(S)[u] = IF u \in S THEN Leftover(tasks[u]) ELSE tasks[u]
           /\ (\A u \in S : u \in Tasks /\ tasks[u].kept) => Dropped(S) \in [Tasks -> TaskRecords]
  <1>1. \A u \in Tasks : tasks[u] \in TaskRecords /\ WellFormed(tasks[u])
    BY DEF TasksOK
  <1>2. ASSUME \A u \in S : u \in Tasks /\ tasks[u].kept PROVE Dropped(S) \in [Tasks -> TaskRecords]
    <2>1. \A u \in S : Leftover(tasks[u]) \in TaskRecords
      BY <1>1, <1>2, LeftoverFacts
    <2> QED
      BY <1>1, <2>1 DEF Dropped
  <1> QED
    BY <1>2 DEF Dropped

\* An error ends the request, but not a launch.
LEMMA FailsLeaves ==
    ASSUME TasksOK, NEW t \in Tasks, Fails(t), tasks[t].kept,
           tasks[t].step \in DownloadSteps \cup WriteSteps
    PROVE  \E S : /\ Leaves(Owner[t], S) /\ tasks' \in [Tasks -> TaskRecords]
                  /\ t \in S /\ S \subseteq Current(Owner[t])
                  /\ tasks[t].kind # "copy" => tasks'[t] = Leftover(tasks[t])
                  /\ \A u \in S : u # t => tasks'[u] = Leftover(tasks[u])
  <1> DEFINE l == Owner[t]
             S == {u \in Current(l) : tasks[u].step # "waiting"}
  <1>1. l \in Launchers /\ InPhase(l) /\ t \in Current(l) /\ S \subseteq Current(l) /\ Current(l) \subseteq Mine(l)
    BY OwnerType DEF TasksOK, Current, Mine
  <1>2. t \in S /\ \A u \in S : u \in Tasks /\ tasks[u].kept
    BY <1>1 DEF DownloadSteps, WriteSteps, Current, Mine
  <1>3. tasks' = [Dropped(S) EXCEPT ![t] = IF tasks[t].kind = "copy" THEN Idle ELSE @]
    BY DEF Fails
  <1>4. Dropped(S) \in [Tasks -> TaskRecords]
    BY <1>2, DroppedType
  <1>5. tasks' \in [Tasks -> TaskRecords]
    <2>1. Dropped(S)[t] \in TaskRecords
      BY <1>4
    <2> QED
      BY <1>3, <1>4, <2>1, IdleFacts
  <1>6. \A u \in Tasks : tasks'[u] = IF u = t /\ tasks[t].kind = "copy" THEN Idle
                                     ELSE IF u \in S THEN Leftover(tasks[u]) ELSE tasks[u]
    BY <1>3, <1>4, DroppedType
  <1>7. CASE launch[l]
    <2>1. error' = [error EXCEPT ![l] = TRUE] /\ UNCHANGED <<phase, launch, needs>>
      BY <1>7 DEF Fails
    <2>2. phase[l] \in Phases /\ phase[l] \notin {"idle", "linking", "launched"}
      BY <1>1, <1>7 DEF TasksOK, InPhase, DownloadSteps, WriteSteps
    <2>3. phase[l] \in {"installing", "overriding"}
      BY <2>2 DEF Phases
    <2>4. Leaves(l, S)
      BY <1>1, <1>2, <1>6, <1>7, <2>1, <2>3 DEF Leaves
    <2> QED
      BY <1>1, <1>2, <1>5, <1>6, <2>4
  <1>8. CASE ~launch[l]
    <2>1. Ends(l)
      BY <1>8 DEF Fails
    <2>2. ASSUME NEW u \in Current(l) PROVE tasks[u].step # "waiting"
      <3>1. tasks[u].kind # "override" /\ WellFormed(tasks[u])
        BY <1>1, <1>8 DEF InPhase, TasksOK, Current, Mine
      <3> QED
        BY <3>1 DEF WellFormed
    <2>3. Leaves(l, S)
      BY <1>1, <1>2, <1>6, <2>1, <2>2 DEF Leaves
    <2> QED
      BY <1>1, <1>2, <1>5, <1>6, <2>3
  <1> QED
    BY <1>7, <1>8

\* The ways a task can fail.
LEMMA TaskFails ==
    ASSUME TasksOK, NEW t \in Tasks,
           \/ DownloadFails(t) \/ (ReceiveChunk(t) /\ tasks[t].broken) \/ Remove(t)
           \/ WriteFails(t) /\ tasks[t].kind = "copy" /\ tasks[t].kept
    PROVE  Fails(t) /\ tasks[t].kept /\ tasks[t].step \in DownloadSteps \cup WriteSteps
  <1>1. WellFormed(tasks[t])
    BY DEF TasksOK
  <1> QED
    BY <1>1 DEF DownloadFails, ReceiveChunk, Remove, WriteFails, WellFormed, DownloadSteps, WriteSteps

\* The request is over.
LEMMA EndLeaves ==
    ASSUME TasksOK, NEW l \in Launchers,
           Ends(l), tasks' = Dropped(Current(l))
    PROVE  Leaves(l, Current(l)) /\ tasks' \in [Tasks -> TaskRecords]
           /\ \A u \in Current(l) : tasks'[u] = Leftover(tasks[u])
  <1>1. \A u \in Current(l) : u \in Tasks /\ tasks[u].kept /\ u \in Mine(l)
    BY DEF Current, Mine
  <1>2. Dropped(Current(l)) \in [Tasks -> TaskRecords]
    BY <1>1, DroppedType
  <1>3. \A u \in Tasks : tasks'[u] = IF u \in Current(l) THEN Leftover(tasks[u]) ELSE tasks[u]
    BY DroppedType
  <1> QED
    BY <1>1, <1>2, <1>3 DEF Leaves

LEMMA CrashLeaves ==
    ASSUME TasksOK, NEW l \in Launchers, Crash(l)
    PROVE  /\ Leaves(l, Mine(l)) /\ tasks' \in [Tasks -> TaskRecords]
           /\ \A u \in Mine(l) : tasks'[u] = Idle
  <1>1. Ends(l) /\ tasks' = [t \in Tasks |-> IF Owner[t] = l THEN Idle ELSE tasks[t]]
    BY DEF Crash
  <1>2. Current(l) \subseteq Mine(l)
    BY DEF Current
  <1> QED
    BY <1>1, <1>2, IdleFacts DEF Leaves, Mine, TasksOK

\* A request that ends or is dropped.
RequestEnds(l) ==
    \/ BeginLinking(l) /\ Ends(l) /\ tasks' = Dropped(Current(l))
    \/ FinishInstall(l) \/ FinishLaunch(l) \/ CancelLaunch(l)
    \/ StartGame(l) /\ error[l]

LEMMA RequestEnding ==
    ASSUME NEW l \in Launchers, RequestEnds(l)
    PROVE  Ends(l) /\ tasks' = Dropped(Current(l)) /\ UNCHANGED <<names, data, left, troubles>>
  BY DEF RequestEnds, BeginLinking, FinishInstall, FinishLaunch, CancelLaunch, StartGame

LEMMA TasksStayOK ==
    ASSUME TasksOK, [Next]_vars
    PROVE  TasksOK'
  <1>1. ASSUME NEW t \in Tasks, NEW n, Moves(t, n) PROVE TasksOK'
    BY <1>1, MoveKeepsTasks
  <1>2. ASSUME NEW t \in Tasks,
               \/ DownloadFails(t) \/ (ReceiveChunk(t) /\ tasks[t].broken) \/ Remove(t)
               \/ WriteFails(t) /\ tasks[t].kind = "copy" /\ tasks[t].kept
        PROVE  TasksOK'
    BY <1>2, TaskFails, FailsLeaves, LeavingKeepsTasks, OwnerType
  <1>3. ASSUME NEW t \in Tasks, PoolStep(t) \/ FileStep(t) PROVE TasksOK'
    <2>1. ASSUME \/ TakeLock(t) \/ TakePermit(t) \/ CheckDisk(t) \/ Response(t) \/ LockFile(t)
                 \/ ReceiveChunk(t) /\ ~tasks[t].broken
                 \/ EndOfStream(t) \/ Discard(t)
          PROVE  TasksOK'
      <3>1. \E n : Moves(t, n)
        BY <2>1, DownloadMoves
      <3> QED
        BY <1>1, <3>1
    <2>2. ASSUME \/ WriteLands(t) \/ WriteLost(t) \/ Compare(t) \/ Overwrite(t) \/ WriteChunk(t)
                 \/ WriteFails(t) /\ ~(tasks[t].kind = "copy" /\ tasks[t].kept)
          PROVE  TasksOK'
      <3>1. \E n : Moves(t, n)
        BY <2>2, PoolMoves
      <3> QED
        BY <1>1, <3>1
    <2>3. ASSUME RemoveOld(t) \/ LinkNew(t)
          PROVE  TasksOK'
      <3>1. \E n : Moves(t, n)
        BY <2>3, LinkMoves
      <3> QED
        BY <1>1, <3>1
    <2>4. ASSUME \/ DownloadFails(t) \/ (ReceiveChunk(t) /\ tasks[t].broken) \/ Remove(t)
                 \/ WriteFails(t) /\ tasks[t].kind = "copy" /\ tasks[t].kept
          PROVE  TasksOK'
      BY <1>2, <2>4
    <2>5. \/ WriteFails(t) \/ ReceiveChunk(t)
          \/ TakeLock(t) \/ TakePermit(t) \/ CheckDisk(t) \/ Response(t) \/ LockFile(t)
          \/ EndOfStream(t) \/ Discard(t)
          \/ WriteLands(t) \/ WriteLost(t) \/ Compare(t) \/ Overwrite(t) \/ WriteChunk(t)
          \/ RemoveOld(t) \/ LinkNew(t) \/ DownloadFails(t) \/ Remove(t)
      BY <1>3 DEF PoolStep, FileStep
    <2>6. ASSUME WriteFails(t)
          PROVE  TasksOK'
      BY <2>2, <2>4, <2>6
    <2>7. ASSUME ReceiveChunk(t)
          PROVE  TasksOK'
      BY <2>1, <2>4, <2>7
    <2> QED
      BY <2>1, <2>2, <2>3, <2>4, <2>5, <2>6, <2>7
  <1>4. ASSUME NEW l \in Launchers, RequestEnds(l) PROVE TasksOK'
    BY <1>4, RequestEnding, EndLeaves, LeavingKeepsTasks
  <1>5. ASSUME NEW l \in Launchers, Crash(l) PROVE TasksOK'
    BY <1>5, CrashLeaves, LeavingKeepsTasks
  <1>6. ASSUME NEW l \in Launchers, LauncherStep(l) PROVE TasksOK'
    <2>1. \/ RequestEnds(l)
          \/ BeginLinking(l) /\ Enters(l, "linking") /\ UNCHANGED <<tasks, launch, needs, error>>
          \/ StartGame(l) /\ ~error[l]
          \/ PlaceOverrides(l)
      BY <1>6 DEF LauncherStep, RequestEnds, BeginLinking
    <2> QED
      BY <1>4, <2>1, PhaseKeepsTasks
  <1>7. CASE UNCHANGED vars
    BY <1>7 DEF vars, requestVars, TasksOK, InPhase, Current, Mine
  <1> QED
    BY <1>3, <1>4, <1>5, <1>6, <1>7, StartInstallKeepsTasks, StartLaunchKeepsTasks
    DEF Next, Work, RequestEnds

-----------------------------------------------------------------------------
(* Files and names.                                                         *)

FilesOK ==
    /\ library \in [Hashes -> Files \cup {0}]
    /\ data \in [Files -> Seq(Chunks)]
    /\ link \in [Tasks -> Files \cup {0}]
    /\ old \in [Tasks -> BOOLEAN]
    /\ left \in [{"requests", "mishaps", "crashes"} -> Nat]
    /\ troubles \subseteq AllTroubles

\* A write replaces a chunk or adds one.
LEMMA WriteAtType ==
    ASSUME NEW d \in Seq(Chunks), NEW n \in Nat \ {0}, NEW chunk \in Chunks
    PROVE  WriteAt(d, n, chunk) \in Seq(Chunks)
  <1> DEFINE m == IF n > Len(d) THEN n ELSE Len(d)
             w == WriteAt(d, n, chunk)
  <1>1. m \in Nat /\ Len(d) \in Nat /\ n \in Nat
    OBVIOUS
  <1>2. w = [i \in 1..m |-> IF i = n THEN chunk ELSE IF i <= Len(d) THEN d[i] ELSE "hole"]
    BY DEF WriteAt
  <1>3. ASSUME NEW i \in 1..m
        PROVE  (IF i = n THEN chunk ELSE IF i <= Len(d) THEN d[i] ELSE "hole") \in Chunks
    <2>1. i \in Nat /\ i >= 1 /\ "hole" \in Chunks
      BY <1>1 DEF Chunks
    <2>2. i <= Len(d) => d[i] \in Chunks
      BY <1>1, <2>1
    <2> QED
      BY <2>1, <2>2
  <1> HIDE DEF w
  <1>4. w \in [1..m -> Chunks]
    BY <1>2, <1>3
  <1> QED
    BY <1>1, <1>4 DEF w

LEMMA NextChunkIsAppended ==
    ASSUME NEW d \in Seq(Chunks), NEW n, NEW chunk \in Chunks, n = Len(d) + 1
    PROVE  WriteAt(d, n, chunk) = Append(d, chunk)
  <1>1. Len(d) \in Nat /\ n \in Nat /\ n > Len(d)
    OBVIOUS
  <1>2. WriteAt(d, n, chunk) = [i \in 1..n |-> IF i = n THEN chunk ELSE IF i <= Len(d) THEN d[i] ELSE "hole"]
    BY <1>1 DEF WriteAt
  <1>3. \A i \in 1..n : (IF i = n THEN chunk ELSE IF i <= Len(d) THEN d[i] ELSE "hole") = Append(d, chunk)[i]
    BY <1>1
  <1>4. Append(d, chunk) = [i \in 1..n |-> Append(d, chunk)[i]]
    <2> DEFINE x == Append(d, chunk)
    <2>1. x \in Seq(Chunks) /\ Len(x) = n
      BY <1>1
    <2> HIDE DEF x
    <2>2. x = [i \in 1..Len(x) |-> x[i]]
      BY <2>1
    <2> QED
      BY <2>1, <2>2 DEF x
  <1> QED
    BY <1>2, <1>3, <1>4

LEMMA WholeFacts ==
    ASSUME NEW d \in Seq(Chunks)
    PROVE  /\ d = WholeFile => Len(d) = Size
           /\ Len(d) = Size /\ (\A i \in 1..Len(d) : d[i] = "good") => d = WholeFile
  <1>1. Size \in Nat /\ WholeFile \in [1..Size -> Chunks]
    BY ContentLibraryAssumption DEF WholeFile, Chunks
  <1>2. WholeFile \in Seq(Chunks) /\ Len(WholeFile) = Size
    BY <1>1
  <1>3. ASSUME Len(d) = Size, \A i \in 1..Len(d) : d[i] = "good" PROVE d = WholeFile
    <2>1. d = [i \in 1..Len(d) |-> d[i]]
      OBVIOUS
    <2> QED
      BY <1>3, <2>1 DEF WholeFile
  <1> QED
    BY <1>2, <1>3

LEMMA SpendType ==
    ASSUME FilesOK, NEW what \in {"requests", "mishaps", "crashes"}, Spend(what)
    PROVE  left' \in [{"requests", "mishaps", "crashes"} -> Nat]
  <1>1. left[what] \in Nat /\ left[what] - 1 \in Nat
    BY DEF FilesOK, Spend
  <1> QED
    BY <1>1 DEF FilesOK, Spend

LEMMA CreateType ==
    ASSUME Shape, NEW t \in Tasks, NEW s, Creates(t, s), tasks[t].step # "off"
    PROVE  /\ library' \in [Hashes -> Files \cup {0}]
           /\ data' \in [Files -> Seq(Chunks)]
  <1>1. PICK f \in Files : /\ library' = [library EXCEPT ![tasks[t].want] = f]
                           /\ data' = [data EXCEPT ![f] = <<>>]
    BY DEF Creates
  <1>2. <<>> \in Seq(Chunks)
    OBVIOUS
  <1> QED
    BY <1>1, <1>2 DEF Shape, TypeOK

LEMMA WriteType ==
    ASSUME Shape, NEW t \in Tasks, NEW f \in Files, NEW n \in Nat \ {0}, NEW chunk \in {"good", "bad"},
           data' = [data EXCEPT ![f] = WriteAt(@, n, chunk)]
    PROVE  data' \in [Files -> Seq(Chunks)]
  <1>1. data[f] \in Seq(Chunks) /\ data \in [Files -> Seq(Chunks)] /\ chunk \in Chunks
    BY DEF Shape, TypeOK, Chunks
  <1>2. WriteAt(data[f], n, chunk) \in Seq(Chunks)
    BY <1>1, WriteAtType
  <1> QED
    BY <1>1, <1>2

\* Every step respects the types of files, names, bounds and troubles.
LEMMA TaskStepTypes ==
    ASSUME Shape, NEW t \in Tasks, PoolStep(t) \/ FileStep(t)
    PROVE  FilesOK'
  <1> DEFINE r == tasks[t]
  <1>1. FilesOK /\ r \in TaskRecords /\ WellFormed(r) /\ Files \subseteq Nat \ {0}
    BY ContentLibraryAssumption DEF Shape, TypeOK, FilesOK
  <1>2. /\ r.count \in Nat /\ r.file \in Files \cup {0} /\ r.flight \in {"none", "good", "bad"}
        /\ r.want \in Hashes \cup {NoHash}
    BY <1>1 DEF TaskRecords
  <1>3. left' \in [{"requests", "mishaps", "crashes"} -> Nat]
    <2>1. left' = left \/ Spend("mishaps")
      <3>1. CASE PoolStep(t)
        BY <3>1 DEF PoolStep, LockFile, WriteLands, WriteLost, Compare, Overwrite, WriteChunk, WriteFails
      <3>2. CASE FileStep(t)
        BY <3>2 DEF FileStep, TakeLock, TakePermit, CheckDisk, Response, ReceiveChunk, EndOfStream,
                    DownloadFails, Discard, Remove, RemoveOld, LinkNew
      <3> QED
        BY <3>1, <3>2
    <2>2. CASE left' = left
      BY <1>1, <2>2 DEF FilesOK
    <2>3. CASE Spend("mishaps")
      BY <1>1, <2>3, SpendType
    <2> QED
      BY <2>1, <2>2, <2>3
  <1>4. troubles' \subseteq AllTroubles
    <2>1. \A what \in AllTroubles : troubles \cup {what} \subseteq AllTroubles
      BY <1>1 DEF FilesOK
    <2>2. /\ "no lock" \in AllTroubles /\ "checked too early" \in AllTroubles
          /\ "late write" \in AllTroubles /\ "last write lost" \in AllTroubles
          /\ "not linked" \in AllTroubles /\ troubles \subseteq AllTroubles
      BY <1>1 DEF AllTroubles, Spoilt, FilesOK
    <2>3. CASE PoolStep(t)
      BY <2>1, <2>2, <2>3 DEF PoolStep, LockFile, WriteLands, WriteLost, Compare, Overwrite, WriteChunk,
                              WriteFails
    <2>4. CASE CheckDisk(t)
      BY <2>2, <2>4 DEF CheckDisk
    <2>5. CASE FileStep(t) /\ ~CheckDisk(t)
      BY <2>1, <2>2, <2>5 DEF FileStep, TakeLock, TakePermit, Response, ReceiveChunk, EndOfStream,
                              DownloadFails, Discard, Remove, RemoveOld, LinkNew
    <2> QED
      BY <2>3, <2>4, <2>5
  <1>5. link' \in [Tasks -> Files \cup {0}] /\ old' \in [Tasks -> BOOLEAN]
    <2>1. CASE LinkNew(t)
      <3>1. r.want \in Hashes
        BY <1>1, <2>1 DEF LinkNew, WellFormed
      <3> QED
        BY <1>1, <2>1, <3>1 DEF LinkNew, FilesOK
    <2>2. CASE RemoveOld(t)
      BY <1>1, <2>2 DEF RemoveOld, FilesOK
    <2>3. CASE ~LinkNew(t) /\ ~RemoveOld(t)
      <3>1. UNCHANGED <<link, old>>
        <4>1. CASE PoolStep(t)
          BY <4>1 DEF PoolStep, LockFile, WriteLands, WriteLost, Compare, Overwrite, WriteChunk, WriteFails,
                      names
        <4>2. CASE FileStep(t)
          BY <2>3, <4>2 DEF FileStep, TakeLock, TakePermit, CheckDisk, Response, ReceiveChunk, EndOfStream,
                      DownloadFails, Discard, Remove, names
        <4> QED
          BY <4>1, <4>2
      <3> QED
        BY <1>1, <3>1 DEF FilesOK
    <2> QED
      BY <2>1, <2>2, <2>3
  <1>6. library' \in [Hashes -> Files \cup {0}] /\ data' \in [Files -> Seq(Chunks)]
    <2>1. CASE Response(t) \/ Overwrite(t)
      <3>1. r.step # "off" /\ (Creates(t, "filelock") \/ Creates(t, "write"))
        BY <2>1 DEF Response, Overwrite
      <3> QED
        BY <3>1, CreateType
    <2>2. CASE WriteLands(t)
      <3>1. r.flight \in {"good", "bad"} /\ r.file \in Files /\ r.count \in Nat \ {0}
        BY <1>1, <1>2, <2>2 DEF WriteLands, WellFormed, Writes
      <3>2. /\ data' = [data EXCEPT ![r.file] = WriteAt(@, r.count, r.flight)]
            /\ library' = library
        BY <2>2 DEF WriteLands, names
      <3> QED
        BY <1>1, <3>1, <3>2, WriteType DEF FilesOK
    <2>3. CASE WriteChunk(t)
      <3>1. r.file \in Files /\ r.count + 1 \in Nat \ {0}
        BY <1>1, <1>2, <2>3 DEF WriteChunk, WellFormed, Writes, OpenSteps
      <3>2. /\ data' = [data EXCEPT ![r.file] = WriteAt(@, r.count + 1, "good")]
            /\ library' = library
        BY <2>3 DEF WriteChunk, names
      <3> QED
        BY <1>1, <3>1, <3>2, WriteType DEF FilesOK
    <2>4. CASE Discard(t)
      <3>1. library' = library /\ data' = [data EXCEPT ![r.file] = <<>>] /\ <<>> \in Seq(Chunks)
        BY <2>4 DEF Discard, names
      <3> QED
        BY <1>1, <3>1 DEF FilesOK
    <2>5. CASE Remove(t)
      BY <1>1, <2>5 DEF Remove, FilesOK
    <2>6. CASE \/ LockFile(t) \/ WriteLost(t) \/ Compare(t) \/ WriteFails(t)
               \/ TakeLock(t) \/ TakePermit(t) \/ CheckDisk(t) \/ ReceiveChunk(t) \/ EndOfStream(t)
               \/ DownloadFails(t) \/ RemoveOld(t) \/ LinkNew(t)
      <3>1. UNCHANGED <<library, data>>
        BY <2>6 DEF LockFile, WriteLost, Compare, WriteFails, TakeLock, TakePermit, CheckDisk, ReceiveChunk,
                    EndOfStream, DownloadFails, RemoveOld, LinkNew, names
      <3> QED
        BY <1>1, <3>1 DEF FilesOK
    <2> QED
      BY <2>1, <2>2, <2>3, <2>4, <2>5, <2>6 DEF PoolStep, FileStep
  <1> QED
    BY <1>3, <1>4, <1>5, <1>6 DEF FilesOK

LEMMA RequestStepTypes ==
    ASSUME Shape, NEW l \in Launchers,
           LauncherStep(l) \/ StartInstall(l) \/ StartLaunch(l) \/ CancelLaunch(l) \/ Crash(l)
    PROVE  FilesOK' /\ UNCHANGED <<names, data>>
  <1>1. FilesOK
    BY DEF Shape, TypeOK, FilesOK
  <1>2. UNCHANGED <<names, data>>
    BY DEF LauncherStep, StartInstall, StartLaunch, CancelLaunch, Crash, BeginLinking, FinishInstall,
           PlaceOverrides, StartGame, FinishLaunch
  <1>3. left' = left \/ Spend("requests") \/ Spend("crashes")
    BY DEF LauncherStep, StartInstall, StartLaunch, CancelLaunch, Crash, BeginLinking, FinishInstall,
           PlaceOverrides, StartGame, FinishLaunch
  <1>4. left' \in [{"requests", "mishaps", "crashes"} -> Nat]
    <2>1. CASE left' = left
      BY <1>1, <2>1 DEF FilesOK
    <2>2. CASE Spend("requests")
      BY <1>1, <2>2, SpendType
    <2>3. CASE Spend("crashes")
      BY <1>1, <2>3, SpendType
    <2> QED
      BY <1>3, <2>1, <2>2, <2>3
  <1>5. troubles' \subseteq AllTroubles
    <2>1. troubles \subseteq AllTroubles /\ "not linked" \in AllTroubles /\ "last write lost" \in AllTroubles
      BY <1>1 DEF AllTroubles, Spoilt, FilesOK
    <2>2. CASE Crash(l)
      BY <2>1, <2>2 DEF Crash
    <2>3. CASE ~Crash(l)
      BY <2>1, <2>3 DEF LauncherStep, StartInstall, StartLaunch, CancelLaunch, BeginLinking, FinishInstall,
           PlaceOverrides, StartGame, FinishLaunch
    <2> QED
      BY <2>2, <2>3
  <1> QED
    BY <1>1, <1>2, <1>4, <1>5 DEF FilesOK, names

LEMMA ShapeStays ==
    ASSUME Shape, [Next]_vars
    PROVE  Shape'
  <1>1. TasksOK'
    BY ShapeHasTasks, TasksStayOK
  <1>2. FilesOK'
    <2>1. ASSUME UNCHANGED vars PROVE FilesOK'
      BY <2>1 DEF vars, names, Shape, TypeOK, FilesOK
    <2> QED
      BY <2>1, TaskStepTypes, RequestStepTypes DEF Next, Work
  <1> QED
    BY <1>1, <1>2 DEF Shape, TypeOK, TasksOK, FilesOK

LEMMA ShapeAtFirst == Init => Shape
  <1> SUFFICES ASSUME Init PROVE Shape
    OBVIOUS
  <1>1. <<>> \in Seq(Chunks)
    OBVIOUS
  <1>2. TypeOK
    BY <1>1, IdleFacts, ContentLibraryAssumption DEF Init, TypeOK, Phases
  <1>3. \A t \in Tasks : tasks[t] = Idle
    BY DEF Init
  <1>4. ASSUME NEW l \in Launchers PROVE InPhase(l)
    BY <1>3, IdleFacts DEF Init, InPhase, Current, Mine
  <1> QED
    BY <1>2, <1>3, <1>4, IdleFacts DEF Shape

-----------------------------------------------------------------------------
(* Care of files: steps that write nothing.                                 *)

LEMMA TroublesGrow ==
    ASSUME [Next]_vars, Sound'
    PROVE  Sound
  <1>1. ASSUME NEW t \in Tasks, PoolStep(t) PROVE troubles \subseteq troubles'
    BY <1>1 DEF PoolStep, LockFile, WriteLands, WriteLost, Compare, Overwrite, WriteChunk, WriteFails
  <1>2. ASSUME NEW t \in Tasks, FileStep(t) PROVE troubles \subseteq troubles'
    BY <1>2 DEF FileStep, TakeLock, TakePermit, CheckDisk, Response, ReceiveChunk, EndOfStream,
                DownloadFails, Discard, Remove, RemoveOld, LinkNew
  <1>3. ASSUME NEW l \in Launchers,
               LauncherStep(l) \/ StartInstall(l) \/ StartLaunch(l) \/ CancelLaunch(l) \/ Crash(l)
        PROVE  troubles \subseteq troubles'
    BY <1>3 DEF LauncherStep, StartInstall, StartLaunch, CancelLaunch, Crash, BeginLinking, FinishInstall,
           PlaceOverrides, StartGame, FinishLaunch
  <1>4. troubles \subseteq troubles'
    BY <1>1, <1>2, <1>3 DEF Next, Work, vars
  <1> QED
    BY <1>4 DEF Sound

\* Locks are kept or released.
Held(r, n) == /\ n.step \in LockedSteps => n.locked
              /\ n.locked => r.locked /\ n.want = r.want

\* Nothing is written that was not.
Calm(r, n) ==
    /\ Writes(n) => /\ Writes(r) /\ n.file = r.file /\ n.want = r.want
                    /\ OnDisk(n) = OnDisk(r) /\ (n.pure => r.pure)
                    /\ r.step = "dropped" => n.step = "dropped"
    /\ n.step \in OpenSteps => r.step \in OpenSteps
    /\ Lands(r) => Lands(n) /\ n.file = r.file

\* No file is found wrong, none is reported as installed.
Quiet(r, n) ==
    /\ n.step = "request" => r.step = "request" /\ n.want = r.want
    /\ n.step \in InstalledSteps /\ n.kind # "override" =>
           r.step \in InstalledSteps /\ r.kind # "override" /\ n.want = r.want

LEMMA CalmItself == \A r : Calm(r, r) /\ Quiet(r, r)
  BY DEF Calm, Quiet

LEMMA HeldKeepsLocking ==
    ASSUME Locking, \A u \in Tasks : Held(tasks[u], tasks'[u])
    PROVE  Locking'
  BY DEF Locking, Held

LEMMA GoodStays ==
    ASSUME NEW f, Good(f), data'[f] = data[f],
           \A u \in Tasks : Calm(tasks[u], tasks'[u])
    PROVE  Good(f)'
  BY DEF Good, Calm, Writes

LEMMA CalmKeepsFiles ==
    ASSUME Apart, OneWriter, Contents, UNCHANGED <<library, data>>,
           \A u \in Tasks : Calm(tasks[u], tasks'[u])
    PROVE  Apart' /\ OneWriter' /\ Contents'
  <1>1. \A u \in Tasks : tasks'[u].step \in OpenSteps => Writes(tasks'[u])
    BY DEF Writes
  <1>2. Apart'
    BY <1>1 DEF Apart, Calm
  <1>3. OneWriter'
    BY DEF OneWriter, Calm
  <1>4. Contents'
    BY DEF Contents, Calm
  <1> QED
    BY <1>2, <1>3, <1>4

LEMMA MissingStays ==
    ASSUME Missing, UNCHANGED <<library, data>>,
           \A u \in Tasks : Calm(tasks[u], tasks'[u]),
           NEW t \in Tasks, tasks'[t].step = "request", tasks[t].step = "request",
           tasks'[t].want = tasks[t].want
    PROVE  LET f == library'[tasks'[t].want] IN
           f # 0 => data'[f] # WholeFile /\ \A u \in Tasks : Writes(tasks'[u]) => tasks'[u].file # f
  BY DEF Missing, Calm

LEMMA QuietKeepsCare ==
    ASSUME Care, Locking', UNCHANGED <<library, data>>,
           \A u \in Tasks : Calm(tasks[u], tasks'[u]) /\ Quiet(tasks[u], tasks'[u]),
           \A t \in Tasks : link'[t] # 0 => link'[t] = link[t] \/ Good(link'[t])
    PROVE  Care'
  <1>1. Locking' /\ Apart' /\ OneWriter' /\ Contents'
    BY CalmKeepsFiles DEF Care
  <1>2. Missing'
    <2> SUFFICES ASSUME NEW t \in Tasks, tasks'[t].step = "request"
                 PROVE  LET f == library'[tasks'[t].want] IN
                        f # 0 => /\ data'[f] # WholeFile
                                 /\ \A u \in Tasks : Writes(tasks'[u]) => tasks'[u].file # f
      BY DEF Missing, WholeFile, Writes
    <2> QED
      BY MissingStays DEF Care, Quiet
  <1>3. \A f : Good(f) => Good(f)'
    BY GoodStays
  <1>4. InstalledIsGood'
    <2> SUFFICES ASSUME NEW t \in Tasks, tasks'[t].step \in InstalledSteps, tasks'[t].kind # "override"
                 PROVE  library'[tasks'[t].want] # 0 /\ Good(library[tasks[t].want])' /\ tasks'[t].want = tasks[t].want
      BY DEF InstalledIsGood, InstalledSteps
    <2> QED
      BY <1>3 DEF Care, InstalledIsGood, Quiet
  <1>5. LinkedIsGood'
    BY <1>3 DEF Care, LinkedIsGood
  <1> QED
    BY <1>1, <1>2, <1>4, <1>5 DEF Care

LEMMA OthersAreQuiet ==
    ASSUME Locking, NEW t \in Tasks, NEW n, tasks \in [Tasks -> TaskRecords],
           tasks' = [tasks EXCEPT ![t] = n],
           Held(tasks[t], n), Calm(tasks[t], n)
    PROVE  /\ \A u \in Tasks : /\ tasks'[u] = IF u = t THEN n ELSE tasks[u]
                               /\ Held(tasks[u], tasks'[u]) /\ Calm(tasks[u], tasks'[u])
                               /\ u # t => Quiet(tasks[u], tasks'[u])
  <1>1. \A u \in Tasks : tasks'[u] = IF u = t THEN n ELSE tasks[u]
    OBVIOUS
  <1>2. \A u \in Tasks : Held(tasks[u], tasks[u])
    BY DEF Locking, Held
  <1> QED
    BY <1>1, <1>2, CalmItself

\* A task goes on and writes nothing new.
LEMMA QuietMove ==
    ASSUME Care, NEW t \in Tasks, NEW n, tasks \in [Tasks -> TaskRecords],
           tasks' = [tasks EXCEPT ![t] = n], UNCHANGED <<library, data, link>>,
           Held(tasks[t], n), Calm(tasks[t], n), Quiet(tasks[t], n)
    PROVE  Care'
  <1>1. \A u \in Tasks : /\ Held(tasks[u], tasks'[u]) /\ Calm(tasks[u], tasks'[u])
                         /\ Quiet(tasks[u], tasks'[u])
    BY OthersAreQuiet DEF Care
  <1>2. Locking'
    BY <1>1, HeldKeepsLocking DEF Care
  <1> QED
    BY <1>1, <1>2, QuietKeepsCare

\* A task reports its file as installed, and it is good.
LEMMA InstalledMove ==
    ASSUME Care, NEW t \in Tasks, NEW n, tasks \in [Tasks -> TaskRecords],
           tasks' = [tasks EXCEPT ![t] = n], UNCHANGED <<library, data, link>>,
           Held(tasks[t], n), Calm(tasks[t], n), n.step = "installed",
           NEW f, f # 0, library[n.want] = f, Good(f)'
    PROVE  Care'
  <1>1. \A u \in Tasks : /\ tasks'[u] = IF u = t THEN n ELSE tasks[u]
                         /\ Held(tasks[u], tasks'[u]) /\ Calm(tasks[u], tasks'[u])
                         /\ u # t => Quiet(tasks[u], tasks'[u])
    BY OthersAreQuiet DEF Care
  <1>2. Locking' /\ Apart' /\ OneWriter' /\ Contents'
    BY <1>1, HeldKeepsLocking, CalmKeepsFiles DEF Care
  <1>3. Missing'
    <2> SUFFICES ASSUME NEW u \in Tasks, tasks'[u].step = "request"
                 PROVE  LET g == library'[tasks'[u].want] IN
                        g # 0 => /\ data'[g] # WholeFile
                                 /\ \A v \in Tasks : Writes(tasks'[v]) => tasks'[v].file # g
      BY DEF Missing, WholeFile, Writes
    <2>1. tasks'[u] = tasks[u]
      BY <1>1
    <2> QED
      BY <1>1, <2>1, MissingStays DEF Care
  <1>4. \A g : Good(g) => Good(g)'
    BY <1>1, GoodStays
  <1>5. InstalledIsGood'
    <2> SUFFICES ASSUME NEW u \in Tasks, tasks'[u].step \in InstalledSteps, tasks'[u].kind # "override"
                 PROVE  \E g : library'[tasks'[u].want] = g /\ g # 0 /\ Good(g)'
      BY DEF InstalledIsGood, InstalledSteps
    <2>1. CASE u = t
      BY <1>1, <2>1
    <2>2. CASE u # t
      BY <1>1, <1>4, <2>2 DEF Care, InstalledIsGood
    <2> QED
      BY <2>1, <2>2
  <1>6. LinkedIsGood'
    BY <1>4 DEF Care, LinkedIsGood
  <1> QED
    BY <1>2, <1>3, <1>5, <1>6 DEF Care

\* A task has found that its file is missing or wrong, and nobody writes it.
LEMMA RequestMove ==
    ASSUME Care, NEW t \in Tasks, NEW n, tasks \in [Tasks -> TaskRecords],
           tasks' = [tasks EXCEPT ![t] = n], UNCHANGED <<library, data, link>>,
           Held(tasks[t], n), Calm(tasks[t], n), n.step = "request", n.want = tasks[t].want,
           library[n.want] # 0 =>
               /\ data[library[n.want]] # WholeFile
               /\ \A u \in Tasks : Writes(tasks[u]) => tasks[u].file # library[n.want]
    PROVE  Care'
  <1>1. \A u \in Tasks : /\ tasks'[u] = IF u = t THEN n ELSE tasks[u]
                         /\ Held(tasks[u], tasks'[u]) /\ Calm(tasks[u], tasks'[u])
                         /\ u # t => Quiet(tasks[u], tasks'[u])
    BY OthersAreQuiet DEF Care
  <1>2. Locking' /\ Apart' /\ OneWriter' /\ Contents'
    BY <1>1, HeldKeepsLocking, CalmKeepsFiles DEF Care
  <1>3. Missing'
    <2> SUFFICES ASSUME NEW u \in Tasks, tasks'[u].step = "request"
                 PROVE  LET g == library'[tasks'[u].want] IN
                        g # 0 => /\ data'[g] # WholeFile
                                 /\ \A v \in Tasks : Writes(tasks'[v]) => tasks'[v].file # g
      BY DEF Missing, WholeFile, Writes
    <2>1. CASE u = t
      BY <1>1, <2>1 DEF Calm
    <2>2. CASE u # t
      <3>1. tasks'[u] = tasks[u]
        BY <1>1, <2>2
      <3> QED
        BY <1>1, <3>1, MissingStays DEF Care
    <2> QED
      BY <2>1, <2>2
  <1>4. \A g : Good(g) => Good(g)'
    BY <1>1, GoodStays
  <1>5. InstalledIsGood'
    <2> SUFFICES ASSUME NEW u \in Tasks, tasks'[u].step \in InstalledSteps, tasks'[u].kind # "override"
                 PROVE  \E g : library'[tasks'[u].want] = g /\ g # 0 /\ Good(g)'
      BY DEF InstalledIsGood, InstalledSteps
    <2>1. u # t
      BY <1>1 DEF InstalledSteps
    <2> QED
      BY <1>1, <1>4, <2>1 DEF Care, InstalledIsGood
  <1>6. LinkedIsGood'
    BY <1>4 DEF Care, LinkedIsGood
  <1> QED
    BY <1>2, <1>3, <1>5, <1>6 DEF Care

-----------------------------------------------------------------------------
(* Steps that write, create and remove.                                     *)

\* A file that a task is at is not good, unless only a last write is to come.
LEMMA NotGood ==
    ASSUME OneWriter, NEW t \in Tasks, Writes(tasks[t]), ~Lands(tasks[t]), tasks[t].step # "dropped"
    PROVE  ~Good(tasks[t].file)
  BY DEF OneWriter, Good, Lands, Writes

LEMMA TouchKeepsCare ==
    ASSUME Shape, Care, NEW t \in Tasks, NEW n, NEW f \in Files, NEW x,
           tasks' = [tasks EXCEPT ![t] = n], data' = [data EXCEPT ![f] = x],
           UNCHANGED <<library, link>>,
           Writes(tasks[t]), tasks[t].file = f, Held(tasks[t], n), n.step # "request",
           Writes(n) => /\ n.file = f /\ n.want = tasks[t].want /\ Len(x) = OnDisk(n)
                        /\ n.pure => \A i \in 1..Len(x) : x[i] = "good",
           n.step \in OpenSteps => tasks[t].step \in OpenSteps,
           Good(f) => Good(f)',
           n.step \in InstalledSteps /\ n.kind # "override" =>
               \/ /\ tasks[t].step \in InstalledSteps /\ tasks[t].kind # "override"
                  /\ n.want = tasks[t].want
               \/ f # 0 /\ library[n.want] = f /\ Good(f)'
    PROVE  Care'
  <1> DEFINE r == tasks[t]
  <1>1. /\ tasks \in [Tasks -> TaskRecords] /\ data \in [Files -> Seq(Chunks)]
        /\ \A u \in Tasks : tasks'[u] = IF u = t THEN n ELSE tasks[u]
        /\ data'[f] = x /\ \A g : g # f => data'[g] = data[g]
    BY DEF Shape, TypeOK
  <1>2. Locking'
    <2>1. \A u \in Tasks : Held(tasks[u], tasks[u])
      BY DEF Care, Locking, Held
    <2> QED
      BY <1>1, <2>1, HeldKeepsLocking DEF Care
  <1>3. Apart'
    <2>1. n.step \in OpenSteps => Writes(n)
      BY DEF Writes
    <2> QED
      BY <1>1, <2>1 DEF Care, Apart
  <1>4. OneWriter'
    BY <1>1 DEF Care, OneWriter
  <1>5. Missing'
    BY <1>1 DEF Care, Missing
  <1>6. Contents'
    <2>1. \A u \in Tasks : u # t /\ Writes(tasks[u]) => tasks[u].file # f
      BY DEF Care, OneWriter
    <2> QED
      BY <1>1, <2>1 DEF Care, Contents
  <1>7. \A g : Good(g) => Good(g)'
    <2> SUFFICES ASSUME NEW g, g # f, Good(g) PROVE Good(g)'
      OBVIOUS
    <2> QED
      BY <1>1 DEF Good, Lands, Writes
  <1>8. InstalledIsGood'
    <2> SUFFICES ASSUME NEW u \in Tasks, tasks'[u].step \in InstalledSteps, tasks'[u].kind # "override"
                 PROVE  \E g : library'[tasks'[u].want] = g /\ g # 0 /\ Good(g)'
      BY DEF InstalledIsGood, InstalledSteps
    <2> QED
      BY <1>1, <1>7 DEF Care, InstalledIsGood
  <1>9. LinkedIsGood'
    BY <1>7 DEF Care, LinkedIsGood
  <1> QED
    BY <1>2, <1>3, <1>4, <1>5, <1>6, <1>8, <1>9 DEF Care

\* A file is created that is not good, or that nobody has.
LEMMA CreateKeepsCare ==
    ASSUME Shape, Care, NEW t \in Tasks, NEW s, NEW f \in Files,
           <<tasks[t].step, s>> \in {<<"request", "filelock">>, <<"overwrite", "write">>},
           tasks' = [tasks EXCEPT ![t] = Opened(tasks[t], s, f)],
           library' = [library EXCEPT ![tasks[t].want] = f],
           data' = [data EXCEPT ![f] = <<>>], link' = link,
           IF library[tasks[t].want] = 0 THEN f \notin Used
           ELSE /\ f = library[tasks[t].want] /\ ~Good(f)
                /\ \A u \in Tasks : Writes(tasks[u]) => tasks[u].file # f,
           \A u \in Tasks : u # t /\ tasks[u].step = "request" => tasks[u].want # tasks[t].want
    PROVE  Care'
  <1> DEFINE r == tasks[t]
             h == r.want
             n == Opened(r, s, f)
  <1>1. /\ tasks \in [Tasks -> TaskRecords] /\ data \in [Files -> Seq(Chunks)]
        /\ library \in [Hashes -> Files \cup {0}]
        /\ r \in TaskRecords /\ WellFormed(r)
    BY DEF Shape, TypeOK
  <1>2. n \in TaskRecords /\ WellFormed(n) /\ n.step = s /\ n.file = f /\ n.want = h /\ n.kind = r.kind
        /\ n.locked = r.locked /\ n.count = 0 /\ n.pure /\ n.flight = "none" /\ ~n.broken
    BY <1>1, CreatedFacts DEF Same
  <1>3. h \in Hashes /\ f # 0
    BY <1>1, ContentLibraryAssumption DEF WellFormed
  <1>4. /\ \A u \in Tasks : tasks'[u] = IF u = t THEN n ELSE tasks[u]
        /\ \A g : g # f => data'[g] = data[g]
        /\ data'[f] = <<>>
        /\ \A k \in Hashes : library'[k] = IF k = h THEN f ELSE library[k]
    BY <1>1, <1>3
  <1> HIDE DEF n
  <1>5. /\ \A k \in Hashes : k # h => library[k] # f
        /\ \A u \in Tasks : Writes(tasks[u]) => tasks[u].file # f
        /\ ~Good(f) \/ \A u \in Tasks : link[u] # f
        /\ library[h] = f => ~Good(f)
    BY <1>3 DEF Used, Care, Apart
  <1>6. Locking'
    <2>1. Held(r, n)
      BY <1>2 DEF Held, Care, Locking, LockedSteps, DownloadSteps
    <2>2. \A u \in Tasks : Held(tasks[u], tasks[u])
      BY DEF Care, Locking, Held
    <2> QED
      BY <1>4, <2>1, <2>2, HeldKeepsLocking DEF Care
  <1>7. \A u \in Tasks : tasks[u].step \in OpenSteps => tasks[u].want \in Hashes /\ Writes(tasks[u])
    BY DEF Shape, WellFormed, OpenSteps, Writes
  <1>8. Apart'
    <2>1. \A g, k \in Hashes : library'[g] = library'[k] /\ library'[g] # 0 => g = k
      BY <1>4, <1>5 DEF Care, Apart
    <2>2. \A u \in Tasks, k \in Hashes : Writes(tasks'[u]) /\ library'[k] = tasks'[u].file => tasks'[u].want = k
      BY <1>2, <1>4, <1>5 DEF Care, Apart
    <2>3. \A u \in Tasks : tasks'[u].step \in OpenSteps => library'[tasks'[u].want] = tasks'[u].file
      <3> SUFFICES ASSUME NEW u \in Tasks, tasks'[u].step \in OpenSteps
                   PROVE  library'[tasks'[u].want] = tasks'[u].file
        OBVIOUS
      <3>1. CASE u = t
        BY <1>2, <1>3, <1>4, <3>1
      <3>2. CASE u # t
        <4>1. tasks'[u] = tasks[u] /\ tasks[u].want \in Hashes /\ Writes(tasks[u])
              /\ library[tasks[u].want] = tasks[u].file /\ tasks[u].file # 0
          BY <1>4, <1>7, <3>2 DEF Care, Apart, Shape, WellFormed
        <4>2. tasks[u].want # h
          BY <1>5, <4>1
        <4> QED
          BY <1>4, <4>1, <4>2
      <3> QED
        BY <3>1, <3>2
    <2> QED
      BY <2>1, <2>2, <2>3 DEF Apart
  <1>9. OneWriter'
    BY <1>2, <1>4, <1>5 DEF Care, OneWriter
  <1>10. Missing'
    <2> SUFFICES ASSUME NEW u \in Tasks, tasks'[u].step = "request"
                 PROVE  LET g == library'[tasks'[u].want] IN
                        g # 0 => /\ data'[g] # WholeFile
                                 /\ \A v \in Tasks : Writes(tasks'[v]) => tasks'[v].file # g
      BY DEF Missing, WholeFile, Writes
    <2>1. u # t /\ tasks'[u] = tasks[u]
      BY <1>2, <1>4
    <2>2. tasks[u].want \in Hashes /\ tasks[u].want # h
      BY <2>1 DEF Shape, WellFormed
    <2>3. library'[tasks[u].want] = library[tasks[u].want] /\ library[tasks[u].want] # f
      BY <1>4, <1>5, <2>2
    <2> QED
      BY <1>2, <1>4, <2>1, <2>3 DEF Care, Missing
  <1>11. Contents'
    <2>1. OnDisk(n) = 0 /\ Len(<<>>) = 0
      BY <1>2 DEF OnDisk
    <2> QED
      BY <1>2, <1>4, <1>5, <2>1 DEF Care, Contents
  <1>12. ASSUME NEW g, g # f, Good(g) PROVE Good(g)'
    <2>1. ~Lands(r)
      BY <1>1 DEF Lands, WellFormed, DownloadSteps, WriteSteps
    <2> QED
      BY <1>2, <1>4, <1>12, <2>1 DEF Good
  <1>13. InstalledIsGood'
    <2> SUFFICES ASSUME NEW u \in Tasks, tasks'[u].step \in InstalledSteps, tasks'[u].kind # "override"
                 PROVE  \E g : library'[tasks'[u].want] = g /\ g # 0 /\ Good(g)'
      BY DEF InstalledIsGood, InstalledSteps
    <2>1. tasks'[u] = tasks[u]
      BY <1>2, <1>4 DEF InstalledSteps
    <2>2. library[tasks[u].want] # 0 /\ Good(library[tasks[u].want])
      BY <2>1 DEF Care, InstalledIsGood
    <2>3. tasks[u].want \in Hashes
      BY <2>1 DEF Shape, WellFormed, InstalledSteps
    <2>4. library[tasks[u].want] # f
      BY <1>5, <2>2, <2>3
    <2>5. tasks[u].want # h
      BY <2>2, <2>4
    <2> QED
      BY <1>4, <1>12, <2>1, <2>2, <2>3, <2>4, <2>5
  <1>14. LinkedIsGood'
    <2> SUFFICES ASSUME NEW u \in Tasks, link'[u] # 0
                 PROVE  \E g : link'[u] = g /\ Good(g)'
      BY DEF LinkedIsGood
    <2>1. Good(link[u]) /\ link[u] # f
      BY <1>5 DEF Care, LinkedIsGood
    <2> QED
      BY <1>12, <2>1
  <1> QED
    BY <1>6, <1>8, <1>9, <1>10, <1>11, <1>13, <1>14 DEF Care

\* What is left of tasks whose futures are dropped.
LEMMA LeftoverIsQuiet ==
    ASSUME NEW r \in TaskRecords, WellFormed(r), r.kept
    PROVE  Held(r, Leftover(r)) /\ Calm(r, Leftover(r)) /\ Quiet(r, Leftover(r))
  <1>1. /\ Leftover(r).step \in {"off", "dropped", "over"} \cup WriteSteps
        /\ Leftover(r).locked => r.locked
        /\ Writes(Leftover(r)) => /\ Writes(r) /\ Leftover(r).file = r.file
                                  /\ Leftover(r).want = r.want
                                  /\ OnDisk(Leftover(r)) = OnDisk(r)
                                  /\ Leftover(r).pure = r.pure
        /\ Leftover(r).step \in OpenSteps => r.step = Leftover(r).step
        /\ Lands(r) => Lands(Leftover(r)) /\ Leftover(r).file = r.file
        /\ WellFormed(Leftover(r)) /\ ~Leftover(r).kept
    BY LeftoverFacts
  <1>2. ~Leftover(r).locked
    BY <1>1 DEF WellFormed, LockedSteps, DownloadSteps, WriteSteps
  <1>3. r.step # "dropped"
    BY DEF WellFormed
  <1> QED
    BY <1>1, <1>2, <1>3 DEF Held, Calm, Quiet, LockedSteps, DownloadSteps, WriteSteps, InstalledSteps

LEMMA IdleIsQuiet ==
    ASSUME NEW r \in TaskRecords, ~Lands(r)
    PROVE  Held(r, Idle) /\ Calm(r, Idle) /\ Quiet(r, Idle)
  BY IdleFacts DEF Held, Calm, Quiet, LockedSteps, DownloadSteps, WriteSteps, InstalledSteps, OpenSteps

LEMMA LeavingIsQuiet ==
    ASSUME Shape, Locking, NEW l, NEW S, Leaves(l, S), \A u \in S : tasks'[u] = Idle => ~Lands(tasks[u])
    PROVE  \A u \in Tasks : /\ Held(tasks[u], tasks'[u])
                            /\ Calm(tasks[u], tasks'[u])
                            /\ Quiet(tasks[u], tasks'[u])
  <1> SUFFICES ASSUME NEW u \in Tasks
               PROVE  /\ Held(tasks[u], tasks'[u])
                      /\ Calm(tasks[u], tasks'[u])
                      /\ Quiet(tasks[u], tasks'[u])
    OBVIOUS
  <1>1. tasks[u] \in TaskRecords /\ WellFormed(tasks[u]) /\ Held(tasks[u], tasks[u])
    BY DEF Shape, TypeOK, Locking, Held
  <1>2. CASE u \in S /\ tasks'[u] = Idle
    BY <1>1, <1>2, IdleIsQuiet
  <1>3. CASE u \in S /\ tasks'[u] # Idle
    BY <1>1, <1>3, LeftoverIsQuiet DEF Leaves
  <1>4. CASE u \notin S
    BY <1>1, <1>4, CalmItself DEF Leaves
  <1> QED
    BY <1>2, <1>3, <1>4

\* The name of a file that is not right is removed.
LEMMA RemoveKeepsCare ==
    ASSUME Shape, Care, NEW t \in Tasks, Remove(t)
    PROVE  Care'
  <1> DEFINE r == tasks[t]
             h == r.want
             f == r.file
  <1>1. /\ tasks \in [Tasks -> TaskRecords] /\ r \in TaskRecords /\ WellFormed(r)
        /\ library \in [Hashes -> Files \cup {0}]
        /\ TasksOK
    BY ShapeHasTasks DEF Shape, TypeOK
  <1>2. r.step = "remove" /\ library' = [library EXCEPT ![h] = 0] /\ UNCHANGED <<data, link>>
    BY DEF Remove
  <1>3. h \in Hashes /\ r.flight = "none" /\ Writes(r) /\ ~Lands(r) /\ f # 0 /\ r.kind = "download"
    BY <1>1, <1>2 DEF WellFormed, Writes, Lands, OpenSteps, DownloadSteps, LateSteps, InstalledSteps
  <1>4. library[h] = f /\ ~Good(f)
    BY <1>2, <1>3, NotGood DEF Care, Apart, OpenSteps
  <1>5. PICK S : /\ Leaves(Owner[t], S) /\ t \in S
                 /\ tasks'[t] = Leftover(r)
                 /\ \A u \in S : u # t => tasks'[u] = Leftover(tasks[u])
                 /\ S \subseteq Current(Owner[t])
    <2>1. Fails(t) /\ r.kept /\ r.step \in DownloadSteps \cup WriteSteps
      BY <1>1, TaskFails
    <2> QED
      BY <1>1, <1>3, <2>1, FailsLeaves
  <1>6. tasks'[t] = Idle
    BY <1>2, <1>3, <1>5 DEF Leftover
  <1>7. \A u \in S : tasks'[u] = Idle => ~Lands(tasks[u])
    <2> SUFFICES ASSUME NEW u \in S, tasks'[u] = Idle, Lands(tasks[u]) PROVE FALSE
      OBVIOUS
    <2>1. u # t /\ tasks'[u] = Leftover(tasks[u]) /\ u \in Tasks /\ tasks[u].kept
      BY <1>3, <1>5 DEF Current, Mine
    <2>2. Lands(Leftover(tasks[u]))
      BY <1>1, <2>1, LeftoverFacts DEF TasksOK
    <2> QED
      BY <2>1, <2>2, IdleFacts
  <1>8. \A u \in Tasks : /\ Held(tasks[u], tasks'[u])
                         /\ Calm(tasks[u], tasks'[u])
                         /\ Quiet(tasks[u], tasks'[u])
    BY <1>5, <1>7, LeavingIsQuiet DEF Care
  <1>9. \A k \in Hashes : library'[k] = IF k = h THEN 0 ELSE library[k]
    BY <1>1, <1>2, <1>3
  <1>10. \A u \in Tasks : Writes(tasks'[u]) =>
            /\ u # t /\ Writes(tasks[u]) /\ tasks'[u].file # f /\ tasks'[u].file # 0
            /\ tasks'[u].file = tasks[u].file
    BY <1>3, <1>6, <1>8, IdleFacts DEF Calm, Care, OneWriter, Shape, WellFormed
  <1>11. Locking'
    BY <1>8, HeldKeepsLocking DEF Care
  <1>12. Apart'
    <2>1. \A g, k \in Hashes : library'[g] = library'[k] /\ library'[g] # 0 => g = k
      BY <1>9 DEF Care, Apart
    <2>2. \A u \in Tasks, k \in Hashes : Writes(tasks'[u]) /\ library'[k] = tasks'[u].file => tasks'[u].want = k
      BY <1>8, <1>9, <1>10 DEF Calm, Care, Apart
    <2>3. \A u \in Tasks : tasks'[u].step \in OpenSteps => library'[tasks'[u].want] = tasks'[u].file
      <3> SUFFICES ASSUME NEW u \in Tasks, tasks'[u].step \in OpenSteps
                   PROVE  library'[tasks'[u].want] = tasks'[u].file
        OBVIOUS
      <3>1. /\ Writes(tasks'[u]) /\ tasks[u].step \in OpenSteps
            /\ tasks'[u].want = tasks[u].want /\ tasks'[u].file = tasks[u].file
        BY <1>8 DEF Calm, Writes
      <3>2. library[tasks[u].want] = tasks[u].file /\ tasks[u].file # f /\ tasks[u].want \in Hashes
        BY <1>10, <3>1 DEF Care, Apart, Shape, WellFormed, OpenSteps
      <3> QED
        BY <1>4, <1>9, <3>1, <3>2
    <2> QED
      BY <2>1, <2>2, <2>3 DEF Apart
  <1>13. OneWriter'
    BY <1>8 DEF OneWriter, Calm, Care
  <1>14. Contents'
    BY <1>2, <1>8 DEF Contents, Calm, Care
  <1>15. Missing'
    <2> SUFFICES ASSUME NEW u \in Tasks, tasks'[u].step = "request"
                 PROVE  LET g == library'[tasks'[u].want] IN
                        g # 0 => /\ data'[g] # WholeFile
                                 /\ \A v \in Tasks : Writes(tasks'[v]) => tasks'[v].file # g
      BY DEF Missing, WholeFile, Writes
    <2>1. tasks[u].step = "request" /\ tasks'[u].want = tasks[u].want /\ tasks[u].want \in Hashes
      BY <1>8 DEF Quiet, Shape, WellFormed
    <2>2. library'[tasks[u].want] \in {0, library[tasks[u].want]}
      BY <1>9, <2>1
    <2> QED
      BY <1>2, <1>10, <2>1, <2>2 DEF Care, Missing
  <1>16. \A g : Good(g) => Good(g)'
    BY <1>2, <1>8, GoodStays
  <1>17. InstalledIsGood'
    <2> SUFFICES ASSUME NEW u \in Tasks, tasks'[u].step \in InstalledSteps, tasks'[u].kind # "override"
                 PROVE  \E g : library'[tasks'[u].want] = g /\ g # 0 /\ Good(g)'
      BY DEF InstalledIsGood, InstalledSteps
    <2>1. /\ tasks[u].step \in InstalledSteps /\ tasks[u].kind # "override"
          /\ tasks'[u].want = tasks[u].want /\ tasks[u].want \in Hashes
      BY <1>8 DEF Quiet, Shape, WellFormed, InstalledSteps
    <2>2. library[tasks[u].want] # 0 /\ Good(library[tasks[u].want])
      BY <2>1 DEF Care, InstalledIsGood
    <2>3. tasks[u].want # h
      BY <1>4, <2>2
    <2> QED
      BY <1>9, <1>16, <2>1, <2>2, <2>3
  <1>18. LinkedIsGood'
    BY <1>2, <1>16 DEF Care, LinkedIsGood
  <1> QED
    BY <1>11, <1>12, <1>13, <1>14, <1>15, <1>17, <1>18 DEF Care

-----------------------------------------------------------------------------
(* Every action takes care of the files, or notes that it spoils one.       *)

\* The steps of a task that neither write nor find out anything.
LEMMA GoIsQuiet ==
    ASSUME NEW r \in TaskRecords, WellFormed(r), NEW s,
           <<r.step, s>> \in {<<"permit", "check">>, <<"filelock", "stream">>, <<"stream", "discard">>,
                              <<"compare", "overwrite">>, <<"exists", "overwrite">>,
                              <<"installed", "unlinked">>, <<"unlinked", "linked">>},
           r.step \in LockedSteps => r.locked
    PROVE  LET n == [r EXCEPT !.step = s] IN Held(r, n) /\ Calm(r, n) /\ Quiet(r, n)
  <1> DEFINE n == [r EXCEPT !.step = s]
  <1>1. /\ n \in TaskRecords /\ WellFormed(n) /\ Same(n, r) /\ n.step = s
        /\ n.locked = r.locked /\ n.file = r.file /\ n.count = r.count /\ n.pure = r.pure
        /\ n.flight = r.flight /\ n.broken = r.broken
    BY AdvanceFacts
  <1> HIDE DEF n
  <1>2. Held(r, n)
    BY <1>1 DEF Held, Same, LockedSteps, DownloadSteps, WellFormed
  <1>3. Calm(r, n)
    BY <1>1 DEF Calm, Same, Writes, Lands, OnDisk, OpenSteps, InstalledSteps
  <1>4. Quiet(r, n)
    BY <1>1 DEF Quiet, Same, InstalledSteps
  <1> QED
    BY <1>2, <1>3, <1>4 DEF n

LEMMA GoKeepsCare ==
    ASSUME Shape, Care, NEW t \in Tasks, NEW s, Goes(t, s), UNCHANGED <<library, data>>,
           <<tasks[t].step, s>> \in {<<"permit", "check">>, <<"filelock", "stream">>,
                                     <<"stream", "discard">>,
                                     <<"compare", "overwrite">>, <<"exists", "overwrite">>,
                                     <<"installed", "unlinked">>, <<"unlinked", "linked">>},
           \A u \in Tasks : link'[u] # 0 => link'[u] = link[u] \/ Good(link'[u])
    PROVE  Care'
  <1> DEFINE n == [tasks[t] EXCEPT !.step = s]
  <1>1. /\ tasks \in [Tasks -> TaskRecords] /\ tasks[t] \in TaskRecords /\ WellFormed(tasks[t])
        /\ tasks[t].step \in LockedSteps => tasks[t].locked
        /\ Locking
    BY DEF Shape, TypeOK, Care, Locking
  <1>2. tasks' = [tasks EXCEPT ![t] = n] /\ Held(tasks[t], n) /\ Calm(tasks[t], n) /\ Quiet(tasks[t], n)
    BY <1>1, GoIsQuiet DEF Goes, Becomes
  <1> HIDE DEF n
  <1>3. \A u \in Tasks : /\ tasks'[u] = IF u = t THEN n ELSE tasks[u]
                         /\ Held(tasks[u], tasks'[u]) /\ Calm(tasks[u], tasks'[u])
                         /\ u # t => Quiet(tasks[u], tasks'[u])
    BY <1>1, <1>2, OthersAreQuiet
  <1>4. Locking'
    BY <1>1, <1>3, HeldKeepsLocking
  <1> QED
    BY <1>2, <1>3, <1>4, QuietKeepsCare

\* Tasks are dropped, or killed with no last write to do.
LEMMA LeavingKeepsCare ==
    ASSUME Shape, Care, NEW l, NEW S, Leaves(l, S), UNCHANGED <<library, data, link>>,
           \A u \in S : tasks'[u] = Idle => ~Lands(tasks[u])
    PROVE  Care'
  <1>1. \A u \in Tasks : /\ Held(tasks[u], tasks'[u])
                         /\ Calm(tasks[u], tasks'[u])
                         /\ Quiet(tasks[u], tasks'[u])
    BY LeavingIsQuiet DEF Care
  <1>2. Locking'
    BY <1>1, HeldKeepsLocking DEF Care
  <1> QED
    BY <1>1, <1>2, QuietKeepsCare

LEMMA FailKeepsCare ==
    ASSUME Shape, Care, NEW t \in Tasks, Fails(t), tasks[t].kept,
           tasks[t].step \in DownloadSteps \cup WriteSteps, UNCHANGED <<library, data, link>>
    PROVE  Care'
  <1>1. TasksOK /\ \A u \in Tasks : tasks[u] \in TaskRecords /\ WellFormed(tasks[u])
    BY ShapeHasTasks DEF TasksOK
  <1>2. PICK S : /\ Leaves(Owner[t], S) /\ S \subseteq Current(Owner[t])
                 /\ \A u \in S : u # t => tasks'[u] = Leftover(tasks[u])
    BY <1>1, FailsLeaves
  <1>3. \A u \in S : tasks'[u] = Idle => ~Lands(tasks[u])
    <2> SUFFICES ASSUME NEW u \in S, tasks'[u] = Idle, Lands(tasks[u]) PROVE FALSE
      OBVIOUS
    <2>1. u # t
      BY DEF Lands, DownloadSteps, WriteSteps, InstalledSteps
    <2>2. u \in Tasks /\ tasks[u].kept /\ tasks'[u] = Leftover(tasks[u])
      BY <1>2, <2>1 DEF Current, Mine
    <2>3. Lands(Leftover(tasks[u]))
      BY <1>1, <2>2, LeftoverFacts
    <2> QED
      BY <2>2, <2>3, IdleFacts
  <1> QED
    BY <1>2, <1>3, LeavingKeepsCare

LEMMA EndKeepsCare ==
    ASSUME Shape, Care, NEW l \in Launchers, RequestEnds(l)
    PROVE  Care'
  <1>1. TasksOK /\ \A u \in Tasks : tasks[u] \in TaskRecords /\ WellFormed(tasks[u])
    BY ShapeHasTasks DEF TasksOK
  <1>2. Ends(l) /\ tasks' = Dropped(Current(l)) /\ UNCHANGED <<library, data, link>>
    BY RequestEnding DEF names
  <1>3. Leaves(l, Current(l)) /\ \A u \in Current(l) : tasks'[u] = Leftover(tasks[u])
    BY <1>1, <1>2, EndLeaves
  <1>4. \A u \in Current(l) : tasks'[u] = Idle => ~Lands(tasks[u])
    <2> SUFFICES ASSUME NEW u \in Current(l), tasks'[u] = Idle, Lands(tasks[u]) PROVE FALSE
      OBVIOUS
    <2>1. u \in Tasks /\ tasks[u].kept /\ tasks'[u] = Leftover(tasks[u])
      BY <1>3 DEF Current, Mine
    <2>2. Lands(Leftover(tasks[u]))
      BY <1>1, <2>1, LeftoverFacts
    <2> QED
      BY <2>1, <2>2, IdleFacts
  <1> QED
    BY <1>2, <1>3, <1>4, LeavingKeepsCare

LEMMA CrashKeepsCare ==
    ASSUME Shape, Care, NEW l \in Launchers, Crash(l), Sound'
    PROVE  Care'
  <1>1. Leaves(l, Mine(l)) /\ UNCHANGED <<library, data, link>>
    BY CrashLeaves, ShapeHasTasks DEF Crash, names
  <1>2. ASSUME NEW u \in Mine(l), Lands(tasks[u]) PROVE FALSE
    <2>1. "last write lost" \in troubles'
      BY <1>2 DEF Crash, Lands
    <2> QED
      BY <2>1 DEF Sound, Spoilt
  <1> QED
    BY <1>1, <1>2, LeavingKeepsCare

\* New requests, and launches that go on.
LEMMA StartKeepsCare ==
    ASSUME Shape, Care, NEW l \in Launchers,
           StartInstall(l) \/ StartLaunch(l) \/ PlaceOverrides(l) \/ UNCHANGED tasks,
           UNCHANGED <<library, data, link>>
    PROVE  Care'
  <1>1. \A u \in Tasks : /\ tasks[u] \in TaskRecords /\ WellFormed(tasks[u])
                         /\ Held(tasks[u], tasks[u])
    BY DEF Shape, TypeOK, Care, Locking, Held
  <1>2. ASSUME NEW u \in Tasks, tasks[u].step = "off", NEW n, ~Writes(n), ~n.locked,
               n.step \in {"lock", "compare", "waiting"}
        PROVE  Held(tasks[u], n) /\ Calm(tasks[u], n) /\ Quiet(tasks[u], n)
    <2>1. ~Lands(tasks[u])
      BY <1>2 DEF Lands, InstalledSteps
    <2> QED
      BY <1>2, <2>1 DEF Held, Calm, Quiet, LockedSteps, DownloadSteps, OpenSteps, InstalledSteps
  <1>3. \A u \in Tasks : /\ Held(tasks[u], tasks'[u])
                         /\ Calm(tasks[u], tasks'[u])
                         /\ Quiet(tasks[u], tasks'[u])
    <2> SUFFICES ASSUME NEW u \in Tasks
                 PROVE  /\ Held(tasks[u], tasks'[u])
                        /\ Calm(tasks[u], tasks'[u])
                        /\ Quiet(tasks[u], tasks'[u])
      OBVIOUS
    <2>1. CASE StartInstall(l)
      <3>1. PICK S \in SUBSET Free(l), kind \in {"download", "copy"} : \E want \in [S -> Hashes] :
               tasks' = [t \in Tasks |->
                           IF t \notin S THEN tasks[t]
                           ELSE New(kind, IF kind = "download" THEN "lock" ELSE "compare", want[t])]
        BY <2>1, ContentLibraryAssumption DEF StartInstall
      <3>2. PICK want \in [S -> Hashes] :
               tasks' = [t \in Tasks |->
                           IF t \notin S THEN tasks[t]
                           ELSE New(kind, IF kind = "download" THEN "lock" ELSE "compare", want[t])]
        BY <3>1
      <3>3. CASE u \notin S
        BY <1>1, <3>2, <3>3, CalmItself
      <3>4. CASE u \in S
        <4>1. tasks[u].step = "off" /\ want[u] \in Hashes
          BY <3>1, <3>2, <3>4 DEF Free
        <4>2. tasks'[u] = New(kind, IF kind = "download" THEN "lock" ELSE "compare", want[u])
          BY <3>2, <3>4
        <4>3. ~Writes(tasks'[u]) /\ ~tasks'[u].locked /\ tasks'[u].step \in {"lock", "compare", "waiting"}
          <5>1. CASE kind = "download"
            BY <4>1, <4>2, <5>1, NewFacts
          <5>2. CASE kind = "copy"
            BY <4>1, <4>2, <5>2, NewFacts
          <5> QED
            BY <3>1, <5>1, <5>2
        <4> QED
          BY <1>2, <4>1, <4>3
      <3> QED
        BY <3>3, <3>4
    <2>2. CASE StartLaunch(l)
      <3>1. PICK S \in SUBSET Free(l) \ {{}} : \E downloads \in SUBSET S, want \in [S -> Hashes] :
               /\ tasks' = [t \in Tasks |->
                              IF t \notin S THEN tasks[t]
                              ELSE IF t \in downloads THEN New("download", "lock", want[t])
                              ELSE New("override", "waiting", want[t])]
               /\ needs' = [needs EXCEPT ![l] = {want[t] : t \in downloads}]
        BY <2>2, Zenon DEF StartLaunch
      <3>2. PICK downloads \in SUBSET S, want \in [S -> Hashes] :
               tasks' = [t \in Tasks |->
                           IF t \notin S THEN tasks[t]
                           ELSE IF t \in downloads THEN New("download", "lock", want[t])
                           ELSE New("override", "waiting", want[t])]
        BY <3>1, Zenon
      <3>3. CASE u \notin S
        BY <1>1, <3>2, <3>3, CalmItself
      <3>4. CASE u \in S
        <4>1. tasks[u].step = "off" /\ want[u] \in Hashes
          BY <3>1, <3>2, <3>4 DEF Free
        <4>2. tasks'[u] \in {New("download", "lock", want[u]), New("override", "waiting", want[u])}
          BY <3>2, <3>4
        <4>3. ~Writes(tasks'[u]) /\ ~tasks'[u].locked /\ tasks'[u].step \in {"lock", "compare", "waiting"}
          BY <4>1, <4>2, NewFacts
        <4> QED
          BY <1>2, <4>1, <4>3
      <3> QED
        BY <3>3, <3>4
    <2>3. CASE PlaceOverrides(l)
      <3>1. tasks'[u] = tasks[u] \/ (u \in Current(l) \ Downloads(l) /\ tasks'[u] = [tasks[u] EXCEPT !.step = "exists"])
        BY <2>3 DEF PlaceOverrides
      <3>2. CASE u \in Current(l) \ Downloads(l) /\ tasks'[u] = [tasks[u] EXCEPT !.step = "exists"]
        <4>1. tasks[u].step = "waiting"
          BY <2>3, <3>2 DEF Shape, InPhase, PlaceOverrides, Downloads
        <4>2. /\ tasks'[u].step = "exists" /\ tasks'[u].locked = tasks[u].locked
              /\ tasks'[u].flight = tasks[u].flight
          BY <1>1, <3>2 DEF TaskRecords
        <4>3. ~Lands(tasks[u]) /\ ~Writes(tasks'[u]) /\ ~tasks'[u].locked
          BY <1>1, <4>1, <4>2 DEF Lands, Writes, WellFormed, OpenSteps, LockedSteps, DownloadSteps,
                                  InstalledSteps, LateSteps
        <4> QED
          BY <4>1, <4>2, <4>3 DEF Held, Calm, Quiet, LockedSteps, DownloadSteps, OpenSteps, InstalledSteps
      <3> QED
        BY <1>1, <3>1, <3>2, CalmItself
    <2>4. CASE UNCHANGED tasks
      BY <1>1, <2>4, CalmItself
    <2> QED
      BY <2>1, <2>2, <2>3, <2>4
  <1>4. Locking'
    BY <1>3, HeldKeepsLocking DEF Care
  <1> QED
    BY <1>3, <1>4, QuietKeepsCare

LEMMA TakeLockKeepsCare ==
    ASSUME Shape, Care, NEW t \in Tasks, TakeLock(t), Sound'
    PROVE  Care'
  <1> DEFINE r == tasks[t]
             n == [tasks[t] EXCEPT !.step = "permit", !.locked = TRUE]
  <1>1. /\ tasks \in [Tasks -> TaskRecords] /\ r \in TaskRecords /\ WellFormed(r)
        /\ r.step = "lock" /\ UNCHANGED <<library, data, link>>
    BY DEF Shape, TypeOK, TakeLock, names
  <1>2. "no lock" \notin troubles'
    BY DEF Sound, Spoilt
  <1>3. /\ \A u \in Tasks : tasks[u].locked => tasks[u].want # r.want
        /\ tasks' = [tasks EXCEPT ![t] = n]
    BY <1>2 DEF TakeLock, Becomes
  <1>4. /\ n.step = "permit" /\ n.locked /\ n.want = r.want /\ ~Writes(n) /\ ~Writes(r)
    BY <1>1, LockedFacts DEF Same
  <1> HIDE DEF n
  <1>5. \A u \in Tasks : tasks'[u] = IF u = t THEN n ELSE tasks[u]
    BY <1>1, <1>3
  <1>6. Calm(r, n) /\ Quiet(r, n)
    BY <1>4 DEF Calm, Quiet, Writes, Lands, InstalledSteps
  <1>7. \A u \in Tasks : Calm(tasks[u], tasks'[u]) /\ Quiet(tasks[u], tasks'[u])
    BY <1>5, <1>6, CalmItself
  <1>8. Locking'
    BY <1>3, <1>4, <1>5 DEF Locking, Care
  <1> QED
    BY <1>1, <1>7, <1>8, QuietKeepsCare

LEMMA ReceiveKeepsCare ==
    ASSUME Shape, Care, NEW t \in Tasks, ReceiveChunk(t), ~tasks[t].broken
    PROVE  Care'
  <1> DEFINE r == tasks[t]
  <1>1. /\ tasks \in [Tasks -> TaskRecords] /\ r \in TaskRecords /\ WellFormed(r) /\ r.count \in Nat
        /\ r.step = "stream" /\ r.flight = "none" /\ UNCHANGED <<library, data, link>>
    BY DEF Shape, TypeOK, ReceiveChunk, names, TaskRecords
  <1>2. PICK chunk \in {"good", "bad"} :
           tasks' = [tasks EXCEPT ![t] = [r EXCEPT !.count = @ + 1, !.flight = chunk,
                                                   !.pure = @ /\ chunk = "good"]]
    BY DEF ReceiveChunk, Becomes
  <1> DEFINE p == r.pure /\ chunk = "good"
             n == Received(r, chunk, p)
  <1>3. p \in BOOLEAN /\ (p => r.pure /\ chunk = "good") /\ tasks' = [tasks EXCEPT ![t] = n]
    BY <1>2 DEF Received
  <1> HIDE DEF p
  <1>4. /\ n.step = "stream" /\ Same(n, r)
        /\ n.locked = r.locked /\ n.file = r.file /\ n.count = r.count + 1
        /\ n.flight = chunk /\ ~n.broken /\ (n.pure => r.pure)
    BY <1>1, <1>3, ReceivedFacts
  <1> HIDE DEF n
  <1>5. OnDisk(r) = r.count /\ OnDisk(n) = r.count
    BY <1>1, <1>4 DEF OnDisk
  <1>6. Held(r, n) /\ Calm(r, n) /\ Quiet(r, n)
    BY <1>1, <1>4, <1>5 DEF Held, Calm, Quiet, Same, Care, Locking, LockedSteps, DownloadSteps, OpenSteps,
                            InstalledSteps, Writes, Lands
  <1> QED
    BY <1>1, <1>3, <1>6, QuietMove

LEMMA WriteLostKeepsCare ==
    ASSUME Shape, Care, NEW t \in Tasks, WriteLost(t), Sound'
    PROVE  Care'
  <1> DEFINE r == tasks[t]
             n == Lost(r)
  <1>1. /\ tasks \in [Tasks -> TaskRecords] /\ r \in TaskRecords /\ WellFormed(r)
        /\ r.flight # "none" /\ UNCHANGED <<library, data, link>>
        /\ tasks' = [tasks EXCEPT ![t] = n]
    BY DEF Shape, TypeOK, WriteLost, names, Becomes, Lost
  <1>2. ~Lands(r)
    BY DEF WriteLost, Sound, Spoilt, Lands
  <1>3. r.step \in {"stream", "discard", "dropped"}
    BY <1>1, <1>2 DEF WellFormed, Lands, LateSteps
  <1>4. IF r.step = "dropped" THEN n = Idle
        ELSE /\ Same(n, r) /\ n.step = r.step /\ n.locked = r.locked /\ n.file = r.file
             /\ n.count = r.count /\ n.pure = r.pure /\ n.broken /\ n.flight = "none"
    <2>1. IF r.step \in {"over", "dropped"} THEN n = Idle
          ELSE /\ Same(n, r) /\ n.step = r.step /\ n.locked = r.locked /\ n.file = r.file
               /\ n.count = r.count /\ n.pure = r.pure /\ n.broken
      BY <1>1, LostFacts
    <2>2. r.step # "dropped" => n.flight = "none"
      BY <1>1, LostFacts
    <2> HIDE DEF n
    <2> QED
      BY <1>3, <2>1, <2>2
  <1> HIDE DEF n
  <1>5. Held(r, n) /\ Calm(r, n) /\ Quiet(r, n)
    <2>1. CASE r.step = "dropped"
      BY <1>1, <1>2, <1>4, <2>1, IdleIsQuiet
    <2>2. CASE r.step # "dropped"
      <3>1. OnDisk(r) = r.count - 1 /\ OnDisk(n) = r.count - 1
        BY <1>1, <1>3, <1>4, <2>2 DEF OnDisk
      <3> QED
        BY <1>1, <1>2, <1>3, <1>4, <2>2, <3>1
        DEF Held, Calm, Quiet, Same, Care, Locking, LockedSteps, DownloadSteps, OpenSteps, InstalledSteps,
            Writes
    <2> QED
      BY <2>1, <2>2
  <1> QED
    BY <1>1, <1>5, QuietMove

\* Who can be writing the file of a hash.
LEMMA WriterOf ==
    ASSUME Shape, Apart, NEW h \in Hashes, NEW u \in Tasks,
           Writes(tasks[u]), tasks[u].file = library[h]
    PROVE  /\ tasks[u].want = h
           /\ \/ tasks[u].step = "write" /\ Meddled(h)
              \/ tasks[u].step \in {"filelock", "stream", "discard", "remove"} /\ Downloading(h)
              \/ tasks[u].step \in LateSteps /\ tasks[u].flight # "none" /\ LateWrite(h)
  <1>1. tasks[u].want = h /\ WellFormed(tasks[u])
    BY DEF Apart, Shape
  <1>2. \/ tasks[u].step = "write"
        \/ tasks[u].step \in {"filelock", "stream", "discard", "remove"}
        \/ tasks[u].step \in LateSteps /\ tasks[u].flight # "none"
    BY <1>1 DEF Writes, WellFormed, OpenSteps
  <1> QED
    BY <1>1, <1>2 DEF Meddled, Downloading, DownloadSteps, LateWrite, LateSteps

LEMMA InstalledIsCalm ==
    ASSUME NEW r \in TaskRecords, WellFormed(r), r.kept,
           r.step \in {"check", "compare", "exists", "overwrite", "write"} \/ (r.step = "stream" /\ r.pure /\ r.count = Size)
    PROVE  LET n == Installed(r) IN
           /\ Held(r, n) /\ Calm(r, n) /\ n.step = "installed" /\ n.kind = r.kind /\ n.want = r.want
           /\ n.file = r.file /\ n.count = r.count /\ n.pure = r.pure
           /\ n.flight = r.flight /\ n.broken = r.broken
  <1> DEFINE n == Installed(r)
  <1>1. /\ n \in TaskRecords /\ WellFormed(n) /\ Same(n, r) /\ n.step = "installed" /\ ~n.locked
        /\ n.file = r.file /\ n.count = r.count /\ n.pure = r.pure
        /\ n.flight = r.flight /\ n.broken = r.broken
    BY InstalledFacts
  <1> HIDE DEF n
  <1>2. Held(r, n)
    BY <1>1 DEF Held, LockedSteps, DownloadSteps
  <1>3. Calm(r, n)
    BY <1>1 DEF Calm, Same, Writes, Lands, OnDisk, OpenSteps, InstalledSteps
  <1> QED
    BY <1>1, <1>2, <1>3 DEF Same, n

\* A check of the library's file with the lock held.
LEMMA CheckKeepsCare ==
    ASSUME Shape, Care, NEW t \in Tasks, CheckDisk(t), Sound'
    PROVE  Care'
  <1> DEFINE r == tasks[t]
             h == r.want
             f == library[h]
  <1>1. /\ tasks \in [Tasks -> TaskRecords] /\ r \in TaskRecords /\ WellFormed(r)
        /\ r.step = "check" /\ UNCHANGED <<library, data, link>>
    BY DEF Shape, TypeOK, CheckDisk, names
  <1>2. h \in Hashes /\ r.kept
    BY <1>1 DEF WellFormed, DownloadSteps
  <1>3. "no lock" \notin troubles' /\ "checked too early" \notin troubles'
    BY DEF Sound, Spoilt
  <1>4. ~LateWrite(h) /\ ~Meddled(h)
    BY <1>3 DEF CheckDisk
  <1>5. \A u \in Tasks : Writes(tasks[u]) => tasks[u].file # f
    <2> SUFFICES ASSUME NEW u \in Tasks, Writes(tasks[u]), tasks[u].file = f PROVE FALSE
      OBVIOUS
    <2>1. tasks[u].want = h /\ tasks[u].step \in {"filelock", "stream", "discard", "remove"}
      BY <1>2, <1>4, WriterOf DEF Care
    <2>2. tasks[u].locked /\ r.locked
      BY <1>1, <2>1 DEF Care, Locking, LockedSteps, DownloadSteps
    <2>3. u = t
      BY <2>1, <2>2 DEF Care, Locking
    <2> QED
      BY <1>1, <2>1, <2>3
  <1>6. CASE Whole(h)
    <2>1. tasks' = [tasks EXCEPT ![t] = Installed(r)]
      BY <1>6 DEF CheckDisk, Becomes
    <2>2. LET n == Installed(r) IN
          Held(r, n) /\ Calm(r, n) /\ n.step = "installed" /\ n.want = h
      BY <1>1, <1>2, InstalledIsCalm
    <2>3. f # 0 /\ Good(f)
      BY <1>5, <1>6 DEF Whole, Good
    <2>4. ASSUME NEW g, g = f PROVE Good(g)'
      <3>1. \A u \in Tasks : Calm(tasks[u], tasks'[u])
        BY <1>1, <2>1, <2>2, OthersAreQuiet DEF Care
      <3> QED
        BY <1>1, <2>3, <2>4, <3>1, GoodStays
    <2>5. PICK g : g = f
      OBVIOUS
    <2> QED
      BY <1>1, <2>1, <2>2, <2>3, <2>4, <2>5, InstalledMove
  <1>7. CASE ~Whole(h)
    <2> DEFINE n == [r EXCEPT !.step = "request"]
    <2>1. tasks' = [tasks EXCEPT ![t] = n]
      BY <1>7 DEF CheckDisk, Becomes
    <2>2. /\ n \in TaskRecords /\ WellFormed(n) /\ Same(n, r) /\ n.step = "request"
          /\ n.locked = r.locked /\ n.file = r.file /\ n.count = r.count /\ n.pure = r.pure
          /\ n.flight = r.flight /\ n.broken = r.broken
      BY <1>1, AdvanceFacts
    <2> HIDE DEF n
    <2>3. Held(r, n)
      BY <1>1, <2>2 DEF Held, Same, Care, Locking, LockedSteps, DownloadSteps
    <2>4. Calm(r, n)
      BY <1>1, <2>2 DEF Calm, Same, Writes, Lands, OnDisk, OpenSteps, InstalledSteps
    <2>5. n.want = h /\ (f # 0 => data[f] # WholeFile)
      BY <1>7, <2>2 DEF Whole, Same
    <2> QED
      BY <1>1, <1>5, <2>1, <2>2, <2>3, <2>4, <2>5, RequestMove
  <1> QED
    BY <1>6, <1>7

\* A download that has received the whole file.
LEMMA EndOfStreamKeepsCare ==
    ASSUME Shape, Care, NEW t \in Tasks, EndOfStream(t), Sound'
    PROVE  Care'
  <1> DEFINE r == tasks[t]
             f == r.file
             n == Installed(r)
  <1>1. /\ tasks \in [Tasks -> TaskRecords] /\ r \in TaskRecords /\ WellFormed(r)
        /\ r.step = "stream" /\ UNCHANGED <<library, data, link>>
    BY DEF Shape, TypeOK, EndOfStream, names
  <1>2. r.kept /\ f # 0 /\ Writes(r) /\ library[r.want] = f /\ r.want \in Hashes
    BY <1>1 DEF WellFormed, DownloadSteps, Writes, OpenSteps, Care, Apart
  <1>3. CASE /\ r.pure /\ r.count = Size /\ tasks' = [tasks EXCEPT ![t] = n]
             /\ r.broken => "last write lost" \in troubles'
    <2>1. ~r.broken
      BY <1>3 DEF Sound, Spoilt
    <2>2. Held(r, n) /\ Calm(r, n) /\ n.step = "installed" /\ n.want = r.want
          /\ n.file = f /\ n.count = r.count /\ n.pure = r.pure /\ n.flight = r.flight
      BY <1>1, <1>2, <1>3, InstalledIsCalm
    <2>3. \A u \in Tasks : tasks'[u] = IF u = t THEN n ELSE tasks[u]
      BY <1>1, <1>3
    <2> HIDE DEF n
    <2>4. f \in Files /\ data[f] \in Seq(Chunks)
      BY <1>1, <1>2 DEF TaskRecords, Shape, TypeOK
    <2>5. ASSUME NEW g, g = f PROVE Good(g)'
      <3>1. CASE r.flight # "none"
        <4>1. Lands(n) /\ n.file = g
          BY <2>2, <2>5, <3>1 DEF Lands, InstalledSteps
        <4> QED
          BY <2>3, <4>1 DEF Good
      <3>2. CASE r.flight = "none"
        <4>1. Len(data[f]) = Size /\ \A i \in 1..Len(data[f]) : data[f][i] = "good"
          BY <1>1, <1>2, <1>3, <2>1, <3>2 DEF Care, Contents, OnDisk
        <4>2. data'[g] = WholeFile
          BY <1>1, <2>4, <2>5, <4>1, WholeFacts
        <4>3. ~Writes(n)
          BY <2>2, <3>2 DEF Writes, OpenSteps
        <4>4. \A u \in Tasks : Writes(tasks'[u]) => tasks'[u].file # g
          BY <1>2, <2>3, <2>5, <4>3 DEF Care, OneWriter
        <4> QED
          BY <4>2, <4>4 DEF Good, WholeFile
      <3> QED
        BY <3>1, <3>2
    <2>6. PICK g : g = f
      OBVIOUS
    <2> QED
      BY <1>1, <1>2, <1>3, <2>2, <2>5, <2>6, InstalledMove
  <1>4. CASE Goes(t, "discard")
    BY <1>1, <1>4, GoKeepsCare
  <1> QED
    BY <1>3, <1>4 DEF EndOfStream, Becomes

\* The closure of a copy or an override ends.
LEMMA CloseKeepsCare ==
    ASSUME Shape, Care, NEW t \in Tasks, tasks' = [tasks EXCEPT ![t] = Closed(tasks[t])],
           UNCHANGED <<library, data, link>>,
           tasks[t].step \in {"compare", "exists", "overwrite", "write"},
           NEW f, tasks[t].kind = "copy" /\ tasks[t].kept =>
                      library[tasks[t].want] = f /\ f # 0 /\ Good(f)
    PROVE  Care'
  <1> DEFINE r == tasks[t]
             n == Installed(r)
  <1>1. /\ tasks \in [Tasks -> TaskRecords] /\ r \in TaskRecords /\ WellFormed(r)
    BY DEF Shape, TypeOK
  <1>2. r.kind \in {"copy", "override"}
    BY <1>1 DEF WellFormed, WriteSteps, TaskRecords
  <1>3. CASE ~r.kept
    <2>1. Closed(r) = Idle /\ ~Lands(r)
      BY <1>3 DEF Closed, Lands, InstalledSteps
    <2>2. Held(r, Idle) /\ Calm(r, Idle) /\ Quiet(r, Idle)
      BY <1>1, <2>1, IdleIsQuiet
    <2> QED
      BY <1>1, <2>1, <2>2, QuietMove
  <1>4. CASE r.kept
    <2>1. Closed(r) = n
      BY <1>4 DEF Closed
    <2>2. Held(r, n) /\ Calm(r, n) /\ n.step = "installed" /\ n.kind = r.kind /\ n.want = r.want
      BY <1>1, <1>4, InstalledIsCalm
    <2> HIDE DEF n
    <2>3. CASE r.kind = "override"
      <3>1. Quiet(r, n)
        BY <2>2, <2>3 DEF Quiet
      <3> QED
        BY <1>1, <2>1, <2>2, <3>1, QuietMove
    <2>4. CASE r.kind = "copy"
      <3>1. \A u \in Tasks : Calm(tasks[u], tasks'[u])
        BY <1>1, <2>1, <2>2, OthersAreQuiet DEF Care
      <3>2. Good(f)'
        BY <1>4, <2>4, <3>1, GoodStays
      <3> QED
        BY <1>1, <1>4, <2>1, <2>2, <2>4, <3>2, InstalledMove
    <2> QED
      BY <1>2, <2>3, <2>4
  <1> QED
    BY <1>3, <1>4

LEMMA CompareKeepsCare ==
    ASSUME Shape, Care, NEW t \in Tasks, Compare(t), Sound'
    PROVE  Care'
  <1> DEFINE r == tasks[t]
             h == r.want
             f == library[h]
  <1>1. /\ r \in TaskRecords /\ WellFormed(r)
        /\ r.step \in {"compare", "exists"} /\ UNCHANGED <<library, data, link>>
    BY DEF Shape, TypeOK, Compare, names
  <1>2. h \in Hashes
    BY <1>1 DEF WellFormed
  <1>3. ~Meddled(h) /\ ~Downloading(h)
    BY DEF Compare, Sound, Spoilt
  <1>4. \/ /\ tasks' = [tasks EXCEPT ![t] = Closed(r)]
           /\ r.step = "compare" => Whole(h)
        \/ Goes(t, "overwrite")
    BY <1>1 DEF Compare, Becomes, Goes
  <1>5. CASE /\ tasks' = [tasks EXCEPT ![t] = Closed(r)]
             /\ r.step = "compare" => Whole(h)
    <2>1. r.kind = "copy" => r.step = "compare"
      BY <1>1 DEF WellFormed
    <2>2. ASSUME r.step = "compare" PROVE f # 0 /\ Good(f)
      <3>1. f # 0 /\ data[f] = WholeFile
        BY <1>5, <2>2 DEF Whole
      <3>2. \A u \in Tasks : Writes(tasks[u]) /\ tasks[u].file = f =>
               tasks[u].step \in LateSteps /\ tasks[u].flight # "none"
        BY <1>2, <1>3, WriterOf DEF Care
      <3>3. \A u \in Tasks : Writes(tasks[u]) /\ tasks[u].file = f =>
               tasks[u].step = "dropped" \/ Lands(tasks[u])
        BY <3>2 DEF LateSteps, Lands
      <3> QED
        BY <3>1, <3>3 DEF Good
    <2>3. PICK g : g = f
      OBVIOUS
    <2> QED
      BY <1>1, <1>5, <2>1, <2>2, <2>3, CloseKeepsCare
  <1>6. CASE Goes(t, "overwrite")
    BY <1>1, <1>6, GoKeepsCare
  <1> QED
    BY <1>4, <1>5, <1>6

LEMMA WriteFailsKeepsCare ==
    ASSUME Shape, Care, NEW t \in Tasks, WriteFails(t)
    PROVE  Care'
  <1>1. /\ UNCHANGED <<library, data, link>> /\ tasks[t].step \in {"compare", "overwrite", "write"}
    BY DEF WriteFails, names
  <1>2. CASE tasks[t].kind = "copy" /\ tasks[t].kept
    BY <1>1, <1>2, FailKeepsCare DEF WriteFails, WriteSteps
  <1>3. CASE ~(tasks[t].kind = "copy" /\ tasks[t].kept)
    <2>1. tasks' = [tasks EXCEPT ![t] = Closed(tasks[t])]
      BY <1>3 DEF WriteFails, Becomes
    <2> QED
      BY <1>1, <1>3, <2>1, CloseKeepsCare
  <1> QED
    BY <1>2, <1>3

\* A file is created by a download that found it wrong, or by a copy that met nobody.
LEMMA ResponseKeepsCare ==
    ASSUME Shape, Care, NEW t \in Tasks, Response(t)
    PROVE  Care'
  <1> DEFINE r == tasks[t]
             h == r.want
  <1>1. r.step = "request" /\ UNCHANGED link
    BY DEF Response
  <1>2. PICK f \in Files :
            /\ IF library[h] # 0 THEN f = library[h] ELSE f \notin Used
            /\ library' = [library EXCEPT ![h] = f]
            /\ data' = [data EXCEPT ![f] = <<>>]
            /\ tasks' = [tasks EXCEPT ![t] = Opened(r, "filelock", f)]
    BY DEF Response, Creates, Becomes, Opened
  <1>3. library[h] # 0 => /\ data[f] # WholeFile
                          /\ \A u \in Tasks : Writes(tasks[u]) => tasks[u].file # f
    BY <1>1, <1>2 DEF Care, Missing
  <1>4. library[h] # 0 => ~Good(f)
    BY <1>3 DEF Good, Lands, Writes
  <1>5. ASSUME NEW u \in Tasks, u # t, tasks[u].step = "request" PROVE tasks[u].want # h
    BY <1>1, <1>5 DEF Care, Locking, LockedSteps, DownloadSteps
  <1> QED
    BY <1>1, <1>2, <1>3, <1>4, <1>5, CreateKeepsCare

LEMMA OverwriteKeepsCare ==
    ASSUME Shape, Care, NEW t \in Tasks, Overwrite(t), Sound'
    PROVE  Care'
  <1> DEFINE r == tasks[t]
             h == r.want
  <1>1. r.step = "overwrite" /\ UNCHANGED link
    BY DEF Overwrite
  <1>2. PICK f \in Files :
            /\ IF library[h] # 0 THEN f = library[h] ELSE f \notin Used
            /\ library' = [library EXCEPT ![h] = f]
            /\ data' = [data EXCEPT ![f] = <<>>]
            /\ tasks' = [tasks EXCEPT ![t] = Opened(r, "write", f)]
    BY DEF Overwrite, Creates, Becomes, Opened
  <1>3. ~Whole(h) /\ ~LateWrite(h) /\ ~Meddled(h) /\ ~Downloading(h)
    BY DEF Overwrite, Sound, Spoilt
  <1>4. h \in Hashes
    BY <1>1 DEF Shape, WellFormed
  <1>5. library[h] # 0 => \A u \in Tasks : Writes(tasks[u]) => tasks[u].file # f
    BY <1>2, <1>3, <1>4, WriterOf DEF Care
  <1>6. library[h] # 0 => ~Good(f)
    BY <1>2, <1>3, <1>5 DEF Good, Lands, Writes, Whole
  <1>7. ASSUME NEW u \in Tasks, u # t, tasks[u].step = "request" PROVE tasks[u].want # h
    BY <1>3, <1>7 DEF Downloading, DownloadSteps
  <1> QED
    BY <1>1, <1>2, <1>5, <1>6, <1>7, CreateKeepsCare

\* A chunk that is written makes what was received grow on disk.
LEMMA NextChunk ==
    ASSUME NEW d \in Seq(Chunks), NEW n, NEW chunk \in Chunks, n = Len(d) + 1
    PROVE  /\ Len(WriteAt(d, n, chunk)) = n /\ WriteAt(d, n, chunk) \in Seq(Chunks)
           /\ chunk = "good" /\ (\A i \in 1..Len(d) : d[i] = "good") =>
                  \A i \in 1..Len(WriteAt(d, n, chunk)) : WriteAt(d, n, chunk)[i] = "good"
  <1> DEFINE x == Append(d, chunk)
  <1>1. WriteAt(d, n, chunk) = x
    BY NextChunkIsAppended
  <1>2. Len(x) = n /\ x \in Seq(Chunks)
    OBVIOUS
  <1>3. ASSUME chunk = "good", \A i \in 1..Len(d) : d[i] = "good", NEW i \in 1..Len(x) PROVE x[i] = "good"
    BY <1>3
  <1> QED
    BY <1>1, <1>2, <1>3

LEMMA WriteLandsKeepsCare ==
    ASSUME Shape, Care, NEW t \in Tasks, WriteLands(t), Sound'
    PROVE  Care'
  <1> DEFINE r == tasks[t]
             f == r.file
             d == data[f]
             x == WriteAt(d, r.count, r.flight)
             n == Landed(r)
  <1>1. /\ tasks \in [Tasks -> TaskRecords] /\ r \in TaskRecords /\ WellFormed(r)
        /\ r.flight # "none" /\ UNCHANGED <<library, link>>
        /\ tasks' = [tasks EXCEPT ![t] = n] /\ data' = [data EXCEPT ![f] = x]
        /\ data \in [Files -> Seq(Chunks)]
    BY DEF Shape, TypeOK, WriteLands, names, Becomes
  <1>2. /\ r.flight \in {"good", "bad"} /\ r.flight \in Chunks /\ r.count \in Nat \ {0} /\ f \in Files
        /\ Writes(r) /\ ~r.broken /\ r.step # "remove" /\ d \in Seq(Chunks)
        /\ r.step \in {"stream", "discard"} \cup LateSteps
        /\ r.flight = "bad" => ~r.pure
        /\ r.pure \in BOOLEAN
    BY <1>1 DEF WellFormed, Writes, TaskRecords, Chunks, LateSteps, InstalledSteps
  <1>3. Len(d) = r.count - 1 /\ (r.pure => \A i \in 1..Len(d) : d[i] = "good")
    BY <1>1, <1>2 DEF Care, Contents, OnDisk
  <1>4. r.count = Len(d) + 1
    BY <1>2, <1>3
  <1>5. Len(x) = r.count /\ (r.pure => \A i \in 1..Len(x) : x[i] = "good") /\ x \in Seq(Chunks)
    <2>1. /\ Len(x) = r.count /\ x \in Seq(Chunks)
          /\ r.flight = "good" /\ (\A i \in 1..Len(d) : d[i] = "good") => \A i \in 1..Len(x) : x[i] = "good"
      <3> DEFINE k == r.count
                 c == r.flight
      <3>1. c \in Chunks /\ d \in Seq(Chunks) /\ k = Len(d) + 1
        BY <1>2, <1>4
      <3> HIDE DEF k, c, d
      <3>2. /\ Len(WriteAt(d, k, c)) = k /\ WriteAt(d, k, c) \in Seq(Chunks)
            /\ c = "good" /\ (\A i \in 1..Len(d) : d[i] = "good") =>
                   \A i \in 1..Len(WriteAt(d, k, c)) : WriteAt(d, k, c)[i] = "good"
        BY <3>1, NextChunk
      <3> QED
        BY <3>2 DEF k, c
    <2>2. r.pure => r.flight = "good"
      BY <1>2
    <2> QED
      BY <1>3, <2>1, <2>2
  <1>6. /\ n.flight = "none"
        /\ IF r.step \in {"over", "dropped"} THEN n = Idle
           ELSE /\ Same(n, r) /\ n.step = r.step /\ n.locked = r.locked /\ n.file = f
                /\ n.count = r.count /\ n.pure = r.pure /\ n.broken = r.broken
    BY <1>1, LandedFacts
  <1>7. \A u \in Tasks : tasks'[u] = IF u = t THEN n ELSE tasks[u]
    BY <1>1
  <1>8. data'[f] = x
    BY <1>1, <1>2
  <1> HIDE DEF n, x
  <1>9. Writes(n) => r.step \in {"stream", "discard"} /\ n.step = r.step
    BY <1>2, <1>6, IdleFacts DEF Writes, OpenSteps, LateSteps, InstalledSteps
  <1>10. Held(r, n)
    BY <1>6, IdleFacts DEF Held, Same, Care, Locking, LockedSteps, DownloadSteps
  <1>11. n.step # "request"
    BY <1>2, <1>6, IdleFacts DEF LateSteps, InstalledSteps
  <1>12. Writes(n) => /\ n.file = f /\ n.want = r.want /\ Len(x) = OnDisk(n)
                      /\ n.pure => \A i \in 1..Len(x) : x[i] = "good"
    BY <1>2, <1>5, <1>6, <1>9 DEF Same, OnDisk
  <1>13. n.step \in OpenSteps => r.step \in OpenSteps
    BY <1>6, IdleFacts DEF OpenSteps
  <1>14. \A u \in Tasks : u # t /\ Writes(tasks[u]) => tasks[u].file # f
    BY <1>2 DEF Care, OneWriter
  <1>15. ASSUME NEW g, g = f, Good(f) PROVE Good(g)'
    <2>1. CASE Lands(r)
      <3>1. x = WholeFile
        BY <1>1, <1>5, <2>1, WholeFacts DEF WellFormed
      <3>2. ~Writes(n)
        BY <1>9, <2>1 DEF Lands, InstalledSteps
      <3>3. \A u \in Tasks : Writes(tasks'[u]) => tasks'[u].file # f
        BY <1>7, <1>14, <3>2
      <3> QED
        BY <1>8, <1>15, <3>1, <3>3 DEF Good, WholeFile
    <2>2. CASE ~Lands(r)
      <3>1. r.step = "dropped" /\ d = WholeFile
        BY <1>2, <1>14, <1>15, <2>2 DEF Good, Lands, Writes
      <3>2. Len(d) = Size
        BY <1>2, <3>1, WholeFacts
      <3>3. r.count > Size
        BY <1>2, <1>4, <3>2, ContentLibraryAssumption
      <3>4. "late write" \in troubles'
        BY <3>1, <3>3 DEF WriteLands
      <3> QED
        BY <3>4 DEF Sound, Spoilt
    <2> QED
      BY <2>1, <2>2
  <1>16. n.step \in InstalledSteps /\ n.kind # "override" =>
            /\ r.step \in InstalledSteps /\ r.kind # "override" /\ n.want = r.want
    BY <1>6, IdleFacts DEF Same, InstalledSteps
  <1> QED
    BY <1>1, <1>2, <1>10, <1>11, <1>12, <1>13, <1>15, <1>16, TouchKeepsCare

LEMMA DiscardKeepsCare ==
    ASSUME Shape, Care, NEW t \in Tasks, Discard(t)
    PROVE  Care'
  <1> DEFINE r == tasks[t]
             f == r.file
             n == [r EXCEPT !.step = "remove"]
  <1>1. /\ r \in TaskRecords /\ WellFormed(r)
        /\ r.step = "discard" /\ r.flight = "none" /\ UNCHANGED <<library, link>>
        /\ tasks' = [tasks EXCEPT ![t] = n] /\ data' = [data EXCEPT ![f] = <<>>]
    BY DEF Shape, TypeOK, Discard, names, Goes, Becomes
  <1>2. /\ f \in Files /\ Writes(r) /\ ~Lands(r) /\ r.locked
    BY <1>1 DEF WellFormed, Writes, Lands, OpenSteps, TaskRecords, Care, Locking, LockedSteps, DownloadSteps
  <1>3. ~Good(f)
    BY <1>1, <1>2, NotGood DEF Care
  <1>4. /\ n.step = "remove" /\ n.want = r.want /\ n.file = f /\ n.locked = r.locked
    BY <1>1 DEF TaskRecords
  <1> HIDE DEF n
  <1>5. OnDisk(n) = 0 /\ Len(<<>>) = 0
    BY <1>4 DEF OnDisk
  <1>6. /\ Held(r, n) /\ n.step # "request" /\ n.step \notin InstalledSteps
        /\ r.step \in OpenSteps
    BY <1>1, <1>2, <1>4 DEF Held, InstalledSteps, OpenSteps
  <1>7. n.pure => \A i \in 1..Len(<<>>) : <<>>[i] = "good"
    BY <1>5
  <1> QED
    BY <1>1, <1>2, <1>3, <1>4, <1>5, <1>6, <1>7, TouchKeepsCare

LEMMA WriteChunkKeepsCare ==
    ASSUME Shape, Care, NEW t \in Tasks, WriteChunk(t)
    PROVE  Care'
  <1> DEFINE r == tasks[t]
             f == r.file
             d == data[f]
             x == WriteAt(d, r.count + 1, "good")
  <1>1. /\ r \in TaskRecords /\ WellFormed(r) /\ tasks \in [Tasks -> TaskRecords]
        /\ r.step = "write" /\ UNCHANGED <<library, link>> /\ data' = [data EXCEPT ![f] = x]
        /\ data \in [Files -> Seq(Chunks)]
    BY DEF Shape, TypeOK, WriteChunk, names
  <1>2. /\ r.count \in Nat /\ r.flight = "none" /\ r.pure /\ ~r.broken /\ r.want \in Hashes
        /\ f \in Files /\ Writes(r) /\ ~Lands(r) /\ d \in Seq(Chunks) /\ ~r.locked
        /\ r.kind \in {"copy", "override"} /\ f # 0 /\ library[r.want] = f
    BY <1>1 DEF WellFormed, Writes, Lands, OpenSteps, WriteSteps, TaskRecords, LockedSteps, DownloadSteps,
                Care, Apart
  <1>3. ~Good(f)
    BY <1>1, <1>2, NotGood DEF Care
  <1>4. Len(d) = r.count /\ \A i \in 1..Len(d) : d[i] = "good"
    BY <1>1, <1>2 DEF Care, Contents, OnDisk
  <1>5. r.count + 1 \in Nat \ {0} /\ "good" \in Chunks /\ r.count + 1 = Len(d) + 1
    BY <1>2, <1>4 DEF Chunks
  <1>6. Len(x) = r.count + 1 /\ (\A i \in 1..Len(x) : x[i] = "good") /\ x \in Seq(Chunks)
    <2> DEFINE k == r.count + 1
               c == "good"
    <2>1. c \in Chunks /\ d \in Seq(Chunks) /\ k = Len(d) + 1
      BY <1>2, <1>5
    <2> HIDE DEF k, d
    <2>2. /\ Len(WriteAt(d, k, c)) = k /\ WriteAt(d, k, c) \in Seq(Chunks)
          /\ c = "good" /\ (\A i \in 1..Len(d) : d[i] = "good") =>
                 \A i \in 1..Len(WriteAt(d, k, c)) : WriteAt(d, k, c)[i] = "good"
      BY <2>1, NextChunk
    <2> QED
      BY <1>4, <2>2 DEF k, d
  <1>7. data'[f] = x
    BY <1>1, <1>2
  <1> HIDE DEF x
  <1>8. CASE r.count + 1 # Size
    <2> DEFINE n == [r EXCEPT !.count = @ + 1]
    <2>1. tasks' = [tasks EXCEPT ![t] = n]
      BY <1>8 DEF WriteChunk, Becomes
    <2>2. /\ Same(n, r) /\ n.step = "write" /\ n.locked = r.locked /\ n.file = f
          /\ n.count = r.count + 1 /\ n.pure = r.pure /\ n.flight = r.flight /\ n.broken = r.broken
      BY <1>1, <1>8, ChunkFacts
    <2> HIDE DEF n
    <2>3. /\ Held(r, n) /\ n.step # "request" /\ n.step \notin InstalledSteps /\ r.step \in OpenSteps
          /\ n.want = r.want
      BY <1>1, <1>2, <2>2 DEF Held, Same, InstalledSteps, OpenSteps, LockedSteps, DownloadSteps
    <2>4. Len(x) = OnDisk(n)
      BY <1>2, <1>6, <2>2 DEF OnDisk
    <2> QED
      BY <1>1, <1>2, <1>3, <1>6, <2>1, <2>2, <2>3, <2>4, TouchKeepsCare
  <1>9. CASE r.count + 1 = Size
    <2> DEFINE n == Closed(r)
    <2>1. tasks' = [tasks EXCEPT ![t] = n]
      BY <1>9 DEF WriteChunk, Becomes
    <2>2. /\ ~Writes(n) /\ Held(r, n) /\ n.step # "request" /\ n.step \notin OpenSteps
          /\ n.step \in InstalledSteps => n.want = r.want
      <3>1. CASE r.kept
        <4>1. n = Installed(r)
          BY <3>1 DEF Closed
        <4>2. /\ Held(r, n) /\ Calm(r, n) /\ n.step = "installed" /\ n.want = r.want
              /\ n.flight = r.flight
          BY <1>1, <3>1, <4>1, InstalledIsCalm
        <4> QED
          BY <1>2, <4>2 DEF Writes, OpenSteps
      <3>2. CASE ~r.kept
        <4>1. n = Idle
          BY <3>2 DEF Closed
        <4> QED
          BY <1>1, <1>2, <4>1, IdleFacts, IdleIsQuiet DEF OpenSteps, InstalledSteps
      <3> QED
        BY <3>1, <3>2
    <2> HIDE DEF n
    <2>3. ASSUME NEW g, g = f PROVE Good(g)'
      <3>1. x = WholeFile
        BY <1>6, <1>9, WholeFacts
      <3>2. \A u \in Tasks : tasks'[u] = IF u = t THEN n ELSE tasks[u]
        BY <1>1, <2>1
      <3>3. \A u \in Tasks : Writes(tasks'[u]) => tasks'[u].file # f
        BY <1>2, <2>2, <3>2 DEF Care, OneWriter
      <3> QED
        BY <1>7, <2>3, <3>1, <3>3 DEF Good, WholeFile
    <2> QED
      BY <1>1, <1>2, <1>3, <2>1, <2>2, <2>3, TouchKeepsCare
  <1> QED
    BY <1>8, <1>9

\* A task of an installation links a file that it has installed.
LEMMA UnlinkedHasAFile ==
    ASSUME Shape, Care, NEW t \in Tasks, tasks[t].step = "unlinked"
    PROVE  /\ phase[Owner[t]] = "linking" /\ tasks[t].kept /\ tasks[t].want \in Hashes
           /\ library[tasks[t].want] # 0 /\ Good(library[tasks[t].want])
  <1>1. WellFormed(tasks[t]) /\ InPhase(Owner[t]) /\ t \in Mine(Owner[t])
    BY OwnerType DEF Shape, Mine
  <1>2. tasks[t].kept /\ tasks[t].want \in Hashes /\ phase[Owner[t]] = "linking"
    BY <1>1 DEF WellFormed, InPhase, InstalledSteps
  <1>3. t \in Current(Owner[t])
    BY <1>1, <1>2 DEF Current
  <1>4. tasks[t].kind # "override"
    BY <1>1, <1>2, <1>3 DEF InPhase
  <1> QED
    BY <1>2, <1>4 DEF Care, InstalledIsGood, InstalledSteps

LEMMA LinkNewKeepsCare ==
    ASSUME Shape, Care, NEW t \in Tasks, LinkNew(t)
    PROVE  Care'
  <1>1. /\ tasks[t].step = "unlinked" /\ Goes(t, "linked") /\ UNCHANGED <<library, data>>
        /\ link' = link \/ link' = [link EXCEPT ![t] = library[tasks[t].want]]
        /\ link \in [Tasks -> Files \cup {0}]
    BY DEF LinkNew, Shape, TypeOK
  <1>2. Good(library[tasks[t].want])
    BY <1>1, UnlinkedHasAFile
  <1>3. \A u \in Tasks : link'[u] # 0 => link'[u] = link[u] \/ Good(link'[u])
    <2> SUFFICES ASSUME NEW u \in Tasks, link'[u] # link[u] PROVE link'[u] = library[tasks[t].want]
      BY <1>2
    <2> QED
      BY <1>1
  <1> QED
    BY <1>1, <1>3, GoKeepsCare

LEMMA CareStays ==
    ASSUME Shape, Care, [Next]_vars, Sound'
    PROVE  Care'
  <1>1. ASSUME NEW t \in Tasks, FileStep(t) PROVE Care'
    <2>1. ASSUME TakePermit(t) \/ RemoveOld(t) PROVE Care'
      <3>1. \E s : /\ Goes(t, s) /\ UNCHANGED <<library, data, link>>
                   /\ <<tasks[t].step, s>> \in {<<"permit", "check">>, <<"installed", "unlinked">>}
        BY <2>1 DEF TakePermit, RemoveOld, names
      <3> QED
        BY <3>1, GoKeepsCare
    <2>2. ASSUME DownloadFails(t) PROVE Care'
      <3>1. Fails(t) /\ tasks[t].kept /\ tasks[t].step \in DownloadSteps \cup WriteSteps
        BY <2>2, ShapeHasTasks, TaskFails
      <3> QED
        BY <2>2, <3>1, FailKeepsCare DEF DownloadFails, names
    <2>3. ASSUME ReceiveChunk(t), tasks[t].broken PROVE Care'
      <3>1. Fails(t) /\ tasks[t].kept /\ tasks[t].step \in DownloadSteps \cup WriteSteps
        BY <2>3, ShapeHasTasks, TaskFails
      <3> QED
        BY <2>3, <3>1, FailKeepsCare DEF ReceiveChunk, names
    <2>4. ASSUME ReceiveChunk(t) PROVE Care'
      BY <2>3, <2>4, ReceiveKeepsCare
    <2> QED
      BY <1>1, <2>1, <2>2, <2>4, TakeLockKeepsCare, CheckKeepsCare, ResponseKeepsCare,
         EndOfStreamKeepsCare, DiscardKeepsCare, RemoveKeepsCare, LinkNewKeepsCare DEF FileStep
  <1>2. ASSUME NEW t \in Tasks, PoolStep(t) PROVE Care'
    <2>1. ASSUME LockFile(t) PROVE Care'
      BY <2>1, GoKeepsCare DEF LockFile, names
    <2> QED
      BY <1>2, <2>1, WriteLandsKeepsCare, WriteLostKeepsCare, CompareKeepsCare, OverwriteKeepsCare,
         WriteChunkKeepsCare, WriteFailsKeepsCare DEF PoolStep
  <1>3. ASSUME NEW l \in Launchers, LauncherStep(l) PROVE Care'
    <2>1. RequestEnds(l) \/ PlaceOverrides(l) \/ UNCHANGED tasks
      BY <1>3 DEF LauncherStep, RequestEnds, BeginLinking, StartGame
    <2>2. UNCHANGED <<library, data, link>>
      BY <1>3, RequestStepTypes DEF names
    <2> QED
      BY <2>1, <2>2, EndKeepsCare, StartKeepsCare
  <1>4. ASSUME NEW l \in Launchers, StartInstall(l) \/ StartLaunch(l) PROVE Care'
    <2>1. UNCHANGED <<library, data, link>>
      BY <1>4, RequestStepTypes DEF names
    <2> QED
      BY <1>4, <2>1, StartKeepsCare
  <1>5. ASSUME NEW l \in Launchers, CancelLaunch(l) PROVE Care'
    BY <1>5, EndKeepsCare DEF RequestEnds
  <1>6. ASSUME NEW l \in Launchers, Crash(l) PROVE Care'
    BY <1>6, CrashKeepsCare
  <1>7. ASSUME UNCHANGED vars PROVE Care'
    BY <1>7 DEF vars, names, Care, Locking, Apart, OneWriter, Missing, Contents, InstalledIsGood,
                LinkedIsGood, Good
  <1> QED
    BY <1>1, <1>2, <1>3, <1>4, <1>5, <1>6, <1>7 DEF Next, Work

LEMMA CareAtFirst == Init => Care
  <1> SUFFICES ASSUME Init PROVE Care
    OBVIOUS
  <1>1. \A t \in Tasks : tasks[t] = Idle /\ link[t] = 0
    BY DEF Init
  <1>2. \A h \in Hashes : library[h] = 0
    BY DEF Init
  <1> QED
    BY <1>1, <1>2, IdleFacts
    DEF Care, Locking, Apart, OneWriter, Missing, Contents, InstalledIsGood, LinkedIsGood,
        LockedSteps, DownloadSteps, OpenSteps, InstalledSteps

-----------------------------------------------------------------------------
(* Updates.                                                                 *)

\* Between the removal of the old file and the link to the new one, only the
\* link and the end of the launcher are next for a task.
LEMMA UnlinkedStays ==
    ASSUME Shape, [Next]_vars, NEW t \in Tasks, tasks[t].step = "unlinked", phase[Owner[t]] = "linking",
           ~LinkNew(t), ~Crash(Owner[t])
    PROVE  tasks'[t].step = "unlinked" /\ phase'[Owner[t]] = "linking"
  <1> DEFINE l == Owner[t]
  <1>1. /\ l \in Launchers /\ InPhase(l) /\ t \in Mine(l) /\ t \in Current(l) /\ tasks[t].kept
        /\ ~launch[l] /\ TasksOK /\ WellFormed(tasks[t])
    <2>1. l \in Launchers /\ InPhase(l) /\ t \in Mine(l) /\ WellFormed(tasks[t]) /\ TasksOK
      BY OwnerType, ShapeHasTasks DEF Shape, Mine
    <2> QED
      BY <2>1 DEF WellFormed, InstalledSteps, InPhase, Current
  <1>2. \A u \in Current(l) : tasks[u].step \in InstalledSteps
    BY <1>1 DEF InPhase
  <1>3. ASSUME NEW k \in Launchers, k # l, NEW S, Leaves(k, S)
        PROVE  tasks'[t].step = "unlinked" /\ phase'[l] = "linking"
    BY <1>1, <1>3 DEF Leaves, Mine, Ends, Enters, TasksOK
  <1>4. ASSUME NEW u \in Tasks, u # t, NEW n, Moves(u, n)
        PROVE  tasks'[t].step = "unlinked" /\ phase'[l] = "linking"
    BY <1>1, <1>4 DEF Moves, Becomes, requestVars, TasksOK
  <1>5. ASSUME NEW u \in Tasks, Fails(u), tasks[u].kept, tasks[u].step \in DownloadSteps \cup WriteSteps
        PROVE  tasks'[t].step = "unlinked" /\ phase'[l] = "linking"
    <2>1. PICK S : Leaves(Owner[u], S)
      BY <1>1, <1>5, FailsLeaves
    <2>2. Owner[u] # l
      BY <1>2, <1>5 DEF Current, Mine, DownloadSteps, WriteSteps, InstalledSteps
    <2> QED
      BY <1>3, <2>1, <2>2, OwnerType
  <1>6. ASSUME NEW u \in Tasks, PoolStep(u) \/ FileStep(u)
        PROVE  tasks'[t].step = "unlinked" /\ phase'[l] = "linking"
    <2>1. ASSUME \/ DownloadFails(u) \/ (ReceiveChunk(u) /\ tasks[u].broken) \/ Remove(u)
                 \/ WriteFails(u) /\ tasks[u].kind = "copy" /\ tasks[u].kept
          PROVE  tasks'[t].step = "unlinked" /\ phase'[l] = "linking"
      <3>1. Fails(u) /\ tasks[u].kept /\ tasks[u].step \in DownloadSteps \cup WriteSteps
        BY <1>1, <2>1, TaskFails
      <3> QED
        BY <1>5, <3>1
    <2>2. ASSUME u = t PROVE tasks'[t].step = "unlinked" /\ phase'[l] = "linking"
      <3>1. WriteLands(t) \/ WriteLost(t)
        BY <1>6, <2>2
        DEF PoolStep, LockFile, Compare, Overwrite, WriteChunk, WriteFails,
            FileStep, TakeLock, TakePermit, CheckDisk, Response, ReceiveChunk, EndOfStream,
            DownloadFails, Discard, Remove, RemoveOld
      <3>2. /\ tasks[t].flight # "none" /\ UNCHANGED phase /\ tasks[t] \in TaskRecords
            /\ tasks \in [Tasks -> TaskRecords]
        BY <1>1, <3>1 DEF WriteLands, WriteLost, requestVars, TasksOK
      <3>3. CASE WriteLands(t)
        <4>1. tasks' = [tasks EXCEPT ![t] = Landed(tasks[t])]
          BY <3>3 DEF WriteLands, Becomes
        <4>2. Landed(tasks[t]).step = "unlinked"
          BY <1>1, <3>2, LandedFacts
        <4> QED
          BY <3>2, <4>1, <4>2
      <3>4. CASE WriteLost(t)
        <4> DEFINE n == Lost(tasks[t])
        <4>1. tasks' = [tasks EXCEPT ![t] = n]
          BY <3>4 DEF WriteLost, Becomes, Lost
        <4>2. n.step = "unlinked"
          BY <1>1, <3>2, LostFacts
        <4> QED
          BY <3>2, <4>1, <4>2
      <3> QED
        BY <3>1, <3>3, <3>4
    <2>3. ASSUME u # t, NEW n, Moves(u, n) PROVE tasks'[t].step = "unlinked" /\ phase'[l] = "linking"
      BY <1>4, <2>3
    <2>4. ASSUME u # t,
                 \/ TakeLock(u) \/ TakePermit(u) \/ CheckDisk(u) \/ Response(u) \/ LockFile(u)
                 \/ ReceiveChunk(u) /\ ~tasks[u].broken
                 \/ EndOfStream(u) \/ Discard(u)
          PROVE  tasks'[t].step = "unlinked" /\ phase'[l] = "linking"
      <3>1. \E n : Moves(u, n)
        BY <1>1, <2>4, DownloadMoves
      <3> QED
        BY <2>3, <2>4, <3>1
    <2>5. ASSUME u # t,
                 \/ WriteLands(u) \/ WriteLost(u) \/ Compare(u) \/ Overwrite(u) \/ WriteChunk(u)
                 \/ WriteFails(u) /\ ~(tasks[u].kind = "copy" /\ tasks[u].kept)
          PROVE  tasks'[t].step = "unlinked" /\ phase'[l] = "linking"
      <3>1. \E n : Moves(u, n)
        BY <1>1, <2>5, PoolMoves
      <3> QED
        BY <2>3, <2>5, <3>1
    <2>6. ASSUME u # t, RemoveOld(u) \/ LinkNew(u)
          PROVE  tasks'[t].step = "unlinked" /\ phase'[l] = "linking"
      <3>1. \E n : Moves(u, n)
        BY <1>1, <2>6, LinkMoves
      <3> QED
        BY <2>3, <2>6, <3>1
    <2>7. ASSUME u # t PROVE tasks'[t].step = "unlinked" /\ phase'[l] = "linking"
      <3>1. \/ WriteFails(u) \/ ReceiveChunk(u)
            \/ TakeLock(u) \/ TakePermit(u) \/ CheckDisk(u) \/ Response(u) \/ LockFile(u)
            \/ EndOfStream(u) \/ Discard(u)
            \/ WriteLands(u) \/ WriteLost(u) \/ Compare(u) \/ Overwrite(u) \/ WriteChunk(u)
            \/ RemoveOld(u) \/ LinkNew(u) \/ DownloadFails(u) \/ Remove(u)
        BY <1>6 DEF PoolStep, FileStep
      <3>2. ASSUME WriteFails(u) PROVE tasks'[t].step = "unlinked" /\ phase'[l] = "linking"
        BY <2>1, <2>5, <2>7, <3>2
      <3>3. ASSUME ReceiveChunk(u) PROVE tasks'[t].step = "unlinked" /\ phase'[l] = "linking"
        BY <2>1, <2>4, <2>7, <3>3
      <3> QED
        BY <2>1, <2>4, <2>5, <2>6, <2>7, <3>1, <3>2, <3>3
    <2> QED
      BY <2>2, <2>7
  <1>7. ASSUME NEW k \in Launchers, k # l,
               LauncherStep(k) \/ StartInstall(k) \/ StartLaunch(k) \/ CancelLaunch(k) \/ Crash(k)
        PROVE  tasks'[t].step = "unlinked" /\ phase'[l] = "linking"
    <2>1. CASE RequestEnds(k)
      BY <1>1, <1>3, <1>7, <2>1, RequestEnding, EndLeaves
    <2>2. CASE Crash(k)
      BY <1>1, <1>3, <1>7, <2>2, CrashLeaves
    <2>3. CASE StartInstall(k) \/ StartLaunch(k)
      <3>1. \E s : phase' = [phase EXCEPT ![k] = s]
        BY <2>3 DEF StartInstall, StartLaunch
      <3>2. tasks'[t] = tasks[t]
        BY <1>7, <2>3 DEF StartInstall, StartLaunch, Free, Mine
      <3> QED
        BY <1>1, <1>7, <3>1, <3>2 DEF TasksOK
    <2>4. CASE LauncherStep(k) /\ ~RequestEnds(k)
      <3>1. /\ \E s : phase' = [phase EXCEPT ![k] = s]
            /\ UNCHANGED tasks \/ PlaceOverrides(k)
        BY <2>4 DEF LauncherStep, RequestEnds, BeginLinking, StartGame, PlaceOverrides, Enters
      <3>2. tasks'[t] = tasks[t]
        BY <1>7, <3>1 DEF PlaceOverrides, Current, Mine
      <3> QED
        BY <1>1, <1>7, <3>1, <3>2 DEF TasksOK
    <2> QED
      BY <1>7, <2>1, <2>2, <2>3, <2>4 DEF RequestEnds
  <1>8. ASSUME LauncherStep(l) \/ StartInstall(l) \/ StartLaunch(l) \/ CancelLaunch(l)
        PROVE  FALSE
    BY <1>1, <1>8 DEF LauncherStep, StartInstall, StartLaunch, CancelLaunch, BeginLinking, FinishInstall,
                      PlaceOverrides, StartGame, FinishLaunch
  <1>9. CASE UNCHANGED vars
    BY <1>9 DEF vars, requestVars
  <1> QED
    BY <1>6, <1>7, <1>8, <1>9 DEF Next, Work

LEMMA UpdateStays ==
    ASSUME Shape, Sound => Care, UpdateKeepsAVersion, [Next]_vars
    PROVE  UpdateKeepsAVersion'
  <1> SUFFICES ASSUME NEW t \in Tasks, Sound', "not linked" \notin troubles'
               PROVE  old'[t] \/ link'[t] # 0 \/ (tasks'[t].step = "unlinked" /\ phase'[Owner[t]] = "linking")
    BY DEF UpdateKeepsAVersion
  <1>1. Sound /\ Care
    BY TroublesGrow
  <1>2. "not linked" \notin troubles
    <2>1. ASSUME NEW u \in Tasks, PoolStep(u) \/ FileStep(u) PROVE troubles \subseteq troubles'
      BY <2>1 DEF PoolStep, LockFile, WriteLands, WriteLost, Compare, Overwrite, WriteChunk, WriteFails,
                  FileStep, TakeLock, TakePermit, CheckDisk, Response, ReceiveChunk, EndOfStream,
                  DownloadFails, Discard, Remove, RemoveOld, LinkNew
    <2>2. ASSUME NEW l \in Launchers,
                 LauncherStep(l) \/ StartInstall(l) \/ StartLaunch(l) \/ CancelLaunch(l) \/ Crash(l)
          PROVE  troubles \subseteq troubles'
      BY <2>2 DEF LauncherStep, StartInstall, StartLaunch, CancelLaunch, Crash, BeginLinking, FinishInstall,
             PlaceOverrides, StartGame, FinishLaunch
    <2>3. troubles \subseteq troubles'
      BY <2>1, <2>2 DEF Next, Work, vars
    <2> QED
      BY <2>3
  <1>3. /\ link \in [Tasks -> Files \cup {0}] /\ old \in [Tasks -> BOOLEAN]
        /\ tasks \in [Tasks -> TaskRecords]
    BY DEF Shape, TypeOK
  <1>4. \/ UNCHANGED <<link, old>>
        \/ \E u \in Tasks : RemoveOld(u) \/ LinkNew(u)
    <2>1. ASSUME NEW u \in Tasks, PoolStep(u) \/ FileStep(u), ~RemoveOld(u), ~LinkNew(u)
          PROVE  UNCHANGED <<link, old>>
      BY <2>1 DEF PoolStep, LockFile, WriteLands, WriteLost, Compare, Overwrite, WriteChunk, WriteFails,
                  FileStep, TakeLock, TakePermit, CheckDisk, Response, ReceiveChunk, EndOfStream,
                  DownloadFails, Discard, Remove, names
    <2>2. ASSUME NEW l \in Launchers,
                 LauncherStep(l) \/ StartInstall(l) \/ StartLaunch(l) \/ CancelLaunch(l) \/ Crash(l)
          PROVE  UNCHANGED <<link, old>>
      BY <2>2, RequestStepTypes DEF names
    <2> QED
      BY <2>1, <2>2 DEF Next, Work, vars, names
  <1>5. CASE LinkNew(t)
    <2>1. tasks[t].step = "unlinked" /\ library[tasks[t].want] # 0
      BY <1>1, <1>5, UnlinkedHasAFile DEF LinkNew
    <2>2. CASE link[t] # 0
      BY <1>3, <1>5, <2>2 DEF LinkNew
    <2>3. CASE link[t] = 0
      BY <1>3, <1>5, <2>1, <2>3 DEF LinkNew
    <2> QED
      BY <2>2, <2>3
  <1>6. CASE RemoveOld(t)
    <2>1. /\ tasks' = [tasks EXCEPT ![t] = [tasks[t] EXCEPT !.step = "unlinked"]]
          /\ phase[Owner[t]] = "linking" /\ UNCHANGED phase
      BY <1>6 DEF RemoveOld, Goes, Becomes, requestVars
    <2>2. tasks[t] \in TaskRecords
      BY <1>3
    <2>3. [tasks[t] EXCEPT !.step = "unlinked"].step = "unlinked"
      BY <2>2 DEF TaskRecords
    <2> QED
      BY <1>3, <2>1, <2>3
  <1>7. CASE ~LinkNew(t) /\ ~RemoveOld(t)
    <2>1. old[t] = old'[t] /\ link'[t] = link[t]
      BY <1>3, <1>4, <1>7 DEF RemoveOld, LinkNew
    <2>2. CASE tasks[t].step = "unlinked" /\ phase[Owner[t]] = "linking"
      <3>1. ~Crash(Owner[t])
        <4>1. ASSUME Crash(Owner[t]) PROVE FALSE
          BY <2>2, <4>1 DEF Crash, Mine
        <4> QED
          BY <4>1
      <3> QED
        BY <1>7, <2>2, <3>1, UnlinkedStays
    <2>3. CASE ~(tasks[t].step = "unlinked" /\ phase[Owner[t]] = "linking")
      BY <1>1, <1>2, <2>1, <2>3 DEF UpdateKeepsAVersion
    <2> QED
      BY <2>2, <2>3
  <1> QED
    BY <1>5, <1>6, <1>7

-----------------------------------------------------------------------------
(* The results.                                                             *)

LEMMA InvariantAtFirst == Init => IInv
  BY ShapeAtFirst, CareAtFirst DEF IInv, Init, UpdateKeepsAVersion

LEMMA InvariantStays == IInv /\ [Next]_vars => IInv'
  <1> SUFFICES ASSUME IInv, [Next]_vars PROVE IInv'
    OBVIOUS
  <1>1. Shape'
    BY ShapeStays DEF IInv
  <1>2. Sound' => Care'
    BY TroublesGrow, CareStays DEF IInv
  <1>3. UpdateKeepsAVersion'
    BY UpdateStays DEF IInv
  <1> QED
    BY <1>1, <1>2, <1>3 DEF IInv

THEOREM Invariant == Spec => []IInv
  BY InvariantAtFirst, InvariantStays, PTL DEF Spec

\* The tasks, the files and the requests of the library stay what they are meant to
\* be (install_content.rs, lockfile.rs).
THEOREM TypesAndPhases == Spec => []Shape
  <1>1. IInv => Shape
    BY DEF IInv
  <1> QED
    BY <1>1, Invariant, PTL

\* Whatever other installations, launchers and crashes do, an instance is given
\* whole files, and is launched with them (install_content.rs:387-465,
\* backend_handler.rs:161).
THEOREM WholeFilesArePlayed == Spec => []InstancesPlayWholeFiles
  <1>1. ASSUME NEW f, Good(f) PROVE data[f] = WholeFile \/ Landing(f)
    BY <1>1 DEF Good, Lands, Landing
  <1>2. IInv => LinkedFilesAreWhole
    BY <1>1 DEF IInv, Care, LinkedIsGood, LinkedFilesAreWhole
  <1>3. ASSUME IInv, NEW l \in Launchers, phase[l] = "launched", Sound, NEW h \in needs[l]
        PROVE  Whole(h) \/ (library[h] # 0 /\ Landing(library[h]))
    <2>1. InPhase(l) /\ Care
      BY <1>3 DEF IInv, Shape
    <2>2. PICK t \in Current(l) :
             tasks[t].kind = "download" /\ tasks[t].want = h /\ tasks[t].step = "installed"
      BY <1>3, <2>1 DEF InPhase
    <2>3. library[h] # 0 /\ Good(library[h])
      BY <2>1, <2>2 DEF Care, InstalledIsGood, InstalledSteps, Current, Mine
    <2> QED
      BY <1>1, <2>3 DEF Whole
  <1>4. IInv => InstancesPlayWholeFiles
    BY <1>2, <1>3 DEF InstancesPlayWholeFiles, LaunchHasItsFiles
  <1> QED
    BY <1>4, Invariant, PTL

\* An update takes the old version of a file away only if it puts the new one
\* there (install_content.rs:278-337).
THEOREM UpdatesKeepAVersion == Spec => []UpdateKeepsAVersion
  <1>1. IInv => UpdateKeepsAVersion
    BY DEF IInv
  <1> QED
    BY <1>1, Invariant, PTL

\* A whole file of the library survives every step but those of the download
\* that has it in hand.
LEMMA WholeFileSurvives ==
    ASSUME IInv, [Next]_vars, Sound', NEW h \in Hashes, Whole(h), ~Written(h)
    PROVE  Whole(h)'
  <1> DEFINE f == library[h]
  <1>1. Shape /\ Sound /\ Care
    BY TroublesGrow DEF IInv
  <1>2. f # 0 /\ data[f] = WholeFile /\ f \in Files /\ data[f] \in Seq(Chunks)
    BY <1>1 DEF Whole, Shape, TypeOK
  <1>3. Len(data[f]) = Size
    BY <1>2, WholeFacts
  <1>4. ASSUME library'[h] = library[h], data'[f] = data[f] PROVE Whole(h)'
    BY <1>2, <1>4 DEF Whole, WholeFile
  <1>5. ASSUME NEW t \in Tasks, NEW s, Creates(t, s), tasks[t].step \in {"request", "overwrite"},
               tasks[t].want # h
        PROVE  Whole(h)'
    <2>1. PICK g \in Files :
             /\ IF library[tasks[t].want] # 0 THEN g = library[tasks[t].want] ELSE g \notin Used
             /\ library' = [library EXCEPT ![tasks[t].want] = g]
             /\ data' = [data EXCEPT ![g] = <<>>]
      BY <1>5 DEF Creates
    <2>2. tasks[t].want \in Hashes
      BY <1>1, <1>5 DEF Shape, WellFormed
    <2>3. g # f
      BY <1>1, <1>2, <1>5, <2>1, <2>2 DEF Used, Care, Apart
    <2> QED
      BY <1>1, <1>4, <1>5, <2>1, <2>3 DEF Shape, TypeOK
  <1>6. ASSUME NEW t \in Tasks, Response(t) PROVE Whole(h)'
    <2>1. tasks[t].step = "request" /\ Creates(t, "filelock")
      BY <1>6 DEF Response
    <2>2. tasks[t].want # h
      BY <1>1, <1>2, <2>1 DEF Care, Missing
    <2> QED
      BY <1>5, <2>1, <2>2
  <1>7. ASSUME NEW t \in Tasks, Overwrite(t) PROVE Whole(h)'
    <2>1. tasks[t].step = "overwrite" /\ Creates(t, "write")
      BY <1>7 DEF Overwrite
    <2>2. tasks[t].want # h
      BY <1>7 DEF Overwrite, Sound, Spoilt
    <2> QED
      BY <1>5, <2>1, <2>2
  <1>8. ASSUME NEW t \in Tasks, WriteLands(t) PROVE Whole(h)'
    <2>1. /\ tasks[t].flight # "none" /\ UNCHANGED library
          /\ data' = [data EXCEPT ![tasks[t].file] = WriteAt(@, tasks[t].count, tasks[t].flight)]
          /\ tasks[t] \in TaskRecords /\ WellFormed(tasks[t]) /\ data \in [Files -> Seq(Chunks)]
      BY <1>1, <1>8 DEF WriteLands, names, Shape, TypeOK
    <2>2. ASSUME tasks[t].file = f PROVE FALSE
      <3>1. Writes(tasks[t]) /\ tasks[t].want = h
        BY <1>1, <2>1, <2>2 DEF Writes, Care, Apart
      <3>2. tasks[t].step \in LateSteps
        BY <2>1, <3>1 DEF WellFormed, Written
      <3>3. OnDisk(tasks[t]) = tasks[t].count - 1
        BY <2>1, <3>2 DEF OnDisk, LateSteps, InstalledSteps
      <3>4. Size = tasks[t].count - 1 /\ tasks[t].count \in Nat
        BY <1>1, <1>3, <2>1, <2>2, <3>1, <3>3 DEF Care, Contents, TaskRecords
      <3>5. tasks[t].count > Size
        BY <3>4, ContentLibraryAssumption
      <3>6. ~Lands(tasks[t])
        BY <2>1, <3>4, <3>5 DEF WellFormed
      <3>7. tasks[t].step = "dropped"
        BY <2>1, <3>2, <3>6 DEF Lands, LateSteps
      <3> QED
        BY <1>8, <3>5, <3>7 DEF WriteLands, Sound, Spoilt
    <2> QED
      BY <1>4, <2>1, <2>2
  <1>9. ASSUME NEW t \in Tasks, WriteChunk(t) PROVE Whole(h)'
    <2>1. /\ tasks[t].step = "write" /\ UNCHANGED library
          /\ data' = [data EXCEPT ![tasks[t].file] = WriteAt(@, tasks[t].count + 1, "good")]
          /\ tasks[t] \in TaskRecords /\ WellFormed(tasks[t]) /\ data \in [Files -> Seq(Chunks)]
      BY <1>1, <1>9 DEF WriteChunk, names, Shape, TypeOK
    <2>2. ASSUME tasks[t].file = f PROVE FALSE
      <3>1. Writes(tasks[t]) /\ tasks[t].flight = "none" /\ ~tasks[t].broken
        BY <2>1 DEF Writes, OpenSteps, WellFormed, WriteSteps
      <3>2. Size = tasks[t].count /\ tasks[t].count < Size
        BY <1>1, <1>3, <2>1, <2>2, <3>1 DEF Care, Contents, OnDisk, WellFormed
      <3> QED
        BY <3>2, ContentLibraryAssumption
    <2> QED
      BY <1>4, <2>1, <2>2
  <1>10. ASSUME NEW t \in Tasks, Discard(t) \/ Remove(t) PROVE Whole(h)'
    <2>1. tasks[t].step \in {"discard", "remove"} /\ Writes(tasks[t])
      BY <1>10 DEF Discard, Remove, Writes, OpenSteps
    <2>2. tasks[t].want # h /\ tasks[t].file # f
      BY <1>1, <2>1 DEF Written, Care, Apart
    <2>3. CASE Discard(t)
      BY <1>4, <2>2, <2>3 DEF Discard, names
    <2>4. CASE Remove(t)
      BY <1>4, <2>2, <2>4 DEF Remove
    <2> QED
      BY <1>10, <2>3, <2>4
  <1>11. ASSUME NEW t \in Tasks, PoolStep(t) PROVE Whole(h)'
    <2>1. ASSUME LockFile(t) \/ WriteLost(t) \/ Compare(t) \/ WriteFails(t) PROVE Whole(h)'
      BY <1>4, <2>1 DEF LockFile, WriteLost, Compare, WriteFails, names
    <2> QED
      BY <1>7, <1>8, <1>9, <1>11, <2>1 DEF PoolStep
  <1>12. ASSUME NEW t \in Tasks, FileStep(t) PROVE Whole(h)'
    <2>1. ASSUME \/ TakeLock(t) \/ TakePermit(t) \/ CheckDisk(t) \/ ReceiveChunk(t) \/ EndOfStream(t)
                 \/ DownloadFails(t) \/ RemoveOld(t) \/ LinkNew(t)
          PROVE  Whole(h)'
      BY <1>4, <2>1 DEF TakeLock, TakePermit, CheckDisk, ReceiveChunk, EndOfStream, DownloadFails,
                        RemoveOld, LinkNew, names
    <2> QED
      BY <1>6, <1>10, <1>12, <2>1 DEF FileStep
  <1>13. ASSUME NEW l \in Launchers,
                LauncherStep(l) \/ StartInstall(l) \/ StartLaunch(l) \/ CancelLaunch(l) \/ Crash(l)
         PROVE  Whole(h)'
    BY <1>1, <1>4, <1>13, RequestStepTypes DEF names
  <1>14. ASSUME UNCHANGED vars PROVE Whole(h)'
    BY <1>4, <1>14 DEF vars, names
  <1> QED
    BY <1>11, <1>12, <1>13, <1>14 DEF Next, Work

\* A file of the library that is right is touched by nobody but the download that
\* wrote it (install_content.rs:387-465).
THEOREM WholeFilesAreLeftAlone == Spec => WholeFilesStay
  <1>1. IInv /\ [Next]_vars =>
           [Sound' => \A h \in Hashes : Whole(h) /\ ~Written(h) => Whole(h)']_vars
    BY WholeFileSurvives
  <1> QED
    BY <1>1, Invariant, PTL DEF Spec, WholeFilesStay
=============================================================================
