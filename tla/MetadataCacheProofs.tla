-------------------------- MODULE MetadataCacheProofs --------------------------
(***************************************************************************)
(* Theorems about MetadataCache, for any set of tasks, any number of       *)
(* editions and any bounds.                                                *)
(*                                                                         *)
(* The invariant says what the mutex protects: who awaits a download holds *)
(* it, and the entry is about that download meanwhile (Mutex); a handle    *)
(* is the handle of the last download (Handles); what a download may hold  *)
(* (Genuine), and that it asked the server after it began (Fresh).         *)
(***************************************************************************)
EXTENDS MetadataCache, FiniteSetTheorems, TLAPS

Limits == {"failures", "expiries", "fetches", "forced"}
TaskStates ==
    [pc : {"idle", "lock", "await", "send"}, kind : {None, "fetch", "request", "force"},
     result : Nat, valid : Nat, asked : Nat]

TypeOK ==
    /\ item \in Items
    /\ remote \in Editions
    /\ left \in [Limits -> Nat]
    /\ file \in Contents
    /\ \E n \in Nat : downloads \in [1..n -> Downloads]
    /\ state \in [arm : {"Unloaded", "Pending", "Loaded", "Error"}, download : Nat]
    /\ handle \in Nat
    /\ expired \in Nat
    /\ lock \in Tasks \cup {None}
    /\ tasks \in [Tasks -> TaskStates]
    /\ page \in [arm : {"none", "Loading", "Loaded"}, result : Nat, valid : Nat]
    /\ inbox \subseteq {"request", "force"}

Done(d) == d \in DOMAIN downloads /\ downloads[d].step = "done"

\* Who awaits has the mutex, and the entry is about what it awaits.
Mutex ==
    /\ \A t \in Tasks : tasks[t].pc = "await" =>
          /\ lock = t
          /\ state = [arm |-> "Pending", download |-> tasks[t].result]
          /\ tasks[t].valid = handle
    /\ state.arm # "Unloaded" => state.download \in DOMAIN downloads
    /\ state.arm \in {"Loaded", "Error"} => Done(state.download)

\* There is one keep-alive for each download: a handle is the one of the
\* download it comes with.
Vouched(result, valid) == Done(result) /\ (valid # 0 => valid = result)

Handles ==
    /\ ~item.expires => handle = 0
    /\ handle # 0 => handle = state.download
    /\ \A t \in Tasks : tasks[t].pc = "send" => Vouched(tasks[t].result, tasks[t].valid)
    /\ page.arm = "Loaded" => Vouched(page.result, page.valid)

\* What the file has, and what a download has read of it or was sent.
Genuine ==
    /\ file = Wrong => item.hash
    /\ \A d \in DOMAIN downloads :
          /\ downloads[d].fallback \in Editions \cup {None}
          /\ downloads[d].step = "write" => downloads[d].held \in Editions
          /\ downloads[d].step = "done" /\ downloads[d].source # "error" => downloads[d].held \in Editions

\* A server that answers does so with what it has then.
Fresh ==
    /\ \A d \in DOMAIN downloads :
          /\ downloads[d].born <= remote
          /\ downloads[d].step = "write" \/ downloads[d].source = "net" =>
                downloads[d].held >= downloads[d].born
    /\ \A t \in Tasks : tasks[t].kind = "force" =>
          /\ tasks[t].asked <= remote
          /\ tasks[t].pc \in {"await", "send"} =>
                /\ tasks[t].result \in DOMAIN downloads
                /\ tasks[t].asked <= downloads[tasks[t].result].born

IInv == TypeOK /\ Mutex /\ Handles /\ Genuine /\ Fresh

-----------------------------------------------------------------------------
(* Downloads.                                                               *)

\* The downloads are numbered without gaps, by their keep-alives.
LEMMA CountIsLast ==
    ASSUME TypeOK
    PROVE  Count \in Nat /\ downloads \in [1..Count -> Downloads]
<1>1. PICK n \in Nat : downloads \in [1..n -> Downloads]
    BY DEF TypeOK
<1>2. Cardinality(1..n) = n
    BY <1>1, FS_Interval
<1>3. QED
    BY <1>1, <1>2 DEF Count

\* What a file or an answer is accepted for: the hash keeps other documents
\* out, parsing what a write left.
LEMMA AcceptsEditions ==
    ASSUME NEW c \in Contents, c = Wrong => item.hash, Accepts(c)
    PROVE  c \in Editions
BY MetadataCacheAssumption DEF Contents, Accepts, Parses, Editions, Wrong, Torn

\* A fetch leaves the downloads alone or adds one.
LEMMA LoadAdds ==
    ASSUME TypeOK, NEW force, LoadIfNeeded(force)
    PROVE  /\ MustLoad(force) =>
              /\ StartLoading
              /\ downloads' \in [1..Count + 1 -> Downloads]
              /\ downloads'[Count + 1] = NewDownload
              /\ \A d \in DOMAIN downloads : downloads'[d] = downloads[d]
              /\ state' = [arm |-> "Pending", download |-> Count + 1]
              /\ handle' \in {handle, Count + 1}
           /\ ~MustLoad(force) => UNCHANGED <<downloads, state, handle>>
<1>1. CASE MustLoad(force)
    <2>1. StartLoading
        BY <1>1 DEF LoadIfNeeded
    <2>2. Count \in Nat /\ downloads \in [1..Count -> Downloads]
        BY CountIsLast
    <2>3. NewDownload \in Downloads
        BY DEF NewDownload, Downloads, Steps, Contents, Sources, TypeOK
    <2>4. ASSUME NEW d \in 1..Count + 1
          PROVE  (IF d = Count + 1 THEN NewDownload ELSE downloads[d]) \in Downloads
        <3>1. d # Count + 1 => d \in 1..Count
            BY <2>2
        <3>2. QED
            BY <2>2, <2>3, <3>1
    <2>5. downloads' = [d \in 1..Count + 1 |-> IF d = Count + 1 THEN NewDownload ELSE downloads[d]]
        BY <2>1 DEF StartLoading
    <2>6. downloads' \in [1..Count + 1 -> Downloads]
        BY <2>4, <2>5
    <2>7. \A d \in 1..Count : d \in 1..Count + 1 /\ d # Count + 1
        BY <2>2
    <2>8. downloads'[Count + 1] = NewDownload /\ \A d \in DOMAIN downloads : downloads'[d] = downloads[d]
        BY <2>2, <2>5, <2>7
    <2>9. QED
        BY <1>1, <2>1, <2>6, <2>8 DEF StartLoading
<1>2. CASE ~MustLoad(force)
    BY <1>2 DEF LoadIfNeeded
<1>3. QED
    BY <1>1, <1>2

LEMMA LoadTypes ==
    ASSUME TypeOK, NEW force, LoadIfNeeded(force)
    PROVE  /\ \E n \in Nat : downloads' \in [1..n -> Downloads]
           /\ state' \in [arm : {"Unloaded", "Pending", "Loaded", "Error"}, download : Nat]
           /\ handle' \in Nat
<1>1. Count \in Nat /\ downloads \in [1..Count -> Downloads] /\ Count + 1 \in Nat
    BY CountIsLast
<1>2. CASE MustLoad(force)
    <2>1. /\ downloads' \in [1..Count + 1 -> Downloads]
          /\ state' = [arm |-> "Pending", download |-> Count + 1]
          /\ handle' \in {handle, Count + 1}
        BY <1>2, LoadAdds
    <2>2. handle' \in Nat
        BY <1>1, <2>1 DEF TypeOK
    <2>3. QED
        BY <1>1, <2>1, <2>2
<1>3. CASE ~MustLoad(force)
    <2>1. UNCHANGED <<downloads, state, handle>>
        BY <1>3, LoadAdds
    <2>2. QED
        BY <1>1, <2>1 DEF TypeOK
<1>4. QED
    BY <1>2, <1>3

\* One step of a download: what it may become, and what the file has then.
LEMMA DownloadBecomes ==
    ASSUME TypeOK, Genuine, Fresh, NEW d \in DOMAIN downloads, Download(d)
    PROVE  \E new \in Downloads :
              /\ downloads' = [downloads EXCEPT ![d] = new]
              /\ downloads[d].step # "done"
              /\ new.born = downloads[d].born
              /\ new.fallback \in Editions \cup {None}
              /\ new.step = "write" => new.held \in Editions
              /\ new.step = "done" /\ new.source # "error" => new.held \in Editions
              /\ new.step = "write" \/ new.source = "net" => new.held >= new.born
              /\ file' \in Contents /\ (file' = Wrong => item.hash)
              /\ left' \in [Limits -> Nat]
<1> DEFINE this == downloads[d]
<1> USE DEF TypeOK
<1>1. this \in Downloads /\ this.fallback \in Editions \cup {None}
    BY CountIsLast DEF Genuine
<1>2. file \in Contents /\ (file = Wrong => item.hash)
    BY DEF Genuine
<1>3. Editions \subseteq Contents /\ None \in Contents /\ Torn \in Contents
    BY DEF Contents
<1>4. Torn # Wrong
    BY MetadataCacheAssumption DEF Torn, Wrong
<1>5. remote \in Editions /\ remote >= this.born /\ (this.source = "net" => this.held >= this.born)
    BY DEF Fresh, Downloads
<1>6. ASSUME Receives(d, remote), this.step = "request"
      PROVE  \E new \in Downloads :
              /\ downloads' = [downloads EXCEPT ![d] = new]
              /\ new.born = this.born
              /\ new.fallback \in Editions \cup {None}
              /\ new.step \in {"write", "done"} /\ new.held = remote
              /\ file' \in Contents /\ (file' = Wrong => item.hash)
    <2>1. CASE item.file
        <3> DEFINE new == [this EXCEPT !.step = "write", !.held = remote, !.fallback = None]
        <3>1. new \in Downloads /\ new.born = this.born /\ new.fallback = None /\ new.step = "write"
              /\ new.held = remote
            BY <1>1, <1>3, <1>5 DEF Downloads, Steps
        <3>2. downloads' = [downloads EXCEPT ![d] = new] /\ file' = Torn
            BY <1>6, <2>1 DEF Receives, Becomes
        <3>3. QED
            BY <1>3, <1>4, <3>1, <3>2
    <2>2. CASE ~item.file
        <3> DEFINE new == [this EXCEPT !.step = "done", !.held = remote, !.source = "net"]
        <3>1. new \in Downloads /\ new.born = this.born /\ new.fallback = this.fallback
              /\ new.step = "done" /\ new.held = remote
            BY <1>1, <1>3, <1>5 DEF Downloads, Steps, Sources
        <3>2. downloads' = [downloads EXCEPT ![d] = new] /\ file' = file
            BY <1>6, <2>2 DEF Receives, Becomes
        <3>3. QED
            BY <1>1, <1>2, <3>1, <3>2
    <2>3. QED
        BY <2>1, <2>2
<1>7. CASE ReadCache(d)
    <2>1. this.step = "cache" /\ UNCHANGED <<left, file>>
        BY <1>7 DEF ReadCache
    <2>2. CASE item.hash /\ Accepts(file)
        <3> DEFINE new == [this EXCEPT !.step = "done", !.held = file, !.source = "file"]
        <3>1. new \in Downloads /\ new.born = this.born /\ new.fallback = this.fallback
              /\ new.step = "done" /\ new.held = file /\ new.source = "file"
            BY <1>1, <1>2 DEF Downloads, Steps, Sources
        <3>2. downloads' = [downloads EXCEPT ![d] = new]
            BY <1>7, <2>2 DEF ReadCache, Becomes
        <3>3. file \in Editions
            BY <1>2, <2>2, AcceptsEditions
        <3>4. QED
            BY <1>1, <1>2, <2>1, <3>1, <3>2, <3>3
    <2>3. CASE ~(item.hash /\ Accepts(file))
        <3> DEFINE f == IF Accepts(file) THEN file ELSE None
                   new == [this EXCEPT !.step = "request", !.fallback = f]
        <3>1. f \in Editions \cup {None}
            BY <1>2, AcceptsEditions
        <3>2. new \in Downloads /\ new.born = this.born /\ new.fallback = f /\ new.step = "request"
              /\ new.source = this.source /\ new.held = this.held
            BY <1>1, <1>3, <3>1 DEF Downloads, Steps
        <3>3. downloads' = [downloads EXCEPT ![d] = new]
            BY <1>7, <2>3 DEF ReadCache, Becomes
        <3> HIDE DEF new, f
        <3>4. QED
            BY <1>2, <1>5, <2>1, <3>1, <3>2, <3>3
    <2>4. QED
        BY <2>2, <2>3
<1>8. CASE Answers(d)
    <2>1. this.step = "request" /\ Receives(d, remote) /\ left' = left
        BY <1>8 DEF Answers
    <2>2. QED
        BY <1>6, <1>5, <2>1
<1>9. CASE AnswersBadly(d)
    <2>1. this.step = "request"
        BY <1>9 DEF AnswersBadly
    <2>2. left' \in [Limits -> Nat]
        BY <1>9 DEF AnswersBadly, Spend, Limits
    <2>3. PICK c \in {None, Torn, Wrong} :
              /\ c = Wrong => item.hash
              /\ IF Accepts(c) THEN Receives(d, c) ELSE Becomes(d, Fails(d)) /\ UNCHANGED file
        BY <1>9 DEF AnswersBadly
    <2>4. ~Accepts(c)
        <3>1. c \notin Editions
            BY MetadataCacheAssumption DEF Editions, Torn, Wrong
        <3>2. QED
            BY <1>3, <2>3, <3>1, AcceptsEditions DEF Contents
    <2>5. QED
        <3> DEFINE new == Fails(d)
                   f == this.fallback
        <3>1. /\ new \in Downloads /\ new.born = this.born /\ new.fallback = None
              /\ new.step = "done" /\ new.held = f /\ (new.source # "error" => f # None)
              /\ new.source # "net"
            BY <1>1, <1>3 DEF Fails, Downloads, Steps, Sources
        <3>2. downloads' = [downloads EXCEPT ![d] = new] /\ file' = file
            BY <2>3, <2>4 DEF Becomes
        <3>3. QED
            BY <1>1, <1>2, <2>1, <2>2, <3>1, <3>2
<1>10. CASE Write(d)
    <2> DEFINE new == [this EXCEPT !.step = "done", !.source = "net"]
    <2>1. this.step = "write" /\ this.held \in Editions /\ this.held >= this.born /\ left' = left
        BY <1>10 DEF Write, Genuine, Fresh
    <2>2. new \in Downloads /\ new.born = this.born /\ new.fallback = this.fallback
          /\ new.step = "done" /\ new.held = this.held
        BY <1>1 DEF Downloads, Steps, Sources
    <2>3. downloads' = [downloads EXCEPT ![d] = new] /\ file' \in {this.held, Torn}
        BY <1>10 DEF Write, Becomes
    <2>4. Wrong \notin Editions
        BY DEF Wrong, Editions
    <2>5. QED
        BY <1>1, <1>3, <1>4, <2>1, <2>2, <2>3, <2>4
<1>11. QED
    BY <1>7, <1>8, <1>9, <1>10 DEF Download

\* Done(d) in the next state, of a download of this one.
DoneThen(d) == d \in DOMAIN downloads' /\ downloads'[d].step = "done"

\* What all steps have in common: no download is taken back, none changes once
\* it is done, and the server does not forget.
Grows ==
    /\ remote' >= remote
    /\ \A d \in DOMAIN downloads :
          /\ d \in DOMAIN downloads'
          /\ downloads'[d].born = downloads[d].born
          /\ Done(d) => Done(d)' /\ downloads'[d] = downloads[d]

LEMMA DownloadsGrow ==
    ASSUME IInv, [Next]_vars
    PROVE  Grows
<1> USE DEF IInv
<1>1. remote \in Nat
    BY DEF TypeOK, Editions
<1>2. UNCHANGED downloads /\ remote' >= remote => Grows
    BY DEF Grows, Done
<1>3. ASSUME NEW d \in DOMAIN downloads, Download(d)
      PROVE  Grows
    <2>1. PICK new \in Downloads :
              /\ downloads' = [downloads EXCEPT ![d] = new]
              /\ downloads[d].step # "done" /\ new.born = downloads[d].born
        BY <1>3, DownloadBecomes
    <2>2. remote' = remote
        BY <1>3 DEF Download
    <2>3. QED
        BY <1>1, <2>1, <2>2 DEF Grows, Done
<1>4. ASSUME NEW force, LoadIfNeeded(force), remote' = remote
      PROVE  Grows
    <2>1. UNCHANGED downloads \/ MustLoad(force)
        BY <1>4, LoadAdds
    <2>2. CASE MustLoad(force)
        <3>1. /\ downloads' \in [1..Count + 1 -> Downloads]
              /\ \A d \in DOMAIN downloads : downloads'[d] = downloads[d]
            BY <1>4, <2>2, LoadAdds
        <3>2. Count \in Nat /\ DOMAIN downloads = 1..Count
            BY CountIsLast
        <3>3. \A d \in DOMAIN downloads : d \in DOMAIN downloads'
            BY <3>1, <3>2
        <3>4. QED
            BY <1>1, <1>4, <3>1, <3>3 DEF Grows, Done
    <2>3. QED
        BY <1>1, <1>2, <1>4, <2>1, <2>2
<1>5. CASE Load \/ \E t \in Tasks : Lock(t)
    BY <1>4, <1>5 DEF Load, Lock
<1>6. CASE Publish
    BY <1>1, <1>2, <1>6 DEF Publish, loadVars
<1>7. CASE Expire \/ Render \/ ForceReload \/ UNCHANGED vars
    BY <1>1, <1>2, <1>7 DEF Expire, Render, ForceReload, vars, loadVars
<1>8. ASSUME NEW t \in Tasks,
             \/ BeginFetch(t) \/ Await(t) \/ Send(t) \/ Cancel(t)
             \/ \E r \in {"request", "force"} : BeginRequest(t, r)
      PROVE  Grows
    BY <1>1, <1>2, <1>8 DEF BeginFetch, Await, Send, Cancel, BeginRequest
<1>9. QED
    BY <1>3, <1>5, <1>6, <1>7, <1>8 DEF Next, TaskStep

-----------------------------------------------------------------------------
(* Tasks.                                                                   *)

\* None is no kind of task, and no source of a result.
LEMMA NoneIsNoKind == None \notin {"fetch", "request", "force", "net"}
BY MetadataCacheAssumption

\* A task that begins is at the lock, with the question when it was asked.
LEMMA BeginsTask ==
    ASSUME TypeOK, NEW t \in Tasks, NEW kind \in {"fetch", "request", "force"}, Begins(t, kind)
    PROVE  /\ tasks' \in [Tasks -> TaskStates]
           /\ \A u \in Tasks \ {t} : tasks'[u] = tasks[u]
           /\ tasks'[t].pc = "lock" /\ tasks'[t].kind = kind
           /\ kind = "force" => tasks'[t].asked = remote
<1> DEFINE new == [Idle EXCEPT !.pc = "lock", !.kind = kind,
                               !.asked = IF kind = "force" THEN remote ELSE 0]
<1>1. remote \in Nat
    BY DEF TypeOK, Editions
<1>2. /\ new \in TaskStates /\ new.pc = "lock" /\ new.kind = kind
      /\ kind = "force" => new.asked = remote
    BY <1>1 DEF Idle, TaskStates
<1>3. tasks' = [tasks EXCEPT ![t] = new]
    BY DEF Begins
<1>4. QED
    BY <1>2, <1>3 DEF TypeOK

\* A task that gets the lock knows the result to return or to await.
LEMMA LockTask ==
    ASSUME TypeOK, NEW t \in Tasks, Lock(t)
    PROVE  /\ tasks' \in [Tasks -> TaskStates]
           /\ \A u \in Tasks \ {t} : tasks'[u] = tasks[u]
           /\ tasks'[t].pc = IF state'.arm = "Pending" THEN "await" ELSE "send"
           /\ tasks'[t].valid = handle' /\ tasks'[t].result = state'.download
           /\ tasks'[t].kind = tasks[t].kind /\ tasks'[t].asked = tasks[t].asked
           /\ state' \in [arm : {"Unloaded", "Pending", "Loaded", "Error"}, download : Nat]
           /\ handle' \in Nat
<1> DEFINE new == [tasks[t] EXCEPT !.pc = IF state'.arm = "Pending" THEN "await" ELSE "send",
                                   !.valid = handle', !.result = state'.download]
<1>1. LoadIfNeeded(tasks[t].kind = "force")
    BY DEF Lock
<1>2. state' \in [arm : {"Unloaded", "Pending", "Loaded", "Error"}, download : Nat] /\ handle' \in Nat
    BY <1>1, LoadTypes
<1>3. tasks[t] \in TaskStates
    BY DEF TypeOK
<1>4. /\ new \in TaskStates
      /\ new.pc = IF state'.arm = "Pending" THEN "await" ELSE "send"
      /\ new.valid = handle' /\ new.result = state'.download
      /\ new.kind = tasks[t].kind /\ new.asked = tasks[t].asked
    BY <1>2, <1>3 DEF TaskStates
<1>5. tasks' = [tasks EXCEPT ![t] = new]
    BY DEF Lock, TypeOK
<1>6. QED
    BY <1>2, <1>4, <1>5 DEF TypeOK

-----------------------------------------------------------------------------
(* The invariant.                                                           *)

LEMMA IInvInit == Init => IInv
<1> SUFFICES ASSUME Init PROVE IInv
    OBVIOUS
<1> USE MetadataCacheAssumption DEF Init
<1>1. Wrong # Torn /\ Wrong # None /\ 1 # Wrong /\ 1 \in Editions
    BY DEF Wrong, Torn, Editions
<1>2. file \in Contents /\ (file = Wrong => item.hash)
    BY <1>1 DEF Contents
<1>3. DOMAIN downloads = {} /\ \E n \in Nat : downloads \in [1..n -> Downloads]
    <2>1. downloads \in [1..0 -> Downloads]
        OBVIOUS
    <2>2. QED
        BY <2>1
<1>4. tasks \in [Tasks -> TaskStates] /\ \A t \in Tasks : tasks[t].pc = "idle" /\ tasks[t].kind = None
    BY DEF Idle, TaskStates
<1>5. None # "force"
    BY NoneIsNoKind
<1>6. left \in [Limits -> Nat]
    BY DEF Limits
<1>7. TypeOK
    BY <1>1, <1>2, <1>3, <1>4, <1>6 DEF TypeOK, Unloaded, NoPage
<1>8. Mutex /\ Handles
    BY <1>4 DEF Mutex, Handles, Unloaded, NoPage
<1>9. Genuine /\ Fresh
    BY <1>2, <1>3, <1>4, <1>5 DEF Genuine, Fresh
<1>10. QED
    BY <1>7, <1>8, <1>9 DEF IInv

LEMMA TypeStep ==
    ASSUME IInv, [Next]_vars
    PROVE  TypeOK'
<1> USE DEF IInv
<1>1. Count \in Nat /\ downloads \in [1..Count -> Downloads] /\ Count + 1 \in Nat
    BY CountIsLast
<1>2. UNCHANGED downloads => \E n \in Nat : downloads' \in [1..n -> Downloads]
    BY <1>1
<1>3. ASSUME NEW what \in Limits, Spend(what)
      PROVE  left' \in [Limits -> Nat]
    BY <1>3 DEF Spend, TypeOK
<1>4. CASE Publish
    <2>1. remote' \in Editions
        BY <1>4, MetadataCacheAssumption DEF Publish, TypeOK, Editions
    <2>2. QED
        BY <1>2, <1>4, <2>1 DEF Publish, loadVars, TypeOK
<1>5. CASE Expire
    <2>1. left' \in [Limits -> Nat]
        BY <1>3, <1>5 DEF Expire, Limits
    <2>2. expired' \in Nat
        BY <1>5 DEF Expire, TypeOK
    <2>3. QED
        BY <1>2, <1>5, <2>1, <2>2 DEF Expire, loadVars, TypeOK
<1>6. ASSUME NEW force, LoadIfNeeded(force)
      PROVE  /\ \E n \in Nat : downloads' \in [1..n -> Downloads]
             /\ state' \in [arm : {"Unloaded", "Pending", "Loaded", "Error"}, download : Nat]
             /\ handle' \in Nat
    BY <1>6, LoadTypes
<1>7. CASE Load
    BY <1>6, <1>7 DEF Load, TypeOK
<1>8. ASSUME NEW d \in DOMAIN downloads, Download(d)
      PROVE  TypeOK'
    <2>1. PICK new \in Downloads :
              /\ downloads' = [downloads EXCEPT ![d] = new]
              /\ file' \in Contents /\ left' \in [Limits -> Nat]
        BY <1>8, DownloadBecomes
    <2>2. downloads' \in [1..Count -> Downloads]
        BY <1>1, <2>1
    <2>3. QED
        BY <1>1, <1>8, <2>1, <2>2 DEF Download, TypeOK
<1>9. ASSUME NEW t \in Tasks
      PROVE  /\ BeginFetch(t) => TypeOK'
             /\ \A r \in {"request", "force"} : BeginRequest(t, r) => TypeOK'
    <2>1. CASE BeginFetch(t)
        <3>1. left' \in [Limits -> Nat] /\ tasks' \in [Tasks -> TaskStates]
            BY <1>3, <2>1, BeginsTask DEF BeginFetch, Limits
        <3>2. QED
            BY <1>2, <2>1, <3>1 DEF BeginFetch, TypeOK
    <2>2. ASSUME NEW r \in {"request", "force"}, BeginRequest(t, r)
          PROVE  TypeOK'
        <3>1. tasks' \in [Tasks -> TaskStates]
            BY <2>2, BeginsTask DEF BeginRequest
        <3>2. QED
            BY <1>2, <2>2, <3>1 DEF BeginRequest, TypeOK
    <2>3. QED
        BY <2>1, <2>2
<1>10. ASSUME NEW t \in Tasks, Lock(t)
       PROVE  TypeOK'
    <2>1. /\ tasks' \in [Tasks -> TaskStates]
          /\ state' \in [arm : {"Unloaded", "Pending", "Loaded", "Error"}, download : Nat]
          /\ handle' \in Nat
        BY <1>10, LockTask
    <2>2. \E n \in Nat : downloads' \in [1..n -> Downloads]
        BY <1>6, <1>10 DEF Lock
    <2>3. lock' \in Tasks \cup {None}
        BY <1>10 DEF Lock, Holder
    <2>4. QED
        BY <1>10, <2>1, <2>2, <2>3 DEF Lock, TypeOK
<1>11. ASSUME NEW t \in Tasks, Await(t)
       PROVE  TypeOK'
    <2>1. tasks[t] \in TaskStates
        BY DEF TypeOK
    <2>2. [tasks[t] EXCEPT !.pc = "send"] \in TaskStates /\ tasks[t].result \in Nat
        BY <2>1 DEF TaskStates
    <2>3. tasks' \in [Tasks -> TaskStates]
        BY <1>11, <2>2 DEF Await, TypeOK
    <2>4. state' \in [arm : {"Unloaded", "Pending", "Loaded", "Error"}, download : Nat]
        BY <1>11, <2>2 DEF Await, Outcome
    <2>5. QED
        BY <1>2, <1>11, <2>3, <2>4 DEF Await, TypeOK
<1>12. ASSUME NEW t \in Tasks, Send(t) \/ Cancel(t)
       PROVE  TypeOK'
    <2>1. Idle \in TaskStates /\ tasks[t] \in TaskStates
        BY DEF Idle, TaskStates, TypeOK
    <2>2. tasks' \in [Tasks -> TaskStates]
        BY <1>12, <2>1 DEF Send, Cancel, TypeOK
    <2>3. tasks[t].result \in Nat /\ tasks[t].valid \in Nat
        BY <2>1 DEF TaskStates
    <2>4. CASE Send(t)
        BY <1>2, <2>2, <2>3, <2>4 DEF Send, TypeOK
    <2>5. CASE Cancel(t)
        BY <1>2, <2>2, <2>5 DEF Cancel, TypeOK
    <2>6. QED
        BY <1>12, <2>4, <2>5
<1>13. CASE Render
    <2>1. page' \in [arm : {"none", "Loading", "Loaded"}, result : Nat, valid : Nat]
        BY <1>13 DEF Render, TypeOK
    <2>2. QED
        BY <1>2, <1>13, <2>1 DEF Render, loadVars, TypeOK
<1>14. CASE ForceReload
    <2>1. left' \in [Limits -> Nat]
        BY <1>3, <1>14 DEF ForceReload, Limits
    <2>2. QED
        BY <1>2, <1>14, <2>1 DEF ForceReload, loadVars, TypeOK
<1>15. CASE UNCHANGED vars
    BY <1>2, <1>15 DEF vars, loadVars, TypeOK
<1>16. QED
    BY <1>4, <1>5, <1>7, <1>8, <1>9, <1>10, <1>11, <1>12, <1>13, <1>14, <1>15 DEF Next, TaskStep

\* After the check of a fetch a download is under way or done.
LEMMA LoadedOrPending ==
    ASSUME TypeOK, Mutex, NEW force, LoadIfNeeded(force)
    PROVE  /\ state'.arm # "Unloaded" /\ state'.download \in DOMAIN downloads'
           /\ state'.arm \in {"Loaded", "Error"} => DoneThen(state'.download)
<1>1. CASE MustLoad(force)
    <2>1. /\ state' = [arm |-> "Pending", download |-> Count + 1]
          /\ downloads' \in [1..Count + 1 -> Downloads]
        BY <1>1, LoadAdds
    <2>2. Count \in Nat
        BY CountIsLast
    <2>3. Count + 1 \in 1..Count + 1
        BY <2>2
    <2>4. QED
        BY <2>1, <2>3
<1>2. CASE ~MustLoad(force)
    <2>1. UNCHANGED <<downloads, state>>
        BY <1>2, LoadAdds
    <2>2. state.arm # "Unloaded"
        BY <1>2 DEF MustLoad
    <2>3. QED
        BY <2>1, <2>2 DEF Mutex, Done, DoneThen
<1>3. QED
    BY <1>1, <1>2

\* Steps that only move tasks which do not hold the mutex leave it exclusive.
LEMMA MutexStep ==
    ASSUME IInv, [Next]_vars, Grows
    PROVE  Mutex'
<1> USE DEF IInv
<1>1. \A t \in Tasks : t # None
    BY MetadataCacheAssumption
<1>2. \A d \in DOMAIN downloads : d \in DOMAIN downloads' /\ (Done(d) => DoneThen(d))
    BY DEF Grows, Done, DoneThen
<1>3. CASE UNCHANGED <<state, handle, lock, tasks>>
    BY <1>2, <1>3 DEF Mutex, Done, DoneThen
<1>4. ASSUME NEW force, LoadIfNeeded(force)
      PROVE  /\ state'.arm # "Unloaded" /\ state'.download \in DOMAIN downloads'
             /\ state'.arm \in {"Loaded", "Error"} => DoneThen(state'.download)
    BY <1>4, LoadedOrPending
<1>5. CASE Load
    <2>1. \A t \in Tasks : tasks[t].pc # "await"
        BY <1>1, <1>5 DEF Load, Mutex
    <2>2. QED
        BY <1>4, <1>5, <2>1 DEF Load, Mutex, Done, DoneThen
<1>6. ASSUME NEW t \in Tasks, NEW kind \in {"fetch", "request", "force"}, Begins(t, kind),
             UNCHANGED <<downloads, state, handle, lock>>
      PROVE  Mutex'
    BY <1>6, BeginsTask DEF Mutex, Done, DoneThen
<1>7. ASSUME NEW t \in Tasks, Lock(t)
      PROVE  Mutex'
    <2>1. \A u \in Tasks : tasks[u].pc # "await"
        BY <1>1, <1>7 DEF Lock, Mutex
    <2>2. /\ \A u \in Tasks \ {t} : tasks'[u] = tasks[u]
          /\ tasks'[t].pc = IF state'.arm = "Pending" THEN "await" ELSE "send"
          /\ tasks'[t].valid = handle' /\ tasks'[t].result = state'.download
          /\ state' \in [arm : {"Unloaded", "Pending", "Loaded", "Error"}, download : Nat]
        BY <1>7, LockTask
    <2>3. tasks'[t].pc = "await" =>
             /\ lock' = t
             /\ state' = [arm |-> "Pending", download |-> tasks'[t].result]
        BY <1>7, <2>2 DEF Lock, Holder
    <2>4. \A u \in Tasks : tasks'[u].pc = "await" => u = t
        BY <2>1, <2>2
    <2>5. /\ state'.arm # "Unloaded" /\ state'.download \in DOMAIN downloads'
          /\ state'.arm \in {"Loaded", "Error"} => DoneThen(state'.download)
        BY <1>4, <1>7 DEF Lock
    <2>6. QED
        BY <2>2, <2>3, <2>4, <2>5 DEF Mutex, Done, DoneThen
<1>8. ASSUME NEW t \in Tasks, Await(t)
      PROVE  Mutex'
    <2> DEFINE d == tasks[t].result
    <2>1. /\ tasks[t].pc = "await" /\ downloads[d].step = "done" /\ UNCHANGED downloads
          /\ state' = [arm |-> Outcome(d), download |-> d]
          /\ tasks' = [tasks EXCEPT ![t].pc = "send"]
        BY <1>8 DEF Await
    <2>2. lock = t /\ d \in DOMAIN downloads
        BY <2>1 DEF Mutex
    <2>3. tasks'[t].pc = "send" /\ \A u \in Tasks \ {t} : tasks'[u] = tasks[u] /\ tasks[u].pc # "await"
        BY <2>1, <2>2 DEF TypeOK, Mutex, TaskStates
    <2>4. DoneThen(d)
        BY <2>1, <2>2 DEF Done, DoneThen
    <2>5. QED
        BY <2>1, <2>2, <2>3, <2>4 DEF Mutex, Outcome, Done, DoneThen
<1>9. ASSUME NEW t \in Tasks, Send(t) \/ Cancel(t)
      PROVE  Mutex'
    <2>1. tasks' = [tasks EXCEPT ![t] = Idle] /\ UNCHANGED <<downloads, state, handle>>
        BY <1>9 DEF Send, Cancel
    <2>2. tasks'[t].pc = "idle" /\ \A u \in Tasks \ {t} : tasks'[u] = tasks[u]
        BY <2>1 DEF TypeOK, Idle
    <2>3. \A u \in Tasks \ {t} : tasks[u].pc = "await" => lock' = lock
        BY <1>9 DEF Send, Cancel, Mutex
    <2>4. QED
        BY <2>1, <2>2, <2>3 DEF Mutex, Done, DoneThen
<1>10. CASE Publish \/ Expire \/ Render \/ ForceReload \/ UNCHANGED vars
    BY <1>3, <1>10 DEF Publish, Expire, Render, ForceReload, vars, loadVars
<1>11. ASSUME NEW d \in DOMAIN downloads, Download(d)
       PROVE  Mutex'
    BY <1>3, <1>11 DEF Download
<1>12. ASSUME NEW t \in Tasks
       PROVE  /\ BeginFetch(t) => Mutex'
              /\ \A r \in {"request", "force"} : BeginRequest(t, r) => Mutex'
    BY <1>6 DEF BeginFetch, BeginRequest
<1>13. QED
    BY <1>5, <1>7, <1>8, <1>9, <1>10, <1>11, <1>12 DEF Next, TaskStep

\* A task goes away with the handle of the download it goes away with.
LEMMA HandlesStep ==
    ASSUME IInv, [Next]_vars, Grows
    PROVE  Handles'
<1> DEFINE VouchedThen(r, v) == DoneThen(r) /\ (v # 0 => v = r)
<1> USE DEF IInv
<1>1. \A r, v : Vouched(r, v) => VouchedThen(r, v)
    BY DEF Grows, Vouched, Done, DoneThen
<1>2. item' = item
    BY DEF Next, Publish, Expire, Load, Download, BeginFetch, TaskStep, BeginRequest, Lock, Await,
           Send, Cancel, Render, ForceReload, vars
<1>3. \A t \in Tasks : tasks[t].pc = "send" => VouchedThen(tasks[t].result, tasks[t].valid)
    BY <1>1 DEF Handles
<1>4. page.arm = "Loaded" => VouchedThen(page.result, page.valid)
    BY <1>1 DEF Handles
<1>5. CASE UNCHANGED <<state, handle, tasks>> /\ (page' = page \/ page'.arm # "Loaded")
    BY <1>2, <1>3, <1>4, <1>5 DEF Handles, Vouched, Done, DoneThen
<1>6. ASSUME NEW force, LoadIfNeeded(force)
      PROVE  (~item.expires => handle' = 0) /\ (handle' # 0 => handle' = state'.download)
    <2>1. CASE MustLoad(force)
        <3>1. StartLoading
            BY <1>6, <2>1, LoadAdds
        <3>2. QED
            BY <3>1 DEF StartLoading, Handles
    <2>2. CASE ~MustLoad(force)
        BY <1>6, <2>2, LoadAdds DEF Handles
    <2>3. QED
        BY <2>1, <2>2
<1>7. CASE Load
    BY <1>2, <1>3, <1>4, <1>6, <1>7 DEF Load, Handles, Vouched, Done, DoneThen
<1>8. ASSUME NEW t \in Tasks, NEW kind \in {"fetch", "request", "force"}, Begins(t, kind),
             UNCHANGED <<state, handle, page>>
      PROVE  Handles'
    BY <1>2, <1>3, <1>4, <1>8, BeginsTask DEF Handles, Vouched, Done, DoneThen
<1>9. ASSUME NEW t \in Tasks, Lock(t)
      PROVE  Handles'
    <2>1. (~item.expires => handle' = 0) /\ (handle' # 0 => handle' = state'.download) /\ page' = page
        BY <1>6, <1>9 DEF Lock
    <2>2. /\ \A u \in Tasks \ {t} : tasks'[u] = tasks[u]
          /\ tasks'[t].pc = IF state'.arm = "Pending" THEN "await" ELSE "send"
          /\ tasks'[t].valid = handle' /\ tasks'[t].result = state'.download
          /\ state' \in [arm : {"Unloaded", "Pending", "Loaded", "Error"}, download : Nat]
        BY <1>9, LockTask
    <2>3. tasks'[t].pc = "send" => DoneThen(state'.download)
        BY <1>9, <2>2, LoadedOrPending DEF Lock
    <2>4. QED
        BY <1>2, <1>3, <1>4, <2>1, <2>2, <2>3 DEF Handles, Vouched, Done, DoneThen
<1>10. ASSUME NEW t \in Tasks, Await(t)
       PROVE  Handles'
    <2> DEFINE d == tasks[t].result
    <2>1. /\ tasks[t].pc = "await" /\ downloads[d].step = "done" /\ UNCHANGED <<downloads, handle, page>>
          /\ state' = [arm |-> Outcome(d), download |-> d]
          /\ tasks' = [tasks EXCEPT ![t].pc = "send"]
        BY <1>10 DEF Await
    <2>2. state.download = d /\ d \in DOMAIN downloads /\ tasks[t].valid = handle
        BY <2>1 DEF Mutex
    <2>3. VouchedThen(d, handle)
        BY <2>1, <2>2 DEF Handles, Done, DoneThen
    <2>4. /\ tasks'[t].result = d /\ tasks'[t].valid = handle
          /\ \A u \in Tasks \ {t} : tasks'[u] = tasks[u]
        BY <2>1, <2>2 DEF TypeOK, TaskStates
    <2>5. QED
        BY <1>2, <1>3, <1>4, <2>1, <2>2, <2>3, <2>4 DEF Handles, Vouched, Done, DoneThen
<1>11. ASSUME NEW t \in Tasks, Send(t) \/ Cancel(t)
       PROVE  Handles'
    <2>1. tasks' = [tasks EXCEPT ![t] = Idle] /\ UNCHANGED <<state, handle>>
        BY <1>11 DEF Send, Cancel
    <2>2. tasks'[t].pc = "idle" /\ \A u \in Tasks \ {t} : tasks'[u] = tasks[u]
        BY <2>1 DEF TypeOK, Idle
    <2>3. page'.arm = "Loaded" => VouchedThen(page'.result, page'.valid)
        BY <1>3, <1>4, <1>11 DEF Send, Cancel
    <2>4. QED
        BY <1>2, <1>3, <2>1, <2>2, <2>3 DEF Handles, Vouched, Done, DoneThen
<1>12. CASE Publish \/ Expire \/ Render \/ ForceReload \/ UNCHANGED vars
    <2>1. page' = page \/ page'.arm # "Loaded"
        BY <1>12 DEF Publish, Expire, Render, ForceReload, vars, TypeOK
    <2>2. QED
        BY <1>5, <1>12, <2>1 DEF Publish, Expire, Render, ForceReload, vars, loadVars
<1>13. ASSUME NEW d \in DOMAIN downloads, Download(d)
       PROVE  Handles'
    BY <1>5, <1>13 DEF Download
<1>14. ASSUME NEW t \in Tasks
       PROVE  /\ BeginFetch(t) => Handles'
              /\ \A r \in {"request", "force"} : BeginRequest(t, r) => Handles'
    BY <1>8 DEF BeginFetch, BeginRequest
<1>15. QED
    BY <1>7, <1>9, <1>10, <1>11, <1>12, <1>13, <1>14 DEF Next, TaskStep

\* What the file holds is held back by the hash or the parser, wherever it
\* came from.
LEMMA GenuineStep ==
    ASSUME IInv, [Next]_vars
    PROVE  Genuine'
<1> USE DEF IInv
<1>1. item' = item
    BY DEF Next, Publish, Expire, Load, Download, BeginFetch, TaskStep, BeginRequest, Lock, Await,
           Send, Cancel, Render, ForceReload, vars
<1>2. CASE UNCHANGED <<file, downloads>>
    BY <1>1, <1>2 DEF Genuine
<1>3. ASSUME NEW d \in DOMAIN downloads, Download(d)
      PROVE  Genuine'
    <2>1. PICK new \in Downloads :
              /\ downloads' = [downloads EXCEPT ![d] = new]
              /\ new.fallback \in Editions \cup {None}
              /\ new.step = "write" => new.held \in Editions
              /\ new.step = "done" /\ new.source # "error" => new.held \in Editions
              /\ file' = Wrong => item.hash
        BY <1>3, DownloadBecomes
    <2>2. ASSUME NEW e \in DOMAIN downloads'
          PROVE  downloads'[e] = new \/ (e \in DOMAIN downloads /\ downloads'[e] = downloads[e])
        BY <2>1
    <2>3. QED
        BY <1>1, <2>1, <2>2 DEF Genuine
<1>4. ASSUME NEW force, LoadIfNeeded(force), file' = file
      PROVE  Genuine'
    <2>1. CASE MustLoad(force)
        <3>1. /\ downloads' \in [1..Count + 1 -> Downloads]
              /\ downloads'[Count + 1] = NewDownload
              /\ \A d \in DOMAIN downloads : downloads'[d] = downloads[d]
            BY <1>4, <2>1, LoadAdds
        <3>2. Count \in Nat /\ DOMAIN downloads = 1..Count
            BY CountIsLast
        <3>3. \A e \in DOMAIN downloads' :
                 downloads'[e] = NewDownload \/ (e \in DOMAIN downloads /\ downloads'[e] = downloads[e])
            BY <3>1, <3>2
        <3>4. QED
            BY <1>1, <1>4, <3>3 DEF Genuine, NewDownload
    <2>2. CASE ~MustLoad(force)
        BY <1>2, <1>4, <2>2, LoadAdds
    <2>3. QED
        BY <2>1, <2>2
<1>5. CASE Load \/ \E t \in Tasks : Lock(t)
    BY <1>4, <1>5 DEF Load, Lock
<1>6. CASE Publish \/ Expire \/ Render \/ ForceReload \/ UNCHANGED vars
    BY <1>2, <1>6 DEF Publish, Expire, Render, ForceReload, vars, loadVars
<1>7. ASSUME NEW t \in Tasks,
             \/ BeginFetch(t) \/ Await(t) \/ Send(t) \/ Cancel(t)
             \/ \E r \in {"request", "force"} : BeginRequest(t, r)
      PROVE  Genuine'
    BY <1>2, <1>7 DEF BeginFetch, Await, Send, Cancel, BeginRequest
<1>8. QED
    BY <1>3, <1>5, <1>6, <1>7 DEF Next, TaskStep

\* A download is as fresh as the server was when it began.
LEMMA DownloadsAreFresh ==
    ASSUME IInv, [Next]_vars
    PROVE  \A d \in DOMAIN downloads' :
              /\ downloads'[d].born <= remote'
              /\ downloads'[d].step = "write" \/ downloads'[d].source = "net" =>
                    downloads'[d].held >= downloads'[d].born
<1> DEFINE Was(d) == /\ downloads'[d].born <= remote'
                     /\ downloads'[d].step = "write" \/ downloads'[d].source = "net" =>
                           downloads'[d].held >= downloads'[d].born
<1> USE DEF IInv
<1>1. remote \in Nat
    BY DEF TypeOK, Editions
<1>2. \A d \in DOMAIN downloads : downloads[d] \in Downloads /\ downloads[d].born \in Nat
    BY CountIsLast DEF Downloads, Editions
<1>3. remote' >= remote /\ remote' \in Nat
    <2>1. remote' >= remote
        BY DownloadsGrow DEF Grows
    <2>2. remote' \in Editions
        BY TypeStep DEF TypeOK
    <2>3. QED
        BY <2>1, <2>2 DEF Editions
<1>4. ASSUME NEW d \in DOMAIN downloads, downloads'[d] = downloads[d]
      PROVE  Was(d)
    BY <1>1, <1>2, <1>3, <1>4 DEF Fresh
<1>5. CASE UNCHANGED downloads
    BY <1>4, <1>5
<1>6. ASSUME NEW d \in DOMAIN downloads, Download(d)
      PROVE  \A e \in DOMAIN downloads' : Was(e)
    <2>1. PICK new \in Downloads :
              /\ downloads' = [downloads EXCEPT ![d] = new]
              /\ new.born = downloads[d].born
              /\ new.step = "write" \/ new.source = "net" => new.held >= new.born
        BY <1>6, DownloadBecomes
    <2>2. new.born <= remote'
        BY <1>1, <1>2, <1>3, <2>1 DEF Fresh
    <2>3. Was(d)
        BY <2>1, <2>2
    <2>4. \A e \in DOMAIN downloads \ {d} : downloads'[e] = downloads[e]
        BY <2>1
    <2>5. QED
        BY <1>4, <2>1, <2>3, <2>4
<1>7. ASSUME NEW force, LoadIfNeeded(force), remote' = remote
      PROVE  \A e \in DOMAIN downloads' : Was(e)
    <2>1. CASE MustLoad(force)
        <3>1. /\ downloads' \in [1..Count + 1 -> Downloads]
              /\ downloads'[Count + 1] = NewDownload
              /\ \A d \in DOMAIN downloads : downloads'[d] = downloads[d]
            BY <1>7, <2>1, LoadAdds
        <3>2. Count \in Nat /\ DOMAIN downloads = 1..Count
            BY CountIsLast
        <3>3. Was(Count + 1)
            <4>1. NewDownload.born = remote /\ NewDownload.step = "cache" /\ NewDownload.source = None
                BY DEF NewDownload
            <4>2. None # "net"
                BY NoneIsNoKind
            <4>3. QED
                BY <1>1, <1>7, <3>1, <4>1, <4>2
        <3>4. \A e \in DOMAIN downloads' : e = Count + 1 \/ e \in DOMAIN downloads
            BY <3>1, <3>2
        <3>5. QED
            BY <1>4, <3>1, <3>3, <3>4
    <2>2. CASE ~MustLoad(force)
        BY <1>5, <1>7, <2>2, LoadAdds
    <2>3. QED
        BY <2>1, <2>2
<1>8. CASE Load \/ \E t \in Tasks : Lock(t)
    BY <1>7, <1>8 DEF Load, Lock
<1>9. CASE Publish \/ Expire \/ Render \/ ForceReload \/ UNCHANGED vars
    BY <1>5, <1>9 DEF Publish, Expire, Render, ForceReload, vars, loadVars
<1>10. ASSUME NEW t \in Tasks,
             \/ BeginFetch(t) \/ Await(t) \/ Send(t) \/ Cancel(t)
             \/ \E r \in {"request", "force"} : BeginRequest(t, r)
      PROVE  \A e \in DOMAIN downloads' : Was(e)
    BY <1>5, <1>10 DEF BeginFetch, Await, Send, Cancel, BeginRequest
<1>11. QED
    BY <1>6, <1>8, <1>9, <1>10 DEF Next, TaskStep

\* A forced fetch ends with a download that began after it was asked for.
LEMMA FreshStep ==
    ASSUME IInv, [Next]_vars, Grows
    PROVE  Fresh'
<1> DEFINE After(task) == task.kind = "force" =>
               /\ task.asked <= remote'
               /\ task.pc \in {"await", "send"} =>
                     /\ task.result \in DOMAIN downloads'
                     /\ task.asked <= downloads'[task.result].born
<1> USE DEF IInv
<1>1. remote \in Nat /\ remote' \in Nat /\ remote' >= remote
    <2>1. remote \in Editions /\ remote' \in Editions
        BY TypeStep DEF TypeOK
    <2>2. QED
        BY <2>1 DEF Editions, Grows
<1>2. ASSUME NEW t \in Tasks
      PROVE  After(tasks[t])
    <2>1. tasks[t].asked \in Nat
        BY DEF TypeOK, TaskStates
    <2>2. QED
        BY <1>1, <2>1 DEF Fresh, Grows
<1>3. SUFFICES ASSUME NEW t \in Tasks PROVE After(tasks'[t])
    BY DownloadsAreFresh DEF Fresh
<1>4. CASE UNCHANGED tasks
    BY <1>2, <1>4
<1>5. ASSUME NEW u \in Tasks, NEW kind \in {"fetch", "request", "force"}, Begins(u, kind)
      PROVE  After(tasks'[t])
    BY <1>1, <1>2, <1>5, BeginsTask
<1>6. ASSUME NEW u \in Tasks, Lock(u)
      PROVE  After(tasks'[t])
    <2>1. CASE t # u
        BY <1>2, <1>6, <2>1, LockTask
    <2>2. CASE t = u /\ tasks[u].kind = "force"
        <3>1. LoadIfNeeded(TRUE)
            BY <1>6, <2>2 DEF Lock
        <3>2. /\ downloads' \in [1..Count + 1 -> Downloads]
              /\ downloads'[Count + 1] = NewDownload
              /\ state' = [arm |-> "Pending", download |-> Count + 1]
            BY <3>1, LoadAdds DEF MustLoad
        <3>3. Count + 1 \in DOMAIN downloads' /\ downloads'[Count + 1].born = remote
            BY <3>2, CountIsLast DEF NewDownload
        <3>4. /\ tasks'[u].result = Count + 1
              /\ tasks'[u].asked = tasks[u].asked
            BY <1>6, <3>2, LockTask
        <3>5. tasks[u].asked <= remote /\ tasks[u].asked \in Nat
            BY <2>2 DEF Fresh, TypeOK, TaskStates
        <3>6. QED
            BY <1>1, <2>2, <3>3, <3>4, <3>5
    <2>3. CASE t = u /\ tasks[u].kind # "force"
        BY <1>6, <2>3, LockTask
    <2>4. QED
        BY <2>1, <2>2, <2>3
<1>7. ASSUME NEW u \in Tasks, Await(u)
      PROVE  After(tasks'[t])
    <2>1. tasks[u].pc = "await" /\ tasks' = [tasks EXCEPT ![u].pc = "send"]
        BY <1>7 DEF Await
    <2>2. /\ tasks'[t].kind = tasks[t].kind /\ tasks'[t].asked = tasks[t].asked
          /\ tasks'[t].result = tasks[t].result
          /\ tasks'[t].pc \in {"await", "send"} => tasks[t].pc \in {"await", "send"}
        BY <2>1 DEF TypeOK, TaskStates
    <2>3. QED
        BY <1>2, <2>2
<1>8. ASSUME NEW u \in Tasks, Send(u) \/ Cancel(u)
      PROVE  After(tasks'[t])
    <2>1. tasks'[t] = tasks[t] \/ tasks'[t].kind = None
        BY <1>8 DEF Send, Cancel, Idle, TypeOK
    <2>2. QED
        BY <1>2, <2>1, NoneIsNoKind
<1>9. CASE Publish \/ Expire \/ Load \/ Render \/ ForceReload \/ UNCHANGED vars
    BY <1>4, <1>9 DEF Publish, Expire, Load, Render, ForceReload, vars, loadVars
<1>10. ASSUME NEW d \in DOMAIN downloads, Download(d)
       PROVE  After(tasks'[t])
    BY <1>4, <1>10 DEF Download
<1>11. ASSUME NEW u \in Tasks
       PROVE  /\ BeginFetch(u) => After(tasks'[t])
              /\ \A r \in {"request", "force"} : BeginRequest(u, r) => After(tasks'[t])
    BY <1>5 DEF BeginFetch, BeginRequest
<1>12. QED
    BY <1>6, <1>7, <1>8, <1>9, <1>10, <1>11 DEF Next, TaskStep

THEOREM Invariance == Spec => []IInv
<1>1. Init => IInv
    BY IInvInit
<1>2. IInv /\ [Next]_vars => IInv'
    BY TypeStep, MutexStep, HandlesStep, GenuineStep, FreshStep, DownloadsGrow DEF IInv
<1>3. QED
    BY <1>1, <1>2, PTL DEF Spec

-----------------------------------------------------------------------------
(* What follows.                                                            *)

\* Every variable keeps its type; the downloads and their keep-alives are
\* numbered without gaps.
THEOREM TypeCorrect == Spec => []TypeOK
<1>1. IInv => TypeOK
    BY DEF IInv
<1>2. QED
    BY <1>1, Invariance, PTL

\* Two tasks never await the entry at once, and what is awaited is what the
\* entry is about: a forced reload does not replace a download that somebody
\* awaits (fetch_with_keepalive).
THEOREM AwaitIsExclusive ==
    Spec => [](\A t, u \in Tasks : tasks[t].pc = "await" /\ tasks[u].pc = "await" => t = u)
<1>1. IInv => \A t, u \in Tasks : tasks[t].pc = "await" /\ tasks[u].pc = "await" => t = u
    BY DEF IInv, Mutex
<1>2. QED
    BY <1>1, Invariance, PTL

\* What is given away is done, and its handle is its own.
LEMMA GivenAreVouched ==
    ASSUME IInv, NEW g \in Given
    PROVE  Vouched(g.result, g.valid)
BY DEF Given, IInv, Handles

\* Whatever the cache file was left as and however requests fail, no task and
\* no page gets a document the hash or the parser would have refused
\* (inner_start_loading).
THEOREM DocumentsAreGenuine == Spec => []ResultsAreGenuine
<1>1. IInv => ResultsAreGenuine
    BY GivenAreVouched DEF ResultsAreGenuine, Vouched, Done, IInv, Genuine
<1>2. QED
    BY <1>1, Invariance, PTL

\* A live handle vouches for what it came with, and a forced reload ends with
\* what the server had when it was asked for, or later: for any number of
\* tasks, cancellations and expiries (fetch_with_keepalive).
THEOREM DocumentsAreFresh == Spec => []ResultsAreFresh
<1>1. ASSUME IInv
      PROVE  LiveHandleVouches
    <2>1. SUFFICES ASSUME NEW g \in Given, g.valid # 0, downloads[g.result].source = "net"
                   PROVE  downloads[g.result].held >= downloads[g.valid].born
        BY DEF LiveHandleVouches
    <2>2. Done(g.result) /\ g.valid = g.result
        BY <1>1, <2>1, GivenAreVouched DEF Vouched
    <2>3. QED
        BY <1>1, <2>1, <2>2 DEF IInv, Fresh, Done
<1>2. ASSUME IInv
      PROVE  ForcedIsFresh
    <2>1. SUFFICES ASSUME NEW t \in Tasks, tasks[t].pc = "send", tasks[t].kind = "force",
                          downloads[tasks[t].result].source = "net"
                   PROVE  downloads[tasks[t].result].held >= tasks[t].asked
        BY DEF ForcedIsFresh
    <2> DEFINE d == downloads[tasks[t].result]
    <2>2. tasks[t].result \in DOMAIN downloads /\ tasks[t].asked <= d.born /\ d.held >= d.born
        BY <1>2, <2>1 DEF IInv, Fresh
    <2>3. Done(tasks[t].result) /\ d.held \in Editions
        BY <1>2, <2>1 DEF IInv, Handles, Vouched, Genuine, Done
    <2>4. d.born \in Editions /\ tasks[t].asked \in Nat
        BY <1>2, <2>2, CountIsLast DEF IInv, TypeOK, TaskStates, Downloads
    <2>5. QED
        BY <2>2, <2>3, <2>4 DEF Editions
<1>3. IInv => ResultsAreFresh
    BY <1>1, <1>2 DEF ResultsAreFresh
<1>4. QED
    BY <1>3, Invariance, PTL

\* A download is never started over or changed once it is done, by any step:
\* who awaits it gets what it ended with (inner_start_loading).
THEOREM DownloadsAreKept == Spec => [][Grows]_vars
<1>1. IInv /\ [Next]_vars => [Grows]_vars
    BY DownloadsGrow
<1>2. QED
    BY <1>1, Invariance, PTL DEF Spec
================================================================================
