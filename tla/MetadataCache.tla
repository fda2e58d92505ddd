--------------------------- MODULE MetadataCache ---------------------------
(***************************************************************************)
(* One entry of the MetadataManager of backend/src/metadata/manager.rs: a  *)
(* document of a server (a version manifest, a search result, an assets    *)
(* index...) held in memory behind a tokio mutex, with a copy in a file.   *)
(* Tasks fetch it; a fetch awaits the download with the mutex held.  An    *)
(* entry that expires is good as long as its keep-alive handle is alive.   *)
(* The page of frontend/src/entity/metadata.rs shows the last result.      *)
(*                                                                         *)
(* The n-th download is also the n-th keep-alive: one is made for each.    *)
(***************************************************************************)
EXTENDS Naturals, FiniteSets

CONSTANTS
    Tasks,         \* tasks of the backend that fetch the entry
    None,
    MaxEditions,   \* bound on the editions the server publishes
    MaxFailures,   \* bound on the requests that fail
    MaxExpiries,   \* bound on the keep-alives that are dropped
    MaxFetches,    \* bound on the fetches of launches and installations
    MaxForced      \* bound on the uses of the reload button

ASSUME MetadataCacheAssumption ==
    /\ None \notin Tasks \cup Nat \cup {"fetch", "request", "force", "net"}
    /\ MaxEditions \in Nat \ {0}
    /\ \A n \in {MaxFailures, MaxExpiries, MaxFetches, MaxForced} : n \in Nat

Editions == 1..MaxEditions

\* What a file or an answer holds: an edition, a document that parses but has
\* another hash, one that does not parse, or nothing.
Wrong == 0
Torn == MaxEditions + 1
Contents == Editions \cup {Wrong, Torn, None}

\* The metadata items: does the entry expire, is its hash known, has it a file?
Items == {
    [expires |-> TRUE,  hash |-> FALSE, file |-> TRUE],    \* manifests
    [expires |-> TRUE,  hash |-> FALSE, file |-> FALSE],   \* modrinth
    [expires |-> FALSE, hash |-> TRUE,  file |-> TRUE],    \* versions, assets, java
    [expires |-> FALSE, hash |-> FALSE, file |-> TRUE]}    \* fabric launch

Steps == {"cache", "request", "write", "done"}
Sources == {None, "net", "file", "error"}
Downloads == [step : Steps, held : Contents, fallback : Contents, source : Sources, born : Editions]

VARIABLES
    item,
    remote,       \* the edition the server has
    left,         \* what is left of each bound
    file,         \* the cache file
    downloads,    \* the downloads started, a function from 1..n
    state,        \* MetaLoadState: its arm and the download it is about
    handle,       \* the KeepAliveHandle, 0 for None
    expired,      \* how many keep-alives were dropped
    lock,         \* the task that holds the entry's mutex, or None
    tasks,        \* what each task does
    page,         \* FrontendMetadataState
    inbox         \* RequestMetadata messages not yet handled

loadVars == <<downloads, state, handle, lock, tasks>>
vars == <<item, remote, left, file, loadVars, expired, page, inbox>>

Idle == [pc |-> "idle", kind |-> None, result |-> 0, valid |-> 0, asked |-> 0]
Unloaded == [arm |-> "Unloaded", download |-> 0]
NoPage == [arm |-> "none", result |-> 0, valid |-> 0]

Count == Cardinality(DOMAIN downloads)

\* The launcher starts.  The file is what an earlier one left, which may have
\* been killed while it wrote it.
Init ==
    /\ item \in Items
    /\ remote = 1
    /\ left = [failures |-> MaxFailures, expiries |-> MaxExpiries, fetches |-> MaxFetches,
               forced |-> MaxForced]
    /\ file \in {None} \cup (IF item.file THEN {1, Torn} ELSE {})
                     \cup (IF item.hash THEN {Wrong} ELSE {})
    /\ downloads = <<>> /\ state = Unloaded /\ handle = 0 /\ expired = 0
    /\ lock = None /\ tasks = [t \in Tasks |-> Idle]
    /\ page = NoPage /\ inbox = {}

Spend(what) == left[what] > 0 /\ left' = [left EXCEPT ![what] = @ - 1]

\* A document whose hash is known never changes.
Publish ==
    /\ remote < MaxEditions /\ ~item.hash
    /\ remote' = remote + 1
    /\ UNCHANGED <<item, left, file, loadVars, expired, page, inbox>>

-----------------------------------------------------------------------------
(* The download task of inner_start_loading.                                *)

NewDownload == [step |-> "cache", held |-> None, fallback |-> None, source |-> None, born |-> remote]

Parses(c) == c \in Editions \cup {Wrong}

\* Mutant: the hash of the answer is not looked at.
AcceptsAny(c) == Parses(c)

Accepts(c) == Parses(c) /\ (item.hash => c # Wrong)

Becomes(d, new) == downloads' = [downloads EXCEPT ![d] = new]

\* A file with the right hash is the answer; one without is the fallback.
ReadCache(d) ==
    /\ downloads[d].step = "cache"
    /\ Becomes(d, IF item.hash /\ Accepts(file)
                  THEN [downloads[d] EXCEPT !.step = "done", !.held = file, !.source = "file"]
                  ELSE [downloads[d] EXCEPT !.step = "request",
                                            !.fallback = IF Accepts(file) THEN file ELSE None])
    /\ UNCHANGED <<left, file>>

Fails(d) ==
    LET f == downloads[d].fallback
    IN  [downloads[d] EXCEPT !.step = "done", !.held = f, !.fallback = None,
                             !.source = IF f = None THEN "error" ELSE "file"]

\* tokio::fs::write empties the file first, another write may be under way.
Receives(d, c) ==
    IF item.file
    THEN /\ Becomes(d, [downloads[d] EXCEPT !.step = "write", !.held = c, !.fallback = None])
         /\ file' = Torn
    ELSE /\ Becomes(d, [downloads[d] EXCEPT !.step = "done", !.held = c, !.source = "net"])
         /\ UNCHANGED file

Answers(d) ==
    /\ downloads[d].step = "request"
    /\ Receives(d, remote)
    /\ UNCHANGED left

\* No answer, a status, or a document that is not what was asked for.
AnswersBadly(d) ==
    /\ downloads[d].step = "request"
    /\ Spend("failures")
    /\ \E c \in {None, Torn, Wrong} :
          /\ c = Wrong => item.hash
          /\ IF Accepts(c) THEN Receives(d, c) ELSE Becomes(d, Fails(d)) /\ UNCHANGED file

Write(d) ==
    /\ downloads[d].step = "write"
    /\ Becomes(d, [downloads[d] EXCEPT !.step = "done", !.source = "net"])
    /\ file' \in {downloads[d].held}
                 \cup (IF \E e \in DOMAIN downloads \ {d} : downloads[e].step = "write"
                       THEN {Torn} ELSE {})
    /\ UNCHANGED left

Download(d) ==
    /\ ReadCache(d) \/ Answers(d) \/ AnswersBadly(d) \/ Write(d)
    /\ UNCHANGED <<item, remote, state, handle, lock, tasks, expired, page, inbox>>

-----------------------------------------------------------------------------
(* load and fetch_with_keepalive.                                           *)

\* MetadataManager::expire drops the oldest keep-alive.
Alive(h) == h > expired

Expire ==
    /\ item.expires /\ expired < Count
    /\ Spend("expiries")
    /\ expired' = expired + 1
    /\ UNCHANGED <<item, remote, file, loadVars, page, inbox>>

IsValid == handle # 0 => Alive(handle)

MustLoad(force) == force \/ ~IsValid \/ state.arm = "Unloaded"

StartLoading ==
    /\ downloads' = [d \in 1..Count + 1 |-> IF d = Count + 1 THEN NewDownload ELSE downloads[d]]
    /\ state' = [arm |-> "Pending", download |-> Count + 1]
    /\ handle' = IF item.expires THEN Count + 1 ELSE handle

LoadIfNeeded(force) ==
    IF MustLoad(force) THEN StartLoading ELSE UNCHANGED <<downloads, state, handle>>

\* The launcher prefetches the version manifest when it starts.
Load ==
    /\ item.expires /\ item.file /\ Count = 0 /\ lock = None
    /\ LoadIfNeeded(FALSE)
    /\ UNCHANGED <<item, remote, left, file, lock, tasks, expired, page, inbox>>

Begins(t, kind) ==
    /\ tasks[t].pc = "idle"
    /\ tasks' = [tasks EXCEPT ![t] = [Idle EXCEPT !.pc = "lock", !.kind = kind,
                              !.asked = IF kind = "force" THEN remote ELSE 0]]

\* A launch or an installation fetches the entry.
BeginFetch(t) ==
    /\ Spend("fetches")
    /\ Begins(t, "fetch")
    /\ UNCHANGED <<item, remote, file, downloads, state, handle, lock, expired, page, inbox>>

\* RequestMetadata is handled by a task of its own.
BeginRequest(t, r) ==
    /\ r \in inbox /\ inbox' = inbox \ {r}
    /\ Begins(t, r)
    /\ UNCHANGED <<item, remote, left, file, downloads, state, handle, lock, expired, page>>

\* Mutant: the mutex is not held while the download is awaited.
Nobody(t) == None

Holder(t) == t

\* A task finds a result to return, or has to await the download.
Lock(t) ==
    /\ tasks[t].pc = "lock" /\ lock = None
    /\ LoadIfNeeded(tasks[t].kind = "force")
    /\ tasks' = [tasks EXCEPT ![t].pc = IF state'.arm = "Pending" THEN "await" ELSE "send",
                              ![t].valid = handle', ![t].result = state'.download]
    /\ lock' = IF state'.arm = "Pending" THEN Holder(t) ELSE None
    /\ UNCHANGED <<item, remote, left, file, expired, page, inbox>>

Outcome(d) == IF downloads[d].source = "error" THEN "Error" ELSE "Loaded"

Await(t) ==
    /\ tasks[t].pc = "await"
    /\ LET d == tasks[t].result
       IN  /\ downloads[d].step = "done"
           /\ state' = [arm |-> Outcome(d), download |-> d]
    /\ tasks' = [tasks EXCEPT ![t].pc = "send"]
    /\ lock' = None
    /\ UNCHANGED <<item, remote, left, file, downloads, handle, expired, page, inbox>>

Reported(t) == tasks[t].kind \in {"request", "force"}

\* FrontendMetadata::set, or the result is used by the launch.
Send(t) ==
    /\ tasks[t].pc = "send"
    /\ tasks' = [tasks EXCEPT ![t] = Idle]
    /\ page' = IF Reported(t)
               THEN [arm |-> "Loaded", result |-> tasks[t].result, valid |-> tasks[t].valid]
               ELSE page
    /\ UNCHANGED <<item, remote, left, file, downloads, state, handle, lock, expired, inbox>>

\* A launch is cancelled, or a fetch beside this one in a try_join fails: the
\* mutex is released, the download goes on.
Cancel(t) ==
    /\ tasks[t].kind = "fetch" /\ tasks[t].pc \in {"lock", "await"}
    /\ tasks' = [tasks EXCEPT ![t] = Idle]
    /\ lock' = IF lock = t THEN None ELSE lock
    /\ UNCHANGED <<item, remote, left, file, downloads, state, handle, expired, page, inbox>>

-----------------------------------------------------------------------------
(* The page, which asks for the entry each time it is rendered.             *)

\* Mutant: a result is never asked for again.
WantsFirst == page.arm = "none"

WantsRequest ==
    \/ page.arm = "none"
    \/ page.arm = "Loaded" /\ page.valid # 0 /\ ~Alive(page.valid)

Render ==
    /\ item.expires /\ WantsRequest /\ "request" \notin inbox
    /\ inbox' = inbox \cup {"request"}
    /\ page' = IF page.arm = "none" THEN [page EXCEPT !.arm = "Loading"] ELSE page
    /\ UNCHANGED <<item, remote, left, file, loadVars, expired>>

ForceReload ==
    /\ item.expires /\ page.arm # "none" /\ Spend("forced")
    /\ inbox' = inbox \cup {"force"}
    /\ UNCHANGED <<item, remote, file, loadVars, expired, page>>

TaskStep(t) ==
    \/ \E r \in {"request", "force"} : BeginRequest(t, r)
    \/ Lock(t) \/ Await(t) \/ Send(t)

Next ==
    \/ Publish \/ Expire \/ Load
    \/ \E d \in DOMAIN downloads : Download(d)
    \/ \E t \in Tasks : BeginFetch(t) \/ TaskStep(t) \/ Cancel(t)
    \/ Render \/ ForceReload

Spec == Init /\ [][Next]_vars

\* Downloads end, for connections and reads time out; the runtime polls its
\* tasks and serves the mutex in turn; an open page is rendered.
Fairness ==
    /\ \A d \in 1..(1 + MaxExpiries + MaxForced) :
          WF_vars(d \in DOMAIN downloads /\ Download(d))
    /\ \A t \in Tasks : WF_vars(TaskStep(t))
    /\ WF_vars(Render)

FairSpec == Spec /\ Fairness
-----------------------------------------------------------------------------
(* Properties.                                                              *)

\* What tasks and the page were given: a download and a handle.
Given == {[result |-> tasks[t].result, valid |-> tasks[t].valid] :
             t \in {u \in Tasks : tasks[u].pc = "send"}}
         \cup {[result |-> p.result, valid |-> p.valid] : p \in {q \in {page} : q.arm = "Loaded"}}

\* Nobody is ever given a document with another hash than the one asked for,
\* or the torn remains of a write, whatever the file was left as.
ResultsAreGenuine ==
    \A g \in Given : downloads[g.result].source # "error" => downloads[g.result].held \in Editions

\* A handle that is alive vouches for what it came with: the server was asked
\* after the handle was made, unless it did not answer and the file stood in.
LiveHandleVouches ==
    \A g \in Given :
        /\ g.valid # 0 /\ Alive(g.valid)
        /\ downloads[g.result].source = "net"
        => downloads[g.result].held >= downloads[g.valid].born

\* A forced reload ends with what the server had when the user asked or later,
\* also when a download was under way already.
ForcedIsFresh ==
    \A t \in Tasks :
        /\ tasks[t].pc = "send" /\ tasks[t].kind = "force"
        /\ downloads[tasks[t].result].source = "net"
        => downloads[tasks[t].result].held >= tasks[t].asked

\* Both: a result is as fresh as what comes with it says.
ResultsAreFresh == LiveHandleVouches /\ ForcedIsFresh

\* When no keep-alive is dropped any more an open page shows a result whose
\* keep-alive is alive.
ExpiredIsReplaced == <>[](page.arm = "Loaded" /\ page.valid # 0 => Alive(page.valid))
=============================================================================
