# A verification project for Pandora Launcher

TLA+ models of the backend of Pandora Launcher (`src/crates`), checked with TLC
on small instances, and theorems about them checked with TLAPS. Paths below are
relative to `src/crates`.

## 1. Inventory

The launcher is one process. A gpui **frontend** (main thread) and a tokio
**backend** exchange messages (`bridge/src/message.rs`) over two channels. The
backend's main loop (`backend/src/backend.rs`, `handle`) takes one message, one
batch of file system events or one tick at a time and awaits its handling in
line; many handlers spawn tasks that go on beside it. Shared state sits behind
`parking_lot` locks (never held over an await) and tokio mutexes (which may be).

| Component | State | Operations | What is hard | What makes it correct |
|---|---|---|---|---|
| Content, world and server lists (`backend/src/instance.rs`, `backend.rs`, `backend_filesystem.rs`) | per folder: summaries, `dirty_paths`, `all_dirty`, pending signal, `load_state`; watches | load, mark dirty, events, cancel, instance removed | the lock is released while a folder is read; loads are dropped by `select!`; events are late, coalesced, lost while nothing is watched | one load at a time, no waiter forgotten, `load_state` tells the truth, lists end up as the folder is |
| Instance registry (`backend.rs`, `backend_filesystem.rs`, `id_slab.rs`) | slab of instances, `instance_by_path`, generation, watch targets; the frontend's entries | load, update, remove, create, rename, watch | events and requests refer to a disk, and to ids, that have changed since | table, watches and frontend agree with the disk; an old id never means a new instance |
| Metadata manager (`backend/src/metadata`, `bridge/src/keep_alive.rs`, `frontend/src/entity/metadata.rs`) | per entry: tokio mutex, load state, keep-alive handle, cache file; expiry queue; the page's copy | load, fetch, force reload, expire, download | the mutex is held over the download, fetches are cancelled, cache files are torn, servers lie | right documents only, live handles and forced reloads mean fresh, pages are answered |
| Accounts and login (`backend.rs` `login_flow`, `login`; `auth/`; `backend/src/account.rs`) | credentials by stage, secret storage, selected account | login, refresh, store, add, select, delete | retries that walk back through the stages, expiry, a browser that may never answer | every walk ends, only the right account's tokens are stored |
| Launch and modal actions (`backend/src/launch.rs`, `launch_wrapper`, `bridge/src/modal_action.rs`, `backend_handler.rs` StartInstance) | progress trackers, error, cancellation, child process; the files of assets, libraries, Java and Forge | login, prelaunch, load, run processors, put the arguments together, start, kill, tick | early returns and cancellations at every step, files that several launchers write, files without a hash, rules and expansions of arguments, the main loop is busy meanwhile | every modal ends, one child at most, no start after a cancel, a game starts with whole files and with the arguments its documents ask for |
| Content library and installation (`backend/src/install_content.rs`, `mod_metadata.rs`, `lockfile.rs`, `persistent.rs`, `backend/src/lib.rs` `write_safe`) | library files by hash, hard links, summaries by hash, lock files | download, verify, link, replace, update check | two downloads of one file, crashes between temp file and rename, replacing the old mod | library files always match their hash, an update never loses both files |
| Syncing (`backend/src/syncing.rs`) | targets, links between instances and the shared folder, options and fallback options, copied files | enable, disable, apply to an instance | one step of several failing; games that write while another is launched | a game starts with what was synced when its launch began and with nothing else |
| Log reader (`backend/src/log_reader.rs`) | a parser over chunks of the game's output | the loops over lines, elements, attributes, comments, CDATA; redaction | a chunk may end anywhere, the game may die anywhere | what is shown does not depend on the chunks, and the reader ends |
| Lists of log lines (`frontend/src/game_output`, `component/readonly_text_field.rs`, `pages/instance/logs_subpage.rs`, `backend_handler.rs` ReadLog) | texts that wait, rows in a Fenwick tree, wrapped lines, the scroll state; readers of files and their channels | add, paint, scroll, drag, search, select a file, read it | a search has the list while texts arrive and the window is painted; a file is selected while another is read | nothing is lost or out of place, the page shows the selected file, readers that are left end |
| Frontend (`frontend/src`) | entities, pages, caches, windows | render, process messages | messages come in the order they were sent, not in the order of what they tell | modelled as far as components above need it |
| Fenwick tree (`ftree/src`) | prefix sums of line heights | build, push, update, prefix sum, search | index arithmetic | sums and searches agree with the plain sequence |
| NBT (`nbt/src`) | a slab of nodes | edit, clone, write, read | indices that are used again, unchecked access, limits of depth and size, files cut short | a document is a nested value, and what is written is read back |
| Schemas (`schema/src`), HTTP adapter (`reqwest_client/src`), launcher start-up and panic hook (`pandora_launcher/src`), icons and rendering | - | - | - | data definitions and glue |

`PROJECT.json` lists the same components with their status and the hazards, each
at the line where it bites.

## 2. Modules

| Module | Models | Checked by | Proved in |
|---|---|---|---|
| `ContentLoad` | one content folder: `load_content`, its dirty tracking, watch events, cancelled loads, the page | `content_protocol`, `content_fresh` (through `MCContentLoad`) | `ContentLoadProofs` |
| `WorldLoad` | the worlds: `load_worlds`, the watches set after it | `worlds_gap`, `instance_lists` | `InstanceListsProofs` |
| `ServerLoad` | `servers.dat`: `load_servers`, coalesced events, watching again | `instance_lists` | `InstanceListsProofs` |
| `InstanceLists` | composes `WorldLoad` and `ServerLoad`: one instance, one `.minecraft` that can be replaced, one removal | `instance_lists` (through `MCInstanceLists`) | `InstanceListsProofs` |
| `InstanceRegistry` | the table of instances against the disk | `registry` | `InstanceRegistryProofs` |
| `MetadataCache` | one entry of the metadata manager and the page that shows it | `metadata` | `MetadataCacheProofs` |
| `Login` | `login_flow`, `login` and the stages of `credentials.rs`, the secret storage | `launch` | `LaunchInstanceProofs` |
| `LaunchInstance` | extends `Login` with the requests about accounts and games: start, kill, tick, cancellation, the dialog | `launch` | `LaunchInstanceProofs` |
| `LaunchFiles` | what a launch prepares: version, Forge's installer and processors, Java, assets, libraries | `launch_files` (through `MCLaunchFiles`) | `LaunchFilesProofs` |
| `LaunchArguments` | the loader's version, the documents put together, class path, arguments, the lines to the wrapper | `formats` (through `MCLaunchArguments`) | `GameProofs` |
| `ContentLibrary` | the files by hash, downloads, copies and overrides into them, links of instances, lock files | `library` (through `MCContentLibrary`) | `ContentLibraryProofs` |
| `LogReader` | the thread that reads a game's output, loop by loop | `formats`, `log_lines` (through `MCLogReader`) | |
| `FenwickTree` | `ftree`, operators without state | `output`, as part of `GameOutput` | `GameProofs` |
| `GameOutput` | extends `FenwickTree`: the window with the output of a game | `output` | `GameProofs` |
| `LogPage` | extends `GameOutput`: the log page, its field, the tasks that read files | `output` (through `MCLogPage`) | `GameProofs` |
| `OutputView` | abstract: a list of texts, some of them shown | `output`: `ImplementsView` | `GameProofs` |
| `NbtDocument` | the slab, editing, cloning, writing and reading | `formats` | |
| `NbtValue` | abstract: a nested value that is changed one place at a time | `formats`: `ImplementsValue` | |
| `Syncing` | `apply_to_instance`, `enable_all`, `disable_all`, the launches they are part of, games that write before and during them | `formats` | `GameProofs` |
| `MCFormats` | four systems that have nothing in common side by side (`inUse` chooses one): `LaunchArguments`, `LogReader`, `NbtDocument`, `Syncing` | `formats` | |

How state and actions correspond to the code: each variable's comment names the
field it stands for, each action is a stretch of the code between two points at
which others can interfere (a lock released, an await, the end of a handler).
`PROJECT.json` "map" gives the lines of every definition.

### ContentLoad

`load_content` is cut where its lock is released: `BeginLoad` takes the marks
(`dirty_paths`, `all_dirty`), stores Loading and leaves a signal; `ReadPath` and
`KeepOld` read the folder path by path without the lock; `FinishLoad` takes it
again, publishes the list and notifies; `SendList` sends it to the frontend.
`CancelLoad` drops the future at any await. Files exist as a file and its
`.disabled` twin; the watcher's events reach the folder late.

### InstanceRegistry

A folder is absent, bare or an instance (`info`). `LoadInstance` reads a folder
and updates the table, `SetWatch` sets the watch that follows: in between the
folder can change. Events wait in a queue and refer to names; requests wait in
another and refer to ids. `troubles` is a history variable: it records the four
situations in which the code does lose track: a change between load and watch
("gap"), a rename, a folder replaced within one batch ("replaced"), and a folder
removed from an "instances" that has just been made and is not watched yet
("unseen").

### MetadataCache

`Lock` is `fetch_with_keepalive` from the mutex to the await, `Await` the rest.
The download task runs beside it: it reads the cache file, asks the server,
writes the file. One keep-alive is made for each download of an entry that
expires, so both have the same number. The four kinds of entries of `items.rs`
are four initial values of `item`. A restart is not an action: `Init` starts
with any file an earlier launcher can have left, a torn one included.

### Login and LaunchInstance

`Login` takes one trip through the loop of `login` in three steps: `CheckStage`
(the cancel request, `credentials.stage()` and the comparison with
`last_auth_stage`), `MatchStage` (`stage()` once more, which may answer
otherwise when a token expired in between) and the answer of the server that is
asked. A credential is the account it was issued to, or none: formats and
requests are left out. `Stored` is the write on Windows, token by token up to
the first failure; elsewhere a write stores all or nothing, which are two of its
cases. Deleting is all or nothing. The outcome of initialising the storage is
kept, a failure too (`OnceCell<Result<..>>`).

`LaunchInstance` says when a login begins. The main loop awaits a login and a
launch in place (`phase`), so requests, events and ticks wait; only the cancel
request and the game move meanwhile. A dialog covers the window while its
request runs, so there is one at a time. What is prepared between "launching"
and the process is one stretch that can fail or be cancelled anywhere. `lost` is
a history variable: the instances whose `Child` was dropped with the instance,
or whose `kill` failed; `accepted` in `Login` is another.

### ContentLibrary

A file is a sequence of chunks that are right or wrong; names (`library`, `link`)
point to files, since a hard link shows what is written under another name. A
task of `tasks` is one call of `download_file_into_library_inner`, or the closure
that writes a copy or an override; its `step` is the await, or the call of the
disk, that it has come to. tokio hands a write to its blocking pool and returns:
the write is in `flight` until `WriteLands`, also when its task has returned or
was dropped. Two locks protect a file. `Lockfile` (by path, between tasks and
launchers) is awaited, std's lock on the open file is waited for on the thread
(`Blocked`). Within a launcher the main loop awaits an installation or a launch,
so `phase` holds one request; a cancelled launch leaves only writes behind
(`Leftover`). A modpack is an installation and some overrides. The instances
that use a file, the cached summary of it and the children of a modpack are left
out, and so are the loader and new instance an installation can ask for first.

`troubles` is a history variable: the ways in which the code can leave a file
broken, listed in section 5. The safety properties except them, and TLC refutes
each property once one of its exceptions is taken away.

### LaunchFiles

A slot is an entry of the documents that say what a launch needs, and belongs to
one of the loads that `launch.rs` joins: Java, assets, libraries, and for Forge
its installer, the profile in it and the outputs of its processors. `CheckDisk`
reads a file and compares its hash where the documents have one;
`Downloaded` hands it to the pool, which opens (and empties) it and writes it in
two steps, also when the task has been dropped meanwhile; `MakeExecutable` is the
mode of Java's programs. Processors are taken one after the other: one whose outputs
are there is skipped, unless `can_skip_forge_processor` cannot tell (no outputs
listed, no hash, a program it does not know: `Unskippable`), and then it runs at every
launch over what it has made before. A processor is taken to end with its launcher. A
failure, a
cancellation and the death of a launcher are mishaps, of which there are few. Two
launchers share the files; in each the main loop awaits one launch. The permits
that bound requests and reads are left out: each is held over one await. The
history variables name the files that were trusted without a hash and those
written anew while somebody else wrote them or a launch went by them.

### LaunchArguments

Every step is a function of the documents: the choice of the Forge or NeoForge
version, the check of its installer, the merge of the version with its loader (`schema/src/version.rs`, as `launch.rs` calls it),
the libraries of the class path, the rules, the expansion of "${...}" and the
lines that `LaunchWrapper.java` reads. What varies is the input: loader manifests
as Forge and NeoForge publish them, triples of libraries and of arguments. The
reference definitions (`Said`, `Replaced`, `RulesSayYes`, `NewestLibraries`)
say what is wanted without the order in which the code goes about it. A version
preferred by the user stays when the instance gets another Minecraft
(`backend_handler.rs:86`), and the newest loader whose number begins with the
Minecraft asked for may be for another one ("1.17" begins "1.17.1"); both are
noticed when the installer is read (`ReadInstaller`) and end the launch. Options
are sets with one element or none, since an empty list of rules is not the same as
none. What the VM is given, and the choice of a Fabric loader, are left out.

### LogReader

An input is a sequence of tokens: the characters the loops look for and pieces
of names and texts, in two pieces where a read can end inside one; a letter may
have two halves, and half of one is no text (`IsText`). A step is one
pass of a loop (`mode` is the loop): it sees what `fill_buf` has returned and
consumes some of it. `Fill` returns any part of what the game has printed;
`GameDies` ends the input anywhere. It is the release build: the debug build
panics over markup it does not know. Every error ends the reading with a message of
its own (`Fail`): bytes that are no text, broken markup, the end of the pipe in the
middle of something. `repeated` is a history variable for the
one finding, which `LogIsShown` excepts and `log_lines` refutes; it also excepts
an exception of one line that comes with a message of several (`LinesShown`), which
the code drops.

### FenwickTree, GameOutput, LogPage and OutputView

`GameOutput` is the window of a running game: texts wait in `pending` until it is
painted (`update_scrolling`, `paint_lines`); a search takes the whole `ItemState`
away, works on it in a task and brings it back; the scroll state is shared with
the scroll bar. Positions are whole rows from the top, and the rows of a text at
each width are given with it. The cache of 256 shaped lines and the selection of
text are left out.

`LogPage` uses the same list (`readonly_text_field.rs` repeats it for texts of
one line) and adds what feeds it: the page asks for the files, selects one, gets
a channel, and the task of `ReadLog` sends lines into it as long as somebody
listens. Files are written by the game, deleted by the user or cleaned up;
zipped ones do not change. `latest.log` is not rotated.

`OutputSpec` is the window by itself, `PageSpec` the page; `MCLogPage` runs either of
them. Both start from the same empty list, and what they do to it are the same
operators (`ApplyPending`, `RecountAll`, `Filter`). `FenwickTree` says in `Sums` what
a tree's sums are sums of. The loops of the code over items and slots are recursive
functions over a number, so that they can be proved about.

`OutputView` is what both promise: a list of everything that arrived, in order,
of which is shown what matches the last query. The mapping takes the list from
the search task when that has it.

### NbtDocument and NbtValue

A slab of nodes, whose free indices form a stack, and the operations of
`reference.rs` on the node that a path from the root leads to; `clone`; `encode.rs`
and `decode.rs` with their limits, in units (a tag, a number, a letter) instead of
bytes. A string is its length and that many letters, each of which a reader out of
step takes for the end of a compound; a file has `Width` different lengths of a string
(2^16 in the code, two in the run), and `WriteString` writes a longer one as the code
does, whole but with its length cut. A byte and a string
stand for all types without children. `Value` reads a document as a nested value,
which is the refinement mapping to `NbtValue`. Both modules have RECURSIVE
operators and no theorems.

### Syncing

`Prelaunch` is `apply_to_instance`, the first step of a launch. It is done before the
modpacks are installed, before `StartInstance` looks whether the game runs already, and
long before the game starts (`StartGame`); or the launch ends without a game
(`EndLaunch`). The main loop waits for the launch, so that links are not set and nothing
else is launched meanwhile (`MainLoopIsFree`), but the games that run write their
options, server lists and worlds whenever they like, the game of the same instance too.
To set links and to apply them is one step each: what a game writes during these few
reads and writes of files is not modelled. One folder ("saves")
and one copied file ("servers") stand for all, options.txt for itself. `clock` is
the modification time. The history variables keep what the users set last,
whether a game has overwritten what was set in another that ran at the time, and what
is due to the game that is launched (`due`): what was set last anywhere when its launch
began, or in its own instance since.

## 3. Runs

| Run | Bounds | Shows |
|---|---|---|
| `content_protocol` | two tasks, one file with its twin, three edits, cancellation and removal | `SingleFlight`, `DirtyStateMatchesMarks`, `NoLostWakeup` |
| `content_fresh` | two tasks, two files (one changes while the other's entry is kept), two edits, no twins, no cancellation | the list is the folder once things settle; every request is answered; the backend's list ends up fresh, and so does the list the page was sent last, unless two lists were on their way together |
| `instance_lists` | two loaders, two worlds (one changes while the other's entry is kept), three edits in all, one replaced `.minecraft`; one of the lists is looked at at a time (`OneListInUse`) | worlds and servers: one loader at a time and the page told so, deleted worlds and rewritten servers do not stay listed |
| `worlds_gap` | one world | **violated**: a change between reading a world and watching it is lost |
| `registry` | two folders, three edits, one request | table, frontend and disk agree once things settle; stale requests hit nobody else |
| `metadata` | two tasks, two editions, one failure, expiry, fetch and forced reload each | right documents, results as fresh as their handle and the reload say, answered pages |
| `launch` | two accounts, one of them used before (with any of its tokens expired), one instance, two requests, one token that expires during a login (`MaxExpiries`), storage that may fail after the second token (`TornAt`) | tokens stay with their owner; logins go down, then up, and end; a dialog tells the truth; the status is that of the process; the main loop comes back, or waits for what has no time limit and was not cancelled |
| `library` | two tasks of one launcher and one of another, one hash, files of two chunks, one permit, two requests, one mishap, one crash | what is linked is whole, a whole file stays so, a launch has its downloads, an update keeps a version, nobody waits for ever |
| `launch_files` | two launchers, six slots (Java, a library without hash, installer, tool and two outputs of Forge, one of a processor that is never skipped), two launches, one mishap; Java of one's own with Fabric only, and one version of Forge at a time (`FewMixtures`) | a started game has whole files; a failure is never inherited from an earlier launch; the bar counts what was announced and used |
| `output` | three texts of two kinds, two widths, a window of two rows, two moves and searches; one zipped file and one the game writes, three pieces (two end a line, one of them is not UTF-8), files of two, three requests, a channel of one line, one piece in the first buffer; a page keeps its size and is moved little (`LittleOfTheField`) | the rows are counted right; the page shows its file; the list implements `OutputView`; left readers end; long logs are shown |
| `formats` | arguments: 12 loader versions, each preferred or none, games they are for and games nothing is for, triples of 9 libraries and of 6 arguments, arguments of the old kind kept and replaced; log: a line, an event, other markup or something that cannot be read and then a line or an event, read in pieces of every size, the game dying anywhere; NBT: four nodes, two names, strings of one letter and of one too many for their length, depth 1 below the limit, seven foreign files; syncing: two instances, two options (one of them local), five launches and writes (folders for the first two, server lists for the first three), one thing shared at a time (`OneThingShared`) | the game is started as asked; a log is shown once and comes to its end; documents are well formed, values, and read back; games start with what was in sync when their launch began |
| `log_lines` | two items | **violated**: the end of a line that came in a second read is shown twice |

Some properties are conjunctions of named parts, one per thing that can go wrong:
`ListsAreCurrent`, `LoginGoesForward`, `ResultsAreFresh`, `InstancesPlayWholeFiles`,
`RowsAreConsistent`, `GameIsStartedAsAsked`. The type invariants of the modules
with proofs are theorems and not checked again by a run. `CHECK_DEADLOCK FALSE`
stands where a system may stop: its users and games have made all the steps their
bounds allow, or (`formats`, `log_lines`) a reader or a launch has come to its end.

The bounds are small because what goes wrong takes few actors: two tasks that
load one thing, one change in each window between two steps, one earlier
occupant of a slot or a path. Each property fails for a mutant of the code
(`PROJECT.json` "mutants") within the same bounds, so the bounds reach the case
the property is about. `MaxLaunches` 2 lets a launch meet what another left or is
writing; two items of a log let the end of one meet the beginning of the next;
four nodes let an index be given up and used again in another place; two games at
a time are what options can be lost between, and `MaxClock` 6 lets both start and
write, and one start again: without its exception `stale` TLC refutes
`GamesStartInSync`.

### Fairness

Loads, downloads of metadata and queued events are weakly fair: the runtime polls
every task that is ready, the main loop handles what waits in its channels, reads of
local folders end, and requests through `http_client` (metadata, logins) end because
connections and reads time out (`backend.rs:37`). An open page is rendered again and
again. In `launch` only `Prompt` is fair: the handlers that do not wait, the steps of
a login, and the cancel request, against which prelaunch and launch are awaited in a
`select!`. What goes on after files have been downloaded (`Unlimited`) is not:
`redirecting_http_client` (`backend.rs:45`) has no time limit, and a processor of
Forge runs as long as it likes, with the thread blocked in `Child::wait`
(`launch.rs:771`). `MainLoopReturns` therefore excepts a processor, and the browser and
those downloads while the user has not cancelled (`AwaitsTheWorld`). Two more waits are
taken to end: the secret storage answers, and the lock of a library file is granted
(not if its lock file cannot be opened, see `library`). What the user, the
browser, the clock, the game or the metadata server does is never fair; it is
bounded instead. In `output` a reader whose channel has room or that is no longer
listened to, the page's receiver and the backend are weakly fair, each on its own:
they are tasks of their runtimes, and a reader sleeps for a second at most at the
end of a file. In `formats` the reader of a log is: it is a thread of its own,
and the pipe returns or ends.

`library` needs no fairness: `NobodyIsStuck` says that while a request is in hand
some step of the work is enabled. Every such step advances a task or a request,
so work that goes on comes to its end.

## 4. Proofs

Each proof module states an inductive invariant, proves that it holds initially
(`...Init`) and that every action keeps it, one step per action, and derives the
theorems from it. `DiskInv`, the longest, was checked by TLC first, as an invariant
and from all states that satisfy it with one folder and up to four queued events: an
invariant that holds in the reachable states need not be inductive.
`PROJECT.json` "theorems" lists the results, with the property of a run that each
of them states for every value of the constants.

| Module | Theorems | Inductive invariant |
|---|---|---|
| `ContentLoadProofs` | `TypeCorrect`, `OneReader`, `DirtyStateSound`, `WaitersAreWoken`, `LoadingIsAnswered`, `ListIsTheFolder` | `IInv` (types and `Protocol`), with `FreshInv` for the last |
| `InstanceListsProofs` | `OneTaskReads`, `ListsAreRight` | `IInv`: `WorldInv` and `ServerInv`, each over its own module's steps |
| `InstanceRegistryProofs` | `TypeCorrect`, `FrontendInStep`, `StaleRequestsAreHarmless`, `IdsAreNotUsedAgain`, `TableFollowsDisk` | `IInv`, with `DiskInv` for the last |
| `MetadataCacheProofs` | `TypeCorrect`, `AwaitIsExclusive`, `DocumentsAreGenuine`, `DocumentsAreFresh`, `DownloadsAreKept` | `TypeOK`, `Mutex`, `Handles`, `Genuine`, `Fresh` |
| `LaunchInstanceProofs` | `TypeCorrect`, `TokensStayWithTheirOwner`, `LoginsGoForward`, `ProcessesAreKept`, `StatusIsRight`, `DialogsAreTruthful` | `Types`, `Phases`, `Owners`, `Climbs`, `Games`, `Dialogs` |
| `LaunchFilesProofs` | `TypeCorrect`, `GamesGetTheirFiles`, `FailuresHaveReasons`, `BarsAreFilled` | `Types`, `Ended`, `Loaded`, `Counted` |
| `GameProofs`, on arguments | `StartedAsAsked` | `ArgumentsInv`: `LoaderIsChosen`, `ArgumentsTyped`, `LinesFollow` |
| `GameProofs`, on syncing | `SyncTypeCorrect`, `GamesAreInSync` | `SyncInv`: `FilesInv` (`SyncTypeOK`, `Past`, `OptionFollows`, `ServersFollow`) and `PreparedOK` |
| `GameProofs`, on the Fenwick tree | `TreeSumsAndFinds`, `TreesStayTrees` | none: it has no state. `Searching` is that of the loop of `IndexOf` |
| `GameProofs`, on the window of a game | `OutputIsConsistent`, `OutputIsAView` | `OutputInv`: `FieldRight` |
| `GameProofs`, on the log page | `PageIsConsistent`, `LogIsShownAsItIs`, `FieldIsAView` | `PageInv`: `PageFields`, `RequestsRight`, `FieldRight`, `FieldReads` |
| `ContentLibraryProofs` | `TypesAndPhases`, `WholeFilesArePlayed`, `UpdatesKeepAVersion`, `WholeFilesAreLeftAlone` | `Shape`, `Sound => Care`, `UpdateKeepsAVersion` |

The arguments, and why the properties alone are not inductive:

* **Content list.** The pending signal, the tasks between taking the marks and
  publishing, and `load_state` are related: a signal that has not been notified
  belongs to exactly one task that reads. For `ListIsTheFolder` the invariant says
  of a task that reads what it would publish if the disk stood still (`Coming`: what
  it found, what it has yet to read and what it keeps), and that this is right for
  every path but those that a mark or an event on its way will make be read again.
* **World and server lists.** The same two ideas. The directory is watched before it
  is read and, when it comes back, an event says so (`WorldsWatched`); a deleted
  world in what a task has found or the list shows has a mark or an event
  (`WorldsNoticed`). A server list is less simple: the removal of the file is not
  always acted upon, so the invariant is that the last event of a file that exists
  is that it was written (`ServerSignal`). A step of the composition is a step of
  one list beside which the other stays or is marked, which is how
  `InstanceListsProofs` proves the two apart.
* **Registry.** Events and requests name what their handlers use, every id in the
  table is older than the generation, and no two instances share a slot; ids reach
  the user only through `shown`, which is the table. `DiskInv` adds what waits in the
  queue. `FolderOK` says, for each folder, which event is still to come when the
  disk differs from the table or from the watches; `OrderOK` says what has to follow
  an event that is out of date (a "removed" of a folder that is there again is
  followed by its "changed"), since a late event would otherwise undo what is right.
  `StepOK` covers the handler between its load and its watch, `RootOK` an "instances"
  that was removed or made. The proof attempt showed that the property was false
  without the exception "unseen" (section 5).
* **Metadata.** Who awaits holds the mutex and the entry is about the download that
  is awaited (`Mutex`); a handle has the number of the download that it comes with
  (`Handles`); what a download has read or was sent is a right document (`Genuine`)
  and, if the server sent it, at least as new as the start of the download
  (`Fresh`). A forced reload waits for the mutex first, so its download begins at the
  moment it was asked for or later.
* **Login and launch.** `Phases`: a login is under way exactly while the request in
  hand is at its login. `Owners`: all tokens a login holds were issued to one
  account, none are left when the user is sent to the browser, and a server is asked
  about one of them; that is why the profile that comes back owns what is stored.
  `Climbs`: while no token has expired, a login that has come back from a server is at
  a lower stage with permission to go back and nothing accepted, or at a higher one.
  `Games`: an instance being launched is in the table and has no child. `Dialogs`: a
  login ends as cancelled only with a cancel request, and well only with an account
  that is in the list.
* **Launch files.** A slot that has ended has a file that is whole, or one that the
  history names (`Ended`): whoever writes a file anew, a download or a processor, that
  a launch goes by is named (`TornIs`). The phases of a launch say which slots have
  ended (`Loaded`). `Counted` is the arithmetic of the bar: what was counted, and what is
  open, and the Javas that are announced and not counted make up a sum that depends
  on the phase and the loader alone.
* **Content library.** `Shape` relates phases and tasks. `Care` is about what a file
  holds: locks exclude (`Locking`), no two names share a file and a file that is
  written belongs to the hash of its writer (`Apart`), a file has one writer
  (`OneWriter`), who is about to make a file has found it wrong (`Missing`), and a
  writer knows how much of its file is on disk (`Contents`). It holds as long as
  nothing is `Spoilt`: each of those troubles ends one of its parts, which is why the
  property has these exceptions and no others.
* **Arguments.** What a launch does is a chain of functions over sequences, so the
  proof is mostly about those, each compared with what it should give for every
  input. The last rule that applies decides (`CheckRulesIs`, `AllowedIs`); among the
  loaders that begin alike there is one than which none is newer (`NewestExists`),
  and until the installer is read that is the one taken, or the preferred one
  (`LoaderIsChosen`); the class path has the newest of
  each library and one of each (`CollectedNewest`); the expansion replaces every key
  (`ExpandIs`). While the lines wait in the pipe, what the wrapper has read and what
  it will read are together what the documents say (`LinesFollow`, by
  `CommandsOfVersion`): a line that is no command is never in between.
  The library's induction theorems take an operator, which no prover here can
  instantiate, so `UpToInduction` and `Recursion` state induction and recursion with
  sets and functions instead, proved from the least element of a set of numbers.
* **Syncing.** Files are dated by a clock that only goes on (`Past`), so what is
  written is the latest. Of each shared option that any file has, the latest file that
  has it has what was set last, and the fallback has no shared option that no file
  has (`OptionFollows`); the server lists with the latest date are the one that was
  saved last (`ServersFollow`). From the first step of its launch to the start of its game
  an instance has what is due to it (`Prepared`): a game of another instance changes
  neither, one of its own changes both. The merge of `create_combined_options_txt` is modelled
  by its result, option by option: the value in the latest file that has one.
* **Fenwick tree.** Slot j of a tree holds the values after the (j - `LowBit[j]`)-th up to
  the j-th (`IsTree`). A prefix sum is then a sum of adjoining stretches. While a
  tree is built, a slot holds its own value and those of the children that were
  visited (`FromIterIs`). The slots that `add_at` changes are exactly those whose
  stretch has the changed value (`AddAtIs`). While it looks for a row, the loop has left
  only values that come before it, and if the slot above its probe exists, the row is
  not beyond it (`Searching`); so it ends at the value that has the row. That is for
  any integers: the search does not need them to be positive, as long as the row is
  one of the total.
* **Lists of lines.** `ListRight`: the sizes are a tree of the items' totals and the
  total is their sum; an item is left out exactly if it does not match the query, and
  then it has no rows; what is wrapped has the rows and highlights of its text. While
  a search has the list, the view has none and texts wait, so the invariant speaks
  of the list in the task, which matches the *last* query, and of the one that comes
  back, which matches the next (`FieldRight`). A tree of the right totals does not
  suffice: `Recount` changes tree and sum by the difference to what the item had, so
  items, tree and sum have to be related item by item. Nothing is assumed of the
  scroll state: the rows are right however the view is moved.
* **Log page.** What a reader has read, piece by piece, is in the field, in its channel,
  in the lines it is about to send or in its unfinished line, in this order
  (`Reading`); the page listens to the reader of the selected file only
  (`FieldReads`), and a request for a reader is in the queue once at most, before it
  starts (`RequestsRight`), or a second one would read the file twice. A file that is
  written grows at its end, so what was read stays a prefix.
* **Refinement of `OutputView`.** The mapping takes the list from wherever it is.
  Painting moves all waiting texts into it (`List` of `OutputView`) or, while a search
  has the list, does nothing that the view sees; pressing enter stutters and
  `SearchEnds` changes the query and what is shown at once (`Search`); a text that
  arrives is an `Arrive`, another file a `Turn`; all other steps stutter.
  Because of `ListRight` what is shown is what matches, also for texts that are listed
  after the search. The window has no page, so its `subject` never changes, which is
  the second hypothesis of `OutputIsAView`.

The assumptions are those on the constants (`LoginAssumption`, `LaunchAssumption`,
`LaunchArgumentsAssumption` and the like) and nothing else. For the lists of lines they say that a
text has a number of rows at each width (`GameOutputAssumption`,
`LineRowsAssumption`) and that "none" is not the name of a file (`NoneAssumption`).

### What is only model-checked

* Liveness: `LoadsEnd`, `EventuallyFresh`, `EventuallyRegistered`,
  `ExpiredIsReplaced`, `MainLoopReturns`, `ReaderEnds`, `LeftReadersEnd`,
  `LongLogsAreShown`; and `NobodyIsStuck`, which is about ENABLED. The prover has
  neither fairness nor ENABLED.
* `DocumentIsWellFormed`, `WrittenIsReadBack` and `ImplementsValue`: `NbtDocument` and
  `NbtValue` need RECURSIVE operators.
* `LogIsShown`: it holds for the items that `MCItems` lists, not for any sequence of
  tokens. A theorem needs a grammar of what games print and an invariant of the whole
  parser (what each loop has consumed of which production, and kept), neither of which
  is stated.

## 5. Divergences met

* A launch cancelled while it loads the mods loses the marks it took, and
  `load_state` stays Loading: with `AllowCancel` TRUE in `content_fresh` TLC
  refutes `SettledListMatchesFolder`.
* Lists are sent after the lock is released, so the older one can be sent last
  (`backend.rs:889`, `SendList`); `EventuallyFresh` excepts it for what the page
  shows (`OneListOnItsWay`), and without that TLC finds the older list shown for good.
* Worlds are watched after they are read (`worlds_gap`).
* `instance_by_path` does not follow a rename: without its exception for renamed
  instances TLC refutes `SettledRegistryMatchesDisk`.
* When "instances" is removed and made again, and a folder in it that is still
  watched goes before the new "instances" is, nothing tells: its instance stays in
  the table (`backend_filesystem.rs:55`). It takes eight edits, beyond the bounds of
  `registry`; the attempt to prove `SettledRegistryMatchesDisk` without the exception
  "unseen" met it, and TLC confirmed it with one folder.
* Twins: when a mod and its `.disabled` twin are both in the folder, an
  incremental load of one drops the other from the list
  (`instance.rs:564-569`). `content_fresh` excludes twins; with `AllowTwins`
  TRUE and `AllowCancel` FALSE TLC refutes `SettledListMatchesFolder`.
* An entry of the metadata manager that does not expire keeps the error of its
  first load until the launcher is started again (`metadata/manager.rs:182`).
* `login` calls `credentials.stage()` twice for one stage
  (`backend.rs:382`, `404`): a token that expires between the calls ends the
  login with "most likely a bug with the auth flow", and `login_flow` then
  deletes the stored credentials. `launch` contains such logins and excepts them
  from `LoginGoesForward`.
* The failure to initialise the secret storage is kept until the launcher is
  started again (`backend.rs:159`); the user is sent to the browser all the same.
* Launch files: Java's programs are made executable only when they are written
  (`launch.rs:1534`), so a crash before that leaves files whose hash is right for
  ever and that cannot be executed. Libraries and outputs without a hash are taken
  for whole as soon as they exist. Java of one's own is announced to the progress
  bar and not counted, nor are the libraries of a legacy profile that lists none
  (`launch.rs:829`). A processor that `can_skip_forge_processor` cannot judge
  (`launch.rs:1150-1152`, `1257-1259`) writes its whole outputs anew at every launch,
  also while another launcher is about to use them: `StartedWithItsFiles` excepts them
  by `rewritten`.
* Arguments: one whose expansions are all empty is passed on unexpanded
  (`launch.rs:2219`): the game gets "${clientid}". The newest loader that begins with
  the Minecraft asked for is taken even if it is for another one (`launch.rs:487`), and
  then, as with a preferred version from before the Minecraft was changed, the launch
  ends with `MismatchedLoaderVersions`, also where a version that fits exists.
* Log reader: a line that was read in two pieces is shown, and its end is shown
  again (`log_lines`), or ends the reading with an error if the read ended inside a
  letter. Bytes that are no UTF-8 end it as well. An exception of one line is not
  shown if its message has several (`log_reader.rs:869-896`).
* Log page: a file that ends within the first buffer (8 KiB) is not shown before it
  grows (`backend_handler.rs:638`): `LongLogsAreShown` excepts it.
* NBT: a document that was read has its root at the last index, not at 0, and
  removing the child that has index 0 panics (`nbt/src/lib.rs:196`; the model has
  it, as `panicked`). A value that replaces another under its name leaves the old
  nodes in the slab, where nothing leads to them. A clone drops the name of the
  root. A string or name of 2^16 bytes or more is written whole with the lowest two bytes of
  its length (`encode.rs:137`) and then not read back as it was, or not at all;
  `WrittenIsReadBack` excepts exactly such documents. Outside the model, as nothing calls it: the reader and the writer of SNBT do
  not fit together.
* Syncing: two games that run at a time overwrite each other's options (the
  property excepts it by `stale`); syncing is applied before modpacks are installed and
  files downloaded, and not again before the game starts (`backend.rs:634`), so that
  what another game saves meanwhile is not in it, and it is applied also to an instance
  whose game runs and then overwrites it; the fallback options hold the resource packs of the last instance
  that was launched, which an instance without options of its own then gets; an
  options.txt that cannot be read counts as empty and is overwritten; a broken link
  or a file in the instances directory ends `enable_all` half-way.
* Content library, each an exception of a property of `ContentLibrary`:
  * the file is not flushed before its lock is released
    (`install_content.rs:387-465`), so the next task can find the right file too
    short, truncate it and, if its own download fails, remove it;
  * the result of the last write is never asked for: a full disk at that moment
    leaves a short file that counts as installed, until it is checked again;
  * the last chunk of a dropped download can be written into the file that a
    later download has made;
  * copies and overrides take no lock, and an override is looked for by its name
    only: after a crash in the middle of one, its torn file is taken for whole;
  * an error of `Lockfile::create` is not looked at. Two tasks of one thread can
    then meet at std's lock on the file, which blocks the thread that the holder
    needs;
  * `hard_link` is called after the old file is removed and its error is not
    looked at: the instance then has neither version.

## 6. Plan

1. (done) the lists of an instance, the registry, the metadata manager; login,
   launch, kill, cancellation; the content library; the files and arguments of a
   launch; the log reader, the lists of log lines with their abstract
   specification; NBT with its; syncing.
2. Content metadata and saved settings: summaries by hash, `write_safe`,
   `Persistent`, update checks. Abstract specification of the library: a set of
   hashes, each there or not.
3. Proofs (done): type correctness of every module with a proof module, the
   safety invariants listed in section 4, and that the lists of lines implement
   `OutputView`.
4. Proofs that are left and within reach: `LogIsShown`, with a grammar and an invariant
   of the parser; refinement of `ContentLoad` to an abstract
   load life cycle and of `LaunchInstance` to a dialog that is opened and ends once;
   further action properties of the modules that have an invariant.

### Not modelled

Rendering, selection and copying of text; the formats of JSON and PNG; redaction
and timestamps of logs, stderr, the file of a game that writes no log for the
launcher; the extraction of natives, the log configuration and the choice of
Java; metadata of mods and saved settings; the pages and requests for Modrinth;
`get_sync_state` and its page; the network variant of NBT and SNBT, which the
launcher does not use; symbolic links of watched folders and renames across
directories; the order and the cap of lists; the channels between frontend and
backend as modules of their own (they are queues inside the modules that use
them); start-up, panic hook and HTTP adapter. These are pure I/O, layout or data
definitions, or, as marked in section 6.2, left for later.
