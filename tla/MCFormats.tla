------------------------------- MODULE MCFormats -------------------------------
(***************************************************************************)
(* What the launcher reads and writes with code of its own for the games,   *)
(* each on its own: the arguments and lines a game is started with          *)
(* (LaunchArguments), the output of a game (LogReader), the documents that  *)
(* the world and server lists are read from (NbtDocument), and the files    *)
(* that instances share (Syncing).                                          *)
(***************************************************************************)
EXTENDS MCLaunchArguments, Syncing, FiniteSets

CONSTANTS Items, Keys, Leaves, ListTypes, Files, MaxDepth, Capacity, Width, MaxNodes, MaxReads

VARIABLES
    inUse,  \* which format this behaviour is about
    items, input, pos, end, mode, closing, buffer, partial, key, stack, sent, result, repeated,
    slab, root, reads, panicked

logVars == <<items, input, pos, end, mode, closing, buffer, partial, key, stack, sent, result, repeated>>
documentVars == <<slab, root, reads, panicked>>
allVars == <<inUse, argumentVars, logVars, documentVars, syncVars>>

L == INSTANCE MCLogReader
N == INSTANCE NbtDocument

\* The values of the constants are put together without the instances that use them.
Inputs == INSTANCE MCLogReader WITH Items <- {}
Tags == INSTANCE NbtDocument WITH Leaves <- {}, ListTypes <- {}, Files <- {}

MCItems == Inputs!MCItems
MCLeaves == {Tags!Leaf(Tags!TagByte, 1), Tags!Leaf(Tags!TagString, 1), Tags!Leaf(Tags!TagString, 2)}
MCListTypes == {Tags!TagString, Tags!TagCompound}

\* Nothing, a root that is a list, a name twice, a list in which a compound follows
\* a value, lists of no type with and without children, a type nobody knows.
MCFiles ==
    LET a == Tags!WriteString(1)
        Root(rest) == <<Tags!TagCompound, 0>> \o rest
    IN {<<Tags!TagEnd>>,
        <<Tags!TagList, 0>>,
        Root(<<Tags!TagByte>> \o a \o <<0, Tags!TagByte>> \o a \o <<1, Tags!TagEnd>>),
        Root(<<Tags!TagList>> \o a \o <<Tags!TagCompound, 2, Tags!TagByte>> \o a
             \o <<0, Tags!TagEnd, Tags!TagEnd, Tags!TagEnd>>),
        Root(<<Tags!TagList>> \o a \o <<Tags!TagEnd, 1, Tags!TagEnd, Tags!TagEnd>>),
        Root(<<Tags!TagList>> \o a \o <<Tags!TagEnd, -1, Tags!TagByte>> \o Tags!WriteString(0) \o <<1, Tags!TagEnd>>),
        Root(<<3>> \o a \o <<0, Tags!TagEnd>>)}

MCInit ==
    /\ ArgumentsInit /\ L!Init /\ N!Init /\ SyncInit
    /\ inUse \in {"arguments", "log", "document", "shared"}
    /\ inUse # "log" => items = CHOOSE i \in Items : TRUE
    /\ inUse # "shared" => \A i \in Instances : folder[i] = "none" /\ options[i].time = 0

ReadLog == inUse = "log" /\ L!Next /\ UNCHANGED <<inUse, argumentVars, documentVars, syncVars>>

MCNext ==
    \/ inUse = "arguments" /\ ArgumentsNext /\ UNCHANGED <<inUse, logVars, documentVars, syncVars>>
    \/ ReadLog
    \/ inUse = "document" /\ N!Next /\ UNCHANGED <<inUse, argumentVars, logVars, syncVars>>
    \/ inUse = "shared" /\ SyncNext /\ UNCHANGED <<inUse, argumentVars, logVars, documentVars>>

MCSpec == MCInit /\ [][MCNext]_allVars /\ WF_allVars(ReadLog)

\* One thing is shared at a time, and it takes more writes to lose an option than a
\* server, or a folder.
OneThingShared ==
    inUse = "shared" =>
        /\ Cardinality(targets) <= 1
        /\ \A i \in Instances : (clock > 3 => folder[i] = "none") /\ (clock > 4 => servers[i].time = 0)

\* What a game prints is shown once and in order (log_reader.rs:191-249): see LogReader.
LogIsShown == L!LogIsShown

\* The reader of a log comes to its end (log_reader.rs:192): see LogReader.
ReaderEnds == inUse = "log" => L!ReaderEnds

\* The accesses without a check find what they expect (nbt/src/reference.rs:230,
\* instance.rs:887): see NbtDocument.
DocumentIsWellFormed == N!DocumentIsWellFormed

\* What encode.rs writes decode.rs reads, within its limits, and no part of it: see NbtDocument.
WrittenIsReadBack == N!WrittenIsReadBack

\* A document is a nested value for its users: see NbtDocument and NbtValue.
ImplementsValue == N!ImplementsValue
=============================================================================
