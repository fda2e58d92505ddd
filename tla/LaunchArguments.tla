---------------------------- MODULE LaunchArguments ----------------------------
(***************************************************************************)
(* What a game with Forge or NeoForge is started with: the version of the   *)
(* loader, the documents of the version and its loader put together, the    *)
(* libraries, the game's arguments (launch.rs), and the lines that the      *)
(* wrapper in the game's process reads from its input (LaunchWrapper.java). *)
(* Left out are what the Java VM is given and the mods that Fabric is told  *)
(* to add (the command "property").                                         *)
(*                                                                          *)
(* A fragment of a version is a number, or below zero "alpha", "beta",      *)
(* "snapshot" and any other word, in the order of VersionFragment.  The     *)
(* text of an argument is a sequence of pieces; a piece is a key to expand  *)
(* ("${...}") or literal text.  No value has a line break in it.  An Option  *)
(* is a set with one element or none.                                       *)
(***************************************************************************)
EXTENDS Integers, Sequences, SequencesExt

CONSTANTS
    Launches,     \* a version of Minecraft, the loader's manifest and the version preferred
    Documents,    \* pairs of a version's document and what its loader adds
    QuickPlays,   \* what to play at once: "none", "singleplayer", "multiplayer", "realms"
    ThisSystem    \* the system the launcher runs on

Piece == [key : BOOLEAN, text : STRING]
Rule == [action : {"allow", "disallow"}, feature : STRING, os : STRING]
Rules == Seq(Rule)
Library == [id : STRING, version : Seq(Int), rules : SUBSET Rules]
Argument == [rules : SUBSET Rules, values : Seq(Seq(Piece))]
Document == [game : Seq(Argument), legacy : SUBSET Seq(Seq(Piece)),
             libraries : Seq(Library), main : STRING]
LoaderVersion == [parts : Seq(Int), for : Seq(Int)]

ASSUME LaunchArgumentsAssumption ==
    /\ Launches \subseteq [minecraft : Seq(Int), neoforge : BOOLEAN,
                           manifest : Seq(LoaderVersion), preferred : SUBSET LoaderVersion]
    /\ Documents \subseteq [base : Document, partial : Document]
    /\ QuickPlays \subseteq {"none", "singleplayer", "multiplayer", "realms"}

VARIABLES
    phase,     \* "version", "installer", "documents", "running", "launched" or "failed"
    loader,    \* what is asked for and the version that is taken
    version,   \* the document of the version and what its loader adds
    quickPlay, \* of the rule context
    classpath, \* the libraries
    lines,     \* what the wrapper has not read
    wrapper    \* what it has read

argumentVars == <<phase, loader, version, quickPlay, classpath, lines, wrapper>>

NoLoader == [asked |-> [minecraft |-> <<>>, neoforge |-> FALSE, manifest |-> <<>>, preferred |-> {}],
             found |-> {}]
NoDocument == [game |-> <<>>, legacy |-> {}, libraries |-> <<>>, main |-> "none"]
NoVersion == [base |-> NoDocument, partial |-> NoDocument]
NothingRead == [arguments |-> <<>>, main |-> "none"]

ArgumentsInit ==
    /\ phase = "version" /\ loader = NoLoader
    /\ version = NoVersion
    /\ quickPlay = "none"
    /\ classpath = {}
    /\ lines = <<>> /\ wrapper = NothingRead

-----------------------------------------------------------------------------
(* Versions.                                                                 *)

\* Vec's order: the first difference decides, else the longer one is newer.
Newer(a, b) ==
    \E k \in 1..Len(a) :
        /\ \A i \in 1..(k - 1) : i <= Len(b) /\ a[i] = b[i]
        /\ k > Len(b) \/ a[k] > b[k]

\* What the versions of the loader begin with.
LoaderPrefix(asked) ==
    LET parts == asked.minecraft
        full == IF Len(parts) < 3 THEN Append(parts, 0) ELSE parts
    IN  IF ~asked.neoforge THEN parts
        ELSE IF parts[1] < 0 THEN <<0>> \o parts
        ELSE IF full[1] = 1 THEN Tail(full) ELSE full

Matching(asked) == {v \in Range(asked.manifest) : IsPrefix(LoaderPrefix(asked), v.parts)}

\* create_forgelike_launch_version: the version the user prefers, also if it was
\* chosen for another Minecraft, else the newest that begins with the prefix.  The
\* manifest's order does not matter.
ChooseLoader(asked) ==
    LET matching == Matching(asked)
        found == IF asked.preferred # {} THEN asked.preferred
                 ELSE {v \in matching : \A w \in matching : ~Newer(w.parts, v.parts)}
    IN  /\ phase = "version"
        /\ loader' = [asked |-> asked, found |-> found]
        /\ phase' = IF found = {} THEN "failed" ELSE "installer"
        /\ UNCHANGED <<version, quickPlay, classpath, lines, wrapper>>

\* The profile in the installer says which Minecraft it is for.
ReadInstaller ==
    /\ phase = "installer"
    /\ \E v \in loader.found :
         /\ loader' = [loader EXCEPT !.found = {v}]
         /\ phase' = IF v.for = loader.asked.minecraft THEN "documents" ELSE "failed"
    /\ UNCHANGED <<version, quickPlay, classpath, lines, wrapper>>

-----------------------------------------------------------------------------
(* Rules and libraries.                                                      *)

\* check_rule: what the rule asks for is so.  Nobody is a demo user, chooses a
\* resolution or wants the file of quick play.
Holds(rule, play) ==
    /\ rule.feature \in {"any", play}
    /\ rule.os \in {"any", ThisSystem}

\* check_rules: the last rule that holds decides, and none says no.
CheckRules(rules, play) ==
    LET action[n \in 0..Len(rules)] ==
            IF n = 0 THEN "disallow"
            ELSE IF Holds(rules[n], play) THEN rules[n].action ELSE action[n - 1]
    IN  action[Len(rules)] = "allow"

\* What has no list of rules is always there.
Allowed(given, play) == \A rules \in given : CheckRules(rules, play)

\* version_id: a word counts as 0.
VersionId(library) == [i \in DOMAIN library.version |->
                         IF library.version[i] < 0 THEN 0 ELSE library.version[i]]

\* collect_libraries compares the fragments both have, then the lengths.
Older(left, right) ==
    LET differs == {i \in DOMAIN left \cap DOMAIN right : left[i] # right[i]} IN
    IF differs = {} THEN Len(left) < Len(right)
    ELSE \E i \in differs : left[i] < right[i] /\ \A j \in differs : i <= j

\* One library for every coordinate: the first to come stays until one comes that
\* is not older.
Collect(chosen, library, play) ==
    LET same == {c \in chosen : c.id = library.id} IN
    IF \/ ~Allowed(library.rules, play)
       \/ \E c \in same : Older(VersionId(library), VersionId(c))
    THEN chosen
    ELSE (chosen \ same) \cup {library}

CollectLibraries(libraries, play) ==
    LET chosen[n \in 0..Len(libraries)] ==
            IF n = 0 THEN {} ELSE Collect(chosen[n - 1], libraries[n], play)
    IN  chosen[Len(libraries)]

\* apply_to: arguments and libraries are added, the arguments of old versions and
\* the main class are replaced.
ApplyTo(partial, base) ==
    [game |-> base.game \o partial.game,
     legacy |-> IF partial.legacy = {} THEN base.legacy ELSE partial.legacy,
     libraries |-> base.libraries \o partial.libraries,
     main |-> IF partial.main = "none" THEN base.main ELSE partial.main]

-----------------------------------------------------------------------------
(* Arguments.                                                                *)

Text(text) == [key |-> FALSE, text |-> text]
Key(text) == [key |-> TRUE, text |-> text]

\* resolve_expansion.  What is only used for telemetry is empty.
Value(key, play) ==
    CASE key \in {"clientid", "auth_xuid"} -> <<>>
      [] key \in {"singleplayer", "multiplayer", "realms"} ->
           IF play = key THEN <<Text("target")>> ELSE <<>>
      [] OTHER -> <<Text(key)>>

\* What is before a key is copied together with its value.
ExpandPiece(done, piece, play) ==
    IF piece.key THEN [built |-> done.built \o done.rest \o Value(piece.text, play), rest |-> <<>>]
    ELSE [done EXCEPT !.rest = Append(@, piece)]

Expanded(argument, play) ==
    LET expanded[n \in 0..Len(argument)] ==
            IF n = 0 THEN [built |-> <<>>, rest |-> <<>>]
            ELSE ExpandPiece(expanded[n - 1], argument[n], play)
    IN  expanded[Len(argument)]

\* Mutant: what follows the last key is lost.
ExpandsToTheLastKey(argument, play) ==
    LET end == Expanded(argument, play) IN IF end.built # <<>> THEN end.built ELSE argument

\* expand_argument: if everything up to the last key is empty the argument is left
\* as it is.
Expand(argument, play) ==
    LET end == Expanded(argument, play) IN IF end.built # <<>> THEN end.built \o end.rest ELSE argument

\* process_argument: the lines of an argument's values.
ValueLines(values, play) ==
    FlattenSeq([i \in DOMAIN values |-> <<<<Text("arg")>>, Expand(values[i], play)>>])

\* process_arguments: the lines of an argument.
ArgumentLines(argument, play) ==
    IF Allowed(argument.rules, play) THEN ValueLines(argument.values, play) ELSE <<>>

\* The arguments of old versions, if there are any.
Given(legacy) == IF legacy = {} THEN <<>> ELSE CHOOSE values \in legacy : TRUE

\* LaunchContext::launch: the process is there, and this is written to it.
Start ==
    /\ phase = "documents"
    /\ loader' = NoLoader
    /\ \E documents \in Documents, play \in QuickPlays :
         LET whole == ApplyTo(documents.partial, documents.base) IN
         /\ quickPlay' = play
         /\ version' = documents
         /\ classpath' = CollectLibraries(whole.libraries, play)
         /\ lines' = FlattenSeq([i \in DOMAIN whole.game |-> ArgumentLines(whole.game[i], play)])
                     \o ValueLines(Given(whole.legacy), play)
                     \o <<<<Text("launch")>>, <<Text(whole.main)>>>>
    /\ phase' = "running"
    /\ UNCHANGED wrapper

\* The wrapper reads a command and its value.
ReadCommand ==
    /\ phase = "running" /\ Len(lines) >= 2
    /\ lines' = SubSeq(lines, 3, Len(lines))
    /\ CASE lines[1] = <<Text("arg")>> ->
              /\ wrapper' = [wrapper EXCEPT !.arguments = Append(@, lines[2])]
              /\ UNCHANGED phase
         [] lines[1] = <<Text("launch")>> ->
              /\ wrapper' = [wrapper EXCEPT !.main = lines[2][1].text]
              /\ phase' = "launched"
         [] OTHER -> UNCHANGED <<wrapper, phase>>
    /\ UNCHANGED <<loader, version, quickPlay, classpath>>

ArgumentsNext ==
    \/ \E asked \in Launches : ChooseLoader(asked)
    \/ ReadInstaller
    \/ Start
    \/ ReadCommand

ArgumentsSpec == ArgumentsInit /\ [][ArgumentsNext]_argumentVars

-----------------------------------------------------------------------------

\* What an argument should be: every key replaced by its value.
Replaced(argument, play) ==
    FlattenSeq([i \in DOMAIN argument |->
                  IF argument[i].key THEN Value(argument[i].text, play) ELSE <<argument[i]>>])

\* Everything up to its last key is empty.
BeginsEmpty(argument, play) ==
    \E n \in DOMAIN argument :
        /\ argument[n].key /\ \A i \in (n + 1)..Len(argument) : ~argument[i].key
        /\ Replaced(SubSeq(argument, 1, n), play) = <<>>

\* The last rule about this system and this way to play says yes, if there are rules.
RulesSayYes(given, play) ==
    \A rules \in given :
        LET about == {i \in DOMAIN rules : Holds(rules[i], play)} IN
        \E i \in about : rules[i].action = "allow" /\ \A j \in about : j <= i

\* What the documents say, the version's first.  The loader's arguments of the old
\* kind are there instead of the version's.
SaidGame == version.base.game \o version.partial.game
SaidLegacy == IF version.partial.legacy # {} THEN Given(version.partial.legacy) ELSE Given(version.base.legacy)
Said == FlattenSeq([i \in DOMAIN SaidGame |->
                      IF RulesSayYes(SaidGame[i].rules, quickPlay) THEN SaidGame[i].values ELSE <<>>])
        \o SaidLegacy
SaidMain == IF version.partial.main # "none" THEN version.partial.main ELSE version.base.main
SaidLibraries == version.base.libraries \o version.partial.libraries

\* The game gets the arguments its documents ask for, in their order and with all
\* keys expanded, whatever rules, wrapper and lines do (launch.rs:2126-2226), but for
\* those left as they are because all their expansions are empty.
GameGetsItsArguments ==
    phase = "launched" =>
        /\ wrapper.main = SaidMain
        /\ Len(wrapper.arguments) = Len(Said)
        /\ \A i \in DOMAIN Said :
             wrapper.arguments[i] =
                 IF BeginsEmpty(Said[i], quickPlay) THEN Said[i] ELSE Replaced(Said[i], quickPlay)

\* A launch goes on only with a loader for the version of Minecraft that is asked for
\* (launch.rs:462-500, 587, 800): the one preferred, or else the newest there is.  It
\* ends only if the preferred one is for another Minecraft, or if of all that begin alike
\* one for another is as new as any: "1.17" also begins what is for "1.17.1".
LoaderIsForTheVersion ==
    LET asked == loader.asked
        isRight(v) == v.for = asked.minecraft
        noneNewer(v) == \A w \in Matching(asked) : isRight(w) => ~Newer(w.parts, v.parts)
    IN  /\ phase = "documents" =>
             /\ loader.found # {}
             /\ \A v \in loader.found :
                  /\ isRight(v)
                  /\ IF asked.preferred = {} THEN noneNewer(v) ELSE v \in asked.preferred
        /\ phase = "failed" =>
             IF asked.preferred # {} THEN \E v \in asked.preferred : ~isRight(v)
             ELSE \/ \A w \in Matching(asked) : ~isRight(w)
                  \/ \E v \in Matching(asked) : ~isRight(v) /\ noneNewer(v)

\* Of every library that is wanted the class path has one version, the newest of
\* those asked for (launch.rs:1906-1979).
NewestLibraries ==
    phase = "running" =>
        \A i \in DOMAIN SaidLibraries :
            LET library == SaidLibraries[i] IN
            RulesSayYes(library.rules, quickPlay) =>
                \E c \in classpath :
                    /\ c.id = library.id /\ ~Newer(VersionId(library), VersionId(c))
                    /\ \A d \in classpath : d.id = c.id => d = c

\* What is started is what was asked for: the loader's version, the libraries, the
\* main class and the arguments.
GameIsStartedAsAsked == LoaderIsForTheVersion /\ NewestLibraries /\ GameGetsItsArguments
=============================================================================
