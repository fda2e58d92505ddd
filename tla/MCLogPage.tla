------------------------------- MODULE MCLogPage -------------------------------
(***************************************************************************)
(* A small instance of the two lists of lines for TLC.  The window of the  *)
(* game's output and the log page have nothing in common but the list, so  *)
(* a behaviour is one of the one or of the other.  The page keeps its size *)
(* and its field is moved PageMoves times, as long as the game has no log. *)
(***************************************************************************)
EXTENDS LogPage

CONSTANTS Uses, PageMoves

VARIABLE inUse  \* "game" or "page"

Text(lines, narrow) == [lines |-> lines, rows |-> [wide |-> Len(lines), narrow |-> narrow]]
MCTexts == {Text(<<{}, {"q"}>>, 3), Text(<<{}>>, 2)}

MCZippedTexts == {<<"q", "q">>, <<"q", "x">>}

MCLineRows(line, width) == IF width = "narrow" THEN Max({1, Len(line)}) ELSE 1

MCInit ==
    /\ inUse \in Uses
    /\ Init
    /\ PageInit
    /\ inUse = "game" => \A path \in Zipped : Bad \cap ToSet(files[path].pieces) = {}

MCNext ==
    \/ inUse = "game" /\ Next /\ UNCHANGED <<pageVars, inUse>>
    \/ inUse = "page" /\ PageNext /\ UNCHANGED inUse

Fairness ==
    /\ WF_<<fieldVars, pageVars>>(BackendStep)
    /\ WF_<<fieldVars, pageVars>>(Receive)
    /\ \A r \in 1..MaxAsks : WF_<<fieldVars, pageVars>>(r \in DOMAIN readers /\ ReaderStep(r))

MCSpec == MCInit /\ [][MCNext]_<<fieldVars, pageVars, inUse>> /\ Fairness

LittleOfTheField ==
    inUse = "page" =>
        /\ moves <= PageMoves
        /\ moves > 0 => \A path \in Plain : ~files[path].there
        /\ \A i \in DOMAIN List.items : List.items[i].wrapped.width # "narrow"
================================================================================
