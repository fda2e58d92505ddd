------------------------------ MODULE OutputView -------------------------------
(***************************************************************************)
(* What a list of log lines promises, whatever it does to draw them: all   *)
(* that arrived is listed in the order it arrived in, and what is shown of *)
(* it is what the last search asked for, of the old and of the new.  It is *)
(* only ever emptied to become the list of something else.                 *)
(***************************************************************************)
EXTENDS Naturals, Sequences

CONSTANTS
    Queries,         \* what can be searched for
    Matches(_, _)    \* whether a text has a query in it; all have none

VARIABLES
    subject,  \* what it is a list of
    arrived,  \* texts that are not listed yet
    listed,   \* texts in the list
    query,    \* what was searched for last
    shown     \* the positions in the list that are shown

view == <<subject, arrived, listed, query, shown>>

ViewInit == arrived = <<>> /\ listed = <<>> /\ query = "" /\ shown = {}

Showing(texts, q) == {i \in DOMAIN texts : Matches(texts[i], q)}

Arrive ==
    /\ Len(arrived') = Len(arrived) + 1
    /\ SubSeq(arrived', 1, Len(arrived)) = arrived
    /\ UNCHANGED <<subject, listed, query, shown>>

List ==
    /\ listed' = listed \o arrived
    /\ arrived' = <<>>
    /\ shown' = Showing(listed', query)
    /\ UNCHANGED <<subject, query>>

Search ==
    /\ query' \in Queries
    /\ shown' = Showing(listed, query')
    /\ UNCHANGED <<subject, arrived, listed>>

Turn ==
    /\ subject' # subject
    /\ arrived' = <<>> /\ listed' = <<>> /\ query' = "" /\ shown' = {}

ViewNext == Arrive \/ List \/ Search \/ Turn
ViewSpec == ViewInit /\ [][ViewNext]_view
=============================================================================
