------------------------------- MODULE GameOutput ------------------------------
(***************************************************************************)
(* The window with a game's output (frontend/src/game_output/mod.rs):      *)
(* texts wait until the window is painted, are counted in a Fenwick tree   *)
(* of rows, are wrapped when they come into view, and are out of reach     *)
(* while a search goes through them.  Positions are whole rows from the    *)
(* top, where the code has pixels below zero; a text's wrapped rows at a   *)
(* width are given with it.                                                *)
(***************************************************************************)
EXTENDS FenwickTree, TLC

CONSTANTS
    Texts,     \* [lines |-> the words of each line, rows |-> [Widths -> Nat]]
    Widths,    \* of the window
    Queries,   \* words, and "" for none
    Height,    \* rows the window shows
    LookBack,  \* 32: items that are wrapped again when the view goes up
    MaxItems,  \* bound: texts of a game
    MaxMoves   \* bound: searches, and moves of the wheel and of the scroll bar

ASSUME GameOutputAssumption ==
    \A text \in Texts : Len(text.lines) \in Nat /\ \A width \in Widths : text.rows[width] \in Nat

VARIABLES
    pending,    \* texts that wait
    itemState,  \* the list, or nothing while a search has it
    search,     \* the search task and the list it has taken
    scroll,     \* the scroll state, shared with the scroll bar
    added,      \* how many texts there were
    moves       \* how many moves and searches there were

vars == <<pending, itemState, search, scroll, added, moves>>

-----------------------------------------------------------------------------
(* State.                                                                    *)

NotWrapped == [width |-> "none", rows |-> 0, highlight |-> <<>>]

Item(text, total, highlight, skip) ==
    [text |-> text, backup |-> Len(text.lines), total |-> total,
     highlight |-> highlight, skip |-> skip, wrapped |-> NotWrapped]

NoItems == [items |-> <<>>, last |-> 0, sizes |-> EmptyTree, total |-> 0, query |-> ""]

Init ==
    /\ pending = <<>>
    /\ itemState = <<NoItems>>
    /\ search = <<>>
    /\ scroll = [lines |-> 0, height |-> 0, bottom |-> TRUE, top |-> 0, drag |-> <<>>]
    /\ added = 0 /\ moves = 0

AtBottom(s) == [s EXCEPT !.bottom = TRUE, !.top = 0]
AtTop(s, top) == [s EXCEPT !.bottom = FALSE, !.top = top]

Add(text) ==
    /\ added < MaxItems
    /\ added' = added + 1
    /\ pending' = Append(pending, text)
    /\ UNCHANGED <<itemState, search, scroll, moves>>

-----------------------------------------------------------------------------
(* Listing.                                                                  *)

\* Where a text has the query: the first line that has it.
Found(text, query) ==
    LET hits == {i \in DOMAIN text.lines : query \in text.lines[i]}
    IN  IF query = "" \/ hits = {} THEN <<>> ELSE <<Min(hits), query>>

\* Mutant: what arrives while a search is shown is shown, too.
ListWithoutSearch(list, text) ==
    [list EXCEPT !.items = Append(@, Item(text, Len(text.lines), Found(text, list.query), FALSE)),
                 !.sizes = Push(@, Len(text.lines)), !.total = @ + Len(text.lines)]

\* A text is counted with its lines, as if each took one row.
ListText(list, text) ==
    LET found == Found(text, list.query)
        skip == list.query # "" /\ found = <<>>
        rows == IF skip THEN 0 ELSE Len(text.lines)
    IN  [list EXCEPT !.items = Append(@, Item(text, rows, found, skip)),
                     !.sizes = Push(@, rows),
                     !.total = @ + rows]

ApplyPending(list) ==
    LET listed[n \in 0..Len(pending)] ==
            IF n = 0 THEN list ELSE ListText(listed[n - 1], pending[n])
    IN  listed[Len(pending)]

-----------------------------------------------------------------------------
(* Wrapping.                                                                 *)

Rows(text, width) == text.rows[width]

\* compute_wrapped_text: rows are kept for the width they were made for, and for
\* any other width if they are one row that fits.
Wrap(item, width) ==
    IF \/ item.wrapped.width = width
       \/ item.wrapped.rows = 1 /\ Rows(item.text, width) = 1
    THEN item
    ELSE [item EXCEPT !.wrapped = [width |-> width, rows |-> Rows(item.text, width),
                                   highlight |-> item.highlight]]

\* A text in view is wrapped, and the tree and the sum take its rows.
Recount(list, i, width) ==
    LET item == Wrap(list.items[i], width)
        rows == Max({1, item.wrapped.rows})
    IN  IF item.skip THEN list
        ELSE [list EXCEPT !.items[i] = [item EXCEPT !.total = rows],
                          !.sizes = AddAt(@, i, rows - item.total),
                          !.total = @ + rows - item.total]

RecountAll(list, positions, width) ==
    LET counted[n \in 0..Len(list.items)] ==
            IF n = 0 THEN list
            ELSE IF n \in positions THEN Recount(counted[n - 1], n, width)
            ELSE counted[n - 1]
    IN  counted[Len(list.items)]

\* The rows of the texts at these positions that are shown.
RowsOf(list, positions, width) ==
    MapThenSumSet(LAMBDA i : Rows(list.items[i].text, width),
                  {i \in positions : ~list.items[i].skip})

-----------------------------------------------------------------------------
(* Scrolling.                                                                *)

\* content_height_for_scrollbar: while the bar is dragged it keeps its height.
ContentHeight(s) == IF s.drag = <<>> THEN s.lines ELSE s.drag[1].start

Offset(s) == IF s.bottom THEN ContentHeight(s) - s.height ELSE s.top

SetOffset(s, top) ==
    IF Max({top, 0}) >= ContentHeight(s) - s.height THEN AtBottom(s) ELSE AtTop(s, Max({top, 0}))

MaxScroll(s) == Max({s.lines - s.height, 0})

Move ==
    /\ moves < MaxMoves
    /\ moves' = moves + 1
    /\ UNCHANGED <<pending, itemState, search, added>>

ScrollBy(delta) ==
    LET top == Min({Max({Offset(scroll) + delta, 0}), MaxScroll(scroll)})
    IN  /\ top # Offset(scroll)
        /\ scroll' = SetOffset(scroll, top)
        /\ Move

GoToTop == scroll' = AtTop(scroll, 0) /\ Move
GoToBottom == scroll' = AtBottom(scroll) /\ Move

StartDrag ==
    /\ scroll.drag = <<>>
    /\ scroll' = [scroll EXCEPT !.drag = <<[start |-> scroll.lines, pivot |-> 0, real |-> 0,
                                            actual |-> Offset(scroll)]>>]
    /\ Move

DragTo(top) ==
    /\ scroll.drag # <<>>
    /\ scroll' = SetOffset(scroll, top)
    /\ Move

EndDrag ==
    /\ scroll.drag # <<>>
    /\ scroll' = SetOffset([scroll EXCEPT !.drag = <<>>], scroll.drag[1].actual)
    /\ UNCHANGED <<pending, itemState, search, added, moves>>

\* Where the view is while the bar is dragged: the bar keeps its scale above and
\* below the place where the rows were last counted.
Effective(list, s, top) ==
    IF s.drag = <<>> \/ top <= 0 THEN top
    ELSE LET pivot == Max({s.drag[1].pivot, 0})
             real == Max({s.drag[1].real, 0})
             newMax == Max({list.total - s.height, 1})
             oldMax == Max({s.drag[1].start - s.height, 1})
         IN  IF top > pivot
             THEN ((top - pivot) * (newMax - real)) \div (oldMax - pivot) + real
             ELSE (top * real) \div pivot

Dragged(s, changes) == IF s.drag = <<>> THEN s ELSE [s EXCEPT !.drag[1] = changes @@ @]

Rendering(list, s, item, reverse, offset) ==
    [list |-> list, scroll |-> s, item |-> item, reverse |-> reverse, offset |-> offset]

RenderBottom(list, s, maxOffset) ==
    Rendering([list EXCEPT !.last = Len(list.items) - 1],
              AtBottom(Dragged(s, [actual |-> maxOffset])), Len(list.items), TRUE, 0)

\* The view from a row down: what is in it is counted first if the bar is dragged.
RenderFrom(list, s, top, effective, width) ==
    LET down == Max({effective, 0})
        inset == Min({1, down})
        place == IndexOf(list.sizes, down - inset + 1)
        offset == 1 - place.remainder - inset
        below == (place.slots + 1)..Len(list.items)
        inView == {i \in below : RowsOf(list, {j \in below : j < i}, width) < s.height - offset + 1}
        counted == IF s.drag = <<>> THEN list ELSE RecountAll(list, inView, width)
        changed == \E i \in inView : counted.items[i].total # list.items[i].total
    IN  Rendering([counted EXCEPT !.last = place.slots],
                  IF changed THEN Dragged(s, [pivot |-> top, real |-> effective]) ELSE s,
                  place.slots + 1, FALSE, offset)

\* update_scrolling: a view that goes up wraps what comes into it, so that what
\* was in view stays where it is, and looks for its place again.
UpdateScrolling(list, s, width) ==
    LET maxOffset == Max({list.total - s.height, 1})
        effective == Effective(list, s, s.top)
        seen == Dragged(s, [actual |-> effective])
        place == IndexOf(list.sizes, Max({effective - 1, 0}) + 1)
        above == (Max({place.slots, list.last - LookBack}) + 1)..list.last
        counted == RecountAll(list, IF place.slots < list.last THEN above ELSE {}, width)
        resized == counted.total - list.total
        changed == \E i \in above : counted.items[i].total # list.items[i].total
        moved == IF s.drag # <<>>
                 THEN Dragged(seen, [pivot |-> s.top, real |-> effective + resized])
                 ELSE AtTop(s, s.top + resized)
        again == Effective(counted, moved, moved.top)
    IN  IF list.items = <<>> THEN Rendering([list EXCEPT !.last = 0], AtBottom(s), 1, FALSE, 0)
        ELSE IF s.bottom \/ s.top >= maxOffset THEN RenderBottom(list, s, maxOffset)
        ELSE IF ~changed THEN RenderFrom(counted, seen, s.top, effective, width)
        ELSE IF moved.top >= maxOffset THEN RenderBottom(counted, moved, maxOffset)
        ELSE RenderFrom(counted, Dragged(moved, [actual |-> again]), moved.top, again, width)

-----------------------------------------------------------------------------
(* Painting.                                                                 *)

\* paint_lines: up or down from an item until the next is out of the window.
Painted(r, width) ==
    LET after == r.item..Len(r.list.items)
        before == 1..r.item
    IN  IF r.reverse
        THEN {i \in before : RowsOf(r.list, {j \in before : j > i}, width) <= Height}
        ELSE {i \in after : r.offset + RowsOf(r.list, {j \in after : j < i}, width) <= Height}

Paint(width) ==
    /\ IF itemState = <<>>
       THEN /\ scroll' = [AtBottom(scroll) EXCEPT !.lines = 0, !.height = Height]
            /\ UNCHANGED <<pending, itemState>>
       ELSE LET r == UpdateScrolling(ApplyPending(itemState[1]), scroll, width)
                list == RecountAll(r.list, Painted(r, width), width)
            IN  /\ itemState' = <<list>>
                /\ pending' = <<>>
                /\ scroll' = [r.scroll EXCEPT !.lines = list.total, !.height = Height]
    /\ UNCHANGED <<search, added, moves>>

-----------------------------------------------------------------------------
(* Searching.                                                                *)

\* on_search_input_event: the task takes the list; while it has it, Enter does
\* nothing.
PressEnter(query) ==
    /\ itemState # <<>> /\ moves < MaxMoves
    /\ moves' = moves + 1
    /\ search' = <<[query |-> query, list |-> itemState[1]]>>
    /\ itemState' = <<>>
    /\ UNCHANGED <<pending, scroll, added>>

\* An item that is hidden keeps its rows for later.  One that is hidden already has
\* none to keep, and one that the next search finds has none until it is painted.
Filter(item, query) ==
    LET found == Found(item.text, query)
        fresh == [item EXCEPT !.wrapped = NotWrapped]
    IN  IF query = "" THEN [fresh EXCEPT !.total = IF item.skip THEN item.backup ELSE @,
                                         !.skip = FALSE, !.highlight = <<>>]
        ELSE IF found # <<>> THEN [fresh EXCEPT !.highlight = found, !.skip = FALSE]
        ELSE [fresh EXCEPT !.backup = item.total, !.total = 0, !.skip = TRUE]

\* The task: the tree and the sum are built anew, and the list is given back.
SearchEnds ==
    /\ search # <<>>
    /\ LET list == search[1].list
           items == [i \in DOMAIN list.items |-> Filter(list.items[i], search[1].query)]
           sizes == [i \in DOMAIN items |-> items[i].total]
       IN  itemState' = <<[list EXCEPT !.items = items,
                                       !.sizes = FromIter(sizes),
                                       !.total = Sums(sizes)[Len(sizes)],
                                       !.query = search[1].query]>>
    /\ search' = <<>>
    /\ UNCHANGED <<pending, scroll, added, moves>>

-----------------------------------------------------------------------------
Next ==
    \/ \E text \in Texts : Add(text)
    \/ \E width \in Widths : Paint(width)
    \/ \E query \in Queries : PressEnter(query)
    \/ SearchEnds
    \/ \E delta \in {-1, 1} : ScrollBy(delta)
    \/ GoToTop \/ GoToBottom
    \/ StartDrag \/ EndDrag
    \/ \E top \in 0..ContentHeight(scroll) : DragTo(top)

OutputSpec == Init /\ [][Next]_vars

-----------------------------------------------------------------------------
(* Properties.                                                               *)

\* The list wherever it is.
List == IF search # <<>> THEN search[1].list ELSE itemState[1]

\* The tree and the sum count the rows of every item, those that are not shown none
\* (game_output/mod.rs:140-180, 594-606, 802-811, 985-1037).
TreeCountsRows ==
    LET items == List.items
        rows == Sums([i \in DOMAIN items |-> items[i].total])
    IN  /\ \A n \in 0..Len(items) : PrefixSum(List.sizes, n) = rows[n]
        /\ List.total = rows[Len(items)]
        /\ \A i \in DOMAIN items : items[i].skip => items[i].total = 0

\* A row of the list is in an item that is shown, and in its place of it: what the
\* view is drawn from (game_output/mod.rs:568-575).
RowsAreFound ==
    \A row \in 1..List.total :
        LET place == IndexOf(List.sizes, row)
            item == List.items[place.slots + 1]
        IN  /\ place.slots < Len(List.items)
            /\ ~item.skip
            /\ place.remainder \in 1..item.total

\* Rows that were wrapped once are drawn again only with the highlights of the last
\* search and as many as the width takes (game_output/mod.rs:216-308, 984-1040).
WrappedRowsAreCurrent ==
    itemState # <<>> =>
        \A i \in DOMAIN itemState[1].items :
            LET item == itemState[1].items[i] IN
            item.wrapped # NotWrapped =>
                /\ item.wrapped.highlight = item.highlight
                /\ item.wrapped.rows = Rows(item.text, item.wrapped.width)

\* The tree, the sum, the items and their wrapped rows agree after any texts,
\* moves and searches, also while the task of a search has the list.
RowsAreConsistent == TreeCountsRows /\ RowsAreFound /\ WrappedRowsAreCurrent
=============================================================================
