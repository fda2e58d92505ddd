-------------------------------- MODULE LogPage --------------------------------
(***************************************************************************)
(* The page with an instance's log files: the page asks the backend for    *)
(* the files (frontend/src/pages/instance/logs_subpage.rs), and for what   *)
(* is in the one that is selected (ReadLog, backend_handler.rs), which a   *)
(* task of the backend sends line by line through a channel.  They are     *)
(* shown by a copy of the game output's list for texts of one line         *)
(* (component/readonly_text_field.rs), whose state is that of GameOutput.  *)
(* A file is the sequence of the pieces written to it, a line the sequence *)
(* of its pieces.                                                          *)
(***************************************************************************)
EXTENDS GameOutput

CONSTANTS
    Zipped,          \* log files by name: those that end in .log.gz
    Plain,           \* ... and in .log: the game may write to them
    ZippedTexts,     \* what a zipped file may hold
    Pieces,          \* what may be written to a file at once
    Ends,            \* the pieces that end with a new line
    Bad,             \* the pieces that are not UTF-8
    LineRows(_, _),  \* the rows of a line at a width
    FirstBuffer,     \* 8 KiB: the pieces that are read to see if a file is zipped
    ChannelSize,     \* 256: lines between a reader and the page
    MaxPieces,       \* bound: of a file
    MaxAsks          \* bound: how often the files, or what is in one, are asked for

ErrorLine == <<"error">>

ASSUME PiecesAssumption ==
    /\ Ends \subseteq Pieces /\ Bad \subseteq Pieces /\ Zipped \cap Plain = {}
    /\ FirstBuffer \in Nat /\ MaxPieces \in Nat /\ ZippedTexts \subseteq SeqOf(Pieces, MaxPieces)
    /\ ErrorLine \notin SeqOf(Pieces, MaxPieces)

ASSUME LineRowsAssumption ==
    \A line \in SeqOf(Pieces, MaxPieces) \cup {ErrorLine} : \A width \in Widths : LineRows(line, width) \in Nat

ASSUME NoneAssumption == "none" \notin Zipped \cup Plain

VARIABLES
    files,     \* the pieces of each file that is there
    page,      \* the subpage
    requests,  \* messages to the backend
    readers    \* the tasks of ReadLog, with their channels

fieldVars == <<pending, itemState, search, scroll, added, moves>>
pageVars == <<files, page, requests, readers>>

Paths == Zipped \cup Plain
None == "none"

File(pieces) == [there |-> TRUE, pieces |-> pieces]
NoFile == [there |-> FALSE, pieces |-> <<>>]

PageInit ==
    /\ \E text \in [Zipped -> ZippedTexts] :
           files = [p \in Paths |-> IF p \in Zipped THEN File(text[p]) ELSE NoFile]
    /\ page = [asks |-> 1, answered |-> FALSE, logs |-> {}, selected |-> None, reader |-> 0]
    /\ requests = <<[ask |-> "files", number |-> 1]>>
    /\ readers = <<>>

-----------------------------------------------------------------------------
(* The text field.                                                           *)

\* Default: what a field starts with.
NewField ==
    /\ pending' = <<>>
    /\ itemState' = <<NoItems>>
    /\ search' = <<>>
    /\ scroll' = [lines |-> 0, height |-> 0, bottom |-> TRUE, top |-> 0, drag |-> <<>>]

\* A line is a text of one line.
TextOf(line) == [lines |-> <<ToSet(line)>>, rows |-> [w \in Widths |-> LineRows(line, w)], line |-> line]

AddLine(line) == pending' = Append(pending, TextOf(line))

ListLines(list) == ApplyPending(list)

\* update_scrolling and paint_lines are those of the game's output word by word,
\* except for the columns of times and levels.
UpdateField(list, s, width) == UpdateScrolling(list, s, width)
PaintLines(r, width) == RecountAll(r.list, Painted(r, width), width)

PaintField(width) ==
    /\ IF itemState = <<>>
       THEN /\ scroll' = [AtBottom(scroll) EXCEPT !.lines = 0, !.height = Height]
            /\ UNCHANGED <<pending, itemState>>
       ELSE LET r == UpdateField(ListLines(itemState[1]), scroll, width)
                list == PaintLines(r, width)
            IN  /\ itemState' = <<list>>
                /\ pending' = <<>>
                /\ scroll' = [r.scroll EXCEPT !.lines = list.total, !.height = Height]
    /\ UNCHANGED <<search, added, moves>>

SearchField(query) == PressEnter(query)
FieldSearchEnds == SearchEnds
MoveField ==
    \/ \E delta \in {-1, 1} : ScrollBy(delta)
    \/ GoToTop \/ GoToBottom
    \/ StartDrag \/ EndDrag \/ \E top \in 0..ContentHeight(scroll) : DragTo(top)

-----------------------------------------------------------------------------
(* The files (external: the game writes its log and zips the old ones).      *)

Write(path) ==
    /\ path \in Plain /\ Len(files[path].pieces) < MaxPieces
    /\ \E piece \in Pieces : files' = [files EXCEPT ![path] = File(Append(@.pieces, piece))]
    /\ UNCHANGED <<page, requests, readers, fieldVars>>

Delete(path) ==
    /\ path \in Zipped /\ files[path].there
    /\ files' = [files EXCEPT ![path] = NoFile]
    /\ UNCHANGED <<page, requests, readers, fieldVars>>

-----------------------------------------------------------------------------
(* The page.                                                                 *)

\* A reader's channel is closed when the page drops the task that receives.
Dropped == [i \in DOMAIN readers |->
                IF i = page.reader THEN [readers[i] EXCEPT !.open = FALSE, !.channel = <<>>] ELSE readers[i]]

\* get_log_files: the page starts over; an answer to an older request is not
\* received any more.
AskForFiles(messages) ==
    /\ page.asks + Len(readers) < MaxAsks
    /\ page' = [page EXCEPT !.asks = @ + 1, !.answered = FALSE, !.logs = {},
                            !.selected = None, !.reader = 0]
    /\ requests' = requests \o messages \o <<[ask |-> "files", number |-> page.asks + 1]>>
    /\ readers' = Dropped
    /\ NewField
    /\ UNCHANGED <<files, added, moves>>

OpenPage == AskForFiles(<<>>)

\* The button is there if there is anything to clean up.
CleanUp == page.answered /\ page.logs \cap Zipped # {} /\ AskForFiles(<<[ask |-> "cleanup", number |-> 0]>>)

\* `text` is what a zipped file that is opened holds, whatever becomes of it.
Reader(path) == [path |-> path, state |-> "asked", read |-> 0, text |-> <<>>, line |-> <<>>, first |-> TRUE,
                 out |-> <<>>, open |-> TRUE, channel |-> <<>>]

\* A file is selected: what was read of the last is dropped, and a new field is
\* filled by a new task.
Select(path) ==
    /\ path \in page.logs \ {page.selected} /\ page.asks + Len(readers) < MaxAsks
    /\ page' = [page EXCEPT !.selected = path, !.reader = Len(readers) + 1]
    /\ readers' = Append(Dropped, Reader(path))
    /\ requests' = Append(requests, [ask |-> "read", number |-> Len(readers) + 1])
    /\ NewField
    /\ UNCHANGED <<files, added, moves>>

SelectNothing ==
    /\ page.selected # None
    /\ page' = [page EXCEPT !.selected = None, !.reader = 0]
    /\ readers' = Dropped
    /\ NewField
    /\ UNCHANGED <<files, requests, added, moves>>

\* The page's task takes the next line.
Receive ==
    /\ page.reader # 0 /\ readers[page.reader].channel # <<>>
    /\ AddLine(Head(readers[page.reader].channel))
    /\ readers' = [readers EXCEPT ![page.reader].channel = Tail(@)]
    /\ UNCHANGED <<files, page, requests, itemState, search, scroll, added, moves>>

-----------------------------------------------------------------------------
(* The backend: messages are handled one by one.                             *)

Request(ask) == requests # <<>> /\ Head(requests).ask = ask /\ requests' = Tail(requests)

\* GetLogFiles, and the page's task that gets the answer.
GetLogFiles ==
    /\ Request("files")
    /\ page' = IF Head(requests).number # page.asks THEN page
               ELSE [page EXCEPT !.answered = TRUE, !.logs = {p \in Paths : files[p].there}]
    /\ UNCHANGED <<files, readers, fieldVars>>

CleanupOldLogFiles ==
    /\ Request("cleanup")
    /\ files' = [p \in Paths |-> IF p \in Zipped THEN NoFile ELSE files[p]]
    /\ UNCHANGED <<page, readers, fieldVars>>

Send(reader, lines) == [reader EXCEPT !.channel = @ \o lines]
End(reader) == [reader EXCEPT !.state = "ended"]

\* Mutant: what was read to see if the file is zipped is not shown.
ReadAfterFirst(reader) ==
    LET pieces == files[reader.path].pieces
        buffered == SubSeq(pieces, 1, Min({FirstBuffer, Len(pieces)}))
    IN  IF ~files[reader.path].there THEN End(IF reader.open THEN Send(reader, <<ErrorLine>>) ELSE reader)
        ELSE IF reader.path \in Zipped THEN [reader EXCEPT !.state = "unzips", !.text = pieces]
        ELSE [reader EXCEPT !.state = "reads", !.read = Len(buffered)]

\* ReadLog: a file that is not there is answered with an error, a zipped one is
\* left to a thread, and of another one the first buffer is in `line` already.
ReadLog(reader) ==
    LET pieces == files[reader.path].pieces
        buffered == SubSeq(pieces, 1, Min({FirstBuffer, Len(pieces)}))
    IN  IF ~files[reader.path].there THEN End(IF reader.open THEN Send(reader, <<ErrorLine>>) ELSE reader)
        ELSE IF reader.path \in Zipped THEN [reader EXCEPT !.state = "unzips", !.text = pieces]
        ELSE [reader EXCEPT !.state = "reads", !.read = Len(buffered), !.line = buffered]

HandleReadLog ==
    /\ Request("read")
    /\ LET r == Head(requests).number IN readers' = [readers EXCEPT ![r] = ReadLog(@)]
    /\ UNCHANGED <<files, page, fieldVars>>

-----------------------------------------------------------------------------
(* The readers.                                                              *)

\* What a reader reads next: to the end of the line, or of the file.
NextRead(text, from) ==
    LET ends == {i \in (from + 1)..Len(text) : text[i] \in Ends}
    IN  SubSeq(text, from + 1, IF ends = {} THEN Len(text) ELSE Min(ends))

\* split('\n'): after the last new line there is a line, too, if only an empty one.
Lines(pieces) ==
    LET Split(at, piece) ==
            LET line == Append(at.line, piece)
            IN  IF piece \in Ends THEN [lines |-> Append(at.lines, line), line |-> <<>>]
                ELSE [lines |-> at.lines, line |-> line]
        split[n \in 0..Len(pieces)] ==
            IF n = 0 THEN [lines |-> <<>>, line |-> <<>>] ELSE Split(split[n - 1], pieces[n])
        all == split[Len(pieces)]
    IN  Append(all.lines, all.line)

IsText(pieces) == ToSet(pieces) \cap Bad = {}

Step(r, reader) == readers' = [readers EXCEPT ![r] = reader] /\ UNCHANGED <<files, page, requests, fieldVars>>

Reads(r, state) == readers[r].state = state /\ readers[r].out = <<>>

\* read_until: if it adds nothing, the reader tries again later, and what is in
\* `line` stays there.  A line that is not UTF-8 is reported with a blocking send,
\* which panics in an asynchronous task: that is its end.
ReadUntil(r) ==
    LET reader == readers[r]
        got == NextRead(files[reader.path].pieces, reader.read)
        line == reader.line \o got
        next == [reader EXCEPT !.read = @ + Len(got), !.line = <<>>, !.first = FALSE]
    IN  /\ Reads(r, "reads") /\ got # <<>>
        /\ Step(r, IF ~IsText(line) THEN End(next)
                   ELSE [next EXCEPT !.out = IF reader.first THEN Lines(line) ELSE <<line>>])

\* The thread's loop over a zipped file ends at its end or at what is not UTF-8.
ReadZipped(r) ==
    LET reader == readers[r]
        got == NextRead(reader.text, reader.read)
        next == [reader EXCEPT !.read = @ + Len(got)]
    IN  /\ Reads(r, "unzips")
        /\ Step(r, IF got = <<>> THEN End(reader)
                   ELSE IF IsText(got) THEN [next EXCEPT !.out = <<got>>]
                   ELSE [next EXCEPT !.out = <<ErrorLine>>, !.state = "fails"])

\* Mutant: a line is left out if there is no room.
SendIfRoom(r) ==
    LET reader == readers[r]
        sent == Send(reader, IF Len(reader.channel) < ChannelSize THEN <<Head(reader.out)>> ELSE <<>>)
    IN  reader.out # <<>> /\ reader.open /\ Step(r, [sent EXCEPT !.out = Tail(@)])

\* A send waits for room in the channel.
SendLine(r) ==
    LET reader == readers[r] IN
    /\ reader.out # <<>> /\ reader.open /\ Len(reader.channel) < ChannelSize
    /\ Step(r, Send([reader EXCEPT !.out = Tail(@)], <<Head(reader.out)>>))

\* Mutant: only a send notices that the page is gone.
NoticeWhenSending(r) == readers[r].out # <<>> /\ ~readers[r].open /\ Step(r, End([readers[r] EXCEPT !.out = <<>>]))

\* send.closed(), or a send that fails: the page does not receive any more.
NoticeClosed(r) ==
    /\ ~readers[r].open
    /\ readers[r].state = "reads" \/ readers[r].out # <<>>
    /\ Step(r, End([readers[r] EXCEPT !.out = <<>>]))

FailureSent(r) == Reads(r, "fails") /\ Step(r, End(readers[r]))

-----------------------------------------------------------------------------
ReaderStep(r) == ReadUntil(r) \/ ReadZipped(r) \/ SendLine(r) \/ NoticeClosed(r) \/ FailureSent(r)

BackendStep == GetLogFiles \/ CleanupOldLogFiles \/ HandleReadLog

\* There is a field while a file is selected.
FieldStep ==
    /\ page.selected # None
    /\ \/ \E width \in Widths : PaintField(width)
       \/ \E query \in Queries : SearchField(query)
       \/ FieldSearchEnds
       \/ MoveField
    /\ UNCHANGED pageVars

PageNext ==
    \/ \E path \in Plain : Write(path)
    \/ \E path \in Zipped : Delete(path)
    \/ OpenPage \/ CleanUp
    \/ \E path \in Paths : Select(path)
    \/ SelectNothing
    \/ Receive
    \/ BackendStep
    \/ \E r \in DOMAIN readers : ReaderStep(r)
    \/ FieldStep

PageSpec == Init /\ PageInit /\ [][PageNext]_<<fieldVars, pageVars>>

-----------------------------------------------------------------------------
(* Properties.                                                               *)

\* The lines of the field, listed or not yet, without errors.
FieldLines ==
    [i \in DOMAIN List.items |-> List.items[i].text.line] \o [i \in DOMAIN pending |-> pending[i].line]

Pieced(lines) == FlattenSeq([i \in DOMAIN lines |-> IF lines[i] = ErrorLine THEN <<>> ELSE lines[i]])

\* The page shows what the selected file holds from its start, each piece once and
\* in its place, whatever was selected before: what is read is in the field, on its
\* way or in the unfinished line (logs_subpage.rs:84-124, backend_handler.rs:638-672).
PageShowsItsFile ==
    page.reader # 0 =>
        LET reader == readers[page.reader]
            text == IF reader.path \in Zipped THEN reader.text ELSE files[reader.path].pieces
            onItsWay == Pieced(FieldLines \o reader.channel \o reader.out)
        IN  /\ reader.path = page.selected
            /\ IsPrefix(onItsWay, text)
            /\ reader.state = "reads" => onItsWay \o reader.line = SubSeq(text, 1, reader.read)

\* A list of lines, whatever it does to draw them: nothing that is added is lost or
\* changes its place, while a search has the list too, what is shown is what was
\* searched for, and it is emptied only for another file
\* (game_output/mod.rs:127-180, 965-1049, readonly_text_field.rs:68-105, 806-893,
\* logs_subpage.rs:84-104).
View == INSTANCE OutputView WITH
    subject <- page.selected,
    arrived <- pending,
    listed <- [i \in DOMAIN List.items |-> List.items[i].text],
    query <- List.query,
    shown <- {i \in DOMAIN List.items : ~List.items[i].skip},
    Matches <- LAMBDA text, query : query = "" \/ Found(text, query) # <<>>
ImplementsView == View!ViewSpec

\* A reader that is no longer listened to ends: it does not wait for ever for a line
\* of a file that does not grow, or for room in the channel
\* (backend_handler.rs:647-649, 661-671).
LeftReadersEnd ==
    \A r \in 1..MaxAsks :
        (r \in DOMAIN readers /\ ~readers[r].open) ~> (r \in DOMAIN readers /\ readers[r].state = "ended")

Shows(path, n) == page.selected = path /\ Len(Pieced(FieldLines)) >= n

\* Of a file that is selected and stays so, the page gets what it holds: of a zipped
\* one, and of one that does not end in its first buffer: one that does is not shown
\* before it grows (backend_handler.rs:604-699, logs_subpage.rs:95-104).
LongLogsAreShown ==
    \A path \in Paths : \A n \in 1..MaxPieces :
        (/\ page.selected = path /\ files[path].there
         /\ Len(files[path].pieces) >= n /\ IsText(files[path].pieces)
         /\ path \in Zipped \/ Len(files[path].pieces) > FirstBuffer)
            ~> (Shows(path, n) \/ page.selected # path \/ ~IsText(files[path].pieces) \/ ~files[path].there)
================================================================================
