------------------------------- MODULE LogReader -------------------------------
(***************************************************************************)
(* The thread that reads what a game prints (log_reader.rs): lines of text  *)
(* and events of log4j in XML, through a buffer that holds whatever the     *)
(* last read of the pipe returned.  An input is a sequence of tokens: a     *)
(* character that matters, or a piece of a name or of a text (names come in *)
(* two pieces, so that a read can end inside, and so does a letter of two   *)
(* bytes).  A step is one pass of a loop; it sees the tokens after pos up   *)
(* to end and consumes some.                                                *)
(*                                                                          *)
(* This is the release build: where the debug build panics over unexpected  *)
(* markup it goes on.  Redaction, timestamps and stderr are left out.       *)
(***************************************************************************)
EXTENDS Naturals, Sequences, SequencesExt

CONSTANT Items   \* what games print: sequences of items [kind, tokens, ...]

VARIABLES
    items,    \* what the game prints
    input,    \* that in tokens, as far as it comes
    pos,      \* how much of it is consumed
    end,      \* how much of it is read
    mode,     \* where in which loop the reader is
    closing,  \* is it in read_end_element?
    buffer,   \* text kept from earlier reads
    partial,  \* how much of the end of a comment was there, or a slash
    key,      \* the attribute it reads
    stack,    \* LogReader::stack
    sent,     \* what was sent to the frontend
    result,   \* "reading", "ended" or "error"
    repeated  \* history: text of a line was left in the buffer

vars == <<items, input, pos, end, mode, closing, buffer, partial, key, stack, sent, result, repeated>>
scanner == <<closing, partial, key>>

Space == {" ", "\n"}
Event == [kind |-> "event", level |-> <<>>, text |-> <<>>, throwable |-> <<>>]
Element(kind) == [kind |-> kind, content |-> <<>>]

\* What is sent when the reader gives up.
Failure == [level |-> <<"FATAL">>, lines |-> <<<<"error">>>>]

TokensOf(list) == FlattenSeq([i \in DOMAIN list |-> list[i].tokens])

Init ==
    /\ items \in Items
    /\ input = TokensOf(items)
    /\ pos = 0 /\ end = 0
    /\ mode = "top" /\ closing = FALSE /\ buffer = <<>> /\ partial = 0 /\ key = <<>>
    /\ stack = <<>> /\ sent = <<>> /\ result = "reading" /\ repeated = FALSE

-----------------------------------------------------------------------------

Available == SubSeq(input, pos + 1, end)
Before(i) == SubSeq(Available, 1, i - 1)
First(tokens) == SelectInSeq(Available, LAMBDA t : t \in tokens)
IsBlank(text) == Range(text) \subseteq Space

\* str::from_utf8: both halves of a letter are there.
IsText(bytes) ==
    \A i \in DOMAIN bytes :
        /\ bytes[i] = "half1" => i < Len(bytes) /\ bytes[i + 1] = "half2"
        /\ bytes[i] = "half2" => i > 1 /\ bytes[i - 1] = "half1"

Reads(m) == result = "reading" /\ mode = m /\ pos < end
Consume(n) == pos' = pos + n
ConsumeAll == pos' = end
Goto(m) == mode' = m

\* fill_buf: all is consumed, the pipe returns some of what it has.
Fill ==
    /\ result = "reading" /\ pos = end /\ end < Len(input)
    /\ end' \in (end + 1)..Len(input)
    /\ UNCHANGED <<items, input, pos, mode, scanner, buffer, stack, sent, result, repeated>>

\* The game is gone in the middle of it.
GameDies ==
    /\ result = "reading" /\ pos = end /\ end < Len(input)
    /\ input' = SubSeq(input, 1, end)
    /\ UNCHANGED <<items, pos, end, mode, scanner, buffer, stack, sent, result, repeated>>

Source == <<items, input, end>>
Output == <<sent, result, repeated>>

\* send_raw_text: a line is shown unless it is blank.
SendText(line) ==
    sent' = IF IsBlank(line) THEN sent ELSE Append(sent, [level |-> <<"INFO">>, lines |-> <<line>>])

\* start_game_output: an error of any loop ends the reading.
Fail == result' = "error" /\ sent' = Append(sent, Failure)

\* finish_text: what was kept and the rest of the line, of which n tokens go.
FinishText(rest, n) ==
    IF IsText(buffer \o rest)
    THEN SendText(buffer \o rest) /\ buffer' = <<>> /\ Consume(n) /\ UNCHANGED result
    ELSE Fail /\ UNCHANGED <<buffer, pos>>

\* Not in this read: keep what there is and go on with the next.
KeepAll == buffer' = buffer \o Available /\ ConsumeAll
DropAll == ConsumeAll /\ UNCHANGED buffer

\* handle_output within an event: up to the next markup.
ReadInside ==
    /\ Reads("top") /\ stack # <<>>
    /\ IF First({"<"}) = 0 THEN DropAll /\ UNCHANGED mode
       ELSE Consume(First({"<"})) /\ Goto("markup") /\ UNCHANGED buffer
    /\ UNCHANGED <<Source, scanner, stack, Output>>

\* handle_output outside: a line, markup, or the beginning of one.
ReadOutside ==
    LET i == First({"\n", "<"})
        newline == First({"\n"})
    IN
    /\ Reads("top") /\ stack = <<>>
    /\ \/ /\ i = 0
          /\ KeepAll /\ Goto(IF IsBlank(Available) THEN "top" ELSE "rest")
          /\ UNCHANGED <<sent, result>>
       \/ /\ newline # 0 /\ (i = newline \/ ~IsBlank(Before(i)))
          /\ FinishText(Before(newline), newline) /\ UNCHANGED mode
       \/ /\ i # 0 /\ newline = 0 /\ ~IsBlank(Before(i))
          /\ KeepAll /\ Goto("rest") /\ UNCHANGED <<sent, result>>
       \/ /\ i # 0 /\ i # newline /\ IsBlank(Before(i))
          /\ buffer' = <<>> /\ Consume(i) /\ Goto("markup") /\ UNCHANGED <<sent, result>>
    /\ UNCHANGED <<Source, scanner, stack, repeated>>

\* Mutant: the end of the line is looked for and never consumed nor left.
WaitsForRest ==
    /\ Reads("rest")
    /\ IF First({"\n"}) = 0 THEN KeepAll ELSE UNCHANGED <<pos, buffer>>
    /\ UNCHANGED <<Source, mode, scanner, stack, Output>>

\* read_rest_of_line: what it finds up to the newline it does not consume.
ReadRest ==
    LET i == First({"\n"}) IN
    /\ Reads("rest")
    /\ IF i = 0 THEN KeepAll /\ UNCHANGED <<mode, Output>>
       ELSE /\ FinishText(Before(i), 0) /\ Goto("top")
            /\ repeated' = (repeated \/ ~IsBlank(Before(i)))
    /\ UNCHANGED <<Source, scanner, stack>>

\* read_markup and the first character of read_bang.
ReadMarkup ==
    LET t == Available[1] IN
    /\ Reads("markup")
    /\ CASE t = "!" -> Consume(1) /\ Goto("bang")
         [] t = "/" -> Consume(1) /\ Goto("name")
         [] t = "?" -> Consume(1) /\ Goto("instruction")
         [] OTHER -> Goto("name") /\ UNCHANGED pos
    /\ closing' = (t = "/") /\ partial' = 0
    /\ UNCHANGED <<Source, buffer, key, stack, Output>>

ReadBang ==
    LET t == Available[1] IN
    /\ Reads("bang")
    /\ CASE t \in {"[CDATA[", "["} -> Goto("cdata") /\ UNCHANGED <<pos, partial>>
         [] t = "-" -> Goto("dash") /\ Consume(1) /\ UNCHANGED partial
         [] OTHER -> Goto("brackets") /\ partial' = 1 /\ UNCHANGED pos
    /\ UNCHANGED <<Source, closing, buffer, key, stack, Output>>

\* apply_cdata: a line outside an event, else the content of what is open.
ApplyCdata(cdata) ==
    IF Head(cdata) # "[CDATA[" \/ ~IsText(Tail(cdata)) THEN Fail /\ UNCHANGED <<buffer, stack>>
    ELSE
      /\ buffer' = <<>> /\ UNCHANGED result
      /\ IF stack = <<>> THEN SendText(Tail(cdata)) /\ UNCHANGED stack
         ELSE
           /\ UNCHANGED sent
           /\ stack' = IF Last(stack).kind \in {"message", "throwable"}
                       THEN [stack EXCEPT ![Len(stack)].content = <<Tail(cdata)>>] ELSE stack

\* Mutant: the end is looked for in the last read only.
CdataOfLastRead ==
    LET i == First({">"})
        read == SubSeq(Available, 1, i)
    IN
    /\ Reads("cdata")
    /\ IF i >= 3 /\ SubSeq(read, i - 2, i) = <<"]", "]", ">">>
       THEN /\ ApplyCdata(buffer \o SubSeq(read, 1, i - 3)) /\ Consume(i) /\ Goto("top")
       ELSE /\ buffer' = buffer \o (IF i = 0 THEN Available ELSE read)
            /\ pos' = IF i = 0 THEN end ELSE pos + i
            /\ UNCHANGED <<mode, stack, sent, result>>
    /\ UNCHANGED <<Source, scanner, repeated>>

\* read_bang up to "]]>", which can begin in an earlier read.
ReadCdata ==
    LET i == First({">"})
        text == buffer \o (IF i = 0 THEN Available ELSE SubSeq(Available, 1, i))
    IN
    /\ Reads("cdata")
    /\ IF i # 0 /\ IsSuffix(<<"]", "]", ">">>, text)
       THEN /\ ApplyCdata(SubSeq(text, 1, Len(text) - 3)) /\ Consume(i) /\ Goto("top")
       ELSE /\ buffer' = text
            /\ pos' = IF i = 0 THEN end ELSE pos + i
            /\ UNCHANGED <<mode, stack, sent, result>>
    /\ UNCHANGED <<Source, scanner, repeated>>

\* read_bang: "<!--" has to go on.
ReadDash ==
    /\ Reads("dash")
    /\ IF Available[1] = "-" THEN Consume(1) /\ Goto("comment") /\ UNCHANGED <<sent, result>>
       ELSE Fail /\ UNCHANGED <<pos, mode>>
    /\ UNCHANGED <<Source, scanner, buffer, stack, repeated>>

\* How many dashes a read ends with: three reads are needed if it has one character.
Dashes ==
    IF IsSuffix(<<"-", "-">>, Available) \/ (Available = <<"-">> /\ partial = 1) THEN 2
    ELSE IF Last(Available) = "-" THEN 1 ELSE 0

ReadComment ==
    LET i == First({">"}) IN
    /\ Reads("comment")
    /\ IF i = 0 THEN ConsumeAll /\ partial' = Dashes /\ UNCHANGED mode
       ELSE /\ Consume(i) /\ partial' = 0
            /\ IF \/ i = 1 /\ partial = 2
                  \/ i = 2 /\ partial = 1 /\ Available[1] = "-"
                  \/ IsSuffix(<<"-", "-">>, Before(i))
               THEN Goto("top") ELSE UNCHANGED mode
    /\ UNCHANGED <<Source, closing, buffer, key, stack, Output>>

\* read_processing_instruction: up to "?>".
ReadInstruction ==
    LET i == First({">"}) IN
    /\ Reads("instruction")
    /\ IF i = 0
       THEN ConsumeAll /\ partial' = (IF Last(Available) = "?" THEN 1 ELSE 0) /\ UNCHANGED mode
       ELSE /\ Consume(i) /\ partial' = 0
            /\ IF (i = 1 /\ partial = 1) \/ IsSuffix(<<"?">>, Before(i))
               THEN Goto("top") ELSE UNCHANGED mode
    /\ UNCHANGED <<Source, closing, buffer, key, stack, Output>>

\* skip_balanced_angle_brackets; partial is the depth.
ReadBrackets ==
    LET i == First({"<", ">"}) IN
    /\ Reads("brackets")
    /\ IF i = 0 THEN ConsumeAll /\ UNCHANGED <<mode, partial>>
       ELSE /\ Consume(i)
            /\ partial' = IF Available[i] = "<" THEN partial + 1 ELSE partial - 1
            /\ Goto(IF partial' = 0 THEN "top" ELSE mode)
    /\ UNCHANGED <<Source, closing, buffer, key, stack, Output>>

-----------------------------------------------------------------------------
(* Elements.                                                                 *)

Name(n) == <<"log4j:", n>>

\* apply_new_element.
Opened(name) ==
    CASE stack = <<>> /\ name = Name("Event") -> Event
      [] stack # <<>> /\ Last(stack).kind = "event" /\ name = Name("Message") -> Element("message")
      [] stack # <<>> /\ Last(stack).kind = "event" /\ name = Name("Throwable") -> Element("throwable")
      [] OTHER -> Element("unknown")

\* read_element, ReadingName.
ReadName ==
    LET i == First(Space \cup {">"})
        name == buffer \o Before(i)
    IN
    /\ Reads("name") /\ ~closing
    /\ IF i = 0 THEN KeepAll /\ UNCHANGED <<mode, stack>>
       ELSE /\ buffer' = <<>>
            /\ CASE name = <<>> -> Consume(i - 1) /\ Goto("skip") /\ UNCHANGED stack
                 [] Available[i] = ">" /\ IsSuffix(<<"/">>, name) ->
                      Consume(i) /\ Goto("top") /\ UNCHANGED stack
                 [] OTHER ->
                      /\ stack' = Append(stack, Opened(name))
                      /\ IF Available[i] = ">" THEN Consume(i) /\ Goto("top")
                         ELSE /\ Consume(i - 1)
                              /\ Goto(IF Opened(name) = Event THEN "space" ELSE "skip")
    /\ UNCHANGED <<Source, scanner, Output>>

\* skip_whitespace, before a key.
ReadSpace ==
    LET i == SelectInSeq(Available, LAMBDA t : t \notin Space) IN
    /\ Reads("space")
    /\ IF i = 0 THEN ConsumeAll /\ UNCHANGED mode ELSE Consume(i - 1) /\ Goto("key")
    /\ UNCHANGED <<Source, scanner, buffer, stack, Output>>

\* ReadingKey.  A slash before the end closes the element.
ReadKey ==
    LET i == First(Space \cup {">", "'", "\"", "="})
        name == buffer \o Before(i)
    IN
    /\ Reads("key")
    /\ IF i = 0 THEN KeepAll /\ UNCHANGED <<mode, key, stack>>
       ELSE /\ buffer' = <<>>
            /\ CASE Available[i] = ">" ->
                      /\ Consume(i) /\ Goto("top") /\ UNCHANGED key
                      /\ stack' = IF IsSuffix(<<"/">>, name) THEN Front(stack) ELSE stack
                 [] Available[i] = "=" ->
                      Consume(i) /\ Goto("value") /\ key' = name /\ UNCHANGED stack
                 [] OTHER ->
                      Consume(i - 1) /\ Goto("skip") /\ UNCHANGED <<key, stack>>
    /\ UNCHANGED <<Source, closing, partial, Output>>

\* ReadingValue.
ReadValue ==
    LET t == Available[1] IN
    /\ Reads("value")
    /\ IF t \in {"'", "\""} THEN Consume(1) /\ Goto(IF t = "'" THEN "single" ELSE "double")
       ELSE Goto("skip") /\ UNCHANGED pos
    /\ UNCHANGED <<Source, scanner, buffer, stack, Output>>

\* apply_attribute_key_value; only the level matters here.
Attributed(value) ==
    IF key = <<"level">> THEN [stack EXCEPT ![Len(stack)].level = value] ELSE stack

\* ReadingValueSingleQuoted and ReadingValueDoubleQuoted.
ReadQuoted ==
    LET i == First({IF mode = "single" THEN "'" ELSE "\""}) IN
    /\ Reads("single") \/ Reads("double")
    /\ IF i = 0 THEN KeepAll /\ UNCHANGED <<mode, stack>>
       ELSE /\ Consume(i) /\ Goto("space") /\ buffer' = <<>>
            /\ stack' = Attributed(buffer \o Before(i))
    /\ UNCHANGED <<Source, scanner, Output>>

\* Skip, in an element and in the end of one.
ReadSkip ==
    LET i == First({">", "'", "\""}) IN
    /\ Reads("skip")
    /\ IF i = 0
       THEN /\ ConsumeAll /\ partial' = (IF Last(Available) = "/" THEN 1 ELSE 0)
            /\ UNCHANGED <<mode, stack>>
       ELSE /\ Consume(i)
            /\ IF Available[i] = ">"
               THEN /\ Goto("top") /\ UNCHANGED partial
                    /\ stack' = IF /\ ~closing /\ stack # <<>>
                                   /\ (i = 1 /\ partial = 1) \/ IsSuffix(<<"/">>, Before(i))
                                THEN Front(stack) ELSE stack
               ELSE /\ Goto(IF Available[i] = "'" THEN "skip single" ELSE "skip double")
                    /\ partial' = 0
                    /\ UNCHANGED stack
    /\ UNCHANGED <<Source, closing, buffer, key, Output>>

\* SkipSingleQuotes and SkipDoubleQuotes.
ReadSkipQuoted ==
    LET i == First({IF mode = "skip single" THEN "'" ELSE "\""}) IN
    /\ Reads("skip single") \/ Reads("skip double")
    /\ IF i = 0 THEN ConsumeAll /\ UNCHANGED mode ELSE Consume(i) /\ Goto("skip")
    /\ UNCHANGED <<Source, scanner, buffer, stack, Output>>

Lines(text) == IF text = <<>> THEN <<>> ELSE
    LET breaks == SelectSeq([i \in 1..Len(text[1]) |-> i], LAMBDA i : text[1][i] = "\n")
        from(n) == IF n = 1 THEN 1 ELSE breaks[n - 1] + 1
        upto(n) == IF n > Len(breaks) THEN Len(text[1]) ELSE breaks[n] - 1
    IN  [n \in 1..(Len(breaks) + 1) |-> SubSeq(text[1], from(n), upto(n))]

\* The lines of an event: a throwable of one line is left out after a message of
\* several.
EventLines(event) ==
    LET text == Lines(event.text)
        throwable == Lines(event.throwable)
    IN  IF text = <<>> /\ throwable = <<>> THEN <<<<"<empty>">>>>
        ELSE IF Len(text) >= 2 /\ Len(throwable) = 1 THEN text
        ELSE text \o throwable

\* apply_end_element: the name has to be that of what is open, unless that is unknown.
Closes(name) ==
    /\ stack # <<>>
    /\ Last(stack).kind = "event" => name = Name("Event")
    /\ Last(stack).kind = "message" => name = Name("Message")
    /\ Last(stack).kind = "throwable" => name = Name("Throwable")

CloseElement ==
    LET closed == Last(stack)
        rest == Front(stack)
    IN  CASE closed.kind = "message" ->
               stack' = [rest EXCEPT ![Len(rest)].text = closed.content] /\ UNCHANGED sent
          [] closed.kind = "throwable" ->
               stack' = [rest EXCEPT ![Len(rest)].throwable = closed.content] /\ UNCHANGED sent
          [] closed.kind = "event" ->
               /\ stack' = rest
               /\ sent' = Append(sent, [level |-> closed.level, lines |-> EventLines(closed)])
          [] OTHER -> stack' = rest /\ UNCHANGED sent

\* read_end_element, ReadingName.
ReadEndName ==
    LET i == First(Space \cup {">"})
        name == buffer \o Before(i)
    IN
    /\ Reads("name") /\ closing
    /\ CASE i = 0 -> KeepAll /\ UNCHANGED <<mode, stack, sent, result>>
         [] i # 0 /\ Closes(name) ->
              /\ CloseElement
              /\ buffer' = <<>> /\ Consume(i - 1) /\ Goto("skip")
              /\ UNCHANGED result
         [] OTHER -> Fail /\ UNCHANGED <<pos, mode, buffer, stack>>
    /\ UNCHANGED <<Source, scanner, repeated>>

\* The end of the pipe: fine between two lines or within an event's contents, an error
\* within markup.
EndOfInput ==
    /\ result = "reading" /\ pos = Len(input)
    /\ CASE mode = "top" -> result' = "ended" /\ UNCHANGED <<pos, mode, buffer, sent>>
         [] mode = "rest" -> FinishText(<<>>, 0) /\ Goto("top")
         [] mode = "space" -> Goto("key") /\ UNCHANGED <<pos, buffer, sent, result>>
         [] OTHER -> Fail /\ UNCHANGED <<pos, mode, buffer>>
    /\ UNCHANGED <<Source, scanner, stack, repeated>>

ReadText == ReadInside \/ ReadOutside \/ ReadRest
ReadSpecial ==
    \/ ReadMarkup \/ ReadBang \/ ReadCdata \/ ReadDash \/ ReadComment \/ ReadInstruction \/ ReadBrackets
ReadElement ==
    \/ ReadName \/ ReadSpace \/ ReadKey \/ ReadValue \/ ReadQuoted \/ ReadSkip \/ ReadSkipQuoted
    \/ ReadEndName

Next == Fill \/ GameDies \/ ReadText \/ ReadSpecial \/ ReadElement \/ EndOfInput

\* The thread runs and the game prints until it ends.
Spec == Init /\ [][Next]_vars /\ WF_vars(Next)

-----------------------------------------------------------------------------

\* What the game prints of item n before it dies.
Printed(n) ==
    LET all == items[n].tokens
        left == Len(input) - Len(TokensOf(SubSeq(items, 1, n - 1)))
    IN  IF left <= 0 THEN <<>> ELSE IF left < Len(all) THEN SubSeq(all, 1, left) ELSE all

NoBreak(tokens) == SelectSeq(tokens, LAMBDA t : t # "\n")

\* An item that no reader could make sense of: bytes that are no text, markup that
\* goes on as no markup does.
Unreadable(n) ==
    \/ items[n].kind = "broken" /\ Printed(n) = items[n].tokens
    \/ items[n].kind = "line" /\ ~IsText(NoBreak(Printed(n)))

\* An event's message and exception, but for an exception of a single line that comes
\* with a message of several (log_reader.rs:869-896).
LinesShown(item) ==
    IF item.message = <<>> /\ item.throwable = <<>> THEN <<<<"<empty>">>>>
    ELSE IF Len(item.message) > 1 /\ Len(item.throwable) = 1 THEN item.message
    ELSE item.message \o item.throwable

\* What item n shows: an event all or nothing, its line break is not needed, of a line
\* what there is.  Nothing is shown from an unreadable item on.
ShownOf(n) ==
    LET line == NoBreak(Printed(n)) IN
    IF \E m \in 1..n : Unreadable(m) THEN <<>>
    ELSE CASE items[n].kind = "line" /\ ~IsBlank(line) -> <<[level |-> <<"INFO">>, lines |-> <<line>>]>>
           [] items[n].kind = "event" /\ Len(Printed(n)) + 1 >= Len(items[n].tokens) ->
                <<[level |-> items[n].level, lines |-> LinesShown(items[n])]>>
           [] OTHER -> <<>>

Expected == FlattenSeq([n \in DOMAIN items |-> ShownOf(n)])

\* Whatever the pipe returns at a time, every line and every event that the game
\* printed is shown once, in order, with its level, its message and its exception
\* (log_reader.rs:191-249), and then the reader gives up if and only if the game printed
\* what cannot be read or died in the middle of something.  Excepted are a line whose
\* end comes in another read, which is shown twice, and an exception of one line after a
\* message of several, which is not shown (LinesShown).
LogIsShown ==
    result # "reading" =>
        \/ repeated
        \/ /\ sent = IF result = "error" THEN Append(Expected, Failure) ELSE Expected
           /\ (\E n \in DOMAIN items : Unreadable(n)) => result = "error"
           /\ result = "error" => \/ \E n \in DOMAIN items : Unreadable(n)
                                  \/ Len(input) < Len(TokensOf(items))

\* The reader does not turn in circles: every log comes to its end
\* (log_reader.rs:192, 1016-1034).
ReaderEnds == <>(result # "reading")

\* A line that does not begin with markup is "a literal line instead of markup"
\* (log_reader.rs:231).
LinesAreLiteral == result = "ended" => sent = Expected
=============================================================================
