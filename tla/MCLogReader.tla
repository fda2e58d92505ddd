------------------------------ MODULE MCLogReader ------------------------------
(* Lines, with markup in them or not, events with and without what they can have, *)
(* other markup, and what cannot be read; every prefix of every sequence of two.  *)
EXTENDS LogReader, TLC

Tag(name, attributes) == <<"<">> \o Name(name) \o attributes \o <<">">>
EndTag(name) == <<"<", "/">> \o Name(name) \o <<">">>
Level(quote) == <<" ", "level", "=", quote, "WARN", quote>>
Thread == <<" ", "thread", "=", "\"", "a", ">", "\"", " ">>
Cdata(text) == <<"<", "!", "[CDATA[">> \o text \o <<"]", "]", ">">>
Part(name, text) == Tag(name, <<>>) \o Cdata(text) \o EndTag(name)

Line(tokens) == [kind |-> "line", tokens |-> Append(tokens, "\n")]
Logged(attributes, parts, level, message, throwable) ==
    [kind |-> "event", level |-> level, message |-> message, throwable |-> throwable,
     tokens |-> Tag("Event", attributes) \o parts \o EndTag("Event") \o <<"\n">>]
Silent(tokens) == [kind |-> "other", tokens |-> Append(tokens, "\n")]
NotReadable(tokens) == [kind |-> "broken", tokens |-> Append(tokens, "\n")]

Texts == {Line(<<"a", "b">>), Line(<<" ", "a", "<", "b", ">">>), Line(<<" ">>),
          Line(<<"a", "half1", "half2">>), Line(<<"a", "half1">>)}

LongMessage ==
    Logged(Level("\""), Part("Message", <<"a", "]", ">", "\n", "b">>), <<"WARN">>, <<<<"a", "]", ">">>, <<"b">>>>, <<>>)

Events ==
    {LongMessage,
     Logged(Level("'") \o Thread,
            <<"\n">> \o Part("Message", <<"a">>) \o Part("Throwable", <<"b", "\n", "c">>) \o <<"\n">>,
            <<"WARN">>, <<<<"a">>>>, <<<<"b">>, <<"c">>>>),
     Logged(<<>>, Part("Message", <<"a", "\n", "b">>) \o Part("Throwable", <<"c">>),
            <<>>, <<<<"a">>, <<"b">>>>, <<<<"c">>>>),
     Logged(<<>>, <<"<">> \o Name("Message") \o <<"/", ">">>
                  \o <<"<">> \o Name("NDC") \o <<" ", "a", "\"", "b", ">", "\"", "/", ">">>
                  \o Tag("NDC", <<" ", "'", ">", "'">>) \o EndTag("NDC"),
            <<>>, <<>>, <<>>)}

Others ==
    {Silent(<<"<", "!", "-", "-", "a", "-", ">", "-", "-", ">">>),
     Silent(<<"<", "?", "a", ">", "?", ">">>),
     Silent(Tag("Event", Level("\"") \o <<" ", "/">>)),
     Silent(Tag("Event", <<" ", "a", "=", "b", "/">>)),
     Silent(Tag("Event", <<" ", "a", " ", "/">>)),
     Silent(<<"<", "!", "D", "<", "a", ">", ">">>)}

Broken ==
    {NotReadable(<<"<", "!", "[", "a", "]", "]", ">">>),
     NotReadable(Tag("Event", <<>>) \o Part("Message", <<"half2">>) \o EndTag("Event")),
     NotReadable(<<"<", "!", "-", "a", "-", ">">>),
     NotReadable(Tag("Event", <<>>) \o EndTag("Message"))}

ShortEvent == Logged(<<>>, Part("Message", <<"a">>), <<>>, <<<<"a">>>>, <<>>)

\* Nothing after what cannot be read is read.
MCItems ==
    {<<a, b>> : a \in Texts \cup Events \cup Others, b \in {Line(<<"a", "b">>), ShortEvent}}
    \cup {<<a, ShortEvent>> : a \in Broken}
=============================================================================
