--------------------------- MODULE MCLaunchArguments ---------------------------
(* Versions and arguments as Mojang, Forge and NeoForge publish them, and every  *)
(* sequence of three libraries out of a few.                                     *)
EXTENDS LaunchArguments, TLC

Forge == <<[parts |-> <<1, 21, 51, 0, 33>>, for |-> <<1, 21>>],
          [parts |-> <<1, 21, 5, 55, 0, 1>>, for |-> <<1, 21, 5>>],
          [parts |-> <<1, 21, 11, 61, 0, 3>>, for |-> <<1, 21, 11>>],
          [parts |-> <<1, 17, 1, 37, 1, 1>>, for |-> <<1, 17, 1>>],
          [parts |-> <<1, 8, 9, 11, 15, 1>>, for |-> <<1, 8, 9>>],
          [parts |-> <<1, 8, 11, 14, 4>>, for |-> <<1, 8>>]>>
NeoForge == <<[parts |-> <<21, 0, 167>>, for |-> <<1, 21>>],
             [parts |-> <<21, 5, 3, -3>>, for |-> <<1, 21, 5>>],
             [parts |-> <<21, 5, 96>>, for |-> <<1, 21, 5>>],
             [parts |-> <<26, 1, 0, 1, -3>>, for |-> <<26, 1>>],
             [parts |-> <<26, 1, 1, 2>>, for |-> <<26, 1, 1>>],
             [parts |-> <<0, -1, 3, -3>>, for |-> <<-1>>]>>

Asked(minecraft, neoforge, manifest) ==
    {[minecraft |-> minecraft, neoforge |-> neoforge, manifest |-> manifest, preferred |-> preferred] :
        preferred \in {{}} \cup {{v} : v \in Range(manifest)}}

\* Every game there is a loader for, and some there is none for; any preferred version.
MCLaunches ==
    UNION {Asked(minecraft, FALSE, Forge) : minecraft \in {v.for : v \in Range(Forge)} \cup {<<1, 17>>, <<1, 6>>}}
    \cup UNION {Asked(minecraft, TRUE, NeoForge) : minecraft \in {v.for : v \in Range(NeoForge)} \cup {<<1, 8>>}}

NewRule(action, feature, os) == [action |-> action, feature |-> feature, os |-> os]
RuleLists == {{}, {<<>>},
              {<<NewRule("allow", "any", "any"), NewRule("disallow", "any", "linux")>>},
              {<<NewRule("allow", "any", "linux")>>}, {<<NewRule("allow", "any", "windows")>>}}

NewLibrary(id, v, rules) == [id |-> id, version |-> v, rules |-> rules]
Libraries == {NewLibrary("asm", v, {}) : v \in {<<9>>, <<9, 3>>, <<9, -3>>, <<10, 1>>}}
             \cup {NewLibrary("asm", <<9, 3>>, rules) : rules \in RuleLists}
             \cup {NewLibrary("lwjgl", <<3>>, {})}

NewArgument(rules, values) == [rules |-> rules, values |-> values]
Arguments ==
    {NewArgument({}, <<<<Text("--username")>>, <<Key("name")>>>>),
     NewArgument({}, <<<<Text("--clientId")>>, <<Key("clientid")>>>>),
     NewArgument({}, <<<<Key("auth_xuid"), Key("name"), Text("x")>>>>),
     NewArgument({<<>>}, <<<<Text("--width")>>>>),
     NewArgument({<<NewRule("allow", "singleplayer", "any")>>}, <<<<Text("--quickPlay"), Key("singleplayer")>>>>),
     NewArgument({<<NewRule("allow", "any", "any"), NewRule("disallow", "multiplayer", "any")>>}, <<<<Text("--demo")>>>>)}

\* Before 1.13 a version has one line of arguments, and so has its loader.
Old == {<<<<Text("--username")>>, <<Key("name")>>>>}
OldForge == {<<<<Text("--username")>>, <<Key("name")>>, <<Text("--tweakClass")>>, <<Text("x")>>>>}

NewDocument(game, legacy, libraries, main) ==
    [game |-> game, legacy |-> legacy, libraries |-> libraries, main |-> main]

ASM == NewLibrary("asm", <<9, 3>>, {})
Name == NewArgument({}, <<<<Key("name")>>>>)

MCDocuments ==
    {[base |-> NewDocument(<<Name>>, {}, <<l>>, "Main"), partial |-> NewDocument(<<>>, {}, <<m, n>>, "none")] :
        l \in Libraries, m \in Libraries, n \in Libraries}
    \cup
    {[base |-> NewDocument(<<a>>, {}, <<ASM>>, "Main"), partial |-> NewDocument(<<b, c>>, {}, <<>>, "Knot")] :
        a \in Arguments, b \in Arguments, c \in Arguments}
    \cup
    {[base |-> NewDocument(<<>>, Old, <<ASM>>, "Main"), partial |-> NewDocument(<<>>, legacy, <<>>, "Launch")] :
        legacy \in {{}, {<<>>}, OldForge}}
=============================================================================
