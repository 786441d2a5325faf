---------------------------- MODULE MCPluginFetch ---------------------------
(* Small instances of PluginFetch: one sound case and what may differ from  *)
(* it, at each limit and one beyond.                                        *)
EXTENDS PluginFetch, TLC

MCEngine == <<1, 2, 0>>
MCUnportable == {"con"}
MCDrives == {"c:"}
MCNames == {"acme.graph", "acme.list", RECORD_NAME}

Segment == {INDEX_NAME, MANIFEST_NAME, "a", "b", "wide", "", ".", "..", "con",
            "c:"}
MCWidth == [s \in Segment |-> IF s = "" THEN 0 ELSE IF s = "wide" THEN 3 ELSE 1]

Path == {<<s>> : s \in Segment} \cup {<<s, t>> : s, t \in Segment}
            \cup {<<"a", "b", s>> : s \in Segment}

\* Any total order that puts the manifest neither first nor last.
MCByteOrder ==
    LET letter == [s \in Segment |->
            CASE s = "" -> 0 [] s = "." -> 1 [] s = ".." -> 2 [] s = "a" -> 3
              [] s = "b" -> 4 [] s = "c:" -> 5 [] s = "con" -> 6
              [] s = INDEX_NAME -> 7 [] s = MANIFEST_NAME -> 8 [] OTHER -> 9]
        at(p, i) == IF i \in DOMAIN p THEN letter[p[i]] + 1 ELSE 0
    IN  [p \in Path |-> 121 * at(p, 1) + 11 * at(p, 2) + at(p, 3)]

-----------------------------------------------------------------------------
SoundSource == [github |-> TRUE, at |-> FALSE, segments |-> <<"a", "b">>,
                query |-> "v1", fragment |-> NONE]

With(r, changes) == {[r EXCEPT ![c[1]] = c[2]] : c \in changes}

MCSources ==
    {SoundSource} \cup
    With(SoundSource,
         {<<"github", FALSE>>, <<"at", TRUE>>,
          <<"segments", <<"a", "b", "">> >>, <<"segments", <<"a", "", "b">> >>,
          <<"segments", <<"a">> >>, <<"segments", <<"", "b">> >>,
          <<"segments", <<"a", "b", "a">> >>,
          <<"query", NONE>>, <<"query", "">>,
          <<"fragment", <<"a">> >>, <<"fragment", <<"b">> >>,
          <<"fragment", <<"">> >>, <<"fragment", <<"", "a">> >>,
          <<"fragment", <<"a", "..">> >>})

SoundPlace == [given |-> NONE, configured |-> TRUE, home |-> TRUE,
               interactive |-> FALSE, answer |-> NONE]
MCPlaces ==
    {SoundPlace} \cup
    [given : {"project"}, configured : {FALSE}, home : {TRUE},
     interactive : {TRUE}, answer : {"g"}] \cup
    [given : {NONE}, configured : BOOLEAN, home : BOOLEAN, interactive : {TRUE},
     answer : {"g", "p"}]

-----------------------------------------------------------------------------
E1(path) == [path |-> path, bytes |-> 1]
E2(path) == [path |-> path, bytes |-> 2]
IndexEntry == E1(<<INDEX_NAME>>)
AtRoot == E1(<<MANIFEST_NAME>>)
InA == E1(<<"a", MANIFEST_NAME>>)

\* At the root: what else the plugin holds, in both orders of the host.
RootListings ==
    {<<IndexEntry, AtRoot, E1(<<"a">>)>>, <<E1(<<"wide">>), AtRoot, IndexEntry>>,
     <<AtRoot, E1(<<"b">>), E1(<<"a">>), IndexEntry>>,
     <<AtRoot, E1(<<"a">>)>>,                             \* no index
     <<IndexEntry, E1(<<"a">>)>>,                         \* no manifest
     <<IndexEntry, AtRoot, E2(<<"a">>)>>,                 \* the whole at its limit
     <<IndexEntry, AtRoot, E2(<<"a">>), E1(<<"b">>)>>,    \* above it
     <<IndexEntry, AtRoot, [path |-> <<"a">>, bytes |-> 3]>>,
     <<IndexEntry, AtRoot, E1(<<"wide", "a">>)>>,         \* a path too long
     <<IndexEntry, AtRoot, E1(<<"a", "b", "a">>)>>,       \* too deep
     <<IndexEntry, AtRoot, [path |-> <<"a">>, bytes |-> 0],
       [path |-> <<"b">>, bytes |-> 0], [path |-> <<"con", "a">>, bytes |-> 0]>>,
     <<IndexEntry, AtRoot, [path |-> <<"a">>, bytes |-> 0],
       [path |-> <<"b">>, bytes |-> 0], [path |-> <<"wide">>, bytes |-> 0]>>,
     <<IndexEntry, AtRoot, E1(<<"c:", "a">>)>>, <<IndexEntry, AtRoot, E1(<<"b", "..">>)>>,
     <<IndexEntry, AtRoot, E1(<<"a", "">>)>>}

\* In the directory `a`, beside what is not of the plugin.
DirListings ==
    {<<IndexEntry, E1(<<"a", "b">>), InA, E1(<<"b", "con">>)>>,
     <<InA, E1(<<"a">>), E1(<<"a", "b">>), IndexEntry>>,
     <<IndexEntry, AtRoot, E1(<<"a", "b">>)>>,
     <<IndexEntry, InA, E1(<<"a", "b">>), E1(<<"a", INDEX_NAME>>)>>}

Declares(plugins) == [readable |-> TRUE, version |-> 2, plugins |-> plugins]
One(dir) == Declares(<<"a">> :> dir)

RootIndexes == {One(<<".">>), One(<<".", "">>), One(<<".", ".">>)}
DirIndexes == {One(<<"a">>), One(<<"a", "">>), One(<<"a", ".", "">>),
               One(<<"a", "", ".">>),
               Declares(<<"a">> :> <<"a">> @@ <<"b">> :> <<".">>),
               Declares(<<"a">> :> <<"a">> @@ <<"b">> :> <<"..", "a">>)}
BadIndexes ==
    {[One(<<".">>) EXCEPT !.readable = FALSE],
     [One(<<".">>) EXCEPT !.version = NONE], [One(<<".">>) EXCEPT !.version = 1],
     Declares(NONE), Declares(<<>>), One(NotText), One(<<"">>), One(<<"", "a">>),
     One(<<"..">>), Declares(<<"">> :> <<".">>)}

-----------------------------------------------------------------------------
Sound == [text |-> "JSON", manifest_version |-> 1, name |-> "acme.graph",
          version |-> "1.0.0",
          nostdb |-> << [operator |-> ">=", bound |-> <<1, 0, 0>>],
                        [operator |-> "<", bound |-> <<2, 0, 0>>] >>,
          command |-> << <<"a">> >>, protocol_version |-> 1,
          actions |-> {"sound"}, permissions |-> {"graph_read"}]

Range1(op, bound) == << [operator |-> op, bound |-> bound] >>

Members == {"name", "version", "nostdb", "command", "protocol_version",
            "actions", "permissions"}
Odd ==
    With(Sound, {<<"text", "not UTF-8">>, <<"text", "not JSON">>,
                 <<"manifest_version", NONE>>, <<"manifest_version", 2>>,
                 <<"name", "Undotted">>, <<"version", NotText>>,
                 <<"command", NotText>>, <<"command", <<>> >>,
                 <<"command", <<NotText>> >>, <<"command", << <<"">> >> >>,
                 <<"command", << <<"", "a">> >> >>, <<"command", << <<"b">> >> >>,
                 <<"command", << <<"..", "a">> >> >>,
                 <<"actions", NotText>>, <<"actions", {"unnamed"}>>,
                 <<"actions", {"unbudgeted"}>>,
                 <<"permissions", {"database_write"}>>,
                 <<"permissions", {"escaping"}>>, <<"permissions", {"*"}>>,
                 <<"nostdb", NotText>>, <<"nostdb", <<>> >>,
                 <<"nostdb", Range1(NONE, <<1, 2, 0>>)>>,
                 <<"nostdb", Range1("=", <<1, 2>>)>>,
                 <<"nostdb", Range1("=", <<1, 2, NotText>>)>>,
                 <<"nostdb", Range1("=", <<1, 2, 0>>)>>,
                 <<"nostdb", Range1("<=", <<1, 2, 0>>)>>,
                 <<"nostdb", Range1(">", <<1, 2, 0>>)>>,
                 <<"nostdb", Range1("<", <<1, 2, 0>>)>>,
                 <<"nostdb", Range1(">", <<0, 9, 9>>)>>,
                 <<"nostdb", Sound.nostdb \o Range1("<", <<1, 1, 9>>)>>})
    \cup {[Sound EXCEPT ![member] = NONE] : member \in Members}

\* What is well formed by the rules and yet cannot be recorded.
Unrecordable == With(Sound, {<<"name", NotText>>, <<"name", RECORD_NAME>>,
                             <<"permissions", NotText>>})

Snap(listing, index, manifest) ==
    [listing |-> listing, index |-> index, manifest |-> manifest, commit |-> "c1"]

SoundListing == <<IndexEntry, AtRoot, E1(<<"a">>)>>

MCSnapshots ==
    {Snap(l, i, Sound) : l \in RootListings, i \in RootIndexes} \cup
    {Snap(l, i, [Sound EXCEPT !.command = << <<"b">> >>]) :
        l \in DirListings, i \in DirIndexes} \cup
    {Snap(SoundListing, i, Sound) : i \in BadIndexes} \cup
    {Snap(SoundListing, One(<<".">>), m) : m \in Odd \cup Unrecordable}

MCUnrecordable ==
    {Snap(SoundListing, One(<<".">>), m) : m \in {Sound} \cup Unrecordable}

-----------------------------------------------------------------------------
Recording(name, commit, tree) ==
    [holds |-> "file",
     record |-> name :> [commit |-> commit, tree |-> tree,
                         permissions |-> {"graph_read"}],
     dirs |-> {name}]

NoneInstalled == [holds |-> "nothing", record |-> <<>>, dirs |-> {}]
TreeA == {<<MANIFEST_NAME>>, <<"a">>}

MCStores == {NoneInstalled, Recording("acme.list", "c0", TreeA),
             Recording("acme.graph", "c0", TreeA),
             Recording("acme.graph", "c1", TreeA),
             Recording("acme.graph", "c1", {<<MANIFEST_NAME>>})}
In(project, global) == [project |-> project, global |-> global]
Nowhere == In(NoneInstalled, NoneInstalled)

SoundSnap == Snap(SoundListing, One(<<".">>), Sound)

CasesOf(sources, places, snapshots, stores) ==
    [source : sources, place : places, snapshot : snapshots, store : stores]

\* Each kind of input varies while the others are sound; a name is typed
\* for every index.
MCCases ==
    CasesOf(MCSources, {SoundPlace}, {SoundSnap}, {Nowhere}) \cup
    CasesOf({SoundSource}, MCPlaces, {SoundSnap}, {In(s, t) : s, t \in MCStores}) \cup
    CasesOf({SoundSource}, {SoundPlace}, MCSnapshots,
            {Nowhere, In(Recording("acme.list", "c0", TreeA), NoneInstalled)}) \cup
    CasesOf(With(SoundSource, {<<"fragment", <<"a">> >>, <<"fragment", <<"b">> >>}),
            {SoundPlace},
            {Snap(l, i, Sound) : l \in RootListings \cup DirListings,
                                 i \in DirIndexes \cup BadIndexes},
            {Nowhere})

MCUnrecordableCases ==
    CasesOf({SoundSource}, {SoundPlace}, MCUnrecordable,
            {In(s, NoneInstalled) : s \in MCStores})
=============================================================================
