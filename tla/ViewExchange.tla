---------------------------- MODULE ViewExchange ----------------------------
(***************************************************************************)
(* `write_exchange`: a federation of graphs as the viewer exchange         *)
(* container. Every row becomes numbers: indices into the string table,    *)
(* the node columns and the source table, and the u32 offsets of the       *)
(* sections.                                                               *)
(*                                                                         *)
(* The federation is external: a root and the linked databases that could  *)
(* be read, with the status of every link. An endpoint in another database *)
(* names a database and a record; the code takes the first of a hash map   *)
(* with that record's identifier.                                          *)
(***************************************************************************)
EXTENDS Integers, Sequences

CONSTANTS
    Federations, \* the graphs to write, each with the largest u32 it meets
    Remote,      \* locators that begin with github://
    Size,        \* the bytes of each text
    NoText       \* an alias that is not declared, a place without a path

HEADER_BYTES == 32
ENTRY_BYTES == 16
WORD == 4

Texts    == DOMAIN Size
Place    == [path : Texts \cup {NoText}, line : Nat]
Node     == [id : Texts, label : Texts, places : Seq(Place)]
Ref      == [local : {TRUE}, id : Texts] \cup [local : {FALSE}, id : Texts, source : Texts]
Edge     == [from : Ref, to : Ref, relation : Texts]
Database == [locator : Texts, nodes : Seq(Node), edges : Seq(Edge)]
Status   == [locator : Texts, alias : Texts \cup {NoText}, available : BOOLEAN]

\* A database holds one node of an identifier, and the root is always there.
ASSUME ExchangeAssumption ==
    /\ Size \in [Texts -> Nat]
    /\ "" \in Texts /\ NoText \notin Texts
    /\ \A f \in Federations :
         /\ f.limit \in Nat
         /\ f.sources \in Seq(Database) /\ f.sources # <<>>
         /\ f.statuses \in Seq(Status)
         /\ \A s \in DOMAIN f.sources : \A i, j \in DOMAIN f.sources[s].nodes :
                f.sources[s].nodes[i].id = f.sources[s].nodes[j].id => i = j

VARIABLES
    federation, \* what is written
    stage,      \* which rows are being written
    at,         \* how many of them have been
    strings,    \* the texts interned
    position,   \* the index of a node, by source and identifier
    first,      \* the node the hash map yields first, by identifier
    nodes, edges, sources, evidence, \* the rows written
    table       \* the section table

rows == <<nodes, edges, sources, evidence>>
vars == <<federation, stage, at, strings, position, first, rows, table>>

U32_MAX == federation.limit
None == -1
Clipped(n) == IF n > U32_MAX THEN U32_MAX ELSE n
Graphs == 1..Len(federation.sources)
Graph(s) == federation.sources[s]

\* One list of each graph after the other, each row with the graph it is from.
Tagged(s, listed) == [i \in 1..Len(listed) |-> [source |-> s, row |-> listed[i]]]

RowsUpto(of) ==
    LET upto[s \in 0..Len(of)] ==
            IF s = 0 THEN <<>> ELSE upto[s - 1] \o Tagged(s, of[s])
    IN  upto

RowsOf(of) == RowsUpto(of)[Len(of)]

NodeRows == RowsOf([s \in Graphs |-> Graph(s).nodes])
EdgeRows == RowsOf([s \in Graphs |-> Graph(s).edges])

FirstOf(found) == CHOOSE i \in found : \A j \in found : i <= j

-----------------------------------------------------------------------------
\* The string table begins with the empty text. An index is clipped, not refused.
Interned(texts, text) == \E i \in 1..Len(texts) : texts[i] = text
Intern(texts, text) == IF Interned(texts, text) THEN texts ELSE Append(texts, text)
Index(texts, text) == Clipped((CHOOSE i \in 1..Len(texts) : texts[i] = text) - 1)

KindOf(locator) == IF locator \in Remote THEN 2 ELSE 1

AliasOf(locator) ==
    LET found == {i \in 1..Len(federation.statuses) : federation.statuses[i].locator = locator}
    IN  IF found = {} THEN NoText ELSE federation.statuses[FirstOf(found)].alias

ReadSources ==
    [s \in Graphs |->
        LET locator == Graph(s).locator
        IN  [locator |-> locator, status |-> 0,
             kind |-> IF s = 1 THEN 0 ELSE KindOf(locator),
             alias |-> IF s = 1 THEN NoText ELSE AliasOf(locator)]]

\* The links among the first that could not be read.
Reported(listed, link) ==
    IF link.available THEN listed
    ELSE Append(listed, [locator |-> link.locator, status |-> 1,
                         kind |-> KindOf(link.locator), alias |-> link.alias])

UnreadUpto(links) ==
    LET upto[n \in 0..Len(links)] ==
            IF n = 0 THEN <<>> ELSE Reported(upto[n - 1], links[n])
    IN  upto

UnreadSources == UnreadUpto(federation.statuses)[Len(federation.statuses)]

\* The root is 0; then what was read; a link that was not stays declared.
SourceRows == ReadSources \o UnreadSources

-----------------------------------------------------------------------------
Init ==
    /\ federation \in Federations
    /\ stage = "nodes" /\ at = 0
    /\ strings = <<"">>
    /\ position = <<>> /\ first = <<>>
    /\ nodes = <<>> /\ edges = <<>> /\ sources = <<>> /\ evidence = <<>>
    /\ table = <<>>

Doing(s, listed) == stage = s /\ at < Len(listed)
Finished(s, listed, then) ==
    /\ stage = s /\ at = Len(listed)
    /\ stage' = then /\ at' = 0
    /\ UNCHANGED <<federation, strings, position, rows, table>>

Step == at' = at + 1 /\ UNCHANGED <<federation, stage, first, table>>

\* Mutant: a count may wrap.
Fits_Always(n) == TRUE

Fits(n) == n <= U32_MAX

Refuse ==
    /\ stage' = "refused"
    /\ UNCHANGED <<federation, at, strings, position, first, rows, table>>

\* The row of a loop over the nodes.
Source == NodeRows[at + 1].source
Row == NodeRows[at + 1].row

PlaceNode ==
    /\ Doing("nodes", NodeRows) /\ Fits(Source - 1) /\ Fits(Len(nodes) + 1)
    /\ position' = [k \in DOMAIN position \cup {<<Source, Row.id>>} |->
                       IF k = <<Source, Row.id>> THEN Len(nodes) ELSE position[k]]
    /\ strings' = Intern(Intern(strings, Row.id), Row.label)
    /\ nodes' = Append(nodes, [id |-> Index(strings', Row.id),
                               label |-> Index(strings', Row.label),
                               source |-> Source - 1])
    /\ Step /\ UNCHANGED <<edges, sources, evidence>>

TooManyNodes ==
    Doing("nodes", NodeRows) /\ ~(Fits(Source - 1) /\ Fits(Len(nodes) + 1)) /\ Refuse

\* Every position is known before an edge is written.
NodesPlaced ==
    /\ Finished("nodes", NodeRows, "edges")
    /\ first' \in {f \in [{k[2] : k \in DOMAIN position} -> {position[k] : k \in DOMAIN position}] :
           \A i \in DOMAIN f : \E k \in DOMAIN position : k[2] = i /\ position[k] = f[i]}

\* Mutant: every endpoint is looked for by its identifier alone.
Endpoint_ById(ref, within) == IF ref.id \in DOMAIN first THEN first[ref.id] ELSE None

\* A local endpoint is in the graph that declares the edge.
Endpoint(ref, within) ==
    IF ref.local
    THEN IF <<within, ref.id>> \in DOMAIN position THEN position[<<within, ref.id>>] ELSE None
    ELSE IF ref.id \in DOMAIN first THEN first[ref.id] ELSE None

Declared == EdgeRows[at + 1]
From == Endpoint(Declared.row.from, Declared.source)
To == Endpoint(Declared.row.to, Declared.source)

Carried == Doing("edges", EdgeRows) /\ From # None /\ To # None

WriteEdge ==
    /\ Carried /\ Fits(Len(edges) + 1)
    /\ strings' = Intern(strings, Declared.row.relation)
    /\ edges' = Append(edges, [from |-> From, to |-> To,
                               relation |-> Index(strings', Declared.row.relation)])
    /\ Step /\ UNCHANGED <<position, nodes, sources, evidence>>

TooManyEdges == Carried /\ ~Fits(Len(edges) + 1) /\ Refuse

\* An edge that has an end no graph carries is dropped.
DropEdge ==
    /\ Doing("edges", EdgeRows) /\ (From = None \/ To = None)
    /\ Step /\ UNCHANGED <<position, strings, rows>>

EdgesWritten == Finished("edges", EdgeRows, "sources") /\ UNCHANGED first

\* An alias that is not declared is the empty text, as is one that is empty.
WriteSource ==
    /\ Doing("sources", SourceRows)
    /\ LET s == SourceRows[at + 1]
           located == Intern(strings, s.locator) IN
        /\ strings' = IF s.alias = NoText THEN located ELSE Intern(located, s.alias)
        /\ sources' = Append(sources,
               [locator |-> Index(strings', s.locator),
                alias |-> IF s.alias = NoText THEN 0 ELSE Index(strings', s.alias),
                kind |-> s.kind, status |-> s.status])
    /\ Step /\ UNCHANGED <<position, nodes, edges, evidence>>

SourcesWritten == Finished("sources", SourceRows, "evidence") /\ UNCHANGED first

\* Mutant: the index a node has in its own graph.
NodeIndex_InGraph(source, id) ==
    (CHOOSE i \in 1..Len(Graph(source).nodes) : Graph(source).nodes[i].id = id) - 1

NodeIndex(source, id) == position[<<source, id>>]

WithPath(node) == {i \in 1..Len(node.places) : node.places[i].path # NoText}

\* The first place with a path, in the order of the nodes.
PlaceOf(node) == node.places[FirstOf(WithPath(node))]

WriteEvidence ==
    /\ Doing("evidence", NodeRows)
    /\ IF WithPath(Row) = {}
       THEN UNCHANGED <<strings, evidence>>
       ELSE /\ strings' = Intern(strings, PlaceOf(Row).path)
            /\ evidence' = Append(evidence,
                   [node |-> NodeIndex(Source, Row.id),
                    path |-> Index(strings', PlaceOf(Row).path), line |-> PlaceOf(Row).line])
    /\ Step /\ UNCHANGED <<position, nodes, edges, sources>>

EvidenceWritten == Finished("evidence", NodeRows, "layout") /\ UNCHANGED first

-----------------------------------------------------------------------------
(* The payloads, and the table that says where each of them is.            *)

\* The bytes of the first strings, behind their number.
Sized(bytes, text) == bytes + WORD + Size[text]

BytesUpto(texts) ==
    LET upto[n \in 0..Len(texts)] ==
            IF n = 0 THEN WORD ELSE Sized(upto[n - 1], texts[n])
    IN  upto

StringBytes == BytesUpto(strings)[Len(strings)]

Section(kind, length) == [kind |-> kind, length |-> length]

Required ==
    << Section("Strings", StringBytes),
       Section("NodeIds", WORD * Len(nodes)),
       Section("NodeLabels", WORD * Len(nodes)),
       Section("NodeSources", WORD * Len(nodes)),
       Section("EdgeEndpoints", 2 * WORD * Len(edges)),
       Section("EdgeRelations", WORD * Len(edges)),
       Section("Sources", 3 * WORD * Len(sources)) >>

Sections ==
    IF evidence = <<>> THEN Required
    ELSE Append(Required, Section("Evidence", WORD + 4 * WORD * Len(evidence)))

Laid(before, section) ==
    IF before.refused \/ ~Fits(section.length) \/ ~Fits(before.end + section.length)
    THEN [before EXCEPT !.refused = TRUE]
    ELSE [refused |-> FALSE, end |-> before.end + section.length,
          table |-> Append(before.table, [kind |-> section.kind, offset |-> before.end,
                                          length |-> section.length])]

LaidUpto(start, sections) ==
    LET upto[n \in 0..Len(sections)] ==
            IF n = 0 THEN start ELSE Laid(upto[n - 1], sections[n])
    IN  upto

Layout ==
    LET end == HEADER_BYTES + ENTRY_BYTES * Len(Sections)
    IN  LaidUpto([refused |-> ~(Fits(Len(sources)) /\ Fits(end)), end |-> end, table |-> <<>>],
                 Sections)[Len(Sections)]

Assemble ==
    /\ stage = "layout" /\ ~Layout.refused
    /\ stage' = "done" /\ table' = Layout.table
    /\ UNCHANGED <<federation, at, strings, position, first, rows>>

DoesNotFit == stage = "layout" /\ Layout.refused /\ Refuse

Next ==
    \/ PlaceNode \/ TooManyNodes \/ NodesPlaced
    \/ WriteEdge \/ TooManyEdges \/ DropEdge \/ EdgesWritten
    \/ WriteSource \/ SourcesWritten
    \/ WriteEvidence \/ EvidenceWritten
    \/ Assemble \/ DoesNotFit

Spec == Init /\ [][Next]_vars

-----------------------------------------------------------------------------
(* Properties.                                                             *)

Stages == {"nodes", "edges", "sources", "evidence", "layout", "done", "refused"}
U32 == 0..U32_MAX
Identifiers == {k[2] : k \in DOMAIN position}

\* Every number of a row is a u32 of the size met, however many rows there are.
TypeOK ==
    /\ stage \in Stages
    /\ at \in Nat
    /\ strings \in Seq(Texts)
    /\ DOMAIN position \subseteq Graphs \X Texts
    /\ \A k \in DOMAIN position : position[k] \in U32
    /\ \A id \in DOMAIN first : first[id] \in U32
    /\ nodes \in Seq([id : U32, label : U32, source : U32]) /\ Len(nodes) \in U32
    /\ edges \in Seq([from : U32, to : U32, relation : U32]) /\ Len(edges) \in U32
    /\ sources \in Seq([locator : U32, alias : U32, kind : 0..2, status : 0..1])
    /\ evidence \in Seq([node : U32, path : U32, line : Nat])
    /\ \A i \in DOMAIN table : table[i].offset \in U32 /\ table[i].length \in U32

\* Every number of a container that was returned is inside what it indexes, and
\* its sections are one after the other behind the table: a reader of the
\* columns never leaves the buffer, at whatever size the code's u32 is met.
IndicesInside ==
    stage = "done" =>
        LET InTexts == 0..(Len(strings) - 1)
            InNodes == 0..(Len(nodes) - 1)
        IN  /\ \A i \in 1..Len(nodes) :
                   /\ nodes[i].id \in InTexts /\ nodes[i].label \in InTexts
                   /\ nodes[i].source \in 0..(Len(sources) - 1)
            /\ \A i \in 1..Len(edges) :
                   /\ edges[i].from \in InNodes /\ edges[i].to \in InNodes
                   /\ edges[i].relation \in InTexts
            /\ \A i \in 1..Len(sources) :
                   sources[i].locator \in InTexts /\ sources[i].alias \in InTexts
            /\ \A i \in 1..Len(evidence) :
                   evidence[i].node \in InNodes /\ evidence[i].path \in InTexts
            /\ table[1].offset = HEADER_BYTES + ENTRY_BYTES * Len(table)
            /\ \A i \in 1..Len(table) :
                   LET end == table[i].offset + table[i].length
                   IN  IF i = Len(table) THEN end \in U32 ELSE end = table[i + 1].offset

\* What a reader of the container sees of a node.
Seen(i) == LET n == nodes[i + 1] IN
    [id |-> strings[n.id + 1], label |-> strings[n.label + 1],
     locator |-> strings[sources[n.source + 1].locator + 1],
     read |-> sources[n.source + 1].status = 0]

Of(s, node) == [id |-> node.id, label |-> node.label, locator |-> Graph(s).locator, read |-> TRUE]

\* A reference is to the node its own graph holds, or to one another holds.
NodesOf(ref, s, g) ==
    {i \in 1..Len(Graph(g).nodes) : Graph(g).nodes[i].id = ref.id /\ (ref.local => g = s)}

Leads(ref, s) == \E g \in Graphs : NodesOf(ref, s, g) # {}

LeadsTo(ref, s, seen) ==
    \E g \in Graphs : \E i \in NodesOf(ref, s, g) : seen = Of(g, Graph(g).nodes[i])

\* The edges among the first that have both ends.
Kept(listed, e) ==
    IF Leads(e.row.from, e.source) /\ Leads(e.row.to, e.source) THEN Append(listed, e) ELSE listed

WholeUpto ==
    LET upto[n \in 0..Len(EdgeRows)] ==
            IF n = 0 THEN <<>> ELSE Kept(upto[n - 1], EdgeRows[n])
    IN  upto

Whole == WholeUpto[Len(EdgeRows)]

\* A container that was returned reads back as the federation: every node once
\* with the database it came from; every edge whose ends are carried, local ones
\* between nodes of the database that declares it, though others hold nodes of
\* the same identifier; every link, the ones that could not be read included.
ReadsBack ==
    stage = "done" =>
        /\ Len(nodes) = Len(NodeRows) /\ Len(edges) = Len(Whole)
        /\ \A i \in 1..Len(nodes) : Seen(i - 1) = Of(NodeRows[i].source, NodeRows[i].row)
        /\ \A i \in 1..Len(edges) :
               /\ LeadsTo(Whole[i].row.from, Whole[i].source, Seen(edges[i].from))
               /\ LeadsTo(Whole[i].row.to, Whole[i].source, Seen(edges[i].to))
               /\ strings[edges[i].relation + 1] = Whole[i].row.relation
        /\ \A n \in 1..Len(federation.statuses) : ~federation.statuses[n].available =>
               \E i \in 1..Len(sources) :
                   /\ sources[i].status = 1
                   /\ strings[sources[i].locator + 1] = federation.statuses[n].locator

\* "Keying on the identifier alone would let two sources' nodes collide": an
\* endpoint in another database ends at the node of the database it names, if
\* that database was read and holds it.
EndsWhereNamed ==
    stage = "done" =>
        \A i \in 1..Len(edges) :
            LET to == Whole[i].row.to
            IN  /\ ~to.local
                /\ \E g \in Graphs : Graph(g).locator = to.source /\ NodesOf(to, 1, g) # {}
                => Seen(edges[i].to).locator = to.source

\* Evidence is in the order of the nodes, so that a viewer may search it by
\* halves; it is listed for the nodes that have a place with a path and for no
\* other, and each row is the first such place of the very node it is listed for.
EvidenceSearchable ==
    /\ \A i \in 2..Len(evidence) : evidence[i - 1].node < evidence[i].node
    /\ stage = "done" =>
         /\ \A n \in 1..Len(nodes) :
                WithPath(NodeRows[n].row) # {}
                    <=> \E i \in 1..Len(evidence) : evidence[i].node = n - 1
         /\ \A i \in 1..Len(evidence) :
                LET place == PlaceOf(NodeRows[evidence[i].node + 1].row)
                IN  strings[evidence[i].path + 1] = place.path /\ evidence[i].line = place.line
=============================================================================
