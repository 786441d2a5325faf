--------------------------- MODULE MCViewExchange ---------------------------
(***************************************************************************)
(* Instances of ViewExchange for TLC: a root and up to two linked          *)
(* databases that share identifiers, edges inside and between them, links  *)
(* that could not be read, and three sizes of u32: one in which everything *)
(* fits, one the section table outgrows and one the string table outgrows. *)
(***************************************************************************)
EXTENDS ViewExchange

CONSTANT Nowhere

MCSize == [t \in {"", "a", "b", "A", "uses", "./", "near", "github://far", "n", "f", "main.rs"} |->
              CASE t = "" -> 0
                [] t \in {"a", "b", "A", "n", "f"} -> 1
                [] t = "github://far" -> 12
                [] OTHER -> 4]

PlaceAt(path) == [path |-> path, line |-> 1]
NodeOf(id, places) == [id |-> id, label |-> IF id = "a" THEN "A" ELSE "", places |-> places]
Local_(id) == [local |-> TRUE, id |-> id]
Far(id, source) == [local |-> FALSE, id |-> id, source |-> source]
EdgeOf(from, to) == [from |-> from, to |-> to, relation |-> "uses"]

MCNodes == {<<NodeOf("a", <<PlaceAt("main.rs")>>)>>,
            <<NodeOf("b", <<>>), NodeOf("a", <<PlaceAt(Nowhere), PlaceAt("main.rs")>>)>>}
MCEdges == {<<>>, <<EdgeOf(Local_("a"), Local_("b"))>>,
            <<EdgeOf(Local_("a"), Local_("a")), EdgeOf(Local_("a"), Far("a", "near"))>>,
            <<EdgeOf(Local_("b"), Far("a", "github://far")), EdgeOf(Far("b", "./"), Local_("a"))>>}
MCStatuses ==
    LET Near == {[locator |-> "near", alias |-> a, available |-> TRUE] : a \in {"n", Nowhere, ""}}
        Distant == {[locator |-> "github://far", alias |-> "f", available |-> v] : v \in BOOLEAN}
    IN  {<<>>} \cup {<<n>> : n \in Near} \cup {<<d, n>> : d \in Distant, n \in Near}

DatabaseOf(locator, nodes_, edges_) == [locator |-> locator, nodes |-> nodes_, edges |-> edges_]

\* The databases a federation holds are those whose link could be read.
Read(statuses) == {locator \in {"near", "github://far"} :
    \E i \in DOMAIN statuses : statuses[i].locator = locator /\ statuses[i].available}

MCFederations ==
    UNION {{[limit |-> limit, statuses |-> statuses, sources |->
               <<DatabaseOf("./", n1, e1)>>
               \o (IF "near" \in Read(statuses) THEN <<DatabaseOf("near", n2, e2)>> ELSE <<>>)
               \o (IF "github://far" \in Read(statuses)
                   THEN <<DatabaseOf("github://far", n1, e2)>> ELSE <<>>)] :
               n1 \in MCNodes, n2 \in MCNodes, e1 \in MCEdges, e2 \in MCEdges} :
           statuses \in MCStatuses, limit \in {1, 3, 250, 1000}}
=============================================================================
