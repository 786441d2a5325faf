--------------------------- MODULE PluginContract ---------------------------
(***************************************************************************)
(* What `plugin add` promises of a source, as one decision: what must hold *)
(* of a repository for each answer. It knows no order of checks beyond the *)
(* precedence the codes have, no request to a provider and no enumeration: *)
(* a snapshot is a set of paths.                                           *)
(***************************************************************************)
EXTENDS PluginSource

CONSTANT Engine   \* the version of this build

VARIABLES source, place, snapshot, outcome, store

view == <<source, place, snapshot, outcome, store>>

Tree == {snapshot.listing[i] : i \in DOMAIN snapshot.listing}
Declared == {<<INDEX_NAME>>} \cap {e.path : e \in Tree} # {}
            /\ IndexReads(snapshot.index)

\* The names a source may stand for.
Meant == IF source.fragment = NONE THEN DOMAIN snapshot.index.plugins
         ELSE DOMAIN snapshot.index.plugins \cap {source.fragment}

Chooses == Cardinality(Meant) = 1
Root == Prefix(Normalised(snapshot.index.plugins[CHOOSE n \in Meant : TRUE]))

\* A path below the root that the repository holds and that is not its index.
Published ==
    {e \in Tree : /\ e.path # <<INDEX_NAME>>
                  /\ Len(e.path) > Len(Root)
                  /\ \A i \in DOMAIN Root : e.path[i] = Root[i]}

Inner(e) == From(e.path, Len(Root) + 1)

WellFormed ==
    /\ SourceParses(source) /\ Declared /\ Chooses
    /\ \A e \in Published : CheckPath(Inner(e))
    /\ <<MANIFEST_NAME>> \in {Inner(e) : e \in Published}

\* The bytes of an entry, and each byte of the plugin.
BytesOf(e) == {e} \X (1..e.bytes)
Bytes == UNION {BytesOf(e) : e \in Published}

Small ==
    /\ Cardinality(Published) <= MAX_ENTRIES
    /\ Cardinality(Bytes) <= MAX_TOTAL_BYTES
    /\ \A e \in Published : /\ e.bytes <= MAX_ENTRY_BYTES
                            /\ Len(Inner(e)) <= MAX_PATH_DEPTH
                            /\ PathBytes(Inner(e)) <= MAX_PATH_BYTES

Verdict == ManifestCode(snapshot.manifest, Engine)

Startable == snapshot.manifest.command[1] \in {Inner(e) : e \in Published}

Sound == WellFormed /\ Small /\ Verdict = "accepted"

\* What may be answered, and when: the precedence of the codes.
Permitted(answer) ==
    CASE answer \in {"installed", "replaced"} -> Sound /\ Startable
      [] answer \in {"already installed", "PLUGIN_DIGEST_MISMATCH",
                     "PLUGIN_RECORD_INVALID"} -> Sound
      [] answer = "PLUGIN_LIMIT_EXCEEDED" -> WellFormed /\ ~Small
      [] answer \in {"PLUGIN_INCOMPATIBLE", "PLUGIN_MANIFEST_INVALID",
                     "PLUGIN_MANIFEST_VERSION_UNSUPPORTED"} ->
           WellFormed /\ Small /\ Verdict = answer
      [] answer = "PLUGIN_SOURCE_INVALID" ->
           WellFormed => /\ Small
                         /\ Verdict \in {answer, "accepted"}
                         /\ Sound => ~Startable
      [] answer \in {"usage", "unavailable"} -> SourceParses(source)

\* Where an add installs when nobody is asked: the narrower scope there is.
ScopeMeant ==
    IF place.given # NONE THEN {place.given}
    ELSE IF ~place.configured THEN {"global"}
    ELSE IF place.interactive /\ place.answer = "g" THEN {"global"}
    ELSE {"project"}

\* An entry for the whole of the published tree, in the scope meant, and
\* nothing else changed.
Added ==
    \E s \in ScopeMeant :
        LET name == snapshot.manifest.name
            others == DOMAIN store[s].record \ {name}
        IN  /\ \A t \in DOMAIN store \ {s} : store'[t] = store[t]
            /\ DOMAIN store'[s].record = others \cup {name}
            /\ \A n \in others : store'[s].record[n] = store[s].record[n]
            /\ store'[s].record[name].commit = snapshot.commit
            /\ store'[s].record[name].tree = {Inner(e) : e \in Published}
            /\ store'[s].dirs = store[s].dirs \cup {name}

Init == outcome = "undecided"

Decide ==
    /\ outcome = "undecided"
    /\ outcome' # "undecided" /\ Permitted(outcome')
    /\ CASE outcome' \in {"installed", "replaced"} -> Added
         [] outcome' = "PLUGIN_RECORD_INVALID" -> TRUE
         [] OTHER -> UNCHANGED store
    /\ UNCHANGED <<source, place, snapshot>>

Spec == Init /\ [][Decide]_view
=============================================================================
