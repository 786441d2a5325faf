---------------------------- MODULE PluginSource ----------------------------
(***************************************************************************)
(* What `plugin add` decides about a source without touching the disk: the *)
(* text of the source, the index of the repository, the entries of a       *)
(* snapshot, the manifest and the versions it admits.                      *)
(*                                                                         *)
(* A path is the sequence of its segments, those between its slashes: a    *)
(* leading, a trailing or a double slash is an empty segment. JSON values  *)
(* are records of what the code tells apart in them.                       *)
(***************************************************************************)
EXTENDS Naturals, Sequences, FiniteSets

CONSTANTS
    NONE,            \* a member or an argument that is not there
    NotText,         \* a JSON value that is not of the type looked for
    Refs,            \* refs a source may name
    Unportable,      \* segments with a backslash, a control character, a
                     \* reserved stem, or a space or a period at the end
    Drives,          \* segments that begin with a letter and a colon
    PluginNames,     \* two or more lower-case dotted segments
    INDEX_NAME, MANIFEST_NAME,
    MAX_PATH_BYTES, MAX_PATH_DEPTH, MAX_ENTRY_BYTES, MAX_ENTRIES,
    MAX_TOTAL_BYTES,
    Width,           \* the bytes of each segment
    ByteOrder        \* the place of each path in ascending byte order

Segments == DOMAIN Width
Paths == DOMAIN ByteOrder

From(path, n) == SubSeq(path, n, Len(path))

ASSUME SourceAssumption ==
    /\ NONE # NotText
    /\ NONE \notin Refs
    /\ INDEX_NAME # MANIFEST_NAME
    /\ {INDEX_NAME, MANIFEST_NAME} \cap (Unportable \cup Drives) = {}
    /\ {MAX_PATH_BYTES, MAX_PATH_DEPTH, MAX_ENTRY_BYTES, MAX_ENTRIES,
        MAX_TOTAL_BYTES} \subseteq Nat \ {0}

\* Two paths have different bytes, and what both begin with does not count.
ASSUME OrderAssumption ==
    /\ \A p \in Paths : /\ p \in Seq(Segments) /\ p # <<>>
                        /\ ByteOrder[p] \in Nat
                        /\ \A n \in 1..Len(p) : From(p, n) \in Paths
    /\ \A p, q \in Paths : ByteOrder[p] = ByteOrder[q] => p = q
    /\ \A p, q \in Paths : \A n \in 1..Len(p) :
           n <= Len(q) /\ (\A i \in 1..n-1 : p[i] = q[i]) =>
               (ByteOrder[p] < ByteOrder[q]
                    <=> ByteOrder[From(p, n)] < ByteOrder[From(q, n)])

INDEX_VERSION == 2
SUPPORTED_MANIFEST_VERSIONS == {1}

Escapes(path) == \E i \in DOMAIN path : path[i] = ".."
Empty(path) == path = <<"">>
Absolute(path) == path[1] = "" /\ ~Empty(path)
Inside(path) == ~Absolute(path) /\ ~Escapes(path)

\* Without the segments s at the end, but for the first of the path.
TrimEnd(path, s) ==
    LET n == CHOOSE n \in 1..Len(path) :
                 /\ n = 1 \/ path[n] # s
                 /\ \A i \in n+1..Len(path) : path[i] = s
    IN  SubSeq(path, 1, n)

-----------------------------------------------------------------------------
(* The source: https://github.com/OWNER/REPOSITORY?ref=REF#NAME.           *)

\* A source is [github, at, segments, query, fragment]; its query is the ref,
\* NONE when there is no `?`, and not in Refs when it is no ref or empty.
SourceParses(s) ==
    /\ s.github /\ ~s.at
    /\ LET parts == TrimEnd(s.segments, "")
       IN  Len(parts) = 2 /\ parts[1] # "" /\ parts[2] # ""
    /\ s.query \in Refs
    /\ s.fragment # NONE => Inside(s.fragment) /\ ~Empty(s.fragment)

-----------------------------------------------------------------------------
(* The index: [readable, version, plugins], a directory for each name.     *)

\* Every mapping is validated, not only the one that is asked for.
IndexReads(index) ==
    /\ index.readable
    /\ index.version = INDEX_VERSION
    /\ index.plugins # NONE /\ DOMAIN index.plugins # {}
    /\ \A name \in DOMAIN index.plugins :
           LET directory == index.plugins[name]
           IN  /\ ~Empty(name) /\ directory # NotText
               /\ Inside(directory) /\ ~Empty(directory)

\* The repository's root is the empty sequence.
Normalised(directory) ==
    LET trimmed == TrimEnd(TrimEnd(directory, ""), ".")
    IN  IF trimmed = <<".">> THEN <<>> ELSE trimmed

Chosen(index, wanted) ==
    IF wanted = NONE /\ Cardinality(DOMAIN index.plugins) = 1
    THEN CHOOSE name \in DOMAIN index.plugins : TRUE
    ELSE wanted

Resolves(index, wanted) ==
    IndexReads(index) /\ Chosen(index, wanted) \in DOMAIN index.plugins

\* The directory to install, of an index that resolves.
ResolveIndex(index, wanted) == Normalised(index.plugins[Chosen(index, wanted)])

-----------------------------------------------------------------------------
(* The entries of a snapshot: [path, bytes], each path once.               *)

CheckPath(path) ==
    /\ path[1] \notin Drives
    /\ \A i \in DOMAIN path : path[i] \notin {"", ".", ".."} \cup Unportable

Elements(seq) == {seq[i] : i \in DOMAIN seq}

\* The numbers of a finite set, ascending.
InOrder(S) ==
    CHOOSE f \in [1..Cardinality(S) -> S] :
        /\ Elements(f) = S
        /\ \A i, j \in 1..Cardinality(S) : i < j => f[i] < f[j]

\* What a sequence holds at these places, in its order.
Picked(seq, places) ==
    [i \in 1..Cardinality(places) |-> seq[InOrder(places)[i]]]

Within(path, directory) ==
    /\ Len(path) > Len(directory)
    /\ \A i \in DOMAIN directory : path[i] = directory[i]

Prefix(directory) == IF directory = <<>> THEN <<>> ELSE TrimEnd(directory, "")

\* An entry of the snapshot by its path within the plugin.
Narrowed(e, root) ==
    [path |-> From(e.path, Len(root) + 1), source |-> e.path, bytes |-> e.bytes]

\* The entries of a plugin, as the host lists them.
Planned(listing, directory) ==
    LET root == Prefix(directory)
        inside == Picked(listing, {i \in DOMAIN listing :
                                       Within(listing[i].path, root)})
    IN  [i \in DOMAIN inside |-> Narrowed(inside[i], root)]

\* Mutant: in the order of the host.
Ascending_AsListed(planned) == planned

\* The same entries, sorted.
Ascending(planned) ==
    CHOOSE sorted \in [DOMAIN planned -> Elements(planned)] :
        /\ Elements(sorted) = Elements(planned)
        /\ \A i, j \in DOMAIN planned :
               i < j => ByteOrder[sorted[i].path] < ByteOrder[sorted[j].path]

\* With the slashes between the segments.
PathBytes(path) ==
    LET upto[n \in 0..Len(path)] ==
            IF n = 0 THEN Len(path) - 1 ELSE upto[n - 1] + Width[path[n]]
    IN  upto[Len(path)]

BytesUpto(planned) ==
    LET upto[n \in 0..Len(planned)] ==
            IF n = 0 THEN 0 ELSE upto[n - 1] + planned[n].bytes
    IN  upto

TotalBytes(planned) == BytesUpto(planned)[Len(planned)]

IsPlugin(planned) ==
    /\ \A e \in Elements(planned) : CheckPath(e.path)
    /\ \E e \in Elements(planned) : e.path = <<MANIFEST_NAME>>

WithinLimits(planned) ==
    /\ \A e \in Elements(planned) : /\ PathBytes(e.path) <= MAX_PATH_BYTES
                                 /\ Len(e.path) <= MAX_PATH_DEPTH
                                 /\ e.bytes <= MAX_ENTRY_BYTES
    /\ Len(planned) <= MAX_ENTRIES
    /\ TotalBytes(planned) <= MAX_TOTAL_BYTES

\* What `plan` answers: each rule is over all entries before the next one.
PlanCode(planned) ==
    IF ~IsPlugin(planned) THEN "PLUGIN_SOURCE_INVALID"
    ELSE IF ~WithinLimits(planned) THEN "PLUGIN_LIMIT_EXCEEDED"
    ELSE "accepted"

-----------------------------------------------------------------------------
(* The manifest: [text, manifest_version, name, version, nostdb, command,  *)
(* protocol_version, actions, permissions].                                *)

\* A version is three numbers; the text of one may be anything else.
VersionParses(text) == Len(text) = 3 /\ \A i \in 1..3 : text[i] \in Nat

Below(v, w) ==
    \E i \in 1..3 : v[i] < w[i] /\ \A j \in 1..i-1 : v[j] = w[j]

\* A range is a sequence of tokens [operator, bound]. One that is not text
\* is read as the empty text, which states no comparator.
RangeParses(range) ==
    /\ range # NotText /\ range # <<>>
    /\ \A i \in DOMAIN range :
           range[i].operator # NONE /\ VersionParses(range[i].bound)

Admits(range, v) ==
    \A i \in DOMAIN range :
        LET bound == range[i].bound
        IN  CASE range[i].operator = ">=" -> ~Below(v, bound)
              [] range[i].operator = ">"  -> Below(bound, v)
              [] range[i].operator = "<=" -> ~Below(bound, v)
              [] range[i].operator = "<"  -> Below(v, bound)
              [] range[i].operator = "="  -> v = bound

Required(manifest) ==
    {manifest.name, manifest.version, manifest.nostdb, manifest.command,
     manifest.protocol_version, manifest.actions, manifest.permissions}

\* The command is an argument vector whose first word is inside the plugin.
CommandSound(command) ==
    /\ command \notin {NONE, NotText} /\ command # <<>>
    /\ command[1] # NotText /\ Inside(command[1])

\* `permissions` and `actions` that are of another type are not looked into.
ManifestSound(manifest) ==
    /\ NONE \notin Required(manifest)
    /\ manifest.name \in PluginNames \cup {NotText}
    /\ CommandSound(manifest.command)
    /\ manifest.permissions # NotText =>
           manifest.permissions \cap {"database_write", "escaping", "*"} = {}
    /\ manifest.actions # NotText =>
           manifest.actions \cap {"unnamed", "unbudgeted"} = {}

\* What validate_manifest, then the range and the version, answer.
ManifestCode(manifest, engine) ==
    CASE manifest.text = "not UTF-8" -> "PLUGIN_SOURCE_INVALID"
      [] manifest.text = "not JSON" -> "PLUGIN_MANIFEST_INVALID"
      [] OTHER ->
         IF manifest.manifest_version = NONE THEN "PLUGIN_MANIFEST_INVALID"
         ELSE IF manifest.manifest_version \notin SUPPORTED_MANIFEST_VERSIONS
         THEN "PLUGIN_MANIFEST_VERSION_UNSUPPORTED"
         ELSE IF ~ManifestSound(manifest) \/ ~RangeParses(manifest.nostdb)
         THEN "PLUGIN_MANIFEST_INVALID"
         ELSE IF ~Admits(manifest.nostdb, engine) THEN "PLUGIN_INCOMPATIBLE"
         ELSE "accepted"
=============================================================================
