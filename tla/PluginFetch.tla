----------------------------- MODULE PluginFetch ----------------------------
(***************************************************************************)
(* `nostdb plugin add`, from the text of the source to the record: where   *)
(* to install, the conversation with the provider, the refusals in their   *)
(* order, and the files that are read once nothing is left to refuse.      *)
(*                                                                         *)
(* The provider is external: any request may fail, what it answers is the  *)
(* snapshot. commit_install is one step here, on what it leaves under      *)
(* `.nostdb/plugins`; PluginStore has it system call by system call.       *)
(***************************************************************************)
EXTENDS PluginSource

CONSTANTS
    Cases,        \* what may be typed, where, what a host may serve, and what
                  \* is installed before: [source, place, snapshot, store]
    Engine,       \* the version of this build
    RECORD_NAME   \* `installed.json`

Scopes == {"project", "global"}

\* A host lists each path once.
Lists(listing) ==
    /\ listing \in Seq([path : Paths, bytes : Nat])
    /\ \A i, j \in DOMAIN listing : listing[i].path = listing[j].path => i = j

\* Text is a path; nothing is the name of no plugin.
Maps(plugins) ==
    plugins # NONE =>
        /\ NONE \notin DOMAIN plugins
        /\ \A name \in DOMAIN plugins : plugins[name] # NotText =>
               plugins[name] \in Seq(Segments) /\ plugins[name] # <<>>

\* A store is [holds, record, dirs]: what is at the record's path, the entries
\* of the record by name, and the plugins on disk.
Agrees(s) ==
    /\ s.holds \in {"nothing", "file", "directory"}
    /\ s.dirs = DOMAIN s.record
    /\ s.holds # "file" => DOMAIN s.record = {}

ASSUME FetchAssumption ==
    /\ VersionParses(Engine)
    /\ RECORD_NAME \in PluginNames \ {""}
    /\ \A c \in Cases : /\ Lists(c.snapshot.listing)
                        /\ Maps(c.snapshot.index.plugins)
                        /\ c.place.given \in Scopes \cup {NONE}
                        /\ DOMAIN c.store = Scopes
                        /\ \A s \in Scopes : Agrees(c.store[s])

VARIABLES
    source, place, snapshot,   \* the inputs, which do not change
    pc,         \* the next step
    asked,      \* what the provider has answered, in order
    directory,  \* the directory the index resolved to
    planned,    \* the entries of the plugin
    files,      \* the entries whose bytes have been read
    scope,
    outcome,    \* what the command reports
    store       \* what is installed in each scope

inputs == <<source, place, snapshot>>
work   == <<asked, directory, planned, files, scope>>
vars   == <<inputs, pc, work, outcome, store>>

Steps == {"parse", "place", "provider", "resolve", "enumerate", "index",
          "plan", "manifest", "rest", "commit", "done"}

Successes == {"installed", "replaced", "already installed"}
Unavailable == "unavailable"
Codes == {"PLUGIN_SOURCE_INVALID", "PLUGIN_LIMIT_EXCEEDED",
          "PLUGIN_INCOMPATIBLE", "PLUGIN_DIGEST_MISMATCH",
          "PLUGIN_RECORD_INVALID", "PLUGIN_MANIFEST_INVALID",
          "PLUGIN_MANIFEST_VERSION_UNSUPPORTED"}
Outcomes == Successes \cup Codes \cup {"undecided", Unavailable, "usage"}

Init ==
    /\ \E c \in Cases : /\ source = c.source /\ place = c.place
                       /\ snapshot = c.snapshot /\ store = c.store
    /\ pc = "parse"
    /\ asked = <<>>
    /\ directory = NONE
    /\ planned = <<>>
    /\ files = {}
    /\ scope = NONE
    /\ outcome = "undecided"

-----------------------------------------------------------------------------
At(step) == pc = step
Go(step) == pc' = step
Keep(rest) == UNCHANGED <<inputs, outcome, store, rest>>

\* Mutant: a refusal is reported and the command goes on.
End_GoesOn(report) ==
    /\ outcome' = report
    /\ UNCHANGED <<pc, inputs>>

End(report) ==
    /\ Go("done")
    /\ outcome' = report
    /\ UNCHANGED inputs

Refuse(code) == End(code) /\ UNCHANGED <<work, store>>

\* The provider has answered a request.
Asks(request) == asked' = Append(asked, request)

ParseSource ==
    /\ At("parse")
    /\ IF SourceParses(source)
       THEN Go("place") /\ Keep(work)
       ELSE Refuse("PLUGIN_SOURCE_INVALID")

\* A place is [given, configured, home, interactive, answer].
ChooseScope(p) ==
    IF p.given # NONE THEN p.given
    ELSE IF ~p.configured THEN "global"
    ELSE IF ~p.interactive THEN "project"
    ELSE IF p.answer = "g" THEN "global" ELSE "project"

HasRoot(p, s) == IF s = "project" THEN p.configured ELSE p.home

ChoosePlace ==
    /\ At("place")
    /\ LET s == ChooseScope(place)
       IN  IF HasRoot(place, s)
           THEN /\ scope' = s /\ Go("provider")
                /\ Keep(<<asked, directory, planned, files>>)
           ELSE Refuse("usage")

StartProvider ==
    /\ At("provider")
    /\ Go("resolve") /\ Asks(<<"handshake">>)
    /\ Keep(<<directory, planned, files, scope>>)

Resolve ==
    /\ At("resolve")
    /\ Go("enumerate") /\ Asks(<<"resolve">>)
    /\ Keep(<<directory, planned, files, scope>>)

Enumerate ==
    /\ At("enumerate")
    /\ Go("index") /\ Asks(<<"enumerate">>)
    /\ Keep(<<directory, planned, files, scope>>)

Listed == {snapshot.listing[i].path : i \in DOMAIN snapshot.listing}
Read(path) == <<"read", path>>

ReadIndex ==
    /\ At("index")
    /\ IF <<INDEX_NAME>> \notin Listed
       THEN Refuse("PLUGIN_SOURCE_INVALID")
       ELSE /\ Asks(Read(<<INDEX_NAME>>))
            /\ UNCHANGED <<planned, files, scope, store>>
            /\ IF Resolves(snapshot.index, source.fragment)
               THEN /\ directory' = ResolveIndex(snapshot.index, source.fragment)
                    /\ Go("plan") /\ UNCHANGED <<inputs, outcome>>
               ELSE End("PLUGIN_SOURCE_INVALID") /\ UNCHANGED directory

\* Mutant: the index is an entry like any other.
WithoutIndex_Kept(listing) == listing

\* The index decides what is installed and is not part of it.
WithoutIndex(listing) ==
    Picked(listing, {i \in DOMAIN listing : listing[i].path # <<INDEX_NAME>>})

Plan ==
    /\ At("plan")
    /\ LET found == Planned(WithoutIndex(snapshot.listing), directory)
       IN  IF PlanCode(found) = "accepted"
           THEN /\ planned' = Ascending(found) /\ Go("manifest")
                /\ Keep(<<asked, directory, files, scope>>)
           ELSE Refuse(PlanCode(found))

PathOf(e) == e.path
IsManifest(e) == e.path = <<MANIFEST_NAME>>
Entries == Elements(planned)
ManifestEntry == CHOOSE e \in Entries : IsManifest(e)

\* Mutant: the version is looked at only when all has arrived.
ReadManifest_Later ==
    /\ At("manifest")
    /\ Asks(Read(ManifestEntry.source))
    /\ files' = {ManifestEntry}
    /\ Go("rest") /\ Keep(<<directory, planned, scope>>)

\* The manifest alone, before the bytes of anything else.
ReadManifest ==
    /\ At("manifest")
    /\ Asks(Read(ManifestEntry.source))
    /\ files' = {ManifestEntry}
    /\ UNCHANGED <<directory, planned, scope, store>>
    /\ LET code == ManifestCode(snapshot.manifest, Engine)
       IN  IF code = "accepted"
           THEN Go("rest") /\ UNCHANGED <<inputs, outcome>>
           ELSE End(code)

\* The first entry, in ascending order, that has not been read.
ReadRest ==
    /\ At("rest")
    /\ \E i \in DOMAIN planned :
        /\ planned[i] \notin files
        /\ \A j \in 1..i-1 : planned[j] \in files
        /\ Asks(Read(planned[i].source))
        /\ files' = files \cup {planned[i]}
        /\ Go("rest") /\ Keep(<<directory, planned, scope>>)

\* A request is due, and the provider is not there, refuses or breaks off.
ProviderFails ==
    /\ \/ pc \in {"provider", "resolve", "enumerate", "manifest"}
       \/ At("index") /\ <<INDEX_NAME>> \in Listed
       \/ At("rest") /\ ~(Entries \subseteq files)
    /\ Refuse(Unavailable)

Fetched ==
    /\ At("rest")
    /\ Entries \subseteq files
    /\ Go("commit") /\ Keep(work)

-----------------------------------------------------------------------------
(* commit_install.                                                         *)

Name == IF snapshot.manifest.name = NotText THEN "" ELSE snapshot.manifest.name

Entry == [commit |-> snapshot.commit, tree |-> {PathOf(e) : e \in files},
          permissions |-> snapshot.manifest.permissions]

RecordReads(s) ==
    /\ s.holds # "directory"
    /\ \A n \in DOMAIN s.record : s.record[n].permissions # NotText

Upserted(record) ==
    [n \in DOMAIN record \cup {Name} |-> IF n = Name THEN Entry ELSE record[n]]

\* What joining the name to the plugins directory makes of the store: the
\* empty name is the directory itself, RECORD_NAME is the record.
Promoted(s) ==
    IF Name = "" THEN [holds |-> "nothing", record |-> <<>>, dirs |-> {}]
    ELSE IF Name = RECORD_NAME
    THEN [holds |-> IF s.holds = "nothing" THEN "directory" ELSE s.holds,
          record |-> s.record, dirs |-> s.dirs]
    ELSE [holds |-> "file", record |-> Upserted(s.record),
          dirs |-> s.dirs \cup {Name}]

\* Promoting, or writing the record over a directory, has failed.
PromoteFails == Name \in {"", RECORD_NAME}

HasEntrypoint == snapshot.manifest.command[1] \in {PathOf(e) : e \in files}

Commit ==
    /\ At("commit")
    /\ UNCHANGED work
    /\ LET s == store[scope]
           known == Name \in DOMAIN s.record
           same == known /\ s.record[Name].commit = snapshot.commit
       IN  IF ~RecordReads(s)
           THEN End("PLUGIN_RECORD_INVALID") /\ UNCHANGED store
           ELSE IF same
           THEN /\ End(IF s.record[Name] = Entry THEN "already installed"
                       ELSE "PLUGIN_DIGEST_MISMATCH")
                /\ UNCHANGED store
           ELSE IF ~HasEntrypoint
           THEN End("PLUGIN_SOURCE_INVALID") /\ UNCHANGED store
           ELSE /\ store' = [store EXCEPT ![scope] = Promoted(s)]
                /\ End(CASE PromoteFails -> "PLUGIN_RECORD_INVALID"
                         [] ~PromoteFails /\ known -> "replaced"
                         [] OTHER -> "installed")

Next ==
    \/ ParseSource \/ ChoosePlace \/ StartProvider \/ Resolve \/ Enumerate
    \/ ReadIndex \/ Plan \/ ReadManifest \/ ReadRest \/ Fetched \/ Commit
    \/ ProviderFails

Spec == Init /\ [][Next]_vars

-----------------------------------------------------------------------------
(* Properties.                                                             *)

TypeOK ==
    /\ \E c \in Cases : <<source, place, snapshot>> = <<c.source, c.place, c.snapshot>>
    /\ pc \in Steps
    /\ scope \in Scopes \cup {NONE}
    /\ outcome \in Outcomes
    /\ pc = "done" <=> outcome # "undecided"
    /\ \A i \in DOMAIN planned : planned[i].source \in Listed
    /\ files \subseteq Entries
    /\ \A s \in Scopes : Agrees(store[s])

\* The reads among what has been answered.
ReadAt == {i \in DOMAIN asked : asked[i][1] = "read"}
Paid == {asked[i][2] : i \in ReadAt}

\* "A tree that is not a plugin is refused before its bytes are paid for, and
\* a manifest that will not do is refused before the rest arrives": beyond
\* the index only entries of an acceptable tree are asked for, beyond the
\* manifest only those of a plugin this build admits, and nothing twice.
PaidOnlyWhenAccepted ==
    /\ \A i, j \in ReadAt : asked[i] = asked[j] => i = j
    /\ Cardinality(ReadAt) > 1 =>
           /\ Paid \ {<<INDEX_NAME>>} \subseteq {e.source : e \in Entries}
           /\ PlanCode(planned) = "accepted"
    /\ Cardinality(ReadAt) > 2 => ManifestCode(snapshot.manifest, Engine) = "accepted"

\* The order a host enumerates in is forgotten: of two entries read after the
\* manifest the earlier one has the smaller path.
ReadAscending ==
    \A i, j \in ReadAt :
        i < j /\ Cardinality(ReadAt \cap 1..i) > 2 =>
            ByteOrder[asked[i][2]] < ByteOrder[asked[j][2]]

\* "A failure leaves the previous record in place": after any add the record
\* of each scope can be read, and lists what it listed before.
RecordKept ==
    [][\A s \in Scopes : RecordReads(store[s]) =>
          /\ RecordReads(store'[s])
          /\ DOMAIN store[s].record \subseteq DOMAIN store'[s].record]_vars

\* What a source is answered is decided by the source and the snapshot alone.
Contract == INSTANCE PluginContract
AnsweredAsPublished == Contract!Spec
=============================================================================
