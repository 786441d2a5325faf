----------------------------- MODULE PluginTree -----------------------------
(***************************************************************************)
(* The data of the plugin manager: trees of files, the digests taken of    *)
(* them, the entries of an installation record and what a manifest says.   *)
(*                                                                         *)
(* A file's content is an element of Bytes. SHA-256 is taken as free of    *)
(* collisions, so the digest of a value stands for the value itself; the   *)
(* two digests of an entry stay distinct, because the code compares both.  *)
(* Permissions, versions and the repository's name are functions of the    *)
(* manifest and of the source and are left out of an entry.                *)
(***************************************************************************)

CONSTANTS
    Names,      \* plugin names
    Commits,    \* commits a provider can resolve a source to
    Files,      \* plugin-relative paths
    Manifest,   \* the path `nostdb-plugin.json`
    Bytes,      \* contents of files
    NoFile,     \* the content of a path that is not there
    NoEntry,    \* what a record holds for a name it does not list
    NoRun,      \* no plugin has been started
    Engines,    \* versions of the CLI that read one store
    Actions,    \* names of actions
    Unnamed,    \* the action of `plugin run NAME` without an action
    Meaning,    \* what a manifest of given bytes declares
    Offers      \* the plugins a provider can hand to `plugin add`

Tree == [Files -> Bytes \cup {NoFile}]

\* A directory that is not there and one that is empty are the same to every
\* operation of the manager: neither can be verified, either can be renamed onto.
Absent == [f \in Files |-> NoFile]

Held(t) == {f \in Files : t[f] # NoFile}

ManifestDigest(t) == t[Manifest]

TreeDigest(t) == t

Entry == [commit : Commits, manifest_digest : Bytes, tree_digest : Tree]

Record == [Names -> Entry \cup {NoEntry}]

EmptyRecord == [n \in Names |-> NoEntry]

\* What `fetch` returns: a plugin's tree at a commit.
Fetched == [name : Names, commit : Commits, tree : Tree]

EntryOf(o) == [commit          |-> o.commit,
               manifest_digest |-> ManifestDigest(o.tree),
               tree_digest     |-> TreeDigest(o.tree)]

\* Mutant: only the manifest is compared.
Matches_ManifestOnly(t, e) == ManifestDigest(t) = e.manifest_digest

\* Both recorded digests hold of a tree.
Matches(t, e) ==
    /\ ManifestDigest(t) = e.manifest_digest
    /\ TreeDigest(t) = e.tree_digest

ASSUME TreeAssumption ==
    /\ Manifest \in Files
    /\ NoFile \notin Bytes
    /\ NoEntry \notin Entry
    /\ Unnamed \notin Actions
    /\ Offers \subseteq Fetched
    /\ \A o \in Offers : EntryOf(o) \in Entry   \* it has a manifest
    /\ Meaning \in [Bytes -> [engines    : SUBSET Engines,
                              actions    : SUBSET Actions,
                              entrypoint : Files]]

=============================================================================
