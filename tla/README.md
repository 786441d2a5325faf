# A TLA+ model of nostdb-cli

`nostdb-cli` is the command line of NOSTDB: one process per invocation, mostly
sequential Rust over two libraries that are not in this repository,
`nostdb-core` (the Engine: storage, transactions, Cypher, `.nost`) and
`nostdb-server` (the daemon, its catalog and its framing). What makes the program
hard is therefore not threads. It is several invocations that share files without
a lock, an invocation killed between two system calls, a child process (a plugin
or a link provider) that answers wrongly or never, a daemon that may or may not be
there, and text typed by a person. The models are about those.

Paths below are relative to `src/src/`.

## 1. Inventory

| Component | Code | State it keeps | Operations | Hard because |
|---|---|---|---|---|
| Plugin store | `plugin_install.rs` 1170-1373, 1600-1747; `plugin_run.rs` 95-405, 700-1010 | below `.nostdb/plugins`: `installed.json`, its staged sibling, one directory and one staging directory per plugin | `plugin add`, `plugin remove`, `plugin run` up to the start of the plugin | no lock: commands interleave; a kill between two renames; failing calls whose errors are dropped |
| Plugin fetch | `plugin_install.rs` 335-624, 975-1170; `plugin.rs` | none (a `Fetched` value) | `resolve_index`, `plan`, `check_path`, manifest validation, limits | order of the refusals, limits at their boundaries, a provider that answers anything |
| Plugin conversation | `plugin_run.rs` 407-691, 850-965, 1280-1381 | a child process, a directory handed over | handshake, its checks, invoke, its checks, clean-up | a child that dies, answers the wrong thing, or stays silent |
| Viewer choice, view exchange | `view.rs` | a temporary artefact, two tables | choose a viewer, assemble the exchange | several candidates; ids that resolve in another table |
| Query and REPL | `query.rs` | a statement buffer, an open transaction | immediate mode, `:begin` .. `:commit`, `named` | typed input; conflicts; when a session ends and what is then kept |
| Client and daemon control | `client.rs`, `server.rs` | an external socket and lock | connect, `start`, `status`, `stop`, `run` | several starters at once, stale sockets, a daemon that exits early |
| Named databases | `catalog.rs` | an external catalog file | add, remove, list | read, change, write back with no lock |
| Convert, export, check | `command.rs` | target file and its staged sibling | `convert`, `export`, `check` | the target appears between the check and the rename |
| Links | `link.rs` | link entries of the database | add, remove, `refresh` | one provider process for many links, partial success |
| init, help, version | `command.rs` 458-590 | none of their own | one Engine call; texts | nothing: the project is made by the Engine |
| sync, apply, plan, build | `sync.rs`, `apply.rs`, `plan.rs`, `build.rs` | none of their own | one Engine call each | nothing: the change is the Engine's |
| Command line, exit classes, output | `lib.rs`, `main.rs`, `exit.rs`, `output.rs` | none | parse, classify, format | nothing: total functions |

How they interact: `lib.rs::execute` parses and calls one component. `plugin add`
asks a link provider (a child process) for the source, decides, and hands a
`Fetched` value to the store. `plugin run` and `view` read the store (`preflight`),
start the plugin, hold the conversation, and `view` consumes the artefact the plugin
wrote. `query` uses the Engine directly, or, with `--database @name`, the client,
which may start the daemon. The commands never talk to one another except
through files.

### What makes each component correct

* **Plugin store.** The digests recorded for a commit are the only evidence that a
  host changed what it serves, so they are never overwritten; the record is always
  readable; a record entry names a whole directory; an interrupted command leaves
  the previous plugin or the new one; a plugin is started only from the bytes
  that were approved, for a declared action, by a build the manifest admits.
* **Fetch.** No refused source is installed, in particular none above a limit or with
  a path outside its directory, whatever order the provider answers in.
* **Conversation.** Success only after a complete answer to the very action asked
  for, with outputs inside the approved globs; the graph goes only to a plugin
  approved for it; what was handed over is gone afterwards; the command ends.
* **Viewer and exchange.** Every index of the exchange is in the table it refers to; an
  edge to a linked database points at its own endpoint.
* **REPL.** Only confirmed work is committed, all of a transaction or none; what is
  executed is what was typed up to its terminator.
* **Client.** One daemon at most; whoever asked for it ends up connected or told why.
* **Catalog, convert, links.** No lost entry, no overwritten target, no half refresh
  reported as whole.

## 2. The modules

| Module | Role |
|---|---|
| `PluginTree` | the data: trees of files, manifests, digests, record entries |
| `PluginStore` | the store and the processes that share it, one system call per step |
| `ApprovedPlugins` | the atomic specification: `Approve`, `Forget`, `Start`, `Stop` |
| `PluginStoreInv` | the inductive invariants, in named parts |
| `MCPluginStore` | small instances for TLC |
| `PluginStoreProofs` | type correctness; what holds while one process writes, and while one command is under way; the refinement |
| `PluginConversation` | `plugin run` and `view`: choice, handing over, the two exchanges, clean-up |
| `MCPluginConversation` | its instances |
| `PluginConversationProofs` | its invariant and three safety properties |
| `PluginSource` | what `plugin add` decides of a source, its index, its tree and its manifest, as operators |
| `PluginFetch` | `plugin add` from the text of the source to the record, one request per step |
| `PluginContract` | what `plugin add` promises of a source, as one decision; `PluginFetch` implements it |
| `MCPluginFetch` | its instances |
| `PluginFetchProofs` | its invariant, three safety properties, the refinement, what alone spoils a record, and the order of a host |
| `ViewExchange` | the tables and sections of the viewer exchange, one row per step |
| `MCViewExchange` | its instances |
| `ViewExchangeProofs` | its invariant and what the reader of a container may rely on |
| `Repl` | `query` without a daemon: reading statements, transactions, the end of a session |
| `MCRepl` | its instances |
| `ReplProofs` | what a session has told against what is committed, and where a statement ends |
| `Daemon` | `server start/status/stop/run`, `query --database`, `catalog add/remove` from several terminals; its inductive invariant |
| `MCDaemon` | its instances |
| `DaemonProofs` | the invariant and five safety properties |
| `Convert` | `convert`, `check` and `export` from several terminals, file by file; its inductive invariant |
| `MCConvert` | its instances |
| `ConvertProofs` | the invariant and four safety properties |
| `Inductions` | induction and recursion over numbers, as lemmas about sets and functions; used by `ReplProofs`, `ViewExchangeProofs` and `PluginFetchProofs` |

`PluginFetch` takes `commit_install` as one step, which `PluginStore` has system call by
system call. `PluginStore` and `PluginConversation` meet at the start of the child. The first ends
there with what the child can execute; the second takes the outcome of the pre-flight
as given (a set of plugins, verified or not) and follows the command to its end.

### How `PluginStore` corresponds to the code

State. `record` and `staged` are `installed.json` and `installed.json.staging`:
their content and the processes that hold them open for writing. The second part
matters because a process that has opened the staged file writes to that file
even after another one has renamed it into place. `dir` and `staging` are the
directory of a plugin and its `.NAME.staging` sibling. Each process has a `pc`, the
command it carries out (`job`), the record it read (`snapshot`: it is read once
and written back whole), the files it still has to write or digest (`todo`), and the
tree it has read (`seen`).

Actions. `Add*` is `commit_install` from the point where `fetch` has returned;
`Rec*` is `write_record`; `Remove*` is `remove`; `Run*` is `run`, `preflight`,
`collect` and `sole_action` up to the start of the child. `remove_dir_all` deletes
one file per step, in any order, so a kill can leave any part of a directory.
Steps whose error the code drops (`let _ =`) go on when the call fails, those
with `?` or `map_err` end the command.

Abstractions.
* The SHA-256 digest of a file or tree is the file or tree itself: no collision.
* A file of a plugin is written whole by one step; only the record, which every
  reader parses, is seen truncated.
* File modes are left out, so is the text of messages.
* The manifest of a tree is a constant `Meaning`: engines, actions, entrypoint.
* A second writer of the staged record may leave a text longer than the last one
  written; `Filled` allows that the tail remains (the content is then `Torn`).
* `fetch` has accepted the tree (an offer), with a manifest that admits this build.
* `seen` at `started` is what the directory holds at that moment: what the child can
  execute.

### How `PluginConversation` corresponds to the code

One command is under way at a time, `run` or `view`; another begins when it has ended,
over whatever is installed by then and with the temporary directory the last one
left. `pc` is the statement it has reached, `ready` the plugin the pre-flight has
verified, `temp` the directory of the artifact; `child` and `pipe` are the process and
the lines it has written and nobody has read; `asked` and `heard` are the request it
was sent and the line read in answer to each question. `check_handshake` and
`check_invoke` are the operators `HandshakeCode` and `InvokeCode`, in the order of the
code, since what is reported is the first check that fails. A reply is a record of what
the checks tell apart, not a text. Each of the steps that `view` takes between making
the directory and the answer fails in its own way in the code, and has its own action.

The child (`Speak`, `Exit`) is external and does anything: it writes any line at any
time, asked or not, and exits at any time. `Kill` ends the command at any point.

Left out: the bytes of a line and the transport's framing (external), standard error,
and the exchange itself, which `ViewExchange` models.

### How `PluginSource` and `PluginFetch` correspond to the code

A path is the sequence of its segments, so a leading, double or trailing slash is an empty
segment, and what `normalise_path`, `trim_end_matches`, `check_path` and the tests of the
manifest's command do to a text is done to segments. A JSON value is a record of what the
code tells apart: a member may be absent (`NONE`) or of the wrong type (`NotText`), which
`validate_manifest` treats differently. The checks of a tree and of a manifest are one
operator each, in the order of the code, because the order decides which code is
reported. A version that is not three numbers parses to nothing.

`asked` is the list of requests the provider has answered, in order; any request may fail
instead (`ProviderFails`). `files` are the entries whose bytes have arrived. `Promoted`
is what joining the plugin's name to the plugins directory does to the disk, the odd
names included. The store of a scope is what is found where its record should be (`holds`), the entries
of the record (`record`) and the names that have a directory (`dirs`).

The order of paths is that of their bytes, which the model takes as a constant. It is assumed
(`OrderAssumption`) to tell paths apart and not to depend on the directories two paths
begin with, which is true of the bytes of a text and is what lets a tree be sorted by
the path in the source or by the path in the plugin alike.

`PluginContract` states the same command from outside. It has no requests, no order but
the precedence of the codes, and sees a snapshot as a set of paths. Its one action,
`Decide`, says which answer is permitted and what may then have changed. It counts the
total as the bytes of all the entries, not as a sum taken in some order.

### How `ViewExchange` corresponds to the code

`stage` is the loop of `write_exchange` that is under way and `at` the rows it has written.
A row is written by the step that handles it: texts are interned, positions looked up, and
numbers clipped (`string_index`) or refused (`u32::try_from`, `checked_add`) at the
largest `u32`, which is a parameter of the instance. `first` is what iterating a hash map
yields: any choice, one per run of the program. The layout is computed whole, since
nothing can interrupt it. The bytes of a section are left out, their lengths are not.
`ExchangeAssumption` says what the Engine hands over: a root, and in each database
identifiers that occur once. Between two databases they may well be the same.

### How `Daemon` corresponds to the code

A terminal carries out one command at a time; `pc` is the statement of it that comes next.
Each call of `nostdb_server` is a step: `is_running` reads `lock`, `start()` takes it,
`connect` needs a daemon that serves. A daemon has the number of the command that spawned
it. It is `born` when its process exists, `serving` from `start()` until it acknowledges
a shutdown, `leaving` from then until its lock is released; this last interval is what
`start_daemon` mistakes for a running daemon. `Look`, `LookAtChild` and `Deadline` are
the polling loop in the code's order, the clock being a bound on the polls: the deadline
may pass after any of them. `Breaks` is every way in which a request ends without a
usable answer, the daemon having executed it or not.

The catalog is loaded, changed in memory and stored whole by the command itself. `meant`
and `torn` are history: the catalog if the changes reported had been made in turn, and
whether a command has stored over a change it had not seen.

### How `Convert` corresponds to the code

A name stands for a file and a file holds something (`name`, `holds`), since a process
that has the sibling open goes on writing it after another has renamed it. The sibling of
an output has one name, whoever makes it. A database is created and refused over an
existing file, after a removal whose failure is not looked at (`Clear`); a document is
truncated (`StageOver`). `shared` is history: the outputs that two commands have had under
way together. What a document reads as is external: a half-written one may be refused
or read as any graph. `export` is one call of the external project.

### How `Repl` corresponds to the code

A text is a sequence of the characters that `terminator`, `trim` and the test for a colon
command tell apart; every other character is one of a few letters. `Chars` are the
characters that may be typed or given. `ReadLine` is a
turn of the loop of `read_statement`, with the very buffer the code keeps, its ends
of lines included. The two nested loops are one `read` and one `dispatch` step: `tx`
is the transaction that `transaction_session` owns, and which loop the program is in
is whether there is one. `told` is what has been printed of each statement.

The Engine is external. A database is the blocks of writes committed to it; a
transaction begins at a generation not older than the last one this handle has
seen; a commit of writes succeeds just when no other has been made since; a commit or
a statement that reports an error has changed nothing.

## 3. What the runs show

### The store

All runs are of `MCPluginStore`: a plugin `viewer` offered with two trees at one commit
(a host that changed history), with the second of them at another commit too; and a
plugin `exporter` with and without the entrypoint its manifest declares. The two trees of
`viewer` have a file each that the other lacks, the least with which a file left over, a
missing file and a changed file are different things.

| Run | Bounds | Shows |
|---|---|---|
| `store_alone` | 2 plugins, 1 process, 1 kill or 1 edit by hand between commands (`MaxMishaps`), every call may fail but the removal of a staging directory, 2 builds | `TypeOK`, the inductive `AloneInv` and `WholeInv`, `RunsOnlyApproved`, `RecordReadable`, `NoMixedTree`, `EvidenceKept`, `OnlyRemoveForgets`, `InstalledIsWhole`, `RemovedOnlyUnrecorded`, and that the store implements `ApprovedPlugins` |
| `store_interrupted` | 1 process, no failing call, 1 kill | `RecordedIsInstalled` is false |

One kill is enough to reach every intermediate state, since what a killed command
leaves on the disk does not depend on its process; the next commands then run
against it. The number of commands is not bounded: the disk is finite. A history with both
a kill and an edit is left to the theorems, which bound neither; failing calls, of which
there may be any number, meet the edit in the run, and leave most of what a kill leaves.

The violation is a disagreement between a comment and the code: an install killed between
`remove_dir_all(directory)` and the rename leaves neither plugin, where the comment
promises the previous one (a second `add` at the recorded commit answers "already
installed" and repairs nothing).

With two writers `RecordReadable`, `EvidenceKept`, `OnlyRemoveForgets` and
`InstalledIsWhole` are false: two installs share one staged record, one promotes what the
other has truncated, and a removal deletes the directory of an installation recorded in
the meantime. With a second command beside a run, the plugin that starts need not be the
one that was compared. Nothing in the code keeps two commands apart. That is why the passing
run and the theorems state the discipline under which they hold: they say nothing of two
commands at once.

No liveness is claimed of the store: its commands are finite sequences of
system calls and wait for nobody.

### The conversation

Two names in two scopes, either unreadable, empty or holding verified and spoilt plugins,
with and without access to the graph; one reply for each check that can refuse it, and
the acceptable ones, of which the plugin may write one before it is asked.

| Run | Bounds | Shows |
|---|---|---|
| `plugin_talk` | `ResponsiveSpec`, every call may fail, 1 kill, 1 line ahead | `ConversationInv`, `SuccessIsEarned`, `GraphOnlyToIdentified`, `GraphTakenBack`, `CommandEnds` |

One line ahead is enough: a reader that takes a line per question can only be led to
take an early line for a later answer, which one line does.

`GraphTakenBack` names two ends after which something of the artifact is left: a removal
the system refuses, whose error the code drops, and a `run` whose own write of the artifact
fails, possibly half way. The second is a defect: the code returns (`plugin_run.rs` 1370)
before a `Handover` owns the directory, where its doc (1290) promises that the artifact is
removed whether or not the invocation fails. `view` removes it in the same case.

Fairness. `ResponsiveSpec` is weak fairness of the command, which goes on while it can, as
the operating system lets it, and of the plugin, which answers or exits sooner or later.
The second is an assumption about the environment that nothing in this code enforces:
`HANDSHAKE_TIMEOUT` is declared and never used, and without the assumption `converse` waits
for ever. (The transport is external; if it had a limit of its own, nothing here
would set it.)

`view` tries the first plugin that may read the graph and gives up when it is refused, where
the comment says whichever viewer is installed: `Choose` and `ChooseRefuse` do the same,
and no run is spent on it.

### Adding a plugin

One sound case, and what may differ from it varied kind by kind: sources, places and
stores, listings at each limit and one beyond it, in two orders of the host, indexes,
manifests with each member absent, of the wrong type or out of range.

| Run | Bounds | Shows |
|---|---|---|
| `plugin_fetch` | 3 entries of 2 bytes, 3 bytes in all, paths of 4 bytes and 2 segments; any request may fail | `TypeOK`, `PaidOnlyWhenAccepted`, `ReadAscending`, and that `PluginFetch` implements `PluginContract` (`AnsweredAsPublished`) |
| `plugin_unrecordable` | manifests whose name is no text or is `installed.json`, or whose permissions are no object | `RecordKept` is false |

The limits are parameters, small ones. Each is reached and passed by some listing, alone
and together with a fault of another kind, so a code reported out of its precedence shows.
The cases are inputs, so the runs are short and many; nothing in a case depends on
a second one.

The violation: a `name` that is a number passes `validate_manifest`, which looks into it
only when it is text, and is read as the empty text; the directory promoted to is then the
plugins directory itself, which is removed first, with the record and every plugin.

### The viewer exchange

| Run | Bounds | Shows |
|---|---|---|
| `view_exchange` | a root and up to 2 linked databases that share identifiers, 2 nodes and 2 edges each, a link unread, `u32` of 1, 3, 250 and 1000 | `TypeOK`, `IndicesInside`, `ReadsBack`, `EvidenceSearchable` |
| `view_collides` | the same | `EndsWhereNamed` is false |

At 1000 everything fits, at 250 the larger string tables do not, at 3 and 1 the rows do
not. Two databases with one identifier are the least in which a position keyed by
the identifier alone goes wrong. The violation: an endpoint in another database is
looked for by its identifier alone, in the order of a hash map, though the reference names
the database.

### Queries and sessions

| Run | Bounds | Shows |
|---|---|---|
| `repl_session` | 4 lines, literals in either kind of quotes, every call may fail, 2 commits of other processes | `TypeOK`, `CommittedAsTold`, `UnmixedEndsAtTerminator` |
| `repl_quotes` | 2 lines, nothing fails | `EndsAtTerminator` is false |

`CommittedAsTold` compares the database with what a reader of the session's output
concludes from it. Four lines hold a transaction of two statements and its commit, or
one rolled back and another begun, or a literal over three lines; two foreign commits
fall before and within it.

The violation: after `RETURN "it's";` the session waits for the end of a literal that has
ended, since either kind of quote toggles `in_string`, where the docs of `read_statement`
and `terminator` speak of the first `;` outside a string literal. Both runs type such
lines. `UnmixedEndsAtTerminator` is the same property for as long as no literal of what has
been read holds a quote of the other kind: it is about literals over several lines, a `;`
or an escaped quote in them, and what an unfinished statement waits for.

The lines leave out a blank one, which makes the `:commit` after it part of the next
statement. A stray `;` ends the session, and rolls back its
transaction, with a warning about an unterminated statement; of two statements on a line
the second is dropped without a word.

A session waits for a person, so no liveness is claimed of it.

### The daemon and the catalog

| Run | Bounds | Shows |
|---|---|---|
| `daemon` | 2 terminals, 3 commands, every call may fail, 1 kill, 2 polls before the deadline, a socket file left behind or not | the inductive `DaemonInv`, `FailedStartLeavesNothing`, `ToldAsDone`, `StoppedStays`, `CatalogAsTold`, `CommandsEnd` |
| `daemon_restart` | starts and stops, nothing fails | `StartedStays` is false |

Three commands are two that race and one before or after them: two starts after a stop,
a stop between a start and a query, two changes of the catalog over a third. Two polls are
a deadline that passes before, between or after the child is seen. The properties say
what may be concluded from a report, and `standing` is withdrawn as soon as another
command that begins or ends a daemon overlaps.

`FailedStartLeavesNothing` speaks of the failures the doc of `start_daemon` lists. There is
one more: a start that sees a daemon running and cannot name its endpoint (265, 302) reports
an I/O failure, in the loop with its own child left running, which may be the very daemon
it saw. The model has it as the class `"unnamed"`, and such a child may go on to serve.

Fairness. Weak fairness of each terminal's command and of each daemon process: one that
was spawned gets to `start()` or exits, one that has acknowledged a shutdown exits. A
daemon is assumed to answer or to break the connection, which no timeout in this code
enforces; `server run` stays in the foreground and is the one command that need not end.

The violation: a start between an acknowledged stop and the exit of the daemon finds the
lock held, reports that it is listening, and nothing runs.

### Converting

| Run | Bounds | Shows |
|---|---|---|
| `convert` | 1 document, 1 database, 2 graphs, 2 terminals, 3 commands, 1 kill, every call may fail | the inductive `ConvertInv`, `OutputWhole`, `LeftoverHarmless`, `AnsweredAsDone`, `KeptUnlessAsked` |

Three commands let one be killed and leave its sibling, and two more then meet it, alone or
together. `AnsweredAsDone`, `OutputWhole` and the others speak of outputs that no two
commands have written at once; with two, the shared sibling is mixed or taken
away, and all of them are false. No liveness is claimed: each command is a finite
sequence of system calls.

## 4. What is proved

For every value of the constants that their named assumptions admit (every number of
processes, names, paths, commits, files, offers, commands, polls, kills and edits). "Under"
is what a theorem assumes besides:

| Theorem | Under | States |
|---|---|---|
| `PluginStoreProofs!TypeCorrect` | nothing | `Spec => []TypeOK` |
| `PluginStoreProofs!RecordIsReadable` | `OneWriter` | `Spec => []RecordReadable` |
| `PluginStoreProofs!EvidenceIsKept` | `OneWriter` | `Spec => EvidenceKept` |
| `PluginStoreProofs!OnlyRemovalForgets` | `OneWriter` | `Spec => OnlyRemoveForgets` |
| `PluginStoreProofs!RemovesOnlyUnrecorded` | `OneWriter` | `Spec => RemovedOnlyUnrecorded` |
| `PluginStoreProofs!WholeHolds` | `OneWriter`, `Cleared` | `Spec => []WholeInv` |
| `PluginStoreProofs!InstalledWhole` | `OneWriter`, `Cleared` | `Spec => InstalledIsWhole` |
| `PluginStoreProofs!NeverMixed` | `OneWriter`, `Cleared` | `Spec => []NoMixedTree` |
| `PluginStoreProofs!AloneHolds` | `Exclusive` | `Spec => []AloneInv` |
| `PluginStoreProofs!RunsApproved` | `Exclusive` | `Spec => []RunsOnlyApproved` |
| `PluginStoreProofs!StoreImplementsApproved` | `Exclusive` | `Spec => ImplementsApproved` |
| `PluginConversationProofs!ConversationFits` | nothing | `Spec => []ConversationInv` |
| `PluginConversationProofs!SuccessEarned` | nothing | `Spec => []SuccessIsEarned` |
| `PluginConversationProofs!GraphToIdentified` | nothing | `Spec => []GraphOnlyToIdentified` |
| `PluginConversationProofs!GraphIsTakenBack` | nothing | `Spec => GraphTakenBack` |
| `PluginFetchProofs!FetchTyped` | nothing | `Spec => []TypeOK` |
| `PluginFetchProofs!PaidAfterAcceptance` | nothing | `Spec => []PaidOnlyWhenAccepted` |
| `PluginFetchProofs!ReadsAscend` | nothing | `Spec => []ReadAscending` |
| `PluginFetchProofs!FetchImplementsContract` | nothing | `Spec => AnsweredAsPublished` |
| `ViewExchangeProofs!ExchangeTyped` | nothing | `Spec => []TypeOK` |
| `ViewExchangeProofs!ReaderStaysInside` | nothing | `Spec => []IndicesInside` |
| `ViewExchangeProofs!ContainerReadsBack` | nothing | `Spec => []ReadsBack` |
| `ViewExchangeProofs!EvidenceIsFound` | nothing | `Spec => []EvidenceSearchable` |
| `ReplProofs!ReplTyped` | nothing | `Spec => []TypeOK` |
| `ReplProofs!ToldIsCommitted` | nothing | `Spec => []CommittedAsTold` |
| `ReplProofs!EndsProperly` | nothing | `Spec => []UnmixedEndsAtTerminator` |
| `DaemonProofs!DaemonFits` | nothing | `Spec => []DaemonInv` |
| `DaemonProofs!FailedLeavesNothing` | nothing | `Spec => []FailedStartLeavesNothing` |
| `DaemonProofs!ToldIsDone` | nothing | `Spec => []ToldAsDone` |
| `DaemonProofs!StopStays` | nothing | `Spec => []StoppedStays` |
| `DaemonProofs!CatalogIsAsTold` | nothing | `Spec => []CatalogAsTold` |
| `DaemonProofs!StartStays` | `[]Settled` | `Spec => []StartedStays` |
| `ConvertProofs!ConvertFits` | nothing | `Spec => []ConvertInv` |
| `ConvertProofs!OutputIsWhole` | nothing | `Spec => []OutputWhole` |
| `ConvertProofs!LeftoversAreHarmless` | nothing | `Spec => []LeftoverHarmless` |
| `ConvertProofs!AnsweredIsDone` | nothing | `Spec => AnsweredAsDone` |
| `ConvertProofs!KeptWhatWasThere` | nothing | `Spec => KeptUnlessAsked` |

Two more have no run. `PluginFetchProofs!OrderOfHostForgotten`, about the operators alone: two
listings of the same entries, in whatever orders two hosts give them, get the same code, and
if accepted are installed as the same sequence of files. `PluginFetchProofs!OnlyManifestsSpoil`:
`RecordKept`, which a run shows to be false, fails in one kind of step only, the promotion of
a manifest whose name is not that of a directory of its own or whose permissions are no
object, and only in the scope it is promoted to; every other step keeps it, whatever the
source, the snapshot and the failures.

What the theorems assume besides:
* `OneWriter`: at most one process adds or removes, beside any number that run plugins.
  `Exclusive`: a command begins only when none is under way.
* `Cleared`, which the module spells `"clear" \notin Faults`: the removal of a staging
  directory does not fail. The code ignores that failure, and what the directory held is
  then installed with the new plugin.
* `[]Settled`: no start is under way while a daemon that acknowledged a shutdown has yet to
  exit. This one is about a behaviour, not a constant; it keeps every kill, failure and
  stop, and every start that comes after the exit.

`StartedStays` is one of the five properties that a run shows to be false of the code as it
is; `StartStays` says in which behaviours the report is nevertheless right. Of
`RecordedIsInstalled`, `EndsWhereNamed` and `EndsAtTerminator` as they stand, nothing is proved.

None of the store's properties is inductive. Each follows from `WriterInv`, whose parts are:
* `JobFits`, `ProbesFit`: at each step a process carries out a command of its kind;
* `OneCommand`: under `Exclusive` at most one process is busy;
* `RecordFits`: the record is never open for writing, and the staged file only
  by the one writer, between its truncation and its fill;
* `SnapshotFits`: what a writer will put in the record is the present record with
  its own name changed, never at the recorded commit. This is the step that
  needs one writer: between the read and the promotion nobody else may write.

`WholeInv` adds `TreesFit` (the staging directory is what has been written so far,
the promoted directory the whole tree). `NoMixedTree` is preserved by a step of it: a
directory appears by the promotion of one whole tree and otherwise only shrinks, until it is
edited by hand. `AloneInv` adds `RunFits` (what a run has
read is what is on the disk, and approved), which is false as soon as a writer runs
beside it. TLC checks `WholeInv` and `AloneInv` as invariants of the run before
they are proved.

`ConversationInv` is inductive for every set of plugins and of lines they may write. Its
parts are `ReadyFits` (what has been chosen and started by each step), `TempFits` (when
the artifact exists and who takes it back) and `HeardFits` (what has been asked,
identified and answered). The last is what the three properties rest on: that a
command is past the handshake says nothing of the plugin unless the invariant
keeps which reply brought it there. The code drops the error of a refused removal, so
the model gives what is then left its own value (`"stuck"`). `GraphTakenBack` is one step of
the invariant: `TempFits` says that nothing is there yet where a command ends without removing
anything, but for the failing write it names.

`DaemonInv` joins the properties with what each rests on. `WorkFits` says that a command
is at a step of its kind and has executed nothing before its end, so a query cannot be told
one thing and have done another. `NumbersFit` says that a command's number is its own and
that no daemon of that number exists before the command spawns it: the process a failing
start kills is its own and no other command's. `StoppedFits` says that after an
undisturbed stop no daemon is on its way and no command could begin one. `StartedFits`
is its counterpart: after a start left alone the lock is held by a daemon that serves,
and no stop is under way. `SnapshotFits`
says that a command about to store holds what the file holds, or is known to be stale.

`ConvertInv` follows a file from its creation to its renaming. `NumbersFit` and `Unmade`
say that the file of a command exists only once the command has made it; `OpenFits` that
what a command writes goes by no name but those of its output and, alone, by that of the
sibling; `OutputFits` that until the renaming the output is as it was found, and absent
without `--replace`; `SiblingFits` that a database is created where nothing is, unless
the removal failed. `SharedFits` is why "alone" can be read off the history. The
two action properties are one step of the invariant each.

What is told in a session and what is in the log are both read by recursion over a
sequence (`Concluded`, `Mine`). `ReplProofs` proves first that one more entry takes one more
step, so each action needs only its own entry: what is told of a statement and what is
appended to the log conclude to the same blocks, and the pending writes are those of the
open transaction. For `UnmixedEndsAtTerminator` the reader of `terminator`, which toggles one flag, is
compared with the reader that remembers which quote opened a literal. While no literal holds a
quote of the other kind the two agree character by character (`Matches`), over the lines of a statement, since
the buffer is read from its first character each time.

`FetchInv` ties every step to what has been decided before it (`DecidedInv`): past the
plan, the plan was accepted and `planned` is the accepted entries sorted; past the manifest, the
manifest was accepted. `ReadsInv` says which entries have arrived, in which order, with
which requests. The refinement rests on lemmas about the operators: the sorted sequence of a
set of entries exists, is unique, and keeps the members; the code's running total passes
the limit exactly when the bytes of all entries do, whatever the order; the first check to
fail, in the order of the code, is the one the contract names. For `OnlyManifestsSpoil` one step
matters, the commit: a name that is a directory of its own leaves the record where it is.

`RowsInv` follows the loops of the exchange: every row written so far is what its source
says, every position points at the node it stands for, and the string table only grows,
so an index taken early stays good. An index of the string table is exact or clipped, and
when one was clipped the layout, whose table would be as long, is refused: `TableInv`
carries this to the container that is returned.

Induction. The induction theorems of the library take an operator as a parameter, which none of
the provers used here can instantiate. `Inductions` states what is needed about sets and
functions instead: a set of numbers that holds the first and with each the next holds all,
a set that is not empty has a least, a function given by its first value and its step
exists over an interval. A proof applies them to the set of numbers for which the
statement holds.

Model-checked only: liveness (`CommandEnds`, `CommandsEnd`), which is out of the prover's
reach. That `ResponsiveSpec` and the fairness of the daemons are what the ends of the commands
rest on is therefore shown on the instances of the runs and no larger.

## 5. The plan

Done: `PluginStore` with `ApprovedPlugins`, `PluginConversation`, `PluginFetch` with
`PluginContract`, `ViewExchange`, `Repl`, `Daemon` (client, daemon control and catalog),
`Convert`, each with its runs and its proofs. Every safety property a passing run checks is
stated by a theorem.

Left:
1. an abstract specification of confirmed blocks, whose state is what `Concluded` computes,
   with the refinement of `Repl`, which `CommittedAsTold` is most of;
2. an abstract specification of a catalog that changes atomically, for `Daemon` while no two
   changes overlap, and of an output replaced atomically, for `Convert`;
3. the links: the callback of `link refresh` that starts a provider on first use, with the
   outcomes of the links against the processes started;
4. a composition of `PluginStore` and `PluginConversation`, in which a plugin is removed
   while it runs.

Runs are kept few: one passing run for what a component promises, and one violation for
the disagreement between text and code that matters most.

## 6. What is not modelled

* `link.rs`: adding, removing and resolving a link, and a refresh, are each one call of
  the Engine, which owns the links and what is recorded of them. This code's own part is
  the callback that starts a provider on first use; see the plan.
* `sync`, `apply`, `plan`, `build`: each calls the Engine once and renders its answer.
* `lib.rs`, `main.rs`, `exit.rs`: sequential parsing of the arguments into a command,
  and total tables from errors to exit classes. `output.rs`: formatting. Neither
  keeps state.
* `init`, `help`, `version` of `command.rs`, and `catalog list`: one call, or none.
* `scripts/`: checks of the repository itself.
* The Engine, the daemon, the transport and the plugins are external; what is used of
  them is stated at the head of each module.

Other disagreements between a text and the code, seen while modelling. The models do what
the code does; no run is spent on these.

| Text | Code |
|---|---|
| `plugin_run.rs:40`: how long a handshake may take | `plugin_run.rs:669`: no wait uses it |
| `plugin_run.rs:1290`: the artifact is removed, the invocation failed or not | `plugin_run.rs:1370`: a failing write returns before anything owns it |
| `plugin_run.rs:594`: `*` matches within one segment | `plugin_run.rs:602`: only the last segments are compared, so an output in any directory fits |
| `plugin_run.rs:303`: the manifest is the approved one, byte for byte | `plugin_run.rs:304`: it is read from the disk again after the digests were compared |
| `plugin_install.rs:1229`: the staged file is removed on failure | `plugin_install.rs:1242`: a failing write returns and leaves it |
| `client.rs:254`: the three ways a start fails | `client.rs:302`: a fourth, which leaves the child it spawned running |
| `query.rs:210`: a colon command is complete at the end of its line | `query.rs:229`: after a blank line it is part of the next statement |
