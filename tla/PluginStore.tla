----------------------------- MODULE PluginStore ----------------------------
(***************************************************************************)
(* The plugin store of one scope, and the processes of the CLI that share  *)
(* it: `plugin add` (commit_install), `plugin remove` and `plugin run` up  *)
(* to the start of the plugin (preflight). No lock is taken, so a step is  *)
(* one system call whose effect another process can see, or one decision.  *)
(*                                                                         *)
(* Files of a plugin are written whole in one step. Modes are left out:    *)
(* the entrypoint is made executable in the step that writes it.           *)
(***************************************************************************)
EXTENDS PluginTree, Naturals

CONSTANTS
    Procs,       \* processes of the CLI
    Writers,     \* those that add and remove; the others only run plugins
    Exclusive,   \* whether a command is begun only when no other is under way
    Torn,        \* the content of a record file truncated and not yet written
    Missing,     \* the content of a record file that is not there
    Faults,      \* the system calls that may fail
    MaxCrashes,  \* bound: how many commands are killed
    HandWritten, \* bound: what an edit by hand may leave in an installed file
    MaxEdits,    \* bound: how many installed files are edited by hand
    MaxMishaps   \* bound: how many kills and edits there are together

ASSUME StoreAssumption ==
    /\ Writers \subseteq Procs
    /\ Exclusive \in BOOLEAN
    /\ Torn \notin Record
    /\ Missing \notin Record
    /\ Torn # Missing
    /\ HandWritten \subseteq Bytes \cup {NoFile}
    /\ MaxCrashes \in Nat
    /\ MaxEdits \in Nat
    /\ MaxMishaps \in Nat

VARIABLES
    record,    \* `installed.json`: its content and who holds it open to write
    staged,    \* `installed.json.staging`, likewise
    dir,       \* the installed directory of each name
    staging,   \* the `.NAME.staging` directory of each name
    pc,        \* the next step of each process
    job,       \* the command a process carries out
    snapshot,  \* the record a process read, as it has changed it since
    todo,      \* files a process has yet to write or to digest
    seen,      \* the tree a process has read so far
    crashes,
    edits

disk   == <<record, staged, dir, staging>>
memory == <<job, snapshot, todo, seen>>
vars   == <<disk, pc, memory, crashes, edits>>

-----------------------------------------------------------------------------
NoJob     == [op |-> "none"]
AddJob    == [op : {"add"}, name : Names, commit : Commits, tree : Tree]
RemoveJob == [op : {"remove"}, name : Names]
RunJob    == [op : {"run"}, name : Names, action : Actions \cup {Unnamed},
              engine : Engines, probe : 0..2, manifest : Bytes \cup {NoFile}]

File == [content : Record \cup {Torn, Missing}, writers : SUBSET Procs]
NoSuchFile == [content |-> Missing, writers |-> {}]

Labels == {"idle", "add_read", "add_clear", "add_write", "add_retire",
           "add_promote", "rec_open", "rec_fill", "rec_promote", "rm_read",
           "rm_dir", "run_read", "run_list", "run_hash", "run_manifest",
           "run_sole", "run_start", "started"}

\* Mutant: the file on disk is never read.
Readable_Unread(file) == EmptyRecord

\* The record a reader makes of the file: one that is not there is empty.
Readable(file) == IF file.content = Missing THEN EmptyRecord ELSE file.content

\* Mutant: the recorded commit is not compared.
SameCommit_Ignored(e, commit) == FALSE

\* An entry that is there, at the given commit.
SameCommit(e, commit) == e # NoEntry /\ e.commit = commit

Recorded == IF record.content \in {Torn, Missing} THEN EmptyRecord
            ELSE record.content

\* What writing the whole of content v to an open file can leave. Another
\* writer that has filled the file since may have left a longer text, whose
\* tail then follows v.
Filled(file, p, v) ==
    {[content |-> c, writers |-> file.writers \ {p}] :
        c \in IF file.content \in {Torn, v} THEN {v} ELSE {v, Torn}}

Unlinked(t) == {[t EXCEPT ![f] = NoFile] : f \in Held(t)}

Idle(p) == pc[p] = "idle"
At(p, label) == pc[p] = label
Go(p, label) == pc' = [pc EXCEPT ![p] = label]
MayBegin(p) == Idle(p) /\ (Exclusive => \A q \in Procs : Idle(q))

Begin(p, label, command) ==
    /\ MayBegin(p)
    /\ Go(p, label)
    /\ job' = [job EXCEPT ![p] = command]
    /\ UNCHANGED <<disk, snapshot, todo, seen, crashes, edits>>

\* A command ends, done or refused: its process is gone, and its memory with it.
End(p) ==
    /\ Go(p, "idle")
    /\ job' = [job EXCEPT ![p] = NoJob]
    /\ snapshot' = [snapshot EXCEPT ![p] = EmptyRecord]
    /\ todo' = [todo EXCEPT ![p] = {}]
    /\ seen' = [seen EXCEPT ![p] = Absent]

NoMishap == UNCHANGED <<crashes, edits>>

Init ==
    /\ record = NoSuchFile
    /\ staged = NoSuchFile
    /\ dir = [n \in Names |-> Absent]
    /\ staging = [n \in Names |-> Absent]
    /\ pc = [p \in Procs |-> "idle"]
    /\ job = [p \in Procs |-> NoJob]
    /\ snapshot = [p \in Procs |-> EmptyRecord]
    /\ todo = [p \in Procs |-> {}]
    /\ seen = [p \in Procs |-> Absent]
    /\ crashes = 0
    /\ edits = 0

-----------------------------------------------------------------------------
(* `plugin add`, from the point where `fetch` has returned.                *)

\* `fetch` has refused every source whose manifest does not admit this build.
AddBegin(p) ==
    /\ p \in Writers
    /\ \E o \in Offers, engine \in Engines :
        /\ engine \in Meaning[o.tree[Manifest]].engines
        /\ Begin(p, "add_read",
                 [op |-> "add", name |-> o.name, commit |-> o.commit, tree |-> o.tree])

\* The record is read once, here, and what is written later derives from it.
AddRead(p) ==
    /\ At(p, "add_read")
    /\ record.content # Torn
    /\ ~SameCommit(Readable(record)[job[p].name], job[p].commit)
    /\ snapshot' = [snapshot EXCEPT ![p] = Readable(record)]
    /\ Go(p, "add_clear")
    /\ UNCHANGED <<disk, job, todo, seen>> /\ NoMishap

AddRefuse(p) ==
    /\ At(p, "add_read")
    /\ \/ record.content = Torn /\ End(p)
       \/ /\ record.content # Torn
          /\ LET e == Readable(record)[job[p].name]
             IN  /\ SameCommit(e, job[p].commit)
                 /\ End(p)   \* AlreadyInstalled, or PLUGIN_DIGEST_MISMATCH
    /\ UNCHANGED disk /\ NoMishap

\* Mutant: what an earlier installation left in the staging directory stays.
AddClear_Skipped(p) ==
    /\ At(p, "add_clear")
    /\ Go(p, "add_write")
    /\ todo' = [todo EXCEPT ![p] = Held(job[p].tree)]
    /\ UNCHANGED <<disk, job, snapshot, seen>> /\ NoMishap

\* remove_dir_all(staging), a file at a time; its error is dropped.
AddClear(p) ==
    /\ At(p, "add_clear")
    /\ \/ /\ \E t \in Unlinked(staging[job[p].name]) :
               staging' = [staging EXCEPT ![job[p].name] = t]
          /\ UNCHANGED <<pc, todo>>
       \/ /\ staging[job[p].name] = Absent \/ "clear" \in Faults
          /\ Go(p, "add_write")
          /\ todo' = [todo EXCEPT ![p] = Held(job[p].tree)]
          /\ UNCHANGED staging
    /\ UNCHANGED <<record, staged, dir, job, snapshot, seen>> /\ NoMishap

AddWrite(p) ==
    /\ At(p, "add_write")
    /\ \E f \in todo[p] :
        /\ staging' = [staging EXCEPT ![job[p].name][f] = job[p].tree[f]]
        /\ todo' = [todo EXCEPT ![p] = @ \ {f}]
    /\ UNCHANGED <<record, staged, dir, pc, job, snapshot, seen>> /\ NoMishap

\* A failed write leaves the staging directory behind.
AddWriteFails(p) ==
    /\ At(p, "add_write") /\ todo[p] # {} /\ "write" \in Faults
    /\ End(p)
    /\ UNCHANGED disk /\ NoMishap

\* Mutant: the directory is promoted before its last file is written.
AddCheck_Early(p) ==
    /\ At(p, "add_write")
    /\ Go(p, "add_retire")
    /\ UNCHANGED <<disk, memory>> /\ NoMishap

\* Every file is written: the entrypoint must be one of them.
AddCheck(p) ==
    /\ At(p, "add_write") /\ todo[p] = {}
    /\ IF Meaning[job[p].tree[Manifest]].entrypoint \in Held(job[p].tree)
       THEN Go(p, "add_retire") /\ UNCHANGED <<staging, memory>>
       ELSE /\ staging' = [staging EXCEPT ![job[p].name] = Absent]
            /\ End(p)
    /\ UNCHANGED <<record, staged, dir>> /\ NoMishap

\* remove_dir_all(directory), a file at a time; its error is dropped.
AddRetire(p) ==
    /\ At(p, "add_retire")
    /\ \/ /\ \E t \in Unlinked(dir[job[p].name]) :
               dir' = [dir EXCEPT ![job[p].name] = t]
          /\ UNCHANGED pc
       \/ /\ dir[job[p].name] = Absent \/ "retire" \in Faults
          /\ Go(p, "add_promote")
          /\ UNCHANGED dir
    /\ UNCHANGED <<record, staged, staging, memory>> /\ NoMishap

\* rename(staging, directory): a directory that still holds files refuses it.
AddPromote(p) ==
    /\ At(p, "add_promote")
    /\ dir[job[p].name] = Absent
    /\ dir' = [dir EXCEPT ![job[p].name] = staging[job[p].name]]
    /\ staging' = [staging EXCEPT ![job[p].name] = Absent]
    /\ snapshot' = [snapshot EXCEPT ![p][job[p].name] = EntryOf(job[p])]
    /\ Go(p, "rec_open")
    /\ UNCHANGED <<record, staged, job, todo, seen>> /\ NoMishap

AddPromoteFails(p) ==
    /\ At(p, "add_promote")
    /\ \/ dir[job[p].name] # Absent
       \/ staging[job[p].name] = Absent
       \/ "promote" \in Faults
    /\ staging' = [staging EXCEPT ![job[p].name] = Absent]
    /\ End(p)
    /\ UNCHANGED <<record, staged, dir>> /\ NoMishap

-----------------------------------------------------------------------------
(* write_record, of `plugin add` and of `plugin remove`.                   *)

\* Mutant: the record is written in place.
RecOpen_InPlace(p) ==
    /\ At(p, "rec_open")
    /\ record' = [content |-> Torn, writers |-> record.writers \cup {p}]
    /\ Go(p, "rec_fill")
    /\ UNCHANGED <<staged, dir, staging, memory>> /\ NoMishap

\* fs::write opens and truncates the one staged file every process uses.
RecOpen(p) ==
    /\ At(p, "rec_open")
    /\ staged' = [content |-> Torn, writers |-> staged.writers \cup {p}]
    /\ Go(p, "rec_fill")
    /\ UNCHANGED <<record, dir, staging, memory>> /\ NoMishap

\* The text goes to the file that was opened, wherever it has been renamed
\* to since; to neither when that file has been unlinked or replaced.
RecFill(p) ==
    /\ At(p, "rec_fill")
    /\ \/ p \in staged.writers /\ staged' \in Filled(staged, p, snapshot[p])
                               /\ UNCHANGED record
       \/ p \in record.writers /\ record' \in Filled(record, p, snapshot[p])
                               /\ UNCHANGED staged
       \/ p \notin staged.writers \cup record.writers /\ UNCHANGED <<record, staged>>
    /\ Go(p, "rec_promote")
    /\ UNCHANGED <<dir, staging, memory>> /\ NoMishap

Closed(file, p) == [file EXCEPT !.writers = @ \ {p}]

\* The staged file stays behind, truncated.
RecWriteFails(p) ==
    /\ \/ At(p, "rec_open") /\ "open" \in Faults
       \/ At(p, "rec_fill") /\ "fill" \in Faults
    /\ staged' = Closed(staged, p)
    /\ record' = Closed(record, p)
    /\ End(p)
    /\ UNCHANGED <<dir, staging>> /\ NoMishap

RecPromote(p) ==
    /\ At(p, "rec_promote")
    /\ staged.content # Missing
    /\ record' = staged
    /\ staged' = NoSuchFile
    /\ \/ job[p].op = "add" /\ End(p)
       \/ job[p].op = "remove" /\ Go(p, "rm_dir") /\ UNCHANGED memory
    /\ UNCHANGED <<dir, staging>> /\ NoMishap

RecPromoteFails(p) ==
    /\ At(p, "rec_promote")
    /\ staged.content = Missing \/ "record" \in Faults
    /\ staged' = NoSuchFile
    /\ End(p)
    /\ UNCHANGED <<record, dir, staging>> /\ NoMishap

-----------------------------------------------------------------------------
(* `plugin remove`: the record entry goes first and the directory second.  *)

RemoveBegin(p) ==
    /\ p \in Writers
    /\ \E n \in Names : Begin(p, "rm_read", [op |-> "remove", name |-> n])

\* Mutant: the directory goes before the record entry.
RemoveRead_DirectoryFirst(p) ==
    /\ At(p, "rm_read")
    /\ record.content # Torn
    /\ Readable(record)[job[p].name] # NoEntry
    /\ Go(p, "rm_dir")
    /\ UNCHANGED <<disk, memory>> /\ NoMishap

RemoveRead(p) ==
    /\ At(p, "rm_read")
    /\ record.content # Torn
    /\ Readable(record)[job[p].name] # NoEntry
    /\ snapshot' = [snapshot EXCEPT
                       ![p] = [Readable(record) EXCEPT ![job[p].name] = NoEntry]]
    /\ Go(p, "rec_open")
    /\ UNCHANGED <<disk, job, todo, seen>> /\ NoMishap

RemoveRefuse(p) ==
    /\ At(p, "rm_read")
    /\ \/ record.content = Torn /\ End(p)
       \/ /\ record.content # Torn
          /\ Readable(record)[job[p].name] = NoEntry
          /\ End(p)
    /\ UNCHANGED disk /\ NoMishap

RemoveDir(p) ==
    /\ At(p, "rm_dir")
    /\ \/ /\ \E t \in Unlinked(dir[job[p].name]) :
               dir' = [dir EXCEPT ![job[p].name] = t]
          /\ UNCHANGED <<pc, memory>>
       \/ dir[job[p].name] = Absent /\ End(p) /\ UNCHANGED dir
       \/ "unlink" \in Faults /\ End(p) /\ UNCHANGED dir
    /\ UNCHANGED <<record, staged, staging>> /\ NoMishap

-----------------------------------------------------------------------------
(* `plugin run`, up to the start of the plugin.                            *)

RunBegin(p) ==
    \E n \in Names, action \in Actions \cup {Unnamed}, engine \in Engines :
        Begin(p, "run_read",
              [op |-> "run", name |-> n, action |-> action, engine |-> engine,
               probe |-> 0, manifest |-> NoFile])

RunRead(p) ==
    /\ At(p, "run_read")
    /\ record.content # Torn
    /\ Readable(record)[job[p].name] # NoEntry
    /\ snapshot' = [snapshot EXCEPT ![p] = Readable(record)]
    /\ Go(p, "run_list")
    /\ UNCHANGED <<disk, job, todo, seen>> /\ NoMishap

RunRefuse(p) ==
    /\ At(p, "run_read")
    /\ \/ record.content = Torn /\ End(p)
       \/ /\ record.content # Torn
          /\ Readable(record)[job[p].name] = NoEntry
          /\ End(p)
    /\ UNCHANGED disk /\ NoMishap

\* collect lists the directory first and reads each listed file afterwards.
RunList(p) ==
    /\ At(p, "run_list")
    /\ IF dir[job[p].name] = Absent
       THEN End(p)
       ELSE /\ todo' = [todo EXCEPT ![p] = Held(dir[job[p].name])]
            /\ seen' = [seen EXCEPT ![p] = Absent]
            /\ Go(p, "run_hash")
            /\ UNCHANGED <<job, snapshot>>
    /\ UNCHANGED disk /\ NoMishap

RunHash(p) ==
    /\ At(p, "run_hash")
    /\ \E f \in todo[p] :
        IF dir[job[p].name][f] = NoFile
        THEN End(p)
        ELSE /\ seen' = [seen EXCEPT ![p][f] = dir[job[p].name][f]]
             /\ todo' = [todo EXCEPT ![p] = @ \ {f}]
             /\ UNCHANGED <<pc, job, snapshot>>
    /\ UNCHANGED disk /\ NoMishap

\* The digests of what was read are compared with the recorded ones.
RunCompare(p) ==
    /\ At(p, "run_hash") /\ todo[p] = {}
    /\ \/ seen[p][Manifest] = NoFile /\ End(p)
       \/ /\ seen[p][Manifest] # NoFile
          /\ ~Matches(seen[p], snapshot[p][job[p].name])
          /\ End(p)
       \/ /\ Matches(seen[p], snapshot[p][job[p].name])
          /\ Go(p, "run_manifest")
          /\ UNCHANGED memory
    /\ UNCHANGED disk /\ NoMishap

\* The manifest is read again, from the directory, and decides the rest.
RunManifest(p) ==
    /\ At(p, "run_manifest")
    /\ LET m == dir[job[p].name][Manifest]
           admitted == m # NoFile /\ job[p].engine \in Meaning[m].engines
       IN  \/ m = NoFile /\ End(p)
           \/ m # NoFile /\ ~admitted /\ End(p)
           \* after a search for the sole action, the first one declared is taken
           \/ /\ admitted /\ job[p].action \in Meaning[m].actions
              /\ \E a \in IF job[p].probe = 2 THEN Meaning[m].actions ELSE {job[p].action} :
                    job' = [job EXCEPT ![p] = [@ EXCEPT !.manifest = m, !.action = a]]
              /\ Go(p, "run_start")
              /\ UNCHANGED <<snapshot, todo, seen>>
           \/ /\ admitted /\ job[p].action \in Actions \ Meaning[m].actions
              /\ End(p)
           \* no action was named: a second pass, then the manifest once more
           \/ /\ admitted /\ job[p].action = Unnamed
              /\ job' = [job EXCEPT ![p].probe = @ + 1]
              /\ Go(p, IF job[p].probe = 0 THEN "run_list" ELSE "run_sole")
              /\ UNCHANGED <<snapshot, todo, seen>>
    /\ UNCHANGED disk /\ NoMishap

\* Mutant: the sole action is found and not remembered.
RunSole_Forgotten(p) ==
    /\ At(p, "run_sole")
    /\ Go(p, "run_list")
    /\ UNCHANGED <<disk, memory>> /\ NoMishap

\* sole_action: the one declared action, checked by a pass of its own.
RunSole(p) ==
    /\ At(p, "run_sole")
    /\ LET m == dir[job[p].name][Manifest]
       IN  \/ m = NoFile /\ End(p)
           \/ /\ m # NoFile
              /\ \E action \in Meaning[m].actions :
                  /\ Meaning[m].actions = {action}
                  /\ job' = [job EXCEPT ![p].action = action]
              /\ Go(p, "run_list")
              /\ UNCHANGED <<snapshot, todo, seen>>
           \/ /\ m # NoFile
              /\ \A action \in Meaning[m].actions : Meaning[m].actions # {action}
              /\ End(p)
    /\ UNCHANGED disk /\ NoMishap

\* The program the manifest names is started, from whatever is there now.
RunStart(p) ==
    /\ At(p, "run_start")
    /\ LET t == dir[job[p].name]
       IN  IF t[Meaning[job[p].manifest].entrypoint] = NoFile
           THEN End(p)
           ELSE /\ seen' = [seen EXCEPT ![p] = t]
                /\ Go(p, "started")
                /\ UNCHANGED <<job, snapshot, todo>>
    /\ UNCHANGED disk /\ NoMishap

\* The plugin has answered, or failed to: the command is over.
RunEnd(p) ==
    /\ At(p, "started")
    /\ End(p)
    /\ UNCHANGED disk /\ NoMishap

\* The output directory, the graph or the exchange could not be prepared.
RunPrepareFails(p) ==
    /\ At(p, "run_start") /\ "prepare" \in Faults
    /\ End(p)
    /\ UNCHANGED disk /\ NoMishap

-----------------------------------------------------------------------------
(* The environment.                                                        *)

Crash(p) ==
    /\ ~Idle(p) /\ crashes < MaxCrashes /\ crashes + edits < MaxMishaps
    /\ crashes' = crashes + 1
    /\ record' = Closed(record, p)
    /\ staged' = Closed(staged, p)
    /\ End(p)
    /\ UNCHANGED <<dir, staging, edits>>

\* Between commands, an installed file is changed, added or deleted by hand.
Edit ==
    /\ \A p \in Procs : Idle(p)
    /\ edits < MaxEdits /\ crashes + edits < MaxMishaps
    /\ edits' = edits + 1
    /\ \E n \in Names, f \in Files, b \in HandWritten :
        dir' = [dir EXCEPT ![n][f] = b]
    /\ UNCHANGED <<record, staged, staging, pc, memory, crashes>>

Add(p) == AddBegin(p) \/ AddRead(p) \/ AddRefuse(p) \/ AddClear(p) \/ AddWrite(p)
          \/ AddWriteFails(p) \/ AddCheck(p) \/ AddRetire(p) \/ AddPromote(p)
          \/ AddPromoteFails(p)

WriteRecord(p) == RecOpen(p) \/ RecFill(p) \/ RecWriteFails(p) \/ RecPromote(p)
                  \/ RecPromoteFails(p)

Remove(p) == RemoveBegin(p) \/ RemoveRead(p) \/ RemoveRefuse(p) \/ RemoveDir(p)

RunPlugin(p) == RunBegin(p) \/ RunRead(p) \/ RunRefuse(p) \/ RunList(p) \/ RunHash(p)
                \/ RunCompare(p) \/ RunManifest(p) \/ RunSole(p) \/ RunStart(p)
                \/ RunPrepareFails(p) \/ RunEnd(p)

Next ==
    \/ \E p \in Procs : Add(p) \/ WriteRecord(p) \/ Remove(p) \/ RunPlugin(p) \/ Crash(p)
    \/ Edit

Spec == Init /\ [][Next]_vars

-----------------------------------------------------------------------------
(* Properties.                                                             *)

\* Every variable holds a value of its kind.
TypeOK ==
    /\ record \in File
    /\ staged \in File
    /\ dir \in [Names -> Tree]
    /\ staging \in [Names -> Tree]
    /\ pc \in [Procs -> Labels]
    /\ job \in [Procs -> RunJob \cup AddJob \cup RemoveJob \cup {NoJob}]
    /\ snapshot \in [Procs -> Record]
    /\ todo \in [Procs -> SUBSET Files]
    /\ seen \in [Procs -> Tree]
    /\ crashes \in 0..MaxCrashes
    /\ edits \in 0..MaxEdits

\* A plugin is started only from the bytes its record entry approved, for an
\* action their manifest declares, by a build their manifest admits: "what is
\* read is the approved bytes rather than whatever is on disk" (preflight).
RunsOnlyApproved ==
    \A p \in Procs : At(p, "started") =>
        LET e == snapshot[p][job[p].name]
        IN  /\ TreeDigest(seen[p]) = e.tree_digest
            /\ job[p].manifest = e.manifest_digest
            /\ job[p].action \in Meaning[e.manifest_digest].actions
            /\ job[p].engine \in Meaning[e.manifest_digest].engines

\* Whoever is killed or fails, and whenever, the record another command finds
\* is one it can read: write_record promotes a complete file or nothing.
RecordReadable == record.content # Torn

\* The digests recorded for a commit are never overwritten by others for the
\* same commit, which are "the only evidence that anything had changed"
\* (commit_install).
EvidenceKept ==
    [][\A n \in Names :
          LET old == Recorded[n]
              new == Recorded'[n]
          IN  old # NoEntry /\ new # NoEntry /\ old.commit = new.commit => new = old
      ]_record

\* An installation leaves the record only because a command removes that very
\* name; no installation of another plugin loses it.
OnlyRemoveForgets ==
    [][\A n \in Names :
          Recorded[n] # NoEntry /\ Recorded'[n] = NoEntry =>
              \E p \in Procs : At(p, "rec_promote") /\ job[p] = [op |-> "remove", name |-> n]
      ]_record

\* When a record comes to name an installation, the directory holds the whole
\* of it and nothing else: "the record is promoted last" (commit_install).
InstalledIsWhole ==
    [][\A n \in Names :
          Recorded'[n] \notin {NoEntry, Recorded[n]} => Matches(dir'[n], Recorded'[n])
      ]_record

\* The directory of a plugin never mixes the files of two fetched trees, nor
\* holds those of another plugin, even when an installation was killed half way
\* and the next one met what it left (commit_install). Until a file is edited by
\* hand, that is.
NoMixedTree ==
    edits = 0 => \A n \in Names : Held(dir[n]) # {} =>
        \E o \in Offers : o.name = n /\ \A f \in Held(dir[n]) : dir[n][f] = o.tree[f]

\* `remove` deletes only files nothing records: "a directory removed before the
\* record would leave a record naming files that are gone" (plugin_run::remove).
RemovedOnlyUnrecorded ==
    [][\A p \in Procs :
          At(p, "rm_dir") /\ dir'[job[p].name] # dir[job[p].name]
              => Recorded[job[p].name] = NoEntry
      ]_dir

\* While nobody is installing or removing, what the record names is there, byte
\* for byte: no command leaves "half of the new one" (commit_install).
RecordedIsInstalled ==
    (\A p \in Writers : Idle(p)) =>
        \A n \in Names : Recorded[n] # NoEntry => Matches(dir[n], Recorded[n])

\* The plugins being run, in the terms of the atomic specification.
Running == [p \in Procs |->
    IF At(p, "started")
    THEN [name |-> job[p].name, manifest |-> job[p].manifest, tree |-> seen[p],
          action |-> job[p].action, engine |-> job[p].engine]
    ELSE NoRun]

Approved == INSTANCE ApprovedPlugins WITH approved <- Recorded, running <- Running

\* One command at a time, the steps of add, remove and run, with crashes and
\* failures, implement the atomic Approve, Forget and Start.
ImplementsApproved == Approved!Spec

=============================================================================
