---------------------------- MODULE PluginStoreInv --------------------------
(***************************************************************************)
(* The inductive invariants behind the safety properties of PluginStore:   *)
(* what the memory of a command says about the disk at each of its steps.  *)
(***************************************************************************)
EXTENDS PluginStore

AddLabels == {"add_read", "add_clear", "add_write", "add_retire", "add_promote"}
RecLabels == {"rec_open", "rec_fill", "rec_promote"}
RmLabels  == {"rm_read", "rm_dir"}
RunLabels == {"run_read", "run_list", "run_hash", "run_manifest", "run_sole",
              "run_start", "started"}

Writing(p) == pc[p] \in AddLabels \cup RecLabels \cup RmLabels

OfferOf(j) == [name |-> j.name, commit |-> j.commit, tree |-> j.tree]

\* Each step is taken for a command of its kind, by a process that may take it.
JobFits ==
    \A p \in Procs :
        /\ pc[p] \in AddLabels => job[p] \in AddJob
        /\ pc[p] \in RecLabels => job[p] \in AddJob \cup RemoveJob
        /\ pc[p] \in RmLabels  => job[p] \in RemoveJob
        /\ pc[p] \in RunLabels => job[p] \in RunJob
        /\ job[p] \in AddJob => OfferOf(job[p]) \in Offers
        /\ Writing(p) => p \in Writers

\* A run tries the empty action twice before it looks for the sole one, and
\* starts a plugin only for an action with a name.
ProbesFit ==
    \A p \in Procs :
        /\ pc[p] \in RunLabels \ {"run_sole"} /\ job[p].action = Unnamed
               => job[p].probe \in {0, 1}
        /\ pc[p] \in {"run_start", "started"} =>
               job[p].action \in Actions /\ job[p].manifest \in Bytes

\* The two ways the store is safe: one process that writes, or one command at
\* a time.
OneWriter == Exclusive \/ \A p, q \in Writers : p = q

OneCommand == Exclusive => \A p, q \in Procs : ~Idle(p) /\ ~Idle(q) => p = q

\* The record is never open to be written, and the staged file only by a
\* process that has truncated and not yet filled it.
RecordFits ==
    /\ record.content # Torn
    /\ record.writers = {}
    /\ \A p \in staged.writers : At(p, "rec_fill")
    /\ \A p \in Procs :
        /\ At(p, "rec_fill") => staged = [content |-> Torn, writers |-> {p}]
        /\ At(p, "rec_promote") => staged = [content |-> snapshot[p], writers |-> {}]

\* What a writer is about to put in the record is the present record with its
\* own name changed, and an installation never at the commit it has now.
SnapshotOf(p) ==
    /\ pc[p] \in AddLabels \ {"add_read"} =>
        /\ snapshot[p] = Recorded
        /\ ~SameCommit(Recorded[job[p].name], job[p].commit)
    /\ pc[p] \in RecLabels /\ job[p].op = "add" =>
        /\ snapshot[p] = [Recorded EXCEPT ![job[p].name] = EntryOf(job[p])]
        /\ ~SameCommit(Recorded[job[p].name], job[p].commit)
    /\ pc[p] \in RecLabels /\ job[p].op = "remove" =>
        snapshot[p] = [Recorded EXCEPT ![job[p].name] = NoEntry]
    /\ At(p, "rm_dir") => Recorded[job[p].name] = NoEntry

SnapshotFits == \A p \in Procs : SnapshotOf(p)

\* The staging directory holds what has been written of the fetched tree, and
\* once promoted the installed directory holds the whole of it.
TreesOf(p) ==
    /\ At(p, "add_write") =>
        \A f \in Files :
            staging[job[p].name][f] = IF f \in todo[p] THEN NoFile ELSE job[p].tree[f]
    /\ pc[p] \in {"add_retire", "add_promote"} => staging[job[p].name] = job[p].tree
    /\ pc[p] \in RecLabels /\ job[p].op = "add" => dir[job[p].name] = job[p].tree

TreesFit == \A p \in Procs : TreesOf(p)

\* What a run has read is what is in the directory, and from the comparison of
\* the digests on, what is in the directory is what the record approves.
RunOf(p) ==
    /\ pc[p] \in RunLabels \ {"run_read"} =>
        /\ snapshot[p] = Recorded
        /\ Recorded[job[p].name] # NoEntry
    /\ At(p, "run_hash") =>
        \A f \in Files \ todo[p] : seen[p][f] = dir[job[p].name][f]
    /\ pc[p] \in {"run_manifest", "run_sole", "run_start", "started"} =>
        Matches(dir[job[p].name], Recorded[job[p].name])
    /\ pc[p] \in {"run_start", "started"} =>
        /\ job[p].manifest = dir[job[p].name][Manifest]
        /\ job[p].action \in Meaning[job[p].manifest].actions
        /\ job[p].engine \in Meaning[job[p].manifest].engines
    /\ At(p, "started") => seen[p] = dir[job[p].name]

RunFits == \A p \in Procs : RunOf(p)

TypeInv   == TypeOK /\ JobFits /\ ProbesFit

\* What holds while one process writes, or one command is under way.
WriterInv == TypeInv /\ OneCommand /\ RecordFits /\ SnapshotFits

\* What holds besides when a staging directory is always cleared.
WholeInv  == WriterInv /\ TreesFit

\* What holds besides while one command is under way.
AloneInv  == WriterInv /\ RunFits

=============================================================================
