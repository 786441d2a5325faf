-------------------------- MODULE PluginStoreProofs -------------------------
(***************************************************************************)
(* Proofs about PluginStore for any number of processes, names, files and  *)
(* offers, with crashes and failures at any step: first the kinds of the   *)
(* variables, whoever runs at once; then what holds while one process      *)
(* writes; last what holds while one command is under way at a time, and   *)
(* that the store implements ApprovedPlugins.                              *)
(***************************************************************************)
EXTENDS PluginStoreInv, TLAPS

-----------------------------------------------------------------------------
(* Trees, entries and records.                                             *)

\* The empty tree and the empty record are of their kinds.
LEMMA EmptyTyped == Absent \in Tree /\ EmptyRecord \in Record
  BY DEF Absent, Tree, EmptyRecord, Record

\* Changing one path of a tree leaves a tree.
LEMMA TreeUpdated ==
  ASSUME NEW t \in Tree, NEW f \in Files, NEW b \in Bytes \cup {NoFile}
  PROVE  [t EXCEPT ![f] = b] \in Tree
  BY DEF Tree

\* Changing one name of a record leaves a record.
LEMMA RecordUpdated ==
  ASSUME NEW r \in Record, NEW n \in Names, NEW e \in Entry \cup {NoEntry}
  PROVE  [r EXCEPT ![n] = e] \in Record
  BY DEF Record

\* Unlinking a file of a tree leaves a tree.
LEMMA UnlinkedTyped ==
  ASSUME NEW t \in Tree, NEW u \in Unlinked(t)
  PROVE  u \in Tree
  <1>1. PICK f \in Held(t) : u = [t EXCEPT ![f] = NoFile]
    BY DEF Unlinked
  <1>2. QED
    BY <1>1, TreeUpdated DEF Held

\* A command to add carries the entry it will record.
LEMMA EntryTyped ==
  ASSUME NEW j \in AddJob, OfferOf(j) \in Offers
  PROVE  EntryOf(j) \in Entry
  <1>1. EntryOf(OfferOf(j)) \in Entry
    BY TreeAssumption
  <1>2. EntryOf(j) = EntryOf(OfferOf(j))
    BY DEF EntryOf, OfferOf, ManifestDigest, TreeDigest
  <1>3. QED
    BY <1>1, <1>2

\* What a reader makes of a readable record file is a record.
LEMMA ReadableTyped ==
  ASSUME NEW file \in File, file.content # Torn
  PROVE  Readable(file) \in Record
  BY EmptyTyped DEF Readable, File

\* What writing to an open file leaves is a file.
LEMMA FilledTyped ==
  ASSUME NEW file \in File, NEW p \in Procs, NEW v \in Record,
         NEW g \in Filled(file, p, v)
  PROVE  g \in File
  BY DEF File, Filled

\* Closing a file leaves a file.
LEMMA ClosedTyped ==
  ASSUME NEW file \in File, NEW p \in Procs
  PROVE  Closed(file, p) \in File
  BY DEF File, Closed

-----------------------------------------------------------------------------
(* Types.                                                                  *)

DiskType == record \in File /\ staged \in File
            /\ dir \in [Names -> Tree] /\ staging \in [Names -> Tree]

MemoryType == /\ pc \in [Procs -> Labels]
              /\ job \in [Procs -> RunJob \cup AddJob \cup RemoveJob \cup {NoJob}]
              /\ snapshot \in [Procs -> Record]
              /\ todo \in [Procs -> SUBSET Files]
              /\ seen \in [Procs -> Tree]

MishapType == crashes \in 0..MaxCrashes /\ edits \in 0..MaxEdits

LEMMA TypeParts == TypeOK <=> DiskType /\ MemoryType /\ MishapType
  BY DEF TypeOK, DiskType, MemoryType, MishapType

\* Ending a command leaves its memory of the right types.
LEMMA EndTyped ==
  ASSUME TypeInv, NEW p \in Procs, End(p)
  PROVE  MemoryType' /\ JobFits' /\ ProbesFit'
  <1>1. MemoryType'
    BY EmptyTyped DEF TypeInv, TypeOK, End, Go, MemoryType, Labels
  <1>2. pc' = [pc EXCEPT ![p] = "idle"] /\ job' = [job EXCEPT ![p] = NoJob]
    BY DEF End, Go
  <1>3. JobFits'
    BY <1>2 DEF TypeInv, TypeOK, JobFits, AddLabels, RecLabels, RmLabels, RunLabels,
       Writing, NoJob, AddJob
  <1>4. ProbesFit'
    BY <1>2 DEF TypeInv, TypeOK, ProbesFit, RunLabels, NoJob
  <1>5. QED
    BY <1>1, <1>3, <1>4

\* A step of a process that changes no command's job, moving it to a label of
\* the same kind, keeps every command fitting its label.
LEMMA StepFits ==
  ASSUME TypeInv, NEW p \in Procs, NEW label \in Labels, Go(p, label),
         UNCHANGED job,
         \/ pc[p] \in AddLabels /\ label \in AddLabels \cup RecLabels
         \/ pc[p] \in RecLabels /\ label \in RecLabels
         \/ pc[p] \in RmLabels /\ label \in RmLabels \cup RecLabels
         \/ pc[p] \in RecLabels /\ label \in RmLabels /\ job[p].op = "remove"
         \/ pc[p] \in RunLabels \ {"run_sole", "run_start", "started"}
            /\ label \in {"run_list", "run_hash", "run_manifest"}
         \/ pc[p] = "run_start" /\ label = "started"
  PROVE  pc' \in [Procs -> Labels] /\ JobFits' /\ ProbesFit'
  <1>1. pc' = [pc EXCEPT ![p] = label] /\ job' = job
    BY DEF Go
  <1>2. pc' \in [Procs -> Labels]
    BY <1>1 DEF TypeInv, TypeOK
  <1>3. JobFits'
    BY <1>1 DEF TypeInv, TypeOK, JobFits, AddLabels, RecLabels, RmLabels, RunLabels,
       Writing, AddJob, RemoveJob
  <1>4. ProbesFit'
    BY <1>1 DEF TypeInv, TypeOK, ProbesFit, RunLabels, AddLabels, RecLabels, RmLabels
  <1>5. QED
    BY <1>2, <1>3, <1>4

\* Beginning a command with a job of its kind keeps every command fitting.
LEMMA BeginFits ==
  ASSUME TypeInv, NEW p \in Procs, NEW command, NEW label, Begin(p, label, command),
         \/ label = "add_read" /\ command \in AddJob
            /\ OfferOf(command) \in Offers /\ p \in Writers
         \/ label = "rm_read" /\ command \in RemoveJob /\ p \in Writers
         \/ label = "run_read" /\ command \in RunJob /\ command.probe = 0
  PROVE  TypeInv'
  <1>1. /\ pc' = [pc EXCEPT ![p] = label]
        /\ job' = [job EXCEPT ![p] = command]
        /\ UNCHANGED <<disk, snapshot, todo, seen, crashes, edits>>
    BY DEF Begin, Go
  <1>2. TypeOK'
    BY <1>1 DEF TypeInv, TypeOK, disk, Labels
  <1>3. JobFits'
    BY <1>1 DEF TypeInv, TypeOK, JobFits, AddLabels, RecLabels, RmLabels, RunLabels,
       Writing, AddJob, RemoveJob, RunJob
  <1>4. ProbesFit'
    BY <1>1 DEF TypeInv, TypeOK, ProbesFit, RunLabels, RunJob, AddJob, RemoveJob
  <1>5. QED
    BY <1>2, <1>3, <1>4 DEF TypeInv

\* Every step of a command to add keeps TypeInv.
LEMMA AddTyped ==
  ASSUME TypeInv, NEW p \in Procs, Add(p)
  PROVE  TypeInv'
  <1> USE DEF disk, memory, NoMishap
  <1>1. DiskType /\ MemoryType /\ MishapType /\ JobFits /\ ProbesFit
    BY TypeParts DEF TypeInv
  <1>2. CASE AddBegin(p)
    <2>1. PICK o \in Offers :
            Begin(p, "add_read", [op |-> "add", name |-> o.name,
                                  commit |-> o.commit, tree |-> o.tree])
      BY <1>2 DEF AddBegin
    <2>2. o \in Fetched
      BY TreeAssumption
    <2>3. [op |-> "add", name |-> o.name, commit |-> o.commit, tree |-> o.tree] \in AddJob
      BY <2>2 DEF Fetched, AddJob
    <2>4. OfferOf([op |-> "add", name |-> o.name, commit |-> o.commit, tree |-> o.tree]) = o
      BY <2>2 DEF Fetched, OfferOf
    <2>5. QED
      BY <1>2, <2>1, <2>3, <2>4, BeginFits DEF AddBegin
  <1>3. CASE AddRead(p)
    <2>1. snapshot' \in [Procs -> Record]
      BY <1>1, <1>3, ReadableTyped DEF AddRead, DiskType, MemoryType
    <2>2. pc' \in [Procs -> Labels] /\ JobFits' /\ ProbesFit'
      BY <1>3, StepFits DEF AddRead, At, AddLabels, Labels
    <2>3. QED
      BY <1>1, <1>3, <2>1, <2>2 DEF AddRead, TypeInv, TypeOK, DiskType, MemoryType, MishapType
  <1>4. CASE AddRefuse(p)
    <2>1. End(p) /\ UNCHANGED <<disk, crashes, edits>>
      BY <1>4 DEF AddRefuse
    <2>2. QED
      BY <1>1, <2>1, EndTyped, TypeParts DEF TypeInv, DiskType, MishapType, TypeOK, MemoryType
  <1>5. CASE AddClear(p)
    <2>1. job[p] \in AddJob
      BY <1>1, <1>5 DEF AddClear, At, JobFits, AddLabels
    <2>2. staging' \in [Names -> Tree]
      <3>1. CASE UNCHANGED staging
        BY <1>1, <3>1 DEF DiskType
      <3>2. CASE \E t \in Unlinked(staging[job[p].name]) :
                   staging' = [staging EXCEPT ![job[p].name] = t]
        BY <1>1, <2>1, <3>2, UnlinkedTyped DEF DiskType, AddJob
      <3>3. QED
        BY <1>5, <3>1, <3>2 DEF AddClear
    <2>3. todo' \in [Procs -> SUBSET Files]
      BY <1>1, <1>5 DEF AddClear, MemoryType, Held
    <2>4. pc' \in [Procs -> Labels] /\ JobFits' /\ ProbesFit'
      <3>1. CASE UNCHANGED pc
        BY <1>1, <1>5, <3>1 DEF AddClear, MemoryType, JobFits, ProbesFit, Writing
      <3>2. CASE Go(p, "add_write")
        BY <1>5, <3>2, StepFits DEF AddClear, At, AddLabels, Labels
      <3>3. QED
        BY <1>5, <3>1, <3>2 DEF AddClear
    <2>5. QED
      BY <1>1, <1>5, <2>2, <2>3, <2>4
         DEF AddClear, TypeInv, TypeOK, DiskType, MemoryType, MishapType
  <1>6. CASE AddWrite(p)
    <2>1. job[p] \in AddJob
      BY <1>1, <1>6 DEF AddWrite, At, JobFits, AddLabels
    <2>2. PICK f \in todo[p] :
            /\ staging' = [staging EXCEPT ![job[p].name][f] = job[p].tree[f]]
            /\ todo' = [todo EXCEPT ![p] = @ \ {f}]
      BY <1>6 DEF AddWrite
    <2>3. f \in Files /\ job[p].name \in Names /\ job[p].tree[f] \in Bytes \cup {NoFile}
      BY <1>1, <2>1 DEF MemoryType, AddJob, Tree
    <2>4. staging' \in [Names -> Tree]
      BY <1>1, <2>2, <2>3, TreeUpdated DEF DiskType
    <2>5. todo' \in [Procs -> SUBSET Files]
      BY <1>1, <2>2 DEF MemoryType
    <2>6. QED
      BY <1>1, <1>6, <2>4, <2>5
         DEF AddWrite, TypeInv, TypeOK, DiskType, MemoryType, MishapType, JobFits,
             ProbesFit, Writing
  <1>7. CASE AddWriteFails(p)
    BY <1>1, <1>7, EndTyped
       DEF AddWriteFails, TypeInv, TypeOK, DiskType, MemoryType, MishapType
  <1>8. CASE AddCheck(p)
    <2>1. job[p] \in AddJob
      BY <1>1, <1>8 DEF AddCheck, At, JobFits, AddLabels
    <2>2. staging' \in [Names -> Tree]
      BY <1>1, <1>8, <2>1, EmptyTyped DEF AddCheck, DiskType, AddJob
    <2>3. CASE End(p)
      BY <1>1, <1>8, <2>2, <2>3, EndTyped
         DEF AddCheck, TypeInv, TypeOK, DiskType, MemoryType, MishapType
    <2>4. CASE Go(p, "add_retire") /\ UNCHANGED memory
      <3>1. pc' \in [Procs -> Labels] /\ JobFits' /\ ProbesFit'
        BY <1>8, <2>4, StepFits DEF AddCheck, At, AddLabels, Labels
      <3>2. QED
        BY <1>1, <1>8, <2>2, <2>4, <3>1
           DEF AddCheck, TypeInv, TypeOK, DiskType, MemoryType, MishapType
    <2>5. QED
      BY <1>8, <2>3, <2>4 DEF AddCheck
  <1>9. CASE AddRetire(p)
    <2>1. job[p] \in AddJob
      BY <1>1, <1>9 DEF AddRetire, At, JobFits, AddLabels
    <2>2. dir' \in [Names -> Tree]
      <3>1. CASE UNCHANGED dir
        BY <1>1, <3>1 DEF DiskType
      <3>2. CASE \E t \in Unlinked(dir[job[p].name]) :
                   dir' = [dir EXCEPT ![job[p].name] = t]
        BY <1>1, <2>1, <3>2, UnlinkedTyped DEF DiskType, AddJob
      <3>3. QED
        BY <1>9, <3>1, <3>2 DEF AddRetire
    <2>3. pc' \in [Procs -> Labels] /\ JobFits' /\ ProbesFit'
      <3>1. CASE UNCHANGED pc
        BY <1>1, <1>9, <3>1 DEF AddRetire, MemoryType, JobFits, ProbesFit, Writing
      <3>2. CASE Go(p, "add_promote")
        BY <1>9, <3>2, StepFits DEF AddRetire, At, AddLabels, Labels
      <3>3. QED
        BY <1>9, <3>1, <3>2 DEF AddRetire
    <2>4. QED
      BY <1>1, <1>9, <2>2, <2>3
         DEF AddRetire, TypeInv, TypeOK, DiskType, MemoryType, MishapType
  <1>10. CASE AddPromote(p)
    <2>1. job[p] \in AddJob /\ job[p].name \in Names /\ OfferOf(job[p]) \in Offers
      BY <1>1, <1>10 DEF AddPromote, At, JobFits, AddLabels, AddJob
    <2>2. dir' \in [Names -> Tree] /\ staging' \in [Names -> Tree]
      BY <1>1, <1>10, <2>1, EmptyTyped DEF AddPromote, DiskType
    <2>3. snapshot' \in [Procs -> Record]
      BY <1>1, <1>10, <2>1, EntryTyped, RecordUpdated DEF AddPromote, MemoryType
    <2>4. pc' \in [Procs -> Labels] /\ JobFits' /\ ProbesFit'
      BY <1>10, StepFits DEF AddPromote, At, AddLabels, RecLabels, Labels
    <2>5. QED
      BY <1>1, <1>10, <2>2, <2>3, <2>4
         DEF AddPromote, TypeInv, TypeOK, DiskType, MemoryType, MishapType
  <1>11. CASE AddPromoteFails(p)
    <2>1. job[p] \in AddJob
      BY <1>1, <1>11 DEF AddPromoteFails, At, JobFits, AddLabels
    <2>2. staging' \in [Names -> Tree]
      BY <1>1, <1>11, <2>1, EmptyTyped DEF AddPromoteFails, DiskType, AddJob
    <2>3. QED
      BY <1>1, <1>11, <2>2, EndTyped
         DEF AddPromoteFails, TypeInv, TypeOK, DiskType, MemoryType, MishapType
  <1>12. QED
    BY <1>2, <1>3, <1>4, <1>5, <1>6, <1>7, <1>8, <1>9, <1>10, <1>11 DEF Add

\* Every step of writing a record keeps TypeInv.
LEMMA WriteRecordTyped ==
  ASSUME TypeInv, NEW p \in Procs, WriteRecord(p)
  PROVE  TypeInv'
  <1> USE DEF disk, memory, NoMishap
  <1>1. DiskType /\ MemoryType /\ MishapType /\ JobFits /\ ProbesFit
    BY TypeParts DEF TypeInv
  <1>2. CASE RecOpen(p)
    <2>1. staged' \in File
      BY <1>1, <1>2 DEF RecOpen, DiskType, File
    <2>2. pc' \in [Procs -> Labels] /\ JobFits' /\ ProbesFit'
      BY <1>2, StepFits DEF RecOpen, At, RecLabels, Labels
    <2>3. QED
      BY <1>1, <1>2, <2>1, <2>2
         DEF RecOpen, TypeInv, TypeOK, DiskType, MemoryType, MishapType
  <1>3. CASE RecFill(p)
    <2>1. snapshot[p] \in Record
      BY <1>1 DEF MemoryType
    <2>2. record' \in File /\ staged' \in File
      BY <1>1, <1>3, <2>1, FilledTyped DEF RecFill, DiskType
    <2>3. pc' \in [Procs -> Labels] /\ JobFits' /\ ProbesFit'
      BY <1>3, StepFits DEF RecFill, At, RecLabels, Labels
    <2>4. QED
      BY <1>1, <1>3, <2>2, <2>3
         DEF RecFill, TypeInv, TypeOK, DiskType, MemoryType, MishapType
  <1>4. CASE RecWriteFails(p)
    <2>1. record' \in File /\ staged' \in File
      BY <1>1, <1>4, ClosedTyped DEF RecWriteFails, DiskType
    <2>2. QED
      BY <1>1, <1>4, <2>1, EndTyped
         DEF RecWriteFails, TypeInv, TypeOK, DiskType, MemoryType, MishapType
  <1>5. NoSuchFile \in File
    BY DEF NoSuchFile, File
  <1>6. CASE RecPromote(p)
    <2>1. record' \in File /\ staged' \in File
      BY <1>1, <1>5, <1>6 DEF RecPromote, DiskType
    <2>2. CASE End(p)
      BY <1>1, <1>6, <2>1, <2>2, EndTyped
         DEF RecPromote, TypeInv, TypeOK, DiskType, MemoryType, MishapType
    <2>3. CASE job[p].op = "remove" /\ Go(p, "rm_dir") /\ UNCHANGED memory
      <3>1. pc' \in [Procs -> Labels] /\ JobFits' /\ ProbesFit'
        BY <1>6, <2>3, StepFits DEF RecPromote, At, RecLabels, RmLabels, Labels
      <3>2. QED
        BY <1>1, <1>6, <2>1, <2>3, <3>1
           DEF RecPromote, TypeInv, TypeOK, DiskType, MemoryType, MishapType
    <2>4. QED
      BY <1>6, <2>2, <2>3 DEF RecPromote
  <1>7. CASE RecPromoteFails(p)
    BY <1>1, <1>5, <1>7, EndTyped
       DEF RecPromoteFails, TypeInv, TypeOK, DiskType, MemoryType, MishapType
  <1>8. QED
    BY <1>2, <1>3, <1>4, <1>6, <1>7 DEF WriteRecord

\* Every step of a command to remove keeps TypeInv.
LEMMA RemoveTyped ==
  ASSUME TypeInv, NEW p \in Procs, Remove(p)
  PROVE  TypeInv'
  <1> USE DEF disk, memory, NoMishap
  <1>1. DiskType /\ MemoryType /\ MishapType /\ JobFits /\ ProbesFit
    BY TypeParts DEF TypeInv
  <1>2. CASE RemoveBegin(p)
    <2>1. PICK n \in Names : Begin(p, "rm_read", [op |-> "remove", name |-> n])
      BY <1>2 DEF RemoveBegin
    <2>2. [op |-> "remove", name |-> n] \in RemoveJob
      BY DEF RemoveJob
    <2>3. QED
      BY <1>2, <2>1, <2>2, BeginFits DEF RemoveBegin
  <1>3. CASE RemoveRead(p)
    <2>1. job[p] \in RemoveJob /\ job[p].name \in Names
      BY <1>1, <1>3 DEF RemoveRead, At, JobFits, RmLabels, RemoveJob
    <2>2. Readable(record) \in Record
      BY <1>1, <1>3, ReadableTyped DEF RemoveRead, DiskType
    <2>3. snapshot' \in [Procs -> Record]
      BY <1>1, <1>3, <2>1, <2>2, RecordUpdated DEF RemoveRead, MemoryType
    <2>4. pc' \in [Procs -> Labels] /\ JobFits' /\ ProbesFit'
      BY <1>3, StepFits DEF RemoveRead, At, RmLabels, RecLabels, Labels
    <2>5. QED
      BY <1>1, <1>3, <2>3, <2>4
         DEF RemoveRead, TypeInv, TypeOK, DiskType, MemoryType, MishapType
  <1>4. CASE RemoveRefuse(p)
    <2>1. End(p) /\ UNCHANGED <<disk, crashes, edits>>
      BY <1>4 DEF RemoveRefuse
    <2>2. QED
      BY <1>1, <2>1, EndTyped, TypeParts DEF TypeInv, DiskType, MishapType, TypeOK, MemoryType
  <1>5. CASE RemoveDir(p)
    <2>1. job[p] \in RemoveJob /\ job[p].name \in Names
      BY <1>1, <1>5 DEF RemoveDir, At, JobFits, RmLabels, RemoveJob
    <2>2. CASE \E t \in Unlinked(dir[job[p].name]) :
                 dir' = [dir EXCEPT ![job[p].name] = t]
               /\ UNCHANGED <<pc, memory>>
      <3>1. dir' \in [Names -> Tree]
        BY <1>1, <2>1, <2>2, UnlinkedTyped DEF DiskType
      <3>2. QED
        BY <1>1, <1>5, <2>2, <3>1
           DEF RemoveDir, TypeInv, TypeOK, DiskType, MemoryType, MishapType,
               JobFits, ProbesFit, Writing
    <2>3. CASE End(p) /\ UNCHANGED dir
      BY <1>1, <1>5, <2>3, EndTyped
         DEF RemoveDir, TypeInv, TypeOK, DiskType, MemoryType, MishapType
    <2>4. QED
      BY <1>5, <2>2, <2>3 DEF RemoveDir
  <1>6. QED
    BY <1>2, <1>3, <1>4, <1>5 DEF Remove

\* Every step of a command to run keeps TypeInv.
LEMMA RunPluginTyped ==
  ASSUME TypeInv, NEW p \in Procs, RunPlugin(p)
  PROVE  TypeInv'
  <1> USE DEF disk, memory, NoMishap
  <1>1. DiskType /\ MemoryType /\ MishapType /\ JobFits /\ ProbesFit
    BY TypeParts DEF TypeInv
  <1>2. ASSUME End(p), UNCHANGED <<disk, crashes, edits>>
        PROVE  TypeInv'
    BY <1>1, <1>2, EndTyped, TypeParts DEF TypeInv, DiskType, MishapType, TypeOK, MemoryType
  <1>3. ASSUME pc[p] \in RunLabels
        PROVE  job[p] \in RunJob /\ job[p].name \in Names
    BY <1>1, <1>3 DEF JobFits, RunJob
  <1>4. CASE RunBegin(p)
    <2>1. PICK n \in Names, action \in Actions \cup {Unnamed}, engine \in Engines :
            Begin(p, "run_read",
                  [op |-> "run", name |-> n, action |-> action, engine |-> engine,
                   probe |-> 0, manifest |-> NoFile])
      BY <1>4 DEF RunBegin
    <2>2. [op |-> "run", name |-> n, action |-> action, engine |-> engine,
           probe |-> 0, manifest |-> NoFile] \in RunJob
      BY DEF RunJob
    <2>3. QED
      BY <2>1, <2>2, BeginFits
  <1>5. CASE RunRead(p)
    <2>1. snapshot' \in [Procs -> Record]
      BY <1>1, <1>5, ReadableTyped DEF RunRead, DiskType, MemoryType
    <2>2. pc' \in [Procs -> Labels] /\ JobFits' /\ ProbesFit'
      BY <1>5, StepFits DEF RunRead, At, RunLabels, Labels
    <2>3. QED
      BY <1>1, <1>5, <2>1, <2>2
         DEF RunRead, TypeInv, TypeOK, DiskType, MemoryType, MishapType
  <1>6. CASE RunRefuse(p)
    BY <1>2, <1>6 DEF RunRefuse
  <1>7. CASE RunList(p)
    <2>1. CASE End(p)
      BY <1>2, <1>7, <2>1 DEF RunList
    <2>2. CASE ~(dir[job[p].name] = Absent)
      <3>1. todo' \in [Procs -> SUBSET Files] /\ seen' \in [Procs -> Tree]
        BY <1>1, <1>7, <2>2, EmptyTyped DEF RunList, MemoryType, Held
      <3>2. pc' \in [Procs -> Labels] /\ JobFits' /\ ProbesFit'
        BY <1>7, <2>2, StepFits DEF RunList, At, RunLabels, Labels
      <3>3. QED
        BY <1>1, <1>7, <2>2, <3>1, <3>2
           DEF RunList, TypeInv, TypeOK, DiskType, MemoryType, MishapType
    <2>3. QED
      BY <1>7, <2>1, <2>2 DEF RunList
  <1>8. CASE RunHash(p)
    <2>1. PICK f \in todo[p] :
            IF dir[job[p].name][f] = NoFile
            THEN End(p)
            ELSE /\ seen' = [seen EXCEPT ![p][f] = dir[job[p].name][f]]
                 /\ todo' = [todo EXCEPT ![p] = @ \ {f}]
                 /\ UNCHANGED <<pc, job, snapshot>>
      BY <1>8 DEF RunHash
    <2>2. CASE dir[job[p].name][f] = NoFile
      BY <1>2, <1>8, <2>1, <2>2 DEF RunHash
    <2>3. CASE dir[job[p].name][f] # NoFile
      <3>1. job[p].name \in Names /\ f \in Files
        BY <1>1, <1>3, <1>8 DEF RunHash, At, RunLabels, MemoryType
      <3>2. dir[job[p].name][f] \in Bytes \cup {NoFile} /\ seen[p] \in Tree
        BY <1>1, <3>1 DEF DiskType, MemoryType, Tree
      <3>3. [seen[p] EXCEPT ![f] = dir[job[p].name][f]] \in Tree
        BY <3>1, <3>2, TreeUpdated
      <3>4. seen' \in [Procs -> Tree] /\ todo' \in [Procs -> SUBSET Files]
        BY <1>1, <2>1, <2>3, <3>3 DEF MemoryType
      <3>5. QED
        BY <1>1, <1>8, <2>1, <2>3, <3>4
           DEF RunHash, TypeInv, TypeOK, DiskType, MemoryType, MishapType,
               JobFits, ProbesFit, Writing
    <2>4. QED
      BY <2>2, <2>3
  <1>9. CASE RunCompare(p)
    <2>1. CASE End(p)
      BY <1>2, <1>9, <2>1 DEF RunCompare
    <2>2. CASE Go(p, "run_manifest") /\ UNCHANGED memory
      <3>1. pc' \in [Procs -> Labels] /\ JobFits' /\ ProbesFit'
        BY <1>9, <2>2, StepFits DEF RunCompare, At, RunLabels, Labels
      <3>2. QED
        BY <1>1, <1>9, <2>2, <3>1
           DEF RunCompare, TypeInv, TypeOK, DiskType, MemoryType, MishapType
    <2>3. QED
      BY <1>9, <2>1, <2>2 DEF RunCompare
  <1>10. ASSUME NEW j \in RunJob, NEW label \in RunLabels, Go(p, label),
                pc[p] \in RunLabels,
                job' = [job EXCEPT ![p] = j],
                label # "run_sole" /\ j.action = Unnamed => j.probe \in {0, 1},
                label \in {"run_start", "started"} =>
                    j.action \in Actions /\ j.manifest \in Bytes,
                UNCHANGED <<disk, snapshot, todo, seen, crashes, edits>>
         PROVE  TypeInv'
    <2>1. pc' = [pc EXCEPT ![p] = label] /\ label \in Labels
      BY <1>10 DEF Go, RunLabels, Labels
    <2>2. TypeOK'
      BY <1>1, <1>10, <2>1 DEF TypeOK, DiskType, MemoryType, MishapType
    <2>3. JobFits'
      BY <1>1, <1>10, <2>1 DEF MemoryType, JobFits, AddLabels, RecLabels, RmLabels, RunLabels,
         Writing, RunJob, AddJob
    <2>4. ProbesFit'
      BY <1>1, <1>10, <2>1 DEF MemoryType, ProbesFit
    <2>5. QED
      BY <2>2, <2>3, <2>4 DEF TypeInv
  <1>11. CASE RunManifest(p)
    <2> DEFINE m == dir[job[p].name][Manifest]
    <2>1. job[p] \in RunJob /\ job[p].name \in Names /\ pc[p] = "run_manifest"
      BY <1>3, <1>11 DEF RunManifest, At, RunLabels
    <2>2. m \in Bytes \cup {NoFile}
      BY <1>1, <2>1, TreeAssumption DEF DiskType, Tree
    <2>3. CASE End(p)
      BY <1>2, <1>11, <2>3 DEF RunManifest
    <2>4. CASE /\ m # NoFile /\ job[p].action \in Meaning[m].actions
               /\ \E a \in IF job[p].probe = 2 THEN Meaning[m].actions ELSE {job[p].action} :
                     job' = [job EXCEPT ![p] = [@ EXCEPT !.manifest = m, !.action = a]]
               /\ Go(p, "run_start")
               /\ UNCHANGED <<snapshot, todo, seen>>
      <3>1. m \in Bytes /\ Meaning[m].actions \subseteq Actions
        BY <2>2, <2>4, TreeAssumption
      <3>2. PICK a \in Meaning[m].actions :
              job' = [job EXCEPT ![p] = [@ EXCEPT !.manifest = m, !.action = a]]
        BY <2>4
      <3> DEFINE j == [job[p] EXCEPT !.manifest = m, !.action = a]
      <3>3. a \in Actions /\ a # Unnamed
        BY <3>1, <3>2, TreeAssumption
      <3>4. j \in RunJob /\ j.action = a /\ j.manifest = m
        BY <2>1, <3>1, <3>3 DEF RunJob
      <3>5. job' = [job EXCEPT ![p] = j]
        BY <1>1, <3>2 DEF MemoryType
      <3>6. UNCHANGED <<disk, snapshot, todo, seen, crashes, edits>>
        BY <1>11, <2>4 DEF RunManifest
      <3>7. "run_start" \in RunLabels /\ "run_manifest" \in RunLabels
        BY DEF RunLabels
      <3> HIDE DEF j
      <3>8. QED
        BY <1>10, <2>1, <2>4, <3>1, <3>3, <3>4, <3>5, <3>6, <3>7
    <2>5. CASE /\ job[p].action = Unnamed
               /\ job' = [job EXCEPT ![p].probe = @ + 1]
               /\ Go(p, IF job[p].probe = 0 THEN "run_list" ELSE "run_sole")
               /\ UNCHANGED <<snapshot, todo, seen>>
      <3>1. job[p].probe \in {0, 1}
        BY <1>1, <2>1, <2>5 DEF ProbesFit, RunLabels
      <3>2. [job[p] EXCEPT !.probe = job[p].probe + 1] \in RunJob
        BY <2>1, <3>1 DEF RunJob
      <3>3. [job[p] EXCEPT !.probe = job[p].probe + 1].probe = job[p].probe + 1
        BY <2>1 DEF RunJob
      <3>4. job' = [job EXCEPT ![p] = [job[p] EXCEPT !.probe = job[p].probe + 1]]
        BY <1>1, <2>5 DEF MemoryType
      <3>5. UNCHANGED <<disk, snapshot, todo, seen, crashes, edits>>
        BY <1>11, <2>5 DEF RunManifest
      <3>6. {"run_list", "run_sole", "run_manifest"} \subseteq RunLabels
        BY DEF RunLabels
      <3> DEFINE j == [job[p] EXCEPT !.probe = job[p].probe + 1]
      <3>7. CASE job[p].probe = 0
        <4>1. Go(p, "run_list") /\ j.probe = 1
          BY <2>5, <3>3, <3>7
        <4> HIDE DEF j
        <4>2. QED
          BY <1>10, <2>1, <3>2, <3>4, <3>5, <3>6, <4>1 DEF j
      <3>8. CASE job[p].probe = 1
        <4>1. Go(p, "run_sole")
          BY <2>5, <3>8
        <4>2. QED
          BY <1>10, <2>1, <3>2, <3>4, <3>5, <3>6, <4>1
      <3>9. QED
        BY <3>1, <3>7, <3>8
    <2>6. QED
      BY <1>11, <2>3, <2>4, <2>5 DEF RunManifest
  <1>12. CASE RunSole(p)
    <2> DEFINE m == dir[job[p].name][Manifest]
    <2>1. job[p] \in RunJob /\ job[p].name \in Names /\ pc[p] = "run_sole"
      BY <1>3, <1>12 DEF RunSole, At, RunLabels
    <2>2. m \in Bytes \cup {NoFile}
      BY <1>1, <2>1, TreeAssumption DEF DiskType, Tree
    <2>3. CASE End(p)
      BY <1>2, <1>12, <2>3 DEF RunSole
    <2>4. CASE /\ m # NoFile
               /\ \E action \in Meaning[m].actions :
                     job' = [job EXCEPT ![p].action = action]
               /\ Go(p, "run_list")
               /\ UNCHANGED <<snapshot, todo, seen>>
      <3>1. PICK action \in Meaning[m].actions : job' = [job EXCEPT ![p].action = action]
        BY <2>4
      <3>2. action \in Actions /\ action # Unnamed
        BY <2>2, <2>4, TreeAssumption
      <3>3. [job[p] EXCEPT !.action = action] \in RunJob
        BY <2>1, <3>2 DEF RunJob
      <3>4. [job[p] EXCEPT !.action = action].action = action
        BY <2>1 DEF RunJob
      <3>5. job' = [job EXCEPT ![p] = [job[p] EXCEPT !.action = action]]
        BY <1>1, <3>1 DEF MemoryType
      <3>6. UNCHANGED <<disk, snapshot, todo, seen, crashes, edits>>
        BY <1>12, <2>4 DEF RunSole
      <3>7. "run_list" \in RunLabels /\ "run_sole" \in RunLabels
        BY DEF RunLabels
      <3>8. QED
        BY <1>10, <2>1, <2>4, <3>2, <3>3, <3>4, <3>5, <3>6, <3>7
    <2>5. QED
      BY <1>12, <2>3, <2>4 DEF RunSole
  <1>13. CASE RunStart(p)
    <2>1. CASE End(p)
      BY <1>2, <1>13, <2>1 DEF RunStart
    <2>2. CASE /\ seen' = [seen EXCEPT ![p] = dir[job[p].name]]
               /\ Go(p, "started")
               /\ UNCHANGED <<job, snapshot, todo>>
      <3>1. job[p].name \in Names
        BY <1>3, <1>13 DEF RunStart, At, RunLabels
      <3>2. seen' \in [Procs -> Tree]
        BY <1>1, <2>2, <3>1 DEF DiskType, MemoryType
      <3>3. pc' \in [Procs -> Labels] /\ JobFits' /\ ProbesFit'
        BY <1>13, <2>2, StepFits DEF RunStart, At, Labels
      <3>4. QED
        BY <1>1, <1>13, <2>2, <3>2, <3>3
           DEF RunStart, TypeInv, TypeOK, DiskType, MemoryType, MishapType
    <2>3. QED
      BY <1>13, <2>1, <2>2 DEF RunStart
  <1>14. CASE RunPrepareFails(p)
    BY <1>2, <1>14 DEF RunPrepareFails
  <1>15. CASE RunEnd(p)
    BY <1>2, <1>15 DEF RunEnd
  <1>16. QED
    BY <1>4, <1>5, <1>6, <1>7, <1>8, <1>9, <1>11, <1>12, <1>13, <1>14, <1>15
       DEF RunPlugin

\* A killed command, and an edit by hand, keep TypeInv.
LEMMA CrashTyped ==
  ASSUME TypeInv, NEW p \in Procs, Crash(p)
  PROVE  TypeInv'
  <1>1. DiskType /\ MemoryType /\ MishapType
    BY TypeParts DEF TypeInv
  <1>2. record' \in File /\ staged' \in File
    BY <1>1, ClosedTyped DEF Crash, DiskType
  <1>3. crashes' \in 0..MaxCrashes
    BY <1>1, StoreAssumption DEF Crash, MishapType
  <1>4. QED
    BY <1>1, <1>2, <1>3, EndTyped
       DEF Crash, TypeInv, TypeOK, DiskType, MemoryType, MishapType

LEMMA EditTyped ==
  ASSUME TypeInv, Edit
  PROVE  TypeInv'
  <1>1. DiskType /\ MemoryType /\ MishapType
    BY TypeParts DEF TypeInv
  <1>2. PICK n \in Names, f \in Files, b \in HandWritten :
          dir' = [dir EXCEPT ![n][f] = b]
    BY DEF Edit
  <1>3. [dir[n] EXCEPT ![f] = b] \in Tree
    BY <1>1, StoreAssumption, TreeUpdated DEF DiskType
  <1>4. dir' \in [Names -> Tree]
    BY <1>1, <1>2, <1>3 DEF DiskType
  <1>5. edits' \in 0..MaxEdits
    BY <1>1, StoreAssumption DEF Edit, MishapType
  <1>6. QED
    BY <1>4, <1>5 DEF Edit, memory, TypeInv, TypeOK, JobFits, ProbesFit, Writing

LEMMA InitTyped == Init => TypeInv
  BY EmptyTyped, StoreAssumption
     DEF Init, TypeInv, TypeOK, JobFits, ProbesFit, Writing, File, NoSuchFile, Labels,
         AddLabels, RecLabels, RmLabels, RunLabels, NoJob, AddJob

LEMMA TypeInvStep == TypeInv /\ [Next]_vars => TypeInv'
  <1> SUFFICES ASSUME TypeInv, [Next]_vars PROVE TypeInv'
    OBVIOUS
  <1>1. CASE UNCHANGED vars
    BY <1>1 DEF vars, disk, memory, TypeInv, TypeOK, JobFits, ProbesFit, Writing
  <1>2. CASE Next
    BY <1>2, AddTyped, WriteRecordTyped, RemoveTyped, RunPluginTyped, CrashTyped, EditTyped
       DEF Next
  <1>3. QED
    BY <1>1, <1>2

\* Every variable holds a value of its kind, however many processes install,
\* remove and run at once, crash and fail.
THEOREM TypeCorrect == Spec => []TypeOK
  <1>1. TypeInv => TypeOK
    BY DEF TypeInv
  <1>2. QED
    BY <1>1, InitTyped, TypeInvStep, PTL DEF Spec

-----------------------------------------------------------------------------
(* Who moves, and what stays.                                              *)

StepOf(p) == Add(p) \/ WriteRecord(p) \/ Remove(p) \/ RunPlugin(p) \/ Crash(p)

\* A step of one process leaves the memory of the others alone.
LEMMA OthersKept ==
  ASSUME TypeInv, NEW p \in Procs, StepOf(p), NEW q \in Procs, q # p
  PROVE  /\ pc'[q] = pc[q] /\ job'[q] = job[q] /\ snapshot'[q] = snapshot[q]
         /\ todo'[q] = todo[q] /\ seen'[q] = seen[q]
  <1> USE DEF memory, End, Go, Begin, NoMishap, disk
  <1>1. MemoryType
    BY TypeParts DEF TypeInv
  <1>2. CASE Add(p)
    BY <1>1, <1>2 DEF MemoryType, Add, AddBegin, AddRead, AddRefuse, AddClear, AddWrite,
       AddWriteFails, AddCheck, AddRetire, AddPromote, AddPromoteFails
  <1>3. CASE WriteRecord(p)
    BY <1>1, <1>3 DEF MemoryType, WriteRecord, RecOpen, RecFill, RecWriteFails, RecPromote,
       RecPromoteFails
  <1>4. CASE Remove(p)
    BY <1>1, <1>4 DEF MemoryType, Remove, RemoveBegin, RemoveRead, RemoveRefuse, RemoveDir
  <1>5. CASE RunPlugin(p)
    BY <1>1, <1>5 DEF MemoryType, RunPlugin, RunBegin, RunRead, RunRefuse, RunList, RunHash,
       RunCompare, RunManifest, RunSole, RunStart, RunPrepareFails, RunEnd
  <1>6. CASE Crash(p)
    BY <1>1, <1>6 DEF MemoryType, Crash
  <1>7. QED
    BY <1>2, <1>3, <1>4, <1>5, <1>6 DEF StepOf

\* A process that is idle takes a step only to begin a command.
LEMMA IdleBegins ==
  ASSUME TypeInv, NEW p \in Procs, StepOf(p), Idle(p)
  PROVE  MayBegin(p)
  BY DEF StepOf, Idle, At, Add, AddBegin, AddRead, AddRefuse, AddClear, AddWrite,
     AddWriteFails, AddCheck, AddRetire, AddPromote, AddPromoteFails,
     WriteRecord, RecOpen, RecFill, RecWriteFails, RecPromote, RecPromoteFails,
     Remove, RemoveBegin, RemoveRead, RemoveRefuse, RemoveDir,
     RunPlugin, RunBegin, RunRead, RunRefuse, RunList, RunHash, RunCompare, RunManifest,
     RunSole, RunStart, RunPrepareFails, RunEnd, Crash, Begin

LEMMA NextOf == Next <=> (\E p \in Procs : StepOf(p)) \/ Edit
  BY DEF Next, StepOf

\* With Exclusive no second command is begun.
LEMMA OneCommandStep ==
  ASSUME TypeInv, OneCommand, [Next]_vars
  PROVE  OneCommand'
  <1>1. CASE UNCHANGED pc
    BY <1>1 DEF OneCommand, Idle
  <1>2. ASSUME NEW p \in Procs, StepOf(p)
        PROVE  OneCommand'
    <2> SUFFICES ASSUME Exclusive, NEW q \in Procs, NEW r \in Procs,
                        ~Idle(q)', ~Idle(r)', q # r
                 PROVE  FALSE
      BY DEF OneCommand
    <2>1. CASE q # p /\ r # p
      BY <1>2, <2>1, OthersKept DEF OneCommand, Idle
    <2>2. ASSUME NEW s \in Procs, s # p, ~Idle(s)'
          PROVE  FALSE
      <3>1. ~Idle(s)
        BY <1>2, <2>2, OthersKept DEF Idle
      <3>2. Idle(p)
        BY <2>2, <3>1 DEF OneCommand
      <3>3. QED
        BY <1>2, <3>1, <3>2, IdleBegins DEF MayBegin
    <2>3. QED
      BY <2>1, <2>2
  <1>3. CASE Edit
    BY <1>1, <1>3 DEF Edit
  <1>4. QED
    BY <1>1, <1>2, <1>3, NextOf DEF vars

\* While a process writes no other does.
LEMMA WritesAlone ==
  ASSUME TypeInv, OneWriter, OneCommand,
         NEW p \in Procs, NEW q \in Procs, Writing(p), Writing(q)
  PROVE  p = q
  BY DEF TypeInv, JobFits, OneWriter, OneCommand, Idle, Writing, AddLabels, RecLabels, RmLabels

-----------------------------------------------------------------------------
(* The record and the staged file.                                         *)

\* The steps that neither write nor close a record file.
ElsewhereOf(p) == Add(p) \/ Remove(p) \/ RunPlugin(p)

LEMMA ElsewhereKeepsRecord ==
  ASSUME TypeInv, NEW p \in Procs, ElsewhereOf(p)
  PROVE  /\ UNCHANGED <<record, staged>>
         /\ ~At(p, "rec_fill") /\ ~At(p, "rec_fill")'
         /\ ~At(p, "rec_promote") /\ ~At(p, "rec_promote")'
  <1> USE DEF memory, End, Go, Begin, NoMishap, disk, At, MayBegin, Idle
  <1>1. pc \in [Procs -> Labels]
    BY DEF TypeInv, TypeOK
  <1>2. CASE Add(p)
    BY <1>1, <1>2 DEF Add, AddBegin, AddRead, AddRefuse, AddClear, AddWrite,
       AddWriteFails, AddCheck, AddRetire, AddPromote, AddPromoteFails
  <1>3. CASE Remove(p)
    BY <1>1, <1>3 DEF Remove, RemoveBegin, RemoveRead, RemoveRefuse, RemoveDir
  <1>4. CASE RunPlugin(p)
    BY <1>1, <1>4 DEF RunPlugin, RunBegin, RunRead, RunRefuse, RunList, RunHash,
       RunCompare, RunManifest, RunSole, RunStart, RunPrepareFails, RunEnd
  <1>5. QED
    BY <1>2, <1>3, <1>4 DEF ElsewhereOf

\* With nobody open to write it, the staged file is kept by whoever fills it.
LEMMA StagedAlone ==
  ASSUME TypeInv, OneWriter, OneCommand, RecordFits, NEW p \in Procs, Writing(p)
  PROVE  /\ staged.writers \subseteq {p}
         /\ \A q \in Procs : q # p => ~At(q, "rec_fill") /\ ~At(q, "rec_promote")
  <1>1. \A q \in Procs : At(q, "rec_fill") \/ At(q, "rec_promote") => q = p
    BY WritesAlone DEF At, Writing, RecLabels
  <1>2. staged.writers \in SUBSET Procs
    BY DEF TypeInv, TypeOK, File
  <1>3. QED
    BY <1>1, <1>2 DEF RecordFits

\* A killed command leaves the two files as they are, no longer open.
LEMMA RecordFitsStep ==
  ASSUME TypeInv, OneWriter, OneCommand, RecordFits, [Next]_vars
  PROVE  RecordFits'
  <1> USE DEF Go, At
  <1>1. record \in File /\ staged \in File /\ pc \in [Procs -> Labels]
    BY DEF TypeInv, TypeOK
  <1>2. CASE UNCHANGED <<record, staged, pc, snapshot>>
    BY <1>2 DEF RecordFits
  <1>3. ASSUME NEW p \in Procs, ElsewhereOf(p)
        PROVE  RecordFits'
    <2>1. \A q \in Procs : q # p => pc'[q] = pc[q] /\ snapshot'[q] = snapshot[q]
      BY <1>3, OthersKept DEF ElsewhereOf, StepOf
    <2>2. QED
      BY <1>1, <1>3, <2>1, ElsewhereKeepsRecord DEF RecordFits, File
  <1>4. ASSUME NEW p \in Procs, WriteRecord(p)
        PROVE  RecordFits'
    <2>1. pc[p] \in RecLabels
      BY <1>4 DEF WriteRecord, RecOpen, RecFill, RecWriteFails, RecPromote,
         RecPromoteFails, RecLabels
    <2>2. /\ staged.writers \subseteq {p}
          /\ \A q \in Procs : q # p => pc[q] # "rec_fill" /\ pc[q] # "rec_promote"
      BY <2>1, StagedAlone DEF Writing
    <2>3. \A q \in Procs : q # p => pc'[q] = pc[q] /\ snapshot'[q] = snapshot[q]
      BY <1>4, OthersKept DEF StepOf
    <2>4. snapshot[p] \in Record /\ snapshot[p] # Torn
      BY StoreAssumption DEF TypeInv, TypeOK
    <2>5. CASE RecOpen(p)
      <3>1. p \notin staged.writers
        BY <2>5 DEF RecOpen, RecordFits
      <3>2. staged' = [content |-> Torn, writers |-> {p}]
        BY <2>2, <2>5, <3>1 DEF RecOpen
      <3>3. record' = record /\ pc'[p] = "rec_fill"
        BY <1>1, <2>5 DEF RecOpen
      <3>4. QED
        BY <2>2, <2>3, <3>2, <3>3 DEF RecordFits
    <2>6. CASE RecFill(p)
      <3>1. staged = [content |-> Torn, writers |-> {p}] /\ record.writers = {}
        BY <2>6 DEF RecFill, RecordFits
      <3>2. staged' = [content |-> snapshot[p], writers |-> {}] /\ record' = record
        BY <2>6, <3>1 DEF RecFill, Filled
      <3>3. pc'[p] = "rec_promote" /\ snapshot'[p] = snapshot[p]
        BY <1>1, <2>6 DEF RecFill, memory
      <3>4. QED
        BY <2>2, <2>3, <3>2, <3>3 DEF RecordFits
    <2>7. CASE RecWriteFails(p)
      <3>1. /\ record'.content = record.content /\ record'.writers = {}
            /\ staged'.writers = {} /\ pc'[p] = "idle"
        BY <1>1, <2>2, <2>7 DEF RecWriteFails, RecordFits, Closed, End, File
      <3>2. QED
        BY <2>2, <2>3, <3>1 DEF RecordFits
    <2>8. CASE RecPromote(p)
      <3>1. record' = [content |-> snapshot[p], writers |-> {}]
        BY <2>8 DEF RecPromote, RecordFits
      <3>2. staged'.writers = {} /\ pc'[p] \in {"idle", "rm_dir"}
        BY <1>1, <2>8 DEF RecPromote, NoSuchFile, End
      <3>3. QED
        BY <2>2, <2>3, <2>4, <3>1, <3>2 DEF RecordFits
    <2>9. CASE RecPromoteFails(p)
      <3>1. record' = record /\ staged'.writers = {} /\ pc'[p] = "idle"
        BY <1>1, <2>9 DEF RecPromoteFails, NoSuchFile, End
      <3>2. QED
        BY <2>2, <2>3, <3>1 DEF RecordFits
    <2>10. QED
      BY <1>4, <2>5, <2>6, <2>7, <2>8, <2>9 DEF WriteRecord
  <1>5. ASSUME NEW p \in Procs, Crash(p)
        PROVE  RecordFits'
    <2>1. \A q \in Procs : q # p => pc'[q] = pc[q] /\ snapshot'[q] = snapshot[q]
      BY <1>5, OthersKept DEF StepOf
    <2>2. pc'[p] = "idle"
      BY <1>1, <1>5 DEF Crash, End
    <2>3. /\ record'.content = record.content /\ record'.writers = {}
          /\ staged'.content = staged.content /\ staged'.writers = staged.writers \ {p}
      BY <1>1, <1>5 DEF Crash, Closed, RecordFits, File
    <2>4. ASSUME NEW q \in Procs, q # p, pc[q] \in {"rec_fill", "rec_promote"}
          PROVE  staged' = staged
      <3>1. p \notin staged.writers
        BY <2>4, StagedAlone, WritesAlone DEF Writing, RecLabels, RecordFits
      <3>2. QED
        BY <1>1, <1>5, <3>1 DEF Crash, Closed, File
    <2>5. QED
      <3>1. \A q \in staged'.writers : q \in Procs /\ pc'[q] = "rec_fill"
        BY <1>1, <2>1, <2>3 DEF RecordFits, File
      <3>2. ASSUME NEW q \in Procs, pc'[q] \in {"rec_fill", "rec_promote"}
            PROVE  q # p /\ staged' = staged /\ pc'[q] = pc[q] /\ snapshot'[q] = snapshot[q]
        BY <2>1, <2>2, <2>4, <3>2
      <3>3. QED
        BY <2>3, <3>1, <3>2 DEF RecordFits
  <1>6. CASE Edit
    BY <1>2, <1>6 DEF Edit, memory
  <1>7. QED
    BY <1>2, <1>3, <1>4, <1>5, <1>6, NextOf DEF StepOf, ElsewhereOf, vars, disk, memory

-----------------------------------------------------------------------------
(* What is recorded, and what a writer is about to record.                 *)

\* Only the promotion of the staged file changes what is recorded.
LEMMA RecordedKept ==
  ASSUME TypeInv, RecordFits, NEW p \in Procs,
         StepOf(p), ~RecPromote(p)
  PROVE  record'.content = record.content
  <1>1. record \in File /\ staged \in File
    BY DEF TypeInv, TypeOK
  <1>2. CASE ElsewhereOf(p)
    BY <1>2, ElsewhereKeepsRecord
  <1>3. CASE RecOpen(p)
    BY <1>3 DEF RecOpen
  <1>4. CASE RecFill(p)
    BY <1>4 DEF RecFill, RecordFits
  <1>5. CASE RecWriteFails(p)
    BY <1>1, <1>5 DEF RecWriteFails, Closed, File
  <1>6. CASE RecPromoteFails(p)
    BY <1>6 DEF RecPromoteFails
  <1>7. CASE Crash(p)
    BY <1>1, <1>7 DEF Crash, Closed, File
  <1>8. QED
    BY <1>2, <1>3, <1>4, <1>5, <1>6, <1>7 DEF StepOf, ElsewhereOf, WriteRecord

\* The promotion records what the writer has made of the record.
LEMMA RecordedPromoted ==
  ASSUME TypeInv, RecordFits, NEW p \in Procs, RecPromote(p)
  PROVE  record'.content = snapshot[p] /\ Recorded' = snapshot[p]
  <1>1. record'.content = snapshot[p]
    BY DEF RecPromote, RecordFits
  <1>2. snapshot[p] \notin {Torn, Missing}
    BY StoreAssumption DEF TypeInv, TypeOK
  <1>3. QED
    BY <1>1, <1>2 DEF Recorded

\* What is recorded is a record.
LEMMA RecordedTyped ==
  ASSUME TypeInv
  PROVE  Recorded \in Record
  BY EmptyTyped DEF TypeInv, TypeOK, File, Recorded

\* A readable record is what a reader makes of it.
LEMMA ReadsRecorded ==
  ASSUME record.content # Torn
  PROVE  Readable(record) = Recorded
  BY DEF Readable, Recorded

LEMMA SnapshotFitsStep ==
  ASSUME TypeInv, OneWriter, OneCommand, RecordFits, SnapshotFits, [Next]_vars
  PROVE  SnapshotFits'
  <1> USE DEF Go, At
  <1>1. /\ pc \in [Procs -> Labels] /\ snapshot \in [Procs -> Record]
        /\ job \in [Procs -> RunJob \cup AddJob \cup RemoveJob \cup {NoJob}]
    BY DEF TypeInv, TypeOK
  <1>2. ASSUME UNCHANGED <<pc, job, snapshot>>, UNCHANGED record
        PROVE  SnapshotFits'
    BY <1>2 DEF SnapshotFits, SnapshotOf, Recorded
  <1>3. ASSUME NEW p \in Procs, StepOf(p), NEW q \in Procs, q # p, Writing(q)'
        PROVE  /\ pc'[q] = pc[q] /\ job'[q] = job[q] /\ snapshot'[q] = snapshot[q]
               /\ Recorded' = Recorded
    <2>1. pc'[q] = pc[q] /\ job'[q] = job[q] /\ snapshot'[q] = snapshot[q]
      BY <1>3, OthersKept
    <2>2. CASE RecPromote(p)
      <3>1. Writing(p) /\ Writing(q)
        BY <1>3, <2>1, <2>2 DEF RecPromote, Writing, RecLabels
      <3>2. QED
        BY <1>3, <3>1, WritesAlone
    <2>3. CASE ~RecPromote(p)
      BY <1>3, <2>1, <2>3, RecordedKept DEF Recorded
    <2>4. QED
      BY <2>1, <2>2, <2>3
  <1>4. ASSUME NEW p \in Procs, StepOf(p), ~RecPromote(p)
        PROVE  Recorded' = Recorded
    BY <1>4, RecordedKept DEF Recorded
  \* The process that moves: where it stands after its step, and with what.
  <1>5. ASSUME NEW p \in Procs, StepOf(p)
        PROVE  SnapshotOf(p)'
    <2> USE DEF AddLabels, RecLabels, memory, SnapshotOf
    <2>1. CASE pc'[p] \notin AddLabels \cup RecLabels \cup {"rm_dir"} \/ pc'[p] = "add_read"
      BY <2>1
    <2>2. CASE AddRead(p)
      <3>1. Readable(record) = Recorded /\ Recorded' = Recorded
        BY <1>4, <1>5, <2>2, ReadsRecorded DEF AddRead, disk, Recorded
      <3>2. QED
        BY <1>1, <2>2, <3>1 DEF AddRead
    <2>3. CASE AddClear(p) \/ AddWrite(p) \/ AddRetire(p)
      <3>1. Recorded' = Recorded
        BY <2>3 DEF AddClear, AddWrite, AddRetire, Recorded
      <3>2. /\ snapshot' = snapshot /\ job' = job
            /\ pc[p] \in AddLabels \ {"add_read"} /\ pc'[p] \in AddLabels
        BY <1>1, <2>3 DEF AddClear, AddWrite, AddRetire
      <3>3. QED
        BY <3>1, <3>2 DEF SnapshotFits
    <2>4. CASE AddCheck(p) /\ pc'[p] # "idle"
      <3>1. /\ Recorded' = Recorded /\ snapshot' = snapshot /\ job' = job
            /\ pc[p] = "add_write" /\ pc'[p] = "add_retire"
        BY <1>1, <2>4 DEF AddCheck, End, Recorded
      <3>2. QED
        BY <3>1 DEF SnapshotFits
    <2>5. CASE AddPromote(p)
      <3>1. job[p] \in AddJob
        BY <2>5 DEF TypeInv, JobFits, AddPromote
      <3>2. /\ Recorded' = Recorded /\ job' = job
            /\ snapshot'[p] = [snapshot[p] EXCEPT ![job[p].name] = EntryOf(job[p])]
            /\ pc[p] = "add_promote" /\ pc'[p] = "rec_open"
        BY <1>1, <2>5 DEF AddPromote, Recorded
      <3>3. QED
        BY <3>1, <3>2 DEF SnapshotFits, AddJob
    <2>6. CASE RecOpen(p) \/ RecFill(p)
      <3>1. /\ snapshot' = snapshot /\ job' = job
            /\ pc[p] \in RecLabels /\ pc'[p] \in RecLabels
        BY <1>1, <2>6 DEF RecOpen, RecFill
      <3>2. ~RecPromote(p)
        BY <2>6 DEF RecOpen, RecFill, RecPromote
      <3>3. QED
        BY <1>4, <1>5, <3>1, <3>2 DEF SnapshotFits
    <2>7. CASE RecPromote(p) /\ pc'[p] # "idle"
      <3>1. pc[p] = "rec_promote" /\ job[p].op = "remove" /\ pc'[p] = "rm_dir" /\ job' = job
        BY <1>1, <2>7 DEF RecPromote, End
      <3>2. Recorded' = [Recorded EXCEPT ![job[p].name] = NoEntry]
        BY <2>7, <3>1, RecordedPromoted DEF SnapshotFits
      <3>3. job[p] \in AddJob \cup RemoveJob /\ Recorded \in Record
        BY <3>1, EmptyTyped DEF TypeInv, TypeOK, JobFits, Recorded, File
      <3>4. job[p].name \in Names
        BY <3>3 DEF AddJob, RemoveJob
      <3>5. QED
        BY <3>1, <3>2, <3>3, <3>4 DEF Record
    <2>8. CASE RemoveRead(p)
      <3>1. Readable(record) = Recorded /\ Recorded' = Recorded /\ job' = job
        BY <2>8, ReadsRecorded DEF RemoveRead, disk, Recorded
      <3>2. job[p] \in RemoveJob /\ pc'[p] = "rec_open"
        BY <1>1, <2>8 DEF RemoveRead, TypeInv, JobFits, RmLabels
      <3>3. snapshot'[p] = [Recorded EXCEPT ![job[p].name] = NoEntry]
        BY <1>1, <2>8, <3>1 DEF RemoveRead
      <3>4. QED
        BY <3>1, <3>2, <3>3 DEF RemoveJob
    <2>9. CASE RemoveDir(p) /\ pc'[p] # "idle"
      <3>1. pc[p] = "rm_dir" /\ pc' = pc /\ job' = job /\ Recorded' = Recorded
        BY <1>1, <2>9 DEF RemoveDir, End, Recorded
      <3>2. QED
        BY <3>1 DEF SnapshotFits
    <2>10. CASE RunPlugin(p) \/ Crash(p) \/ AddBegin(p) \/ RemoveBegin(p) \/ AddRefuse(p)
                \/ AddWriteFails(p) \/ AddPromoteFails(p) \/ RecWriteFails(p)
                \/ RecPromoteFails(p) \/ RemoveRefuse(p)
      BY <1>1, <2>1, <2>10 DEF RunPlugin, RunBegin, RunRead, RunRefuse, RunList, RunHash,
         RunCompare, RunManifest, RunSole, RunStart, RunPrepareFails, RunEnd, Crash, AddBegin,
         RemoveBegin, AddRefuse, AddWriteFails, AddPromoteFails, RecWriteFails,
         RecPromoteFails, RemoveRefuse, End, Begin
    <2>11. CASE pc'[p] = "idle"
      BY <2>1, <2>11
    <2>12. QED
      BY <1>5, <2>2, <2>3, <2>4, <2>5, <2>6, <2>7, <2>8, <2>9, <2>10, <2>11
         DEF StepOf, Add, WriteRecord, Remove
  <1>6. ASSUME NEW p \in Procs, StepOf(p)
        PROVE  SnapshotFits'
    <2>1. \A q \in Procs : q # p /\ Writing(q)' =>
              /\ pc'[q] = pc[q] /\ job'[q] = job[q] /\ snapshot'[q] = snapshot[q]
              /\ Recorded' = Recorded
      BY <1>3, <1>6
    <2>2. SnapshotOf(p)'
      BY <1>5, <1>6
    <2>3. ASSUME NEW q \in Procs, q # p
          PROVE  SnapshotOf(q)'
      <3>1. SnapshotOf(q)
        BY DEF SnapshotFits
      <3>2. CASE Writing(q)'
        <4>1. /\ pc'[q] = pc[q] /\ job'[q] = job[q] /\ snapshot'[q] = snapshot[q]
              /\ Recorded' = Recorded
          BY <2>1, <2>3, <3>2
        <4>2. QED
          BY <3>1, <4>1 DEF SnapshotOf
      <3>3. CASE ~Writing(q)'
        BY <3>3 DEF SnapshotOf, Writing, RmLabels
      <3>4. QED
        BY <3>2, <3>3
    <2>4. \A q \in Procs : SnapshotOf(q)'
      BY <2>2, <2>3
    <2>5. QED
      BY <2>4 DEF SnapshotFits
  <1>7. CASE Edit
    BY <1>2, <1>7 DEF Edit, memory
  <1>8. QED
    BY <1>2, <1>6, <1>7, NextOf DEF vars, disk, memory

-----------------------------------------------------------------------------
(* What is installed.                                                      *)

\* A process that is not writing leaves the directories alone.
LEMMA ReadersKeepTrees ==
  ASSUME NEW p \in Procs, StepOf(p), ~Writing(p)
  PROVE  dir' = dir /\ staging' = staging
  <1> USE DEF At, Writing, AddLabels, RecLabels, RmLabels, disk
  <1>1. CASE Add(p)
    BY <1>1 DEF Add, AddBegin, AddRead, AddRefuse, AddClear, AddWrite,
       AddWriteFails, AddCheck, AddRetire, AddPromote, AddPromoteFails, Begin
  <1>2. CASE WriteRecord(p)
    BY <1>2 DEF WriteRecord, RecOpen, RecFill, RecWriteFails, RecPromote, RecPromoteFails
  <1>3. CASE Remove(p)
    BY <1>3 DEF Remove, RemoveBegin, RemoveRead, RemoveRefuse, RemoveDir, Begin
  <1>4. CASE RunPlugin(p)
    BY <1>4 DEF RunPlugin, RunBegin, RunRead, RunRefuse, RunList, RunHash, RunCompare,
       RunManifest, RunSole, RunStart, RunPrepareFails, RunEnd, Begin
  <1>5. CASE Crash(p)
    BY <1>5 DEF Crash
  <1>6. QED
    BY <1>1, <1>2, <1>3, <1>4, <1>5 DEF StepOf

LEMMA TreesFitStep ==
  ASSUME TypeInv, OneWriter, OneCommand, "clear" \notin Faults, TreesFit, [Next]_vars
  PROVE  TreesFit'
  <1> USE DEF Go, At
  <1>1. /\ pc \in [Procs -> Labels] /\ todo \in [Procs -> SUBSET Files]
        /\ job \in [Procs -> RunJob \cup AddJob \cup RemoveJob \cup {NoJob}]
        /\ dir \in [Names -> Tree] /\ staging \in [Names -> Tree]
    BY DEF TypeInv, TypeOK
  <1>2. ASSUME UNCHANGED <<pc, job, todo, dir, staging>>
        PROVE  TreesFit'
    BY <1>2 DEF TreesFit, TreesOf
  <1>3. ASSUME NEW p \in Procs, StepOf(p), NEW q \in Procs, q # p
        PROVE  TreesOf(q)'
    <2>1. pc'[q] = pc[q] /\ job'[q] = job[q] /\ todo'[q] = todo[q]
      BY <1>3, OthersKept
    <2>2. CASE Writing(q)
      <3>1. dir' = dir /\ staging' = staging
        BY <1>3, <2>2, WritesAlone, ReadersKeepTrees
      <3>2. QED
        BY <2>1, <3>1 DEF TreesFit, TreesOf
    <2>3. CASE ~Writing(q)
      BY <2>1, <2>3 DEF TreesOf, Writing, AddLabels, RecLabels, RmLabels
    <2>4. QED
      BY <2>2, <2>3
  \* The process that moves.
  <1>4. ASSUME NEW p \in Procs, StepOf(p)
        PROVE  TreesOf(p)'
    <2> USE DEF RecLabels, memory, TreesOf
    <2> DEFINE n == job[p].name
    <2>1. ASSUME pc[p] \in AddLabels
          PROVE  job[p] \in AddJob /\ n \in Names /\ job[p].tree \in Tree
      BY <2>1 DEF TypeInv, JobFits, AddJob
    <2>2. CASE AddClear(p)
      <3>1. CASE pc'[p] = "add_write"
        <4>1. staging[n] = Absent /\ staging' = staging /\ job' = job
              /\ todo'[p] = Held(job[p].tree)
          BY <1>1, <2>2, <3>1 DEF AddClear
        <4>2. QED
          BY <2>1, <2>2, <3>1, <4>1 DEF AddClear, AddLabels, Absent, Held
      <3>2. CASE pc'[p] # "add_write"
        BY <1>1, <2>2, <3>2 DEF AddClear
      <3>3. QED
        BY <3>1, <3>2
    <2>3. CASE AddWrite(p)
      <3>1. PICK f \in todo[p] :
              /\ staging' = [staging EXCEPT ![n][f] = job[p].tree[f]]
              /\ todo' = [todo EXCEPT ![p] = @ \ {f}]
        BY <2>3 DEF AddWrite
      <3>2. pc' = pc /\ job' = job /\ pc[p] = "add_write"
        BY <2>3 DEF AddWrite
      <3>3. ASSUME NEW g \in Files
            PROVE  staging'[n][g] = IF g \in todo'[p] THEN NoFile ELSE job[p].tree[g]
        <4>1. n \in Names /\ staging[n] \in Tree
          BY <1>1, <2>1, <3>2 DEF AddLabels
        <4>2. staging[n][g] = IF g \in todo[p] THEN NoFile ELSE job[p].tree[g]
          BY <3>2 DEF TreesFit
        <4>3. todo'[p] = todo[p] \ {f}
          BY <1>1, <3>1
        <4>4. staging'[n] = [staging[n] EXCEPT ![f] = job[p].tree[f]]
          BY <1>1, <3>1, <4>1
        <4>5. QED
          BY <4>1, <4>2, <4>3, <4>4 DEF Tree
      <3>4. QED
        BY <3>2, <3>3
    <2>4. CASE AddCheck(p) /\ pc'[p] # "idle"
      <3>1. /\ pc[p] = "add_write" /\ todo[p] = {} /\ job' = job /\ staging' = staging
            /\ pc'[p] = "add_retire"
        BY <1>1, <2>4 DEF AddCheck, End
      <3>2. \A f \in Files : staging[n][f] = job[p].tree[f]
        BY <3>1 DEF TreesFit
      <3>3. staging[n] = job[p].tree
        BY <1>1, <2>1, <3>1, <3>2 DEF AddLabels, Tree
      <3>4. QED
        BY <3>1, <3>3
    <2>5. CASE AddRetire(p)
      <3>1. /\ pc[p] = "add_retire" /\ job' = job /\ staging' = staging
            /\ pc'[p] \in {"add_retire", "add_promote"}
        BY <1>1, <2>5 DEF AddRetire
      <3>2. QED
        BY <3>1 DEF TreesFit
    <2>6. CASE AddPromote(p)
      <3>1. /\ pc[p] = "add_promote" /\ job' = job /\ pc'[p] = "rec_open"
            /\ dir' = [dir EXCEPT ![n] = staging[n]]
        BY <1>1, <2>6 DEF AddPromote
      <3>2. n \in Names /\ staging[n] = job[p].tree
        BY <2>1, <3>1 DEF TreesFit, AddLabels
      <3>3. QED
        BY <1>1, <3>1, <3>2
    <2>7. CASE RecOpen(p) \/ RecFill(p)
      <3>1. /\ pc[p] \in RecLabels /\ pc'[p] \in RecLabels /\ job' = job /\ dir' = dir
        BY <1>1, <2>7 DEF RecOpen, RecFill
      <3>2. QED
        BY <3>1 DEF TreesFit
    <2>8. CASE RemoveRead(p)
      <3>1. job[p] \in RemoveJob /\ job' = job /\ pc'[p] = "rec_open"
        BY <1>1, <2>8 DEF RemoveRead, TypeInv, JobFits, RmLabels
      <3>2. QED
        BY <3>1 DEF RemoveJob
    <2>9. CASE pc'[p] \notin {"add_write", "add_retire", "add_promote"} \cup RecLabels
      BY <2>9
    <2>10. CASE RunPlugin(p) \/ Crash(p) \/ AddBegin(p) \/ AddRead(p) \/ RemoveBegin(p)
                \/ AddRefuse(p) \/ AddWriteFails(p) \/ AddPromoteFails(p)
                \/ RecWriteFails(p) \/ RecPromote(p) \/ RecPromoteFails(p)
                \/ RemoveRefuse(p) \/ RemoveDir(p)
      BY <1>1, <2>9, <2>10 DEF RunPlugin, RunBegin, RunRead, RunRefuse, RunList, RunHash,
         RunCompare, RunManifest, RunSole, RunStart, RunPrepareFails, RunEnd, Crash, AddBegin,
         AddRead, RemoveBegin, AddRefuse, AddWriteFails, AddPromoteFails, RecWriteFails,
         RecPromote, RecPromoteFails, RemoveRefuse, RemoveDir, End, Begin
    <2>11. QED
      BY <1>4, <2>2, <2>3, <2>4, <2>5, <2>6, <2>7, <2>8, <2>9, <2>10
         DEF StepOf, Add, WriteRecord, Remove
  <1>5. CASE Edit
    <2>1. /\ \A p \in Procs : pc[p] = "idle"
          /\ pc' = pc
      BY <1>5 DEF Edit, Idle
    <2>2. QED
      BY <2>1 DEF TreesFit, TreesOf, RecLabels
  <1>6. QED
    BY <1>2, <1>3, <1>4, <1>5, NextOf DEF TreesFit, vars, disk, memory

-----------------------------------------------------------------------------
(* The theorems.                                                           *)

LEMMA WriterInvInit == Init => WriterInv /\ TreesFit
  <1>1. ASSUME Init PROVE OneCommand /\ RecordFits /\ SnapshotFits /\ TreesFit
    BY <1>1, StoreAssumption DEF Init, OneCommand, Idle, RecordFits, NoSuchFile, At, SnapshotFits, SnapshotOf,
       TreesFit, TreesOf, AddLabels, RecLabels
  <1>2. QED
    BY <1>1, InitTyped DEF WriterInv

LEMMA WriterInvStep ==
  ASSUME OneWriter, WriterInv, [Next]_vars
  PROVE  WriterInv'
  BY TypeInvStep, OneCommandStep, RecordFitsStep, SnapshotFitsStep DEF WriterInv

LEMMA WriterInvHolds ==
  ASSUME OneWriter
  PROVE  Spec => []WriterInv
  <1>1. WriterInv /\ [Next]_vars => WriterInv'
    BY WriterInvStep
  <1>2. QED
    BY <1>1, WriterInvInit, PTL DEF Spec

\* With one writer whose staging directories are cleared, what has been written
\* of a plugin is what is staged, and what is promoted is the whole of it: the
\* memory of every command agrees with the disk at each of its steps.
THEOREM WholeHolds ==
  ASSUME OneWriter, "clear" \notin Faults
  PROVE  Spec => []WholeInv
  <1>1. WholeInv /\ [Next]_vars => WholeInv'
    BY WriterInvStep, TreesFitStep DEF WholeInv, WriterInv
  <1>2. Init => WholeInv
    BY WriterInvInit DEF WholeInv
  <1>3. QED
    BY <1>1, <1>2, PTL DEF Spec

\* What one step may do to an installed directory: nothing, or take a file out
\* of it, or promote the tree of an offer of that name.
LEMMA DirStep ==
  ASSUME WholeInv, NEW p \in Procs, StepOf(p)
  PROVE  \/ dir' = dir
         \/ \E n \in Names : \E t \in Unlinked(dir[n]) : dir' = [dir EXCEPT ![n] = t]
         \/ \E o \in Offers : dir' = [dir EXCEPT ![o.name] = o.tree]
  <1>1. TypeInv /\ TreesFit
    BY DEF WholeInv, WriterInv
  <1>2. ASSUME pc[p] \in AddLabels \cup RmLabels
        PROVE  job[p].name \in Names
    BY <1>1, <1>2 DEF TypeInv, JobFits, AddJob, RemoveJob
  <1>3. CASE AddRetire(p) \/ RemoveDir(p)
    BY <1>2, <1>3 DEF AddRetire, RemoveDir, At, AddLabels, RmLabels
  <1>4. CASE AddPromote(p)
    <2>1. job[p] \in AddJob /\ OfferOf(job[p]) \in Offers
      BY <1>1, <1>4 DEF AddPromote, At, TypeInv, JobFits, AddLabels
    <2>2. staging[job[p].name] = job[p].tree
      BY <1>1, <1>4 DEF AddPromote, At, TreesFit, TreesOf
    <2>3. OfferOf(job[p]).name = job[p].name /\ OfferOf(job[p]).tree = job[p].tree
      BY DEF OfferOf
    <2>4. dir' = [dir EXCEPT ![job[p].name] = staging[job[p].name]]
      BY <1>4 DEF AddPromote
    <2>5. dir' = [dir EXCEPT ![OfferOf(job[p]).name] = OfferOf(job[p]).tree]
      BY <2>2, <2>3, <2>4
    <2>6. QED
      BY <2>1, <2>5
  <1>5. CASE ~(AddRetire(p) \/ RemoveDir(p) \/ AddPromote(p))
    <2>1. CASE Add(p)
      BY <1>5, <2>1 DEF Add, AddBegin, AddRead, AddRefuse, AddClear, AddWrite,
         AddWriteFails, AddCheck, AddPromoteFails, Begin, disk
    <2>2. CASE WriteRecord(p) \/ Crash(p)
      BY <2>2 DEF WriteRecord, RecOpen, RecFill, RecWriteFails, RecPromote,
         RecPromoteFails, Crash
    <2>3. CASE Remove(p)
      BY <1>5, <2>3 DEF Remove, RemoveBegin, RemoveRead, RemoveRefuse, Begin, disk
    <2>4. CASE RunPlugin(p)
      BY <2>4 DEF RunPlugin, RunBegin, RunRead, RunRefuse, RunList, RunHash, RunCompare,
         RunManifest, RunSole, RunStart, RunPrepareFails, RunEnd, Begin, disk
    <2>5. QED
      BY <2>1, <2>2, <2>3, <2>4 DEF StepOf
  <1>6. QED
    BY <1>3, <1>4, <1>5

\* A directory mixes no more than before when files of it are taken away, and
\* mixes nothing when it is the tree of an offer.
LEMMA StaysUnmixed ==
  ASSUME TypeOK, NoMixedTree, edits = 0, NEW n \in Names, NEW t,
         \/ \A f \in Files : t[f] \in {NoFile, dir[n][f]}
         \/ \E o \in Offers : o.name = n /\ t = o.tree,
         dir' = [dir EXCEPT ![n] = t]
  PROVE  NoMixedTree'
  <1>1. dir \in [Names -> Tree] /\ dir'[n] = t
    BY DEF TypeOK
  <1>2. ASSUME NEW m \in Names, m # n
        PROVE  dir'[m] = dir[m]
    BY <1>1, <1>2
  <1>3. CASE \A f \in Files : t[f] \in {NoFile, dir[n][f]}
    <2>1. Held(t) \subseteq Held(dir[n]) /\ \A g \in Held(t) : t[g] = dir[n][g]
      BY <1>3 DEF Held
    <2>2. QED
      BY <1>1, <1>2, <2>1 DEF NoMixedTree
  <1>4. CASE \E o \in Offers : o.name = n /\ t = o.tree
    BY <1>1, <1>2, <1>4 DEF NoMixedTree
  <1>5. QED
    BY <1>3, <1>4

\* No command counts as an edit by hand.
LEMMA StepsEditNothing ==
  ASSUME NEW p \in Procs, StepOf(p)
  PROVE  edits' = edits
  <1>1. CASE Add(p)
    BY <1>1 DEF Add, AddBegin, AddRead, AddRefuse, AddClear, AddWrite, AddWriteFails,
       AddCheck, AddRetire, AddPromote, AddPromoteFails, Begin, NoMishap
  <1>2. CASE WriteRecord(p) \/ Crash(p)
    BY <1>2 DEF WriteRecord, RecOpen, RecFill, RecWriteFails, RecPromote,
       RecPromoteFails, Crash, NoMishap
  <1>3. CASE Remove(p)
    BY <1>3 DEF Remove, RemoveBegin, RemoveRead, RemoveRefuse, RemoveDir, Begin, NoMishap
  <1>4. CASE RunPlugin(p)
    BY <1>4 DEF RunPlugin, RunBegin, RunRead, RunRefuse, RunList, RunHash, RunCompare,
       RunManifest, RunSole, RunStart, RunPrepareFails, RunEnd, Begin, NoMishap
  <1>5. QED
    BY <1>1, <1>2, <1>3, <1>4 DEF StepOf

\* With one writer whose staging directories are cleared, an installed directory
\* holds files of one fetched tree of that plugin only until something is changed
\* there by hand: whatever is killed, fails or is retried.
THEOREM NeverMixed ==
  ASSUME OneWriter, "clear" \notin Faults
  PROVE  Spec => []NoMixedTree
  <1>1. Init => NoMixedTree
    BY DEF Init, NoMixedTree, Held, Absent
  <1>2. ASSUME WholeInv, NoMixedTree, [Next]_vars
        PROVE  NoMixedTree'
    <2>1. TypeOK /\ dir \in [Names -> Tree] /\ edits \in Nat
      BY <1>2, StoreAssumption DEF WholeInv, WriterInv, TypeInv, TypeOK
    <2>2. CASE UNCHANGED <<dir, edits>>
      BY <1>2, <2>2 DEF NoMixedTree
    <2>3. ASSUME NEW n \in Names, NEW t \in Unlinked(dir[n]), dir' = [dir EXCEPT ![n] = t],
                 edits = 0
          PROVE  NoMixedTree'
      <3>1. \A f \in Files : t[f] \in {NoFile, dir[n][f]}
        BY <2>1, <2>3 DEF Unlinked, Held, Tree
      <3>2. QED
        BY <1>2, <2>1, <2>3, <3>1, StaysUnmixed
    <2>4. ASSUME NEW p \in Procs, StepOf(p)
          PROVE  NoMixedTree'
      <3>1. \A o \in Offers : o.name \in Names
        BY TreeAssumption DEF Fetched
      <3>2. edits' = edits
        BY <2>4, StepsEditNothing
      <3>3. CASE edits = 0
        BY <1>2, <2>1, <2>2, <2>3, <2>4, <3>1, <3>2, <3>3, DirStep, StaysUnmixed
      <3>4. CASE edits # 0
        BY <3>2, <3>4 DEF NoMixedTree
      <3>5. QED
        BY <3>3, <3>4
    <2>5. CASE Edit
      <3>1. edits' = edits + 1
        BY <2>5 DEF Edit
      <3>2. edits' # 0
        BY <2>1, <3>1
      <3>3. QED
        BY <3>2 DEF NoMixedTree
    <2>6. QED
      BY <1>2, <2>2, <2>4, <2>5, NextOf DEF vars, disk
  <1>3. QED
    BY <1>1, <1>2, WholeHolds, PTL DEF Spec

\* With one writer, or one command at a time, the record is readable whenever it
\* is read, whoever is killed and whatever fails while it is written.
THEOREM RecordIsReadable ==
  ASSUME OneWriter
  PROVE  Spec => []RecordReadable
  <1>1. WriterInv => RecordReadable
    BY DEF WriterInv, RecordFits, RecordReadable
  <1>2. QED
    BY <1>1, WriterInvHolds, PTL

\* What one step may do to what is recorded: nothing; or put in the entry of an
\* installation in place of none or of one at another commit; or take out one name.
LEMMA RecordedStep ==
  ASSUME WriterInv, [Next]_vars, Recorded' # Recorded
  PROVE  \E p \in Procs :
            /\ RecPromote(p)
            /\ job[p].name \in Names
            /\ \/ /\ job[p] \in AddJob /\ EntryOf(job[p]) \in Entry
                  /\ ~SameCommit(Recorded[job[p].name], job[p].commit)
                  /\ Recorded' = [Recorded EXCEPT ![job[p].name] = EntryOf(job[p])]
               \/ /\ job[p] \in RemoveJob
                  /\ Recorded' = [Recorded EXCEPT ![job[p].name] = NoEntry]
  <1>1. PICK p \in Procs : StepOf(p)
    BY NextOf DEF vars, disk, Recorded, Edit
  <1>2. RecPromote(p)
    BY <1>1, RecordedKept DEF WriterInv, Recorded
  <1>3. Recorded' = snapshot[p]
    BY <1>2, RecordedPromoted DEF WriterInv
  <1>4. pc[p] \in RecLabels /\ job[p] \in AddJob \cup RemoveJob
    BY <1>2 DEF RecPromote, At, RecLabels, WriterInv, TypeInv, JobFits
  <1>5. CASE job[p] \in AddJob
    <2>1. OfferOf(job[p]) \in Offers
      BY <1>5 DEF WriterInv, TypeInv, JobFits
    <2>2. EntryOf(job[p]) \in Entry
      BY <1>5, <2>1, EntryTyped
    <2>3. QED
      BY <1>2, <1>3, <1>4, <1>5, <2>2 DEF WriterInv, SnapshotFits, SnapshotOf, AddJob
  <1>6. CASE job[p] \in RemoveJob
    BY <1>2, <1>3, <1>4, <1>6 DEF WriterInv, SnapshotFits, SnapshotOf, RemoveJob
  <1>7. QED
    BY <1>4, <1>5, <1>6

\* With one writer, the digests recorded for a commit are never overwritten by
\* others for the same commit.
THEOREM EvidenceIsKept ==
  ASSUME OneWriter
  PROVE  Spec => EvidenceKept
  <1>1. ASSUME WriterInv, [Next]_vars
        PROVE  [\A n \in Names :
                   LET old == Recorded[n]
                       new == Recorded'[n]
                   IN  old # NoEntry /\ new # NoEntry /\ old.commit = new.commit
                           => new = old]_record
    <2>1. ASSUME NEW n \in Names, Recorded[n] # NoEntry, Recorded'[n] # NoEntry,
                 Recorded[n].commit = Recorded'[n].commit
          PROVE  Recorded'[n] = Recorded[n]
      <3>1. Recorded \in Record
        BY <1>1, RecordedTyped DEF WriterInv
      <3>2. SUFFICES ASSUME Recorded' # Recorded PROVE Recorded'[n] = Recorded[n]
        OBVIOUS
      <3>3. PICK p \in Procs :
              /\ job[p].name \in Names
              /\ \/ /\ ~SameCommit(Recorded[job[p].name], job[p].commit)
                    /\ Recorded' = [Recorded EXCEPT ![job[p].name] = EntryOf(job[p])]
                 \/ Recorded' = [Recorded EXCEPT ![job[p].name] = NoEntry]
        BY <1>1, <3>2, RecordedStep
      <3>4. CASE n = job[p].name
        BY <2>1, <3>1, <3>3, <3>4 DEF Record, SameCommit, EntryOf
      <3>5. CASE n # job[p].name
        BY <3>1, <3>3, <3>5 DEF Record
      <3>6. QED
        BY <3>4, <3>5
    <2>2. QED
      BY <2>1
  <1>2. QED
    BY <1>1, WriterInvHolds, PTL DEF Spec, EvidenceKept

\* With one writer, an installation leaves the record only because a command
\* removes that very name.
THEOREM OnlyRemovalForgets ==
  ASSUME OneWriter
  PROVE  Spec => OnlyRemoveForgets
  <1>1. ASSUME WriterInv, [Next]_vars
        PROVE  [\A n \in Names :
                   Recorded[n] # NoEntry /\ Recorded'[n] = NoEntry =>
                       \E p \in Procs : At(p, "rec_promote")
                                        /\ job[p] = [op |-> "remove", name |-> n]]_record
    <2> SUFFICES \A n \in Names :
                   Recorded[n] # NoEntry /\ Recorded'[n] = NoEntry =>
                       \E p \in Procs : At(p, "rec_promote")
                                        /\ job[p] = [op |-> "remove", name |-> n]
      OBVIOUS
    <2> SUFFICES ASSUME NEW n \in Names, Recorded[n] # NoEntry, Recorded'[n] = NoEntry
                 PROVE  \E p \in Procs : At(p, "rec_promote")
                                         /\ job[p] = [op |-> "remove", name |-> n]
      OBVIOUS
    <2>1. Recorded \in Record
      BY <1>1, RecordedTyped DEF WriterInv
    <2>2. PICK p \in Procs :
            /\ RecPromote(p)
            /\ job[p].name \in Names
            /\ \/ /\ job[p] \in AddJob /\ EntryOf(job[p]) \in Entry
                  /\ Recorded' = [Recorded EXCEPT ![job[p].name] = EntryOf(job[p])]
               \/ /\ job[p] \in RemoveJob
                  /\ Recorded' = [Recorded EXCEPT ![job[p].name] = NoEntry]
      BY <1>1, RecordedStep
    <2>3. job[p] \in RemoveJob /\ job[p].name = n
      BY <2>1, <2>2, TreeAssumption DEF Record
    <2>4. QED
      BY <2>2, <2>3 DEF RemoveJob, RecPromote
  <1>2. QED
    BY <1>1, WriterInvHolds, PTL DEF Spec, OnlyRemoveForgets

\* With one writer whose staging directories are cleared, a name is recorded only
\* once its directory holds the whole of what is recorded.
THEOREM InstalledWhole ==
  ASSUME OneWriter, "clear" \notin Faults
  PROVE  Spec => InstalledIsWhole
  <1>1. ASSUME WholeInv, [Next]_vars
        PROVE  [\A n \in Names :
                   Recorded'[n] \notin {NoEntry, Recorded[n]} => Matches(dir'[n], Recorded'[n])
               ]_record
    <2> SUFFICES \A n \in Names :
                   Recorded'[n] \notin {NoEntry, Recorded[n]} => Matches(dir'[n], Recorded'[n])
      OBVIOUS
    <2> SUFFICES ASSUME NEW n \in Names, Recorded'[n] \notin {NoEntry, Recorded[n]}
                 PROVE  Matches(dir'[n], Recorded'[n])
      OBVIOUS
    <2>1. Recorded \in Record
      BY <1>1, RecordedTyped DEF WholeInv, WriterInv
    <2>2. PICK p \in Procs :
            /\ RecPromote(p)
            /\ job[p].name \in Names
            /\ \/ /\ job[p] \in AddJob
                  /\ Recorded' = [Recorded EXCEPT ![job[p].name] = EntryOf(job[p])]
               \/ /\ job[p] \in RemoveJob
                  /\ Recorded' = [Recorded EXCEPT ![job[p].name] = NoEntry]
      BY <1>1, RecordedStep DEF WholeInv
    <2>3. job[p] \in AddJob /\ job[p].name = n /\ Recorded'[n] = EntryOf(job[p])
      BY <2>1, <2>2 DEF Record
    <2>4. dir'[n] = job[p].tree
      BY <1>1, <2>2, <2>3 DEF RecPromote, At, RecLabels, WholeInv, TreesFit, TreesOf, AddJob
    <2>5. QED
      BY <2>3, <2>4 DEF Matches, EntryOf
  <1>2. QED
    BY <1>1, WholeHolds, PTL DEF Spec, InstalledIsWhole

\* With one writer, `plugin remove` deletes only files that nothing records.
THEOREM RemovesOnlyUnrecorded ==
  ASSUME OneWriter
  PROVE  Spec => RemovedOnlyUnrecorded
  <1>1. ASSUME WriterInv, [Next]_vars
        PROVE  [\A p \in Procs :
                   At(p, "rm_dir") /\ dir'[job[p].name] # dir[job[p].name]
                       => Recorded[job[p].name] = NoEntry]_dir
    BY <1>1 DEF WriterInv, SnapshotFits, SnapshotOf
  <1>2. QED
    BY <1>1, WriterInvHolds, PTL DEF Spec, RemovedOnlyUnrecorded

-----------------------------------------------------------------------------
(* What a run has read.                                                    *)

\* While a process steps, every other one is idle.
LEMMA OthersIdle ==
  ASSUME TypeInv, Exclusive, OneCommand,
         NEW p \in Procs, StepOf(p), NEW q \in Procs, q # p
  PROVE  Idle(q) /\ Idle(q)'
  <1>1. Idle(q)
    BY IdleBegins DEF OneCommand, MayBegin
  <1>2. QED
    BY <1>1, OthersKept DEF Idle

LEMMA RunFitsStep ==
  ASSUME TypeInv, Exclusive, OneCommand, RunFits, [Next]_vars
  PROVE  RunFits'
  <1> USE DEF Go, At
  <1>1. /\ pc \in [Procs -> Labels] /\ todo \in [Procs -> SUBSET Files]
        /\ job \in [Procs -> RunJob \cup AddJob \cup RemoveJob \cup {NoJob}]
        /\ snapshot \in [Procs -> Record] /\ seen \in [Procs -> Tree]
        /\ dir \in [Names -> Tree]
    BY DEF TypeInv, TypeOK
  <1>2. ASSUME UNCHANGED vars
        PROVE  RunFits'
    BY <1>2 DEF RunFits, RunOf, vars, disk, memory, Recorded
  <1>3. ASSUME NEW p \in Procs, pc'[p] \notin RunLabels \ {"run_read"}
        PROVE  RunOf(p)'
    BY <1>3 DEF RunOf, RunLabels
  <1>4. ASSUME NEW p \in Procs, StepOf(p)
        PROVE  RunOf(p)'
    <2> USE DEF memory, disk, RunLabels
    <2>1. ASSUME pc[p] \in RunLabels
          PROVE  job[p] \in RunJob /\ job[p].name \in Names
      BY <2>1 DEF TypeInv, JobFits, RunJob
    <2>2. CASE pc'[p] \notin RunLabels \ {"run_read"}
      BY <1>3, <2>2
    <2>3. CASE RunRead(p)
      <3>1. Readable(record) = Recorded /\ Recorded' = Recorded
        BY <2>3, ReadsRecorded DEF RunRead, Recorded
      <3>2. QED
        BY <1>1, <2>3, <3>1 DEF RunRead, RunOf
    <2>4. CASE RunList(p) /\ pc'[p] # "idle"
      <3>1. /\ pc[p] = "run_list" /\ pc'[p] = "run_hash"
            /\ todo'[p] = Held(dir[job[p].name]) /\ seen'[p] = Absent
            /\ job' = job /\ snapshot' = snapshot /\ dir' = dir /\ Recorded' = Recorded
        BY <1>1, <2>4 DEF RunList, End, Recorded
      <3>2. \A f \in Files \ todo'[p] : seen'[p][f] = dir'[job'[p].name][f]
        BY <3>1 DEF Held, Absent
      <3>3. QED
        BY <3>1, <3>2 DEF RunFits, RunOf
    <2>5. CASE RunHash(p) /\ pc'[p] # "idle"
      <3>1. pc[p] = "run_hash" /\ job[p].name \in Names
        BY <2>1, <2>5 DEF RunHash
      <3>2. PICK f \in todo[p] :
              /\ seen' = [seen EXCEPT ![p][f] = dir[job[p].name][f]]
              /\ todo' = [todo EXCEPT ![p] = @ \ {f}]
              /\ UNCHANGED <<pc, job, snapshot>>
        BY <1>1, <2>5 DEF RunHash, End
      <3>3. dir' = dir /\ Recorded' = Recorded
        BY <2>5 DEF RunHash, Recorded
      <3>4. ASSUME NEW g \in Files \ todo'[p]
            PROVE  seen'[p][g] = dir'[job'[p].name][g]
        <4>1. seen'[p] = [seen[p] EXCEPT ![f] = dir[job[p].name][f]]
              /\ todo'[p] = todo[p] \ {f}
          BY <1>1, <3>2
        <4>2. g # f => seen[p][g] = dir[job[p].name][g]
          BY <3>1, <4>1 DEF RunFits, RunOf
        <4>3. QED
          BY <1>1, <3>2, <3>3, <4>1, <4>2 DEF Tree
      <3>5. QED
        BY <3>1, <3>2, <3>3, <3>4 DEF RunFits, RunOf
    <2>6. CASE RunCompare(p) /\ pc'[p] # "idle"
      <3>1. /\ pc[p] = "run_hash" /\ pc'[p] = "run_manifest" /\ todo[p] = {}
            /\ job' = job /\ snapshot' = snapshot /\ dir' = dir /\ Recorded' = Recorded
            /\ Matches(seen[p], snapshot[p][job[p].name])
        BY <1>1, <2>6 DEF RunCompare, End, Recorded
      <3>2. \A f \in Files : seen[p][f] = dir[job[p].name][f]
        BY <3>1 DEF RunFits, RunOf
      <3>3. seen[p] = dir[job[p].name]
        BY <1>1, <2>1, <3>1, <3>2 DEF Tree
      <3>4. QED
        BY <3>1, <3>3 DEF RunFits, RunOf
    <2>7. CASE RunManifest(p) /\ pc'[p] # "idle"
      <3> DEFINE m == dir[job[p].name][Manifest]
      <3>1. /\ pc[p] = "run_manifest" /\ job[p] \in RunJob
            /\ snapshot' = snapshot /\ dir' = dir /\ Recorded' = Recorded
        BY <1>1, <2>1, <2>7 DEF RunManifest, End, Recorded
      <3>2. RunOf(p)
        BY DEF RunFits
      <3>3. CASE /\ job[p].engine \in Meaning[m].engines
                 /\ \E a \in Meaning[m].actions :
                       job' = [job EXCEPT ![p] = [@ EXCEPT !.manifest = m, !.action = a]]
                 /\ pc'[p] = "run_start"
        <4>1. /\ job'[p].manifest = m /\ job'[p].name = job[p].name
              /\ job'[p].action \in Meaning[m].actions /\ job'[p].engine = job[p].engine
          BY <1>1, <3>1, <3>3 DEF RunJob
        <4>2. QED
          BY <3>1, <3>2, <3>3, <4>1 DEF RunOf
      <3>4. CASE /\ job' = [job EXCEPT ![p].probe = @ + 1]
                 /\ pc'[p] \in {"run_list", "run_sole"}
        <4>1. job'[p].name = job[p].name
          BY <1>1, <3>1, <3>4 DEF RunJob
        <4>2. QED
          BY <3>1, <3>2, <3>4, <4>1 DEF RunOf
      <3>5. QED
        BY <1>1, <2>7, <3>3, <3>4 DEF RunManifest, End
    <2>8. CASE RunSole(p) /\ pc'[p] # "idle"
      <3>1. /\ pc[p] = "run_sole" /\ pc'[p] = "run_list" /\ job[p] \in RunJob
            /\ snapshot' = snapshot /\ dir' = dir /\ Recorded' = Recorded
            /\ \E action : job' = [job EXCEPT ![p].action = action]
        BY <1>1, <2>1, <2>8 DEF RunSole, End, Recorded
      <3>2. job'[p].name = job[p].name
        BY <1>1, <3>1 DEF RunJob
      <3>3. QED
        BY <3>1, <3>2 DEF RunFits, RunOf
    <2>9. CASE RunStart(p) /\ pc'[p] # "idle"
      <3>1. /\ pc[p] = "run_start" /\ pc'[p] = "started" /\ seen'[p] = dir[job[p].name]
            /\ job' = job /\ snapshot' = snapshot /\ dir' = dir /\ Recorded' = Recorded
        BY <1>1, <2>9 DEF RunStart, End, Recorded
      <3>2. QED
        BY <3>1 DEF RunFits, RunOf
    <2>10. CASE Add(p) \/ WriteRecord(p) \/ Remove(p) \/ Crash(p)
      <3>1. pc'[p] \notin RunLabels
        BY <1>1, <2>10 DEF Add, AddBegin, AddRead, AddRefuse, AddClear, AddWrite,
           AddWriteFails, AddCheck, AddRetire, AddPromote, AddPromoteFails,
           WriteRecord, RecOpen, RecFill, RecWriteFails, RecPromote, RecPromoteFails,
           Remove, RemoveBegin, RemoveRead, RemoveRefuse, RemoveDir, Crash, End, Begin
      <3>2. QED
        BY <2>2, <3>1
    <2>11. CASE RunBegin(p) \/ RunRefuse(p) \/ RunPrepareFails(p) \/ RunEnd(p)
      <3>1. pc'[p] \in {"idle", "run_read"}
        BY <1>1, <2>11 DEF RunBegin, RunRefuse, RunPrepareFails, RunEnd, End, Begin
      <3>2. QED
        BY <2>2, <3>1
    <2>12. CASE pc'[p] = "idle"
      BY <2>2, <2>12
    <2>13. QED
      BY <1>4, <2>3, <2>4, <2>5, <2>6, <2>7, <2>8, <2>9, <2>10, <2>11, <2>12
         DEF StepOf, RunPlugin
  <1>5. ASSUME NEW p \in Procs, StepOf(p)
        PROVE  RunFits'
    <2>1. ASSUME NEW q \in Procs, q # p
          PROVE  RunOf(q)'
      BY <1>3, <1>5, <2>1, OthersIdle DEF Idle, RunLabels
    <2>2. QED
      BY <1>4, <1>5, <2>1 DEF RunFits
  <1>6. CASE Edit
    BY <1>3, <1>6 DEF Edit, Idle, RunLabels, RunFits
  <1>7. QED
    BY <1>2, <1>5, <1>6, NextOf

\* With one command at a time, what a command has in memory agrees with the disk
\* at each of its steps, a run's included: nothing changes between the moment the
\* digests are compared and the moment the program is started.
THEOREM AloneHolds ==
  ASSUME Exclusive
  PROVE  Spec => []AloneInv
  <1>1. AloneInv /\ [Next]_vars => AloneInv'
    BY WriterInvStep, RunFitsStep DEF AloneInv, WriterInv, OneWriter
  <1>2. Init => AloneInv
    BY WriterInvInit DEF AloneInv, Init, RunFits, RunOf, RunLabels, At
  <1>3. QED
    BY <1>1, <1>2, PTL DEF Spec

\* With one command at a time a plugin is started only from the bytes its record
\* entry approved, for an action and by a build the approved manifest admits,
\* whatever earlier commands were killed and whatever was edited by hand.
THEOREM RunsApproved ==
  ASSUME Exclusive
  PROVE  Spec => []RunsOnlyApproved
  <1>1. AloneInv => RunsOnlyApproved
    BY DEF AloneInv, RunFits, RunOf, RunsOnlyApproved, At, RunLabels, Matches, TreeDigest,
       ManifestDigest
  <1>2. QED
    BY <1>1, AloneHolds, PTL

-----------------------------------------------------------------------------
(* The atomic specification.                                               *)

\* A process that is in no started plugin before or after its step, or stays in
\* the same one, leaves the plugins being run as they are.
LEMMA RunningKept ==
  ASSUME NEW p \in Procs,
         \A q \in Procs : q # p => Idle(q) /\ Idle(q)',
         ~At(p, "started"), ~At(p, "started")'
  PROVE  Running' = Running
  BY DEF Running, At, Idle

\* Every step of the store is a step of the atomic specification or none.
LEMMA StepImplements ==
  ASSUME Exclusive, AloneInv, AloneInv', [Next]_vars
  PROVE  [Approved!Next]_<<Recorded, Running>>
  <1> USE DEF Go
  <1>1. TypeInv /\ OneCommand /\ WriterInv /\ RunFits
        /\ pc \in [Procs -> Labels]
    BY DEF AloneInv, WriterInv, TypeInv, TypeOK
  <1>2. CASE UNCHANGED <<record, pc, job, seen>>
    BY <1>2 DEF Recorded, Running, At
  <1>3. CASE Recorded' # Recorded
    <2>1. PICK p \in Procs :
            /\ RecPromote(p)
            /\ job[p].name \in Names
            /\ \/ /\ job[p] \in AddJob /\ EntryOf(job[p]) \in Entry
                  /\ ~SameCommit(Recorded[job[p].name], job[p].commit)
                  /\ Recorded' = [Recorded EXCEPT ![job[p].name] = EntryOf(job[p])]
               \/ /\ job[p] \in RemoveJob
                  /\ Recorded' = [Recorded EXCEPT ![job[p].name] = NoEntry]
      BY <1>1, <1>3, RecordedStep
    <2>2. StepOf(p)
      BY <2>1 DEF StepOf, WriteRecord
    <2>3. Running' = Running
      <3>1. ~At(p, "started") /\ ~At(p, "started")'
        BY <1>1, <2>1 DEF RecPromote, At, End
      <3>2. QED
        BY <1>1, <2>2, <3>1, OthersIdle, RunningKept
    <2>4. CASE job[p] \in AddJob
      <3> DEFINE o == OfferOf(job[p])
      <3>1. o \in Offers
        BY <1>1, <2>4 DEF TypeInv, JobFits
      <3>2. EntryOf(o) = EntryOf(job[p]) /\ o.name = job[p].name /\ o.commit = job[p].commit
        BY DEF EntryOf, OfferOf, ManifestDigest, TreeDigest
      <3>3. /\ ~SameCommit(Recorded[job[p].name], job[p].commit)
            /\ Recorded' = [Recorded EXCEPT ![job[p].name] = EntryOf(job[p])]
        BY <2>1, <2>4 DEF AddJob, RemoveJob
      <3>4. Approved!Approve(o)
        BY <2>3, <3>2, <3>3 DEF Approved!Approve, Approved!EntryOf, Approved!ManifestDigest,
           Approved!TreeDigest, EntryOf, ManifestDigest, TreeDigest, SameCommit
      <3>5. QED
        BY <3>1, <3>4 DEF Approved!Next
    <2>5. CASE job[p] \in RemoveJob
      <3>1. Recorded' = [Recorded EXCEPT ![job[p].name] = NoEntry]
        BY <2>1, <2>5 DEF AddJob, RemoveJob
      <3>2. Approved!Forget(job[p].name)
        BY <2>3, <3>1 DEF Approved!Forget
      <3>3. QED
        BY <2>1, <3>2 DEF Approved!Next
    <2>6. QED
      BY <2>1, <2>4, <2>5
  <1>4. ASSUME Recorded' = Recorded, NEW p \in Procs, StepOf(p)
        PROVE  [Approved!Next]_<<Recorded, Running>>
    <2>1. \A q \in Procs : q # p => Idle(q) /\ Idle(q)'
      BY <1>1, <1>4, OthersIdle
    <2>2. CASE ~At(p, "started") /\ ~At(p, "started")'
      BY <1>4, <2>1, <2>2, RunningKept
    <2>3. CASE At(p, "started") /\ ~At(p, "started")'
      <3>1. Running' = [Running EXCEPT ![p] = NoRun]
        BY <2>1, <2>3 DEF Running, At, Idle
      <3>2. Approved!Stop(p)
        BY <1>4, <3>1 DEF Approved!Stop
      <3>3. QED
        BY <3>2 DEF Approved!Next
    <2>4. CASE At(p, "started") /\ At(p, "started")'
      <3>1. pc[p] = "started" /\ pc'[p] = "started"
        BY <2>4 DEF At
      <3>2. FALSE
        BY <1>1, <1>4, <3>1 DEF StepOf, At, Idle, MayBegin, Begin, End,
           Add, AddBegin, AddRead, AddRefuse, AddClear, AddWrite,
           AddWriteFails, AddCheck, AddRetire, AddPromote, AddPromoteFails,
           WriteRecord, RecOpen, RecFill, RecWriteFails, RecPromote, RecPromoteFails,
           Remove, RemoveBegin, RemoveRead, RemoveRefuse, RemoveDir,
           RunPlugin, RunBegin, RunRead, RunRefuse, RunList, RunHash, RunCompare,
           RunManifest, RunSole, RunStart, RunPrepareFails, RunEnd, Crash
      <3>3. QED
        BY <3>2
    <2>5. CASE ~At(p, "started") /\ At(p, "started")'
      <3> DEFINE n == job'[p].name
                 e == Recorded'[n]
      <3>1. /\ job'[p] \in RunJob /\ n \in Names /\ job'[p].action \in Actions
            /\ job'[p].engine \in Engines
        BY <2>5 DEF AloneInv, WriterInv, TypeInv, JobFits, ProbesFit, RunJob, At, RunLabels
      <3>2. RunOf(p)'
        BY DEF AloneInv, RunFits
      <3>3. /\ e # NoEntry
            /\ job'[p].manifest = e.manifest_digest
            /\ seen'[p] = e.tree_digest
            /\ job'[p].action \in Meaning[e.manifest_digest].actions
            /\ job'[p].engine \in Meaning[e.manifest_digest].engines
        BY <2>5, <3>2 DEF RunOf, At, RunLabels, Matches, ManifestDigest, TreeDigest
      <3>4. Running' = [Running EXCEPT
                          ![p] = [name     |-> n,
                                  manifest |-> e.manifest_digest,
                                  tree     |-> e.tree_digest,
                                  action   |-> job'[p].action,
                                  engine   |-> job'[p].engine]]
        BY <2>1, <2>5, <3>3 DEF Running, At, Idle
      <3>5. Approved!Start(p, n, job'[p].action, job'[p].engine)
        BY <1>4, <3>3, <3>4 DEF Approved!Start
      <3>6. QED
        BY <3>1, <3>5 DEF Approved!Next
    <2>6. QED
      BY <2>2, <2>3, <2>4, <2>5
  <1>5. QED
    BY <1>2, <1>3, <1>4, NextOf DEF vars, disk, memory, Edit

\* With one command at a time the store implements the atomic specification:
\* each command is one Approve, Forget, Start or Stop, or changes nothing.
THEOREM StoreImplementsApproved ==
  ASSUME Exclusive
  PROVE  Spec => ImplementsApproved
  <1>1. Init => Approved!Init
    BY StoreAssumption DEF Init, NoSuchFile, Approved!Init, Approved!EmptyRecord, EmptyRecord,
       Recorded, Running, At
  <1>2. AloneInv /\ AloneInv' /\ [Next]_vars => [Approved!Next]_<<Recorded, Running>>
    BY StepImplements
  <1>3. QED
    BY <1>1, <1>2, AloneHolds, PTL DEF Spec, ImplementsApproved, Approved!Spec

=============================================================================
