------------------------------ MODULE Convert ------------------------------
(***************************************************************************)
(* `convert`, `check` and `export`, from several terminals: files that are *)
(* read whole, written as a sibling and renamed over the target.           *)
(*                                                                         *)
(* A name stands for a file and a file holds something; a process that has *)
(* a file open goes on writing it under whatever name another process has  *)
(* given it. What a document or a database reads as, and the export the    *)
(* project makes, are external.                                            *)
(***************************************************************************)
EXTENDS Naturals

CONSTANTS
    Procs,       \* terminals
    Nosts,       \* paths that end in .nost
    Databases,   \* paths that end in .nostdb
    Graphs,      \* graphs a file may hold
    Refused,     \* what a file holds that is read and found invalid
    Linked,      \* what a document holds with an endpoint in a linked source
    Partial,     \* what a file holds while it is written
    Mixed,       \* what a file holds that two processes have written
    NoFile,      \* what a name stands for that is no file
    Jobs,        \* the commands that are typed
    Faults,      \* the calls that may fail
    MaxCommands, \* bound: commands typed; a file has the number of its command
    MaxCrashes   \* bound: commands killed

ASSUME ConvertAssumption ==
    /\ Nosts \cap Databases = {}
    /\ {Refused, Linked, Partial, Mixed, NoFile} \cap Graphs = {}
    /\ {Partial, Mixed} \cap {Refused, Linked, NoFile} = {} /\ Partial # Mixed
    /\ NoFile \notin Nosts \cup Databases
    /\ \A n \in 1..MaxCommands : n \notin Nosts \cup Databases \cup {NoFile}
    /\ \A j \in Jobs :
        /\ j.op \in {"convert", "check", "export"} /\ j.input \in Nosts \cup Databases
        /\ j.op \in {"convert", "export"} => j.output \in Nosts \cup Databases
        /\ j.op = "convert" => j.replace \in BOOLEAN
    /\ MaxCommands \in Nat /\ MaxCrashes \in Nat

VARIABLES
    name,      \* the file each name stands for
    holds,     \* what each file holds
    pc, job,   \* the next step of each terminal, and the command it carries out
    number,    \* the command's number
    graph,     \* the graph it has read
    open,      \* the file it is writing
    before,    \* what the output held when it was typed
    failed,    \* whether a call failed under it
    told,      \* the last command of each terminal and what it reported
    shared,    \* outputs two commands have been at work on together
    commands, crashes

disk == <<name, holds>>
private == <<number, graph, open, before>>
bounds == <<shared, commands, crashes>>
vars == <<disk, pc, job, private, failed, told, bounds>>

Paths == Nosts \cup Databases
Files == {NoFile} \cup Paths \cup 1..MaxCommands
Contents == {Refused, Linked, Partial, Mixed, NoFile} \cup Graphs
NoJob == [op |-> "none"]
Untold == [op |-> "none", class |-> "success", output |-> NoFile]
Classes == {"success", "usage", "validation", "conflict", "unavailable", "io", "killed"}
Reports == [op : {j.op : j \in Jobs}, class : Classes, output : Paths \cup {NoFile}]
Steps == {"idle", "exists", "read", "clear", "stage", "fill", "rename", "report", "export"}

Itself(path) == <<path, "itself">>

\* Mutant: the target is written in place.
Staged_InPlace(path) == <<path, "itself">>

\* The sibling has one name, whoever makes it.
Staged(path) == <<path, "staged">>

Held(n) == IF name[n] = NoFile THEN NoFile ELSE holds[name[n]]

Init ==
    /\ \E held \in [Paths -> {Refused, Linked, NoFile} \cup Graphs] :
        /\ \A d \in Databases : held[d] # Linked
        /\ name = [n \in Paths \X {"itself", "staged"} |->
                     IF n[2] = "itself" /\ held[n[1]] # NoFile THEN n[1] ELSE NoFile]
        /\ holds = [f \in Paths \cup 1..MaxCommands |-> IF f \in Paths THEN held[f] ELSE NoFile]
    /\ pc = [p \in Procs |-> "idle"]
    /\ job = [p \in Procs |-> NoJob]
    /\ number = [p \in Procs |-> 0]
    /\ graph = [p \in Procs |-> NoFile]
    /\ open = [p \in Procs |-> NoFile]
    /\ before = [p \in Procs |-> NoFile]
    /\ failed = [p \in Procs |-> FALSE]
    /\ told = [p \in Procs |-> Untold]
    /\ shared = {} /\ commands = 0 /\ crashes = 0

-----------------------------------------------------------------------------
At(p, step) == pc[p] = step
Go(p, step) == pc' = [pc EXCEPT ![p] = step] /\ UNCHANGED <<job, told, bounds>>
Output(p) == job[p].output
Writes(j) == j.op \in {"convert", "export"}

End(p, class) ==
    /\ pc' = [pc EXCEPT ![p] = "idle"]
    /\ told' = [told EXCEPT ![p] = [op |-> job[p].op, class |-> class,
                    output |-> IF Writes(job[p]) THEN Output(p) ELSE NoFile]]
    /\ job' = [job EXCEPT ![p] = NoJob]
    /\ open' = [open EXCEPT ![p] = NoFile]
    /\ graph' = [graph EXCEPT ![p] = NoFile]
    /\ number' = [number EXCEPT ![p] = 0]
    /\ before' = [before EXCEPT ![p] = NoFile]

Ends(p, class) == End(p, class) /\ UNCHANGED bounds
Goes(p, step) == Go(p, step) /\ UNCHANGED private
Well == UNCHANGED failed
Fails(p) == failed' = [failed EXCEPT ![p] = TRUE]
Fault(call) == call \in Faults

Points(n, f) == name' = [name EXCEPT ![n] = f]
Put(f, what) == holds' = [holds EXCEPT ![f] = what]

Type(p, j) ==
    /\ At(p, "idle") /\ commands < MaxCommands
    /\ commands' = commands + 1 /\ UNCHANGED crashes
    /\ pc' = [pc EXCEPT ![p] = IF j.op = "convert" THEN "exists" ELSE "read"]
    /\ job' = [job EXCEPT ![p] = j]
    /\ number' = [number EXCEPT ![p] = commands + 1]
    /\ failed' = [failed EXCEPT ![p] = FALSE]
    /\ before' = [before EXCEPT ![p] = IF Writes(j) THEN Held(Itself(j.output)) ELSE NoFile]
    /\ shared' = shared \cup {o \in Paths : Writes(j) /\ o = j.output
                                 /\ \E q \in Procs : Writes(job[q]) /\ Output(q) = o}
    /\ told' = [told EXCEPT ![p] = Untold]
    /\ UNCHANGED <<disk, graph, open>>

-----------------------------------------------------------------------------
(* Before anything is written.                                             *)

Converts(j) == (j.input \in Nosts) # (j.output \in Nosts)

Copies(p) == At(p, "exists") /\ ~Converts(job[p]) /\ Ends(p, "usage") /\ Well /\ UNCHANGED disk

OutputExists(p) ==
    /\ At(p, "exists") /\ Converts(job[p])
    /\ ~job[p].replace /\ Held(Itself(Output(p))) # NoFile
    /\ Ends(p, "conflict") /\ Well /\ UNCHANGED disk

\* Mutant: what is there is not looked for.
MayWrite_Always(p) ==
    At(p, "exists") /\ Converts(job[p]) /\ Goes(p, "read") /\ Well /\ UNCHANGED disk

MayWrite(p) ==
    /\ At(p, "exists") /\ Converts(job[p])
    /\ job[p].replace \/ Held(Itself(Output(p))) = NoFile
    /\ Goes(p, "read") /\ Well /\ UNCHANGED disk

AfterRead(j) == IF j.op = "export" THEN "export" ELSE IF j.output \in Nosts THEN "stage" ELSE "clear"

Valid(c) == IF c \in {Partial, Mixed} THEN Graphs ELSE {c} \cap Graphs

\* The input reads as a graph; half a document may read as a smaller one.
Read(p) ==
    /\ At(p, "read")
    /\ \E g \in Valid(Held(Itself(job[p].input))) :
        IF job[p].op = "check"
        THEN Ends(p, "success")
        ELSE /\ Go(p, AfterRead(job[p]))
             /\ graph' = [graph EXCEPT ![p] = g] /\ UNCHANGED <<number, open, before>>
    /\ Well /\ UNCHANGED disk

\* It is invalid, or has an endpoint this build does not resolve, or cannot be read.
Unread(p) ==
    /\ At(p, "read")
    /\ LET c == Held(Itself(job[p].input)) IN
        \/ c \in {Refused, Partial, Mixed} /\ Ends(p, "validation") /\ Well
        \/ c = Linked /\ Ends(p, IF job[p].op = "check" THEN "success" ELSE "unavailable") /\ Well
        \/ (c \in {NoFile, Partial, Mixed} \/ Fault("read")) /\ Ends(p, "io") /\ Fails(p)
    /\ UNCHANGED disk

-----------------------------------------------------------------------------
(* The sibling: a database is created anew, a document is overwritten.     *)

\* Mutant: what an earlier command left is not removed.
Clear_Skipped(p) == At(p, "clear") /\ Goes(p, "stage") /\ Well /\ UNCHANGED disk

\* A failure to remove it is not looked at.
Clear(p) ==
    /\ At(p, "clear") /\ Goes(p, "stage")
    /\ \/ Points(Staged(Output(p)), NoFile) /\ Well
       \/ Fault("remove") /\ UNCHANGED name /\ Fails(p)
    /\ UNCHANGED holds

Opens(p, f) ==
    /\ Go(p, "fill")
    /\ open' = [open EXCEPT ![p] = f] /\ UNCHANGED <<number, graph, before>>
    /\ Put(f, Partial) /\ Well

StageNew(p) ==
    /\ At(p, "stage") /\ Held(Staged(Output(p))) = NoFile
    /\ Points(Staged(Output(p)), number[p])
    /\ Opens(p, number[p])

\* A document's sibling is truncated, though another process may be writing it.
StageOver(p) ==
    /\ At(p, "stage") /\ Held(Staged(Output(p))) # NoFile /\ Output(p) \in Nosts
    /\ UNCHANGED name
    /\ Opens(p, name[Staged(Output(p))])

\* A database is not created over a file.
StageFails(p) ==
    /\ At(p, "stage")
    /\ \/ Held(Staged(Output(p))) # NoFile /\ Output(p) \in Databases /\ Well
       \/ Fault("stage") /\ Fails(p)
    /\ Ends(p, "io") /\ UNCHANGED disk

Fill(p) ==
    /\ At(p, "fill") /\ Goes(p, "rename")
    /\ \E what \in IF holds[open[p]] = Partial THEN {graph[p]} ELSE {graph[p], Mixed} :
        Put(open[p], what)
    /\ Well /\ UNCHANGED name

\* What was written of a database is removed, of a document it stays.
FillFails(p) ==
    /\ At(p, "fill") /\ Fault("write")
    /\ Ends(p, "io") /\ Fails(p)
    /\ IF Output(p) \in Databases THEN Points(Staged(Output(p)), NoFile) ELSE UNCHANGED name
    /\ UNCHANGED holds

\* Mutant: the target is linked to the sibling, which keeps its name.
Renamed_Kept(from, to) == [name EXCEPT ![to] = name[from]]

Renamed(from, to) == [name EXCEPT ![to] = name[from], ![from] = NoFile]

Rename(p) ==
    /\ At(p, "rename") /\ Held(Staged(Output(p))) # NoFile
    /\ name' = Renamed(Staged(Output(p)), Itself(Output(p)))
    /\ Goes(p, "report") /\ Well /\ UNCHANGED holds

\* Mutant: the failure is not looked at.
RenameFails_Unseen(p) ==
    /\ At(p, "rename") /\ (Held(Staged(Output(p))) = NoFile \/ Fault("rename"))
    /\ Goes(p, "report") /\ Fails(p) /\ UNCHANGED disk

\* Another process has taken the sibling away, or the call fails.
RenameFails(p) ==
    /\ At(p, "rename")
    /\ \/ Held(Staged(Output(p))) = NoFile /\ Well
       \/ Fault("rename") /\ Fails(p)
    /\ Points(Staged(Output(p)), NoFile)
    /\ Ends(p, "io") /\ UNCHANGED holds

Report(p) == At(p, "report") /\ Ends(p, "success") /\ Well /\ UNCHANGED disk

\* The project writes the document and its baseline in one step, or refuses.
Export(p) ==
    /\ At(p, "export")
    /\ \/ /\ Points(Itself(Output(p)), number[p]) /\ Put(number[p], graph[p])
          /\ Goes(p, "report")
       \/ /\ Fault("export") /\ UNCHANGED disk
          /\ \E class \in {"usage", "validation", "conflict", "io"} : Ends(p, class)
    /\ Well

Crash(p) ==
    /\ ~At(p, "idle") /\ crashes < MaxCrashes
    /\ crashes' = crashes + 1 /\ UNCHANGED <<shared, commands>>
    /\ End(p, "killed") /\ Well /\ UNCHANGED disk

Command(p) ==
    \/ Copies(p) \/ OutputExists(p) \/ MayWrite(p) \/ Read(p) \/ Unread(p)
    \/ Clear(p) \/ StageNew(p) \/ StageOver(p) \/ StageFails(p)
    \/ Fill(p) \/ FillFails(p) \/ Rename(p) \/ RenameFails(p) \/ Report(p)
    \/ Export(p) \/ Crash(p)

Next == \E p \in Procs : Command(p) \/ \E j \in Jobs : Type(p, j)

Spec == Init /\ [][Next]_vars

-----------------------------------------------------------------------------
TypeOK ==
    /\ name \in [Paths \X {"itself", "staged"} -> Files]
    /\ holds \in [Paths \cup 1..MaxCommands -> Contents]
    /\ \A m, n \in DOMAIN name : name[m] = name[n] /\ name[m] # NoFile => m = n
    /\ pc \in [Procs -> Steps] /\ job \in [Procs -> Jobs \cup {NoJob}]
    /\ number \in [Procs -> 0..MaxCommands]
    /\ graph \in [Procs -> Contents] /\ before \in [Procs -> Contents]
    /\ open \in [Procs -> Files] /\ failed \in [Procs -> BOOLEAN]
    /\ told \in [Procs -> Reports \cup {Untold}]
    /\ shared \subseteq Paths
    /\ commands \in 0..MaxCommands /\ crashes \in 0..MaxCrashes

Alone(path) == path \notin shared

\* Whatever step a command is killed at or fails at, a file under its own name
\* is what it was or a whole new one, unless two commands wrote it together.
OutputWhole == \A o \in Paths : Alone(o) => Held(Itself(o)) \notin {Partial, Mixed}

\* A conversion that reports success has written the graph it read, one that
\* reports anything else has left the output as it found it, and one that was
\* killed has done either, unless another command wrote the output meanwhile.
AnsweredAsDone ==
    [][\A p \in Procs, o \in Paths :
        (job[p].op = "convert" /\ Output(p) = o /\ job'[p] = NoJob /\ Alone(o)) =>
            LET after == Held(Itself(o))' IN
            CASE told'[p].class = "success" -> after = graph[p]
              [] told'[p].class = "killed" -> after \in {before[p], graph[p]}
              [] OTHER -> after = before[p]]_vars

\* Without --replace no file is written over, however long ago it was looked
\* for, unless another command made it meanwhile.
KeptUnlessAsked ==
    [][\A p \in Procs :
        (At(p, "rename") /\ pc'[p] = "report" /\ ~job[p].replace /\ Alone(Output(p))) =>
            Held(Itself(Output(p))) = NoFile]_vars

\* What a killed or failed conversion leaves beside the output never makes a
\* later one fail: an i/o failure is always of a call of its own.
LeftoverHarmless ==
    \A p \in Procs : told[p].op = "convert" /\ told[p].class = "io" =>
        failed[p] \/ ~Alone(told[p].output)

-----------------------------------------------------------------------------
(* The inductive invariant.                                                *)

StepsOf(op) ==
    CASE op = "convert" -> {"exists", "read", "clear", "stage", "fill", "rename", "report"}
      [] op = "export" -> {"read", "export", "report"}
      [] op = "check" -> {"read"}

\* A terminal is at a step of its command, with a graph when it needs one.
WorkFits ==
    \A p \in Procs :
        IF At(p, "idle") THEN job[p] = NoJob /\ number[p] = 0 /\ open[p] = NoFile
        ELSE /\ job[p] \in Jobs /\ pc[p] \in StepsOf(job[p].op)
             /\ number[p] \in 1..commands
             /\ pc[p] \notin {"exists", "read"} => graph[p] \in Graphs
             /\ told[p] = Untold

\* Two commands that write one output are known to.
SharedFits ==
    \A p, q \in Procs :
        p # q /\ Writes(job[p]) /\ Writes(job[q]) /\ Output(p) = Output(q) =>
            Output(p) \in shared

\* A command has a number of its own, and the file of that number exists only
\* once it has made it.
Unmade(f) == /\ \A o \in Paths : name[Itself(o)] # f /\ name[Staged(o)] # f
             /\ \A q \in Procs : open[q] # f

NumbersFit ==
    /\ \A p, q \in Procs : p # q /\ number[p] = number[q] => number[p] = 0
    /\ \A p \in Procs : pc[p] \in {"exists", "read", "clear", "stage", "export"} =>
                           Unmade(number[p])
    /\ \A f \in 1..MaxCommands : f > commands => Unmade(f)

\* A file that is written goes by no name but those of its output; alone, by
\* that of the sibling, and it holds what was put there.
OpenFits ==
    \A p \in Procs : pc[p] \in {"fill", "rename"} =>
        /\ open[p] \in Files \ {NoFile}
        /\ \A o \in Paths : open[p] \in {name[Itself(o)], name[Staged(o)]} => o = Output(p)
        /\ Alone(Output(p)) =>
               /\ name[Staged(Output(p))] = open[p]
               /\ holds[open[p]] = IF At(p, "fill") THEN Partial ELSE graph[p]

\* Until it is renamed over, the output is as it was found.
OutputFits ==
    \A p \in Procs : Writes(job[p]) /\ Alone(Output(p)) =>
        LET now == Held(Itself(Output(p))) IN
        IF At(p, "report") THEN now = graph[p]
        ELSE /\ now = before[p]
             /\ job[p].op = "convert" /\ ~job[p].replace /\ ~At(p, "exists") => now = NoFile

\* A database is staged where nothing is.
SiblingFits ==
    \A p \in Procs : At(p, "stage") /\ Output(p) \in Databases /\ Alone(Output(p)) =>
        failed[p] \/ name[Staged(Output(p))] = NoFile

ConvertInv ==
    /\ TypeOK /\ OutputWhole /\ LeftoverHarmless
    /\ WorkFits /\ SharedFits /\ NumbersFit /\ OpenFits /\ OutputFits /\ SiblingFits
=============================================================================
