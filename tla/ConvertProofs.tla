--------------------------- MODULE ConvertProofs ---------------------------
(***************************************************************************)
(* An output is what it was or a whole new one, as is reported, and what   *)
(* is left beside it hinders nobody: for every number of terminals,        *)
(* commands, paths, graphs, kills and failing calls.                       *)
(***************************************************************************)
EXTENDS Convert, TLAPS

-----------------------------------------------------------------------------
(* The ways a step of a terminal can go.                                   *)

\* The two names of an output, and those of different outputs, differ.
LEMMA Apart ==
    ASSUME NEW o \in Paths, NEW r \in Paths
    PROVE  /\ Itself(o) \in Paths \X {"itself", "staged"}
           /\ Staged(o) \in Paths \X {"itself", "staged"}
           /\ Itself(o) # Staged(r)
           /\ o # r => Itself(o) # Itself(r) /\ Staged(o) # Staged(r)
BY DEF Itself, Staged

\* A command under way is one that can be typed, and has a number.
LEMMA Busy ==
    ASSUME ConvertInv, NEW p \in Procs, ~At(p, "idle")
    PROVE  /\ job[p] \in Jobs /\ pc[p] \in StepsOf(job[p].op)
           /\ number[p] \in 1..commands /\ number[p] \in 1..MaxCommands
           /\ pc[p] \notin {"exists", "read"} => graph[p] \in Graphs
           /\ told[p] = Untold
           /\ pc[p] # "read" => Writes(job[p])
           /\ Writes(job[p]) => Output(p) \in Paths
           /\ pc[p] \in {"clear", "stage", "fill", "rename"} => job[p].op = "convert"
BY ConvertAssumption DEF ConvertInv, WorkFits, TypeOK, StepsOf, Writes, Output, Paths

Continues(p, step) ==
    /\ Go(p, step) /\ step \in StepsOf(job[p].op) \ {"exists"}
    /\ UNCHANGED <<number, before>>
    /\ \/ UNCHANGED graph /\ (step = "read" \/ pc[p] \notin {"exists", "read"})
       \/ \E g \in Graphs : graph' = [graph EXCEPT ![p] = g]

\* A step of a terminal is one of a command, which goes on or ends.
LEMMA CommandMoves ==
    ASSUME ConvertInv, NEW p \in Procs, Command(p)
    PROVE  /\ ~At(p, "idle") /\ UNCHANGED <<shared, commands>>
           /\ \/ \E step \in Steps \ {"idle"} : Continues(p, step) /\ UNCHANGED crashes
              \/ \E class \in Classes : End(p, class)
<1> USE Busy, ConvertAssumption DEF At, StepsOf, Continues, Goes, Ends, Steps, Classes, bounds
<1>1. CASE Copies(p)
    BY <1>1 DEF Copies
<1>2. CASE OutputExists(p)
    BY <1>2 DEF OutputExists
<1>3. CASE MayWrite(p)
    BY <1>3 DEF MayWrite, Go, private
<1>4. CASE Read(p)
    BY <1>4 DEF Read, Go, AfterRead, Valid, Paths
<1>5. CASE Unread(p)
    BY <1>5 DEF Unread
<1>6. CASE Clear(p)
    BY <1>6 DEF Clear, Go, private
<1>7. CASE StageNew(p)
    BY <1>7 DEF StageNew, Go, Opens
<1>8. CASE StageOver(p)
    BY <1>8 DEF StageOver, Go, Opens
<1>9. CASE StageFails(p)
    BY <1>9 DEF StageFails
<1>10. CASE Fill(p)
    BY <1>10 DEF Fill, Go, private
<1>11. CASE FillFails(p)
    BY <1>11 DEF FillFails
<1>12. CASE Rename(p)
    BY <1>12 DEF Rename, Go, private
<1>13. CASE RenameFails(p)
    BY <1>13 DEF RenameFails
<1>14. CASE Report(p)
    BY <1>14 DEF Report
<1>15. CASE Export(p)
    BY <1>15 DEF Export, Go, private
<1>16. CASE Crash(p)
    BY <1>16 DEF Crash
<1> QED BY <1>1, <1>2, <1>3, <1>4, <1>5, <1>6, <1>7, <1>8, <1>9, <1>10, <1>11, <1>12, <1>13, <1>14, <1>15, <1>16 DEF Command

\* What a step of a terminal does to the disk, and to the file it has open.
Keeps(p) ==
    /\ UNCHANGED <<disk, open>>
    /\ pc[p] \in {"exists", "read", "clear"} /\ pc'[p] \in {"read", "clear", "stage", "export"}
    /\ At(p, "exists") /\ ~job[p].replace => Held(Itself(Output(p))) = NoFile
    /\ pc'[p] = "stage" => Output(p) \in Nosts \/ failed'[p]

Closes(p) ==
    /\ UNCHANGED holds /\ open' = [open EXCEPT ![p] = NoFile] /\ pc'[p] = "idle"
    /\ \/ UNCHANGED name
       \/ pc[p] \in {"fill", "rename"} /\ Points(Staged(Output(p)), NoFile)

Clears(p) == /\ At(p, "clear") /\ pc'[p] = "stage" /\ UNCHANGED <<holds, open>>
             /\ Points(Staged(Output(p)), NoFile)

Makes(p) == /\ At(p, "stage") /\ pc'[p] = "fill" /\ Points(Staged(Output(p)), number[p])
            /\ Put(number[p], Partial) /\ open' = [open EXCEPT ![p] = number[p]]

Truncates(p) == /\ At(p, "stage") /\ pc'[p] = "fill" /\ name[Staged(Output(p))] # NoFile
                /\ UNCHANGED name /\ Put(name[Staged(Output(p))], Partial)
                /\ open' = [open EXCEPT ![p] = name[Staged(Output(p))]]

Fills(p) == /\ At(p, "fill") /\ pc'[p] = "rename" /\ UNCHANGED <<name, open>>
            /\ \E what \in IF holds[open[p]] = Partial THEN {graph[p]} ELSE {graph[p], Mixed} :
                   Put(open[p], what)

Renames(p) == /\ At(p, "rename") /\ pc'[p] = "report" /\ UNCHANGED <<holds, open>>
              /\ name' = Renamed(Staged(Output(p)), Itself(Output(p)))

Exports(p) == /\ At(p, "export") /\ pc'[p] = "report" /\ UNCHANGED open
              /\ Points(Itself(Output(p)), number[p]) /\ Put(number[p], graph[p])

LEMMA CommandOnDisk ==
    ASSUME ConvertInv, NEW p \in Procs, Command(p)
    PROVE  \/ Keeps(p) \/ Closes(p) \/ Clears(p) \/ Makes(p) \/ Truncates(p)
           \/ Fills(p) \/ Renames(p) \/ Exports(p)
<1> USE DEF Keeps, Closes, At, Goes, Go, End, Ends, disk, private
<1>0. pc \in [Procs -> Steps] /\ failed \in [Procs -> BOOLEAN] /\ ~At(p, "idle")
    BY CommandMoves DEF ConvertInv, TypeOK
<1>1. CASE Copies(p) \/ OutputExists(p) \/ MayWrite(p) \/ Report(p) \/ Crash(p)
    BY <1>0, <1>1 DEF Copies, OutputExists, MayWrite, Report, Crash, Steps
<1>2. CASE Read(p)
    BY <1>0, <1>2 DEF Read, Steps, AfterRead, Output
<1>3. CASE Unread(p)
    BY <1>0, <1>3 DEF Unread, Steps
<1>4. CASE Clear(p)
    BY <1>0, <1>4 DEF Clear, Clears, Fails, Steps
<1>5. CASE StageNew(p)
    BY <1>0, <1>5 DEF StageNew, Opens, Makes, Steps
<1>6. CASE StageOver(p)
    BY <1>0, <1>6 DEF StageOver, Opens, Truncates, Held, Steps
<1>7. CASE StageFails(p) \/ FillFails(p) \/ RenameFails(p)
    BY <1>0, <1>7 DEF StageFails, FillFails, RenameFails, Steps
<1>8. CASE Fill(p)
    BY <1>0, <1>8 DEF Fill, Fills, Steps
<1>9. CASE Rename(p)
    BY <1>0, <1>9 DEF Rename, Renames, Steps
<1>10. CASE Export(p)
    BY <1>0, <1>10 DEF Export, Exports, Steps
<1> QED BY <1>1, <1>2, <1>3, <1>4, <1>5, <1>6, <1>7, <1>8, <1>9, <1>10 DEF Command

-----------------------------------------------------------------------------
(* The parts of the invariant, each kept by every step.                    *)

DiskOK ==
    /\ name \in [Paths \X {"itself", "staged"} -> Files]
    /\ holds \in [Paths \cup 1..MaxCommands -> Contents]
    /\ \A m, n \in DOMAIN name : name[m] = name[n] /\ name[m] # NoFile => m = n

PrivateOK ==
    /\ pc \in [Procs -> Steps] /\ job \in [Procs -> Jobs \cup {NoJob}]
    /\ number \in [Procs -> 0..MaxCommands]
    /\ graph \in [Procs -> Contents] /\ before \in [Procs -> Contents]
    /\ open \in [Procs -> Files] /\ failed \in [Procs -> BOOLEAN]
    /\ told \in [Procs -> Reports \cup {Untold}]
    /\ shared \subseteq Paths
    /\ commands \in 0..MaxCommands /\ crashes \in 0..MaxCrashes

LEMMA Typed == ConvertInv <=>
    /\ DiskOK /\ PrivateOK /\ OutputWhole /\ LeftoverHarmless
    /\ WorkFits /\ SharedFits /\ NumbersFit /\ OpenFits /\ OutputFits /\ SiblingFits
BY DEF ConvertInv, TypeOK, DiskOK, PrivateOK

\* A file that has not been made has no name at all.
LEMMA Nameless ==
    ASSUME NEW f, Unmade(f), DiskOK
    PROVE  \A n \in DOMAIN name : name[n] # f
<1>1. \A n \in DOMAIN name : \E o \in Paths : n = Itself(o) \/ n = Staged(o)
    BY DEF DiskOK, Itself, Staged
<1> QED BY <1>1 DEF Unmade

\* No file has two names.
LEMMA DiskNext == ConvertInv /\ [Next]_vars => DiskOK'
<1> SUFFICES ASSUME ConvertInv, [Next]_vars PROVE DiskOK'
    OBVIOUS
<1> USE ConvertAssumption DEF DiskOK
<1>0. DiskOK /\ PrivateOK
    BY Typed
<1>1. ASSUME NEW p \in Procs, Command(p) PROVE DiskOK'
    <2> DEFINE o == Output(p)
    <2>0. number[p] \in 1..MaxCommands /\ (pc[p] \notin {"exists", "read"} => graph[p] \in Graphs)
          /\ (pc[p] # "read" => o \in Paths)
        BY <1>1, CommandMoves, Busy
    <2>1. o \in Paths => Itself(o) \in DOMAIN name /\ Staged(o) \in DOMAIN name /\ Itself(o) # Staged(o)
        BY <1>0, Apart
    <2>2. At(p, "stage") \/ At(p, "export") =>
              /\ \A n \in DOMAIN name : name[n] # number[p]
              /\ number[p] \in Files /\ number[p] # NoFile
        BY <1>0, <2>0, Nameless DEF At, ConvertInv, NumbersFit, Files
    <2> HIDE DEF o
    <2>3. CASE Keeps(p)
        BY <1>0, <2>3 DEF Keeps, disk
    <2>4. CASE Closes(p) \/ Clears(p)
        BY <1>0, <2>0, <2>1, <2>4 DEF Closes, Clears, Points, Files, o, At
    <2>5. CASE Makes(p)
        BY <1>0, <2>0, <2>1, <2>2, <2>5 DEF Makes, Points, Put, Contents, o, At
    <2>6. CASE Truncates(p)
        <3>1. name[Staged(o)] \in DOMAIN holds
            BY <1>0, <2>0, <2>1, <2>6 DEF Truncates, Files, o, At
        <3> QED BY <1>0, <2>6, <3>1 DEF Truncates, Put, Contents, o
    <2>7. CASE Fills(p)
        BY <1>0, <2>0, <2>7 DEF Fills, Put, Contents, At
    <2>8. CASE Renames(p)
        BY <1>0, <2>0, <2>1, <2>8 DEF Renames, Renamed, Files, o, At
    <2>9. CASE Exports(p)
        BY <1>0, <2>0, <2>1, <2>2, <2>9 DEF Exports, Points, Put, Contents, o, At
    <2> QED BY <1>1, <2>3, <2>4, <2>5, <2>6, <2>7, <2>8, <2>9, CommandOnDisk
<1>2. ASSUME NEW p \in Procs, NEW j \in Jobs, Type(p, j) PROVE DiskOK'
    BY <1>0, <1>2 DEF Type, disk
<1>3. CASE UNCHANGED vars
    BY <1>0, <1>3 DEF vars, disk
<1> QED BY <1>1, <1>2, <1>3 DEF Next

\* What is known of the terminals.
LEMMA PrivateNext == ConvertInv /\ [Next]_vars => PrivateOK'
<1> SUFFICES ASSUME ConvertInv, [Next]_vars PROVE PrivateOK'
    OBVIOUS
<1> USE ConvertAssumption DEF PrivateOK
<1>0. DiskOK /\ PrivateOK /\ NoFile \in Contents /\ NoFile \in Files
    BY Typed DEF Contents, Files
<1>1. ASSUME NEW p \in Procs, Command(p) PROVE PrivateOK'
    <2>1. open' \in [Procs -> Files]
        <3>1. number[p] \in Files
            BY <1>1, CommandMoves, Busy DEF Files
        <3>2. At(p, "stage") => name[Staged(Output(p))] \in Files
            BY <1>0, <1>1, CommandMoves, Busy, Apart DEF At, DiskOK
        <3>3. CASE Keeps(p) \/ Closes(p) \/ Clears(p)
            BY <1>0, <3>3 DEF Keeps, Closes, Clears
        <3>4. CASE Makes(p) \/ Truncates(p)
            BY <1>0, <3>1, <3>2, <3>4 DEF Makes, Truncates
        <3>5. CASE Fills(p) \/ Renames(p) \/ Exports(p)
            BY <1>0, <3>5 DEF Fills, Renames, Exports
        <3> QED BY <1>1, <3>3, <3>4, <3>5, CommandOnDisk
    <2>2. failed' \in [Procs -> BOOLEAN]
        BY <1>0, <1>1 DEF Command, Copies, OutputExists, MayWrite, Read, Unread, Clear, StageNew, StageOver, StageFails,
            Fill, FillFails, Rename, RenameFails, Report, Export, Crash, Opens, Well, Fails
    <2>3. crashes' \in 0..MaxCrashes
        BY <1>0, <1>1 DEF Command, Copies, OutputExists, MayWrite, Read, Unread, Clear, StageNew, StageOver, StageFails,
            Fill, FillFails, Rename, RenameFails, Report, Export, Crash, Opens, Goes, Go, Ends, bounds
    <2>4. CASE \E step \in Steps \ {"idle"} : Continues(p, step)
        BY <1>0, <1>1, <2>1, <2>2, <2>3, <2>4, CommandMoves DEF Continues, Go, Contents
    <2>5. CASE \E class \in Classes : End(p, class)
        <3>1. told' \in [Procs -> Reports \cup {Untold}]
            <4>1. \A class \in Classes :
                      [op |-> job[p].op, class |-> class,
                       output |-> IF Writes(job[p]) THEN Output(p) ELSE NoFile] \in Reports
                BY <1>1, CommandMoves, Busy DEF Reports
            <4> QED BY <1>0, <2>5, <4>1 DEF End
        <3>2. /\ pc' \in [Procs -> Steps] /\ job' \in [Procs -> Jobs \cup {NoJob}]
              /\ graph' \in [Procs -> Contents] /\ before' \in [Procs -> Contents]
            BY <1>0, <2>5 DEF End, Steps
        <3>3. number' \in [Procs -> 0..MaxCommands]
            BY <1>0, <2>5 DEF End
        <3> QED BY <1>0, <1>1, <2>1, <2>2, <2>3, <3>1, <3>2, <3>3, CommandMoves
    <2> QED BY <1>1, <2>4, <2>5, CommandMoves
<1>2. ASSUME NEW p \in Procs, NEW j \in Jobs, Type(p, j) PROVE PrivateOK'
    <2>1. commands + 1 \in 0..MaxCommands
        BY <1>0, <1>2 DEF Type
    <2>2. before' \in [Procs -> Contents]
        <3>1. Writes(j) => Held(Itself(j.output)) \in Contents
            BY <1>0, Apart DEF Writes, Held, DiskOK, Files, Paths
        <3> QED BY <1>0, <1>2, <3>1 DEF Type
    <2>3. pc' \in [Procs -> Steps] /\ job' \in [Procs -> Jobs \cup {NoJob}]
        BY <1>0, <1>2 DEF Type, Steps
    <2>4. /\ told' \in [Procs -> Reports \cup {Untold}]
          /\ failed' \in [Procs -> BOOLEAN] /\ shared' \subseteq Paths
        BY <1>0, <1>2 DEF Type, Untold, Classes
    <2> QED BY <1>0, <1>2, <2>1, <2>2, <2>3, <2>4 DEF Type
<1>3. CASE UNCHANGED vars
    BY <1>0, <1>3 DEF vars, private, bounds
<1> QED BY <1>1, <1>2, <1>3 DEF Next

\* A terminal is at a step of its command; two that write one output are known.
LEMMA WorkNext == ConvertInv /\ [Next]_vars => WorkFits' /\ SharedFits'
<1> SUFFICES ASSUME ConvertInv, [Next]_vars PROVE WorkFits' /\ SharedFits'
    OBVIOUS
<1> USE ConvertAssumption DEF WorkFits, SharedFits, Writes, Output, At
<1>0. PrivateOK /\ WorkFits /\ SharedFits
    BY Typed
<1>1. ASSUME NEW p \in Procs, Command(p) PROVE WorkFits' /\ SharedFits'
    <2>0. /\ ~At(p, "idle") /\ UNCHANGED <<shared, commands>> /\ told[p] = Untold
          /\ pc[p] \notin {"exists", "read"} => graph[p] \in Graphs
          /\ \A q \in Procs \ {p} : open'[q] = open[q]
        <3>1. \A q \in Procs \ {p} : open'[q] = open[q]
            BY <1>0, <1>1, CommandOnDisk DEF PrivateOK, Keeps, Closes, Clears, Makes, Truncates, Fills, Renames, Exports
        <3> QED BY <1>1, <3>1, CommandMoves, Busy
    <2>1. ASSUME NEW step \in Steps \ {"idle"}, Continues(p, step) PROVE WorkFits' /\ SharedFits'
        <3>1. step \notin {"exists", "read"} => graph'[p] \in Graphs
            BY <1>0, <2>0, <2>1 DEF Continues, PrivateOK
        <3> QED BY <1>0, <2>0, <2>1, <3>1 DEF Continues, Go, PrivateOK
    <2>2. CASE \E class \in Classes : End(p, class)
        BY <1>0, <2>0, <2>2 DEF End, PrivateOK, NoJob
    <2> QED BY <1>1, <2>1, <2>2, CommandMoves
<1>2. ASSUME NEW p \in Procs, NEW j \in Jobs, Type(p, j) PROVE WorkFits' /\ SharedFits'
    <2>1. WorkFits'
        <3>1. \A q \in Procs \ {p} : /\ pc'[q] = pc[q] /\ job'[q] = job[q] /\ number'[q] = number[q]
                                      /\ open'[q] = open[q] /\ graph'[q] = graph[q] /\ told'[q] = told[q]
            BY <1>0, <1>2 DEF Type, PrivateOK
        <3>2. /\ pc'[p] = IF j.op = "convert" THEN "exists" ELSE "read"
              /\ job'[p] = j /\ number'[p] = commands + 1 /\ commands' = commands + 1
            BY <1>0, <1>2 DEF Type, PrivateOK
        <3>3. told'[p] = Untold
            BY <1>0, <1>2 DEF Type, PrivateOK
        <3>4. pc'[p] \in StepsOf(j.op) /\ pc'[p] # "idle"
            BY <3>2 DEF StepsOf
        <3>5. commands \in Nat
            BY <1>0 DEF PrivateOK
        <3> QED BY <1>0, <3>1, <3>2, <3>3, <3>4, <3>5
    <2>2. SharedFits'
        BY <1>0, <1>2 DEF Type, PrivateOK, Paths
    <2> QED BY <2>1, <2>2
<1>3. CASE UNCHANGED vars
    BY <1>0, <1>3 DEF vars, private, bounds
<1> QED BY <1>1, <1>2, <1>3 DEF Next

\* A file that has not been made is made by the command of its number only.
LEMMA UnmadeStays ==
    ASSUME ConvertInv, NEW p \in Procs, Command(p), NEW f \in 1..MaxCommands, Unmade(f),
           f # number[p] \/ pc[p] \notin {"stage", "export"}
    PROVE  Unmade(f)'
<1> USE ConvertAssumption DEF Unmade
<1>0. DiskOK /\ PrivateOK /\ f # NoFile
    BY Typed
<1>1. Writes(job[p]) => Output(p) \in Paths
    BY CommandMoves, Busy
<1>2. pc[p] # "read" => Writes(job[p])
    BY CommandMoves, Busy
<1>3. CASE Keeps(p)
    BY <1>3 DEF Keeps, disk
<1>4. CASE Closes(p) \/ Clears(p)
    BY <1>0, <1>1, <1>2, <1>4, Apart DEF Closes, Clears, Points, DiskOK, PrivateOK, At
<1>5. CASE Makes(p)
    BY <1>0, <1>1, <1>2, <1>5, Apart DEF Makes, Points, DiskOK, PrivateOK, At
<1>6. CASE Truncates(p)
    BY <1>0, <1>1, <1>2, <1>6 DEF Truncates, PrivateOK, At
<1>7. CASE Fills(p)
    BY <1>7 DEF Fills
<1>8. CASE Renames(p)
    <2>1. \A o \in Paths : /\ name'[Itself(o)] \in {name[Itself(o)], name[Staged(Output(p))], NoFile}
                           /\ name'[Staged(o)] \in {name[Staged(o)], name[Staged(Output(p))], NoFile}
        BY <1>0, <1>1, <1>2, <1>8, Apart DEF Renames, Renamed, DiskOK, At
    <2> QED BY <1>0, <1>1, <1>2, <1>8, <2>1 DEF Renames, At
<1>9. CASE Exports(p)
    BY <1>0, <1>1, <1>2, <1>9, Apart DEF Exports, Points, DiskOK, At
<1> QED BY <1>3, <1>4, <1>5, <1>6, <1>7, <1>8, <1>9, CommandOnDisk

\* The numbers of the commands and the files that do not exist yet.
LEMMA NumbersNext == ConvertInv /\ [Next]_vars => NumbersFit'
<1> SUFFICES ASSUME ConvertInv, [Next]_vars PROVE NumbersFit'
    OBVIOUS
<1> USE ConvertAssumption DEF NumbersFit
<1>0. DiskOK /\ PrivateOK /\ NumbersFit /\ WorkFits
    BY Typed
<1>1. ASSUME NEW p \in Procs, Command(p) PROVE NumbersFit'
    <2>0. /\ number[p] \in 1..MaxCommands /\ number[p] <= commands /\ UNCHANGED commands
          /\ number' \in {number, [number EXCEPT ![p] = 0]}
          /\ \A q \in Procs \ {p} : pc'[q] = pc[q]
        BY <1>0, <1>1, CommandMoves, Busy DEF Continues, End, Go, PrivateOK
    <2>1. ASSUME NEW q \in Procs, pc'[q] \in {"exists", "read", "clear", "stage", "export"}
          PROVE  Unmade(number[q])'
        <3>1. /\ number'[q] = number[q] /\ number[q] \in 1..MaxCommands /\ Unmade(number[q])
              /\ number[q] # number[p] \/ pc[p] \notin {"stage", "export"}
            <4>1. CASE q = p
                <5>1. /\ number'[p] = number[p] /\ pc[p] \in {"exists", "read", "clear"}
                    BY <1>0, <1>1, <2>1, <4>1, CommandMoves, CommandOnDisk
                       DEF Continues, End, PrivateOK, Keeps, Closes, Clears, Makes, Truncates, Fills, Renames, Exports, At
                <5> QED BY <1>0, <2>0, <4>1, <5>1
            <4>2. CASE q # p
                BY <1>0, <2>0, <2>1, <4>2 DEF WorkFits, PrivateOK, At
            <4> QED BY <4>1, <4>2
        <3>2. PICK f \in 1..MaxCommands : f = number[q]
            BY <3>1
        <3>3. Unmade(f)'
            BY <1>1, <3>1, <3>2, UnmadeStays
        <3> QED BY <3>1, <3>2, <3>3 DEF Unmade
    <2>2. \A f \in 1..MaxCommands : f > commands => Unmade(f)'
        BY <1>0, <1>1, <2>0, UnmadeStays DEF PrivateOK
    <2>3. \A r, q \in Procs : r # q /\ number'[r] = number'[q] => number'[r] = 0
        BY <1>0, <2>0 DEF PrivateOK
    <2> QED BY <2>0, <2>1, <2>2, <2>3
<1>2. ASSUME NEW p \in Procs, NEW j \in Jobs, Type(p, j) PROVE NumbersFit'
    <2>0. /\ commands' = commands + 1 /\ commands + 1 \in 1..MaxCommands
          /\ number' = [number EXCEPT ![p] = commands + 1]
          /\ \A q \in Procs \ {p} : pc'[q] = pc[q]
          /\ UNCHANGED <<name, open>>
        BY <1>0, <1>2 DEF Type, PrivateOK, disk
    <2>1. \A q \in Procs : number[q] <= commands
        BY <1>0 DEF WorkFits, PrivateOK
    <2>2. \A r, q \in Procs : r # q /\ number'[r] = number'[q] => number'[r] = 0
        BY <1>0, <2>0, <2>1 DEF PrivateOK
    <2>3. \A f : Unmade(f) => Unmade(f)'
        BY <2>0 DEF Unmade
    <2>4. \A q \in Procs : pc'[q] \in {"exists", "read", "clear", "stage", "export"} => Unmade(number'[q])
        BY <1>0, <2>0 DEF PrivateOK
    <2> QED BY <1>0, <2>0, <2>2, <2>3, <2>4 DEF PrivateOK, Unmade
<1>3. CASE UNCHANGED vars
    BY <1>0, <1>3 DEF vars, private, bounds, disk, Unmade
<1> QED BY <1>1, <1>2, <1>3 DEF Next

\* A command writes to files of its own output only.
LEMMA SiblingsStay ==
    ASSUME ConvertInv, NEW p \in Procs, Command(p), NEW o \in Paths,
           Alone(o), ~Writes(job[p]) \/ Output(p) # o
    PROVE  UNCHANGED <<name[Staged(o)], name[Itself(o)]>>
<1> USE ConvertAssumption
<1>0. DiskOK /\ Itself(o) \in DOMAIN name /\ Staged(o) \in DOMAIN name
    BY Typed, Apart DEF DiskOK
<1>1. pc[p] # "read" => Writes(job[p]) /\ Output(p) \in Paths
    BY CommandMoves, Busy
<1>2. Writes(job[p]) => /\ Staged(Output(p)) \notin {Staged(o), Itself(o)}
                        /\ Itself(Output(p)) \notin {Staged(o), Itself(o)}
    BY Apart, CommandMoves, Busy
<1>3. CASE Keeps(p) \/ Closes(p) \/ Clears(p)
    BY <1>0, <1>1, <1>2, <1>3 DEF Keeps, Closes, Clears, Points, disk, At
<1>4. CASE Makes(p) \/ Truncates(p) \/ Fills(p)
    BY <1>0, <1>1, <1>2, <1>4 DEF Makes, Truncates, Fills, Points, At
<1>5. CASE Renames(p) \/ Exports(p)
    BY <1>0, <1>1, <1>2, <1>5 DEF Renames, Renamed, Exports, Points, At
<1> QED BY <1>3, <1>4, <1>5, CommandOnDisk

\* Alone with an output, a command changes it only by its last step but one.
LEMMA ItselfStays ==
    ASSUME ConvertInv, NEW p \in Procs, Command(p), NEW o \in Paths, Alone(o)
    PROVE  \/ Held(Itself(o))' = Held(Itself(o)) /\ (Writes(job[p]) /\ Output(p) = o => pc'[p] # "report")
           \/ /\ Writes(job[p]) /\ Output(p) = o
              /\ pc'[p] = "report" /\ Held(Itself(o))' = graph[p] /\ graph[p] \in Graphs
<1> USE ConvertAssumption
<1>0. /\ DiskOK /\ PrivateOK /\ Itself(o) \in DOMAIN name /\ Staged(o) \in DOMAIN name /\ Itself(o) # Staged(o)
      /\ NumbersFit /\ OpenFits
    BY Typed, Apart DEF DiskOK
<1>1. /\ number[p] \in 1..MaxCommands /\ number[p] # NoFile
      /\ pc[p] # "read" => Writes(job[p]) /\ Output(p) \in Paths
      /\ pc[p] \notin {"exists", "read"} => graph[p] \in Graphs
    BY CommandMoves, Busy
<1>2. At(p, "stage") \/ At(p, "export") => name[Itself(o)] # number[p]
    BY <1>0 DEF NumbersFit, Unmade, At
<1>3. CASE Keeps(p)
    BY <1>3 DEF Keeps, disk, Held
<1>4. CASE Closes(p) \/ Clears(p)
    <2>1. Staged(Output(p)) # Itself(o) \/ UNCHANGED name
        BY <1>1, <1>4, Apart DEF Closes, Clears, At
    <2> QED BY <1>0, <1>4, <2>1 DEF Closes, Clears, Points, Held, DiskOK
<1>5. CASE Makes(p)
    <2>1. Staged(Output(p)) # Itself(o)
        BY <1>1, <1>5, Apart DEF Makes, At
    <2> QED BY <1>0, <1>2, <1>5, <2>1 DEF Makes, Points, Put, Held, DiskOK
<1>6. CASE Truncates(p)
    <2>1. Staged(Output(p)) \in DOMAIN name /\ Staged(Output(p)) # Itself(o)
        BY <1>0, <1>1, <1>6, Apart DEF Truncates, At, DiskOK
    <2>2. name[Itself(o)] # name[Staged(Output(p))]
        BY <1>0, <1>6, <2>1 DEF Truncates, DiskOK
    <2> QED BY <1>0, <1>6, <2>2 DEF Truncates, Put, Held, DiskOK
<1>7. CASE Fills(p)
    <2>1. name[Itself(o)] # open[p]
        <3>1. SUFFICES ASSUME name[Itself(o)] = open[p] PROVE FALSE
            OBVIOUS
        <3>2. o = Output(p) /\ name[Staged(o)] = open[p] /\ open[p] # NoFile
            BY <1>0, <1>7, <3>1 DEF OpenFits, Fills, At
        <3> QED BY <1>0, <3>1, <3>2 DEF DiskOK
    <2> QED BY <1>0, <1>7, <2>1 DEF Fills, Put, Held, DiskOK
<1>8. CASE Renames(p)
    <2>1. CASE Output(p) = o
        <3>1. name[Staged(o)] = open[p] /\ holds[open[p]] = graph[p] /\ open[p] # NoFile
            BY <1>0, <1>8, <2>1 DEF OpenFits, Renames, At
        <3>2. name'[Itself(o)] = open[p]
            BY <1>0, <1>8, <2>1, <3>1 DEF Renames, Renamed, DiskOK
        <3> QED BY <1>1, <1>8, <2>1, <3>1, <3>2 DEF Renames, Held, At
    <2>2. CASE Output(p) # o
        BY <1>8, <2>2, SiblingsStay DEF Renames, Held
    <2> QED BY <2>1, <2>2
<1>9. CASE Exports(p)
    <2>1. CASE Output(p) = o
        BY <1>0, <1>1, <1>9, <2>1 DEF Exports, Points, Put, Held, DiskOK, At
    <2>2. CASE Output(p) # o
        BY <1>0, <1>2, <1>9, <2>2, SiblingsStay DEF Exports, Put, Held, DiskOK
    <2> QED BY <2>1, <2>2
<1> QED BY <1>3, <1>4, <1>5, <1>6, <1>7, <1>8, <1>9, CommandOnDisk

\* What is said of a file that is being written.
FileFits(p) ==
    /\ open[p] \in Files \ {NoFile}
    /\ \A o \in Paths : open[p] \in {name[Itself(o)], name[Staged(o)]} => o = Output(p)
    /\ Alone(Output(p)) =>
           /\ name[Staged(Output(p))] = open[p]
           /\ holds[open[p]] = IF At(p, "fill") THEN Partial ELSE graph[p]

\* A command that begins to write, or goes on, knows its file.
LEMMA OwnFile ==
    ASSUME ConvertInv, NEW p \in Procs, Command(p), pc'[p] \in {"fill", "rename"}
    PROVE  FileFits(p)'
<1> USE ConvertAssumption DEF FileFits
<1>0. /\ DiskOK /\ PrivateOK /\ NumbersFit /\ OpenFits
      /\ number[p] \in 1..MaxCommands /\ number[p] # NoFile /\ number[p] \in Files /\ UNCHANGED shared
    BY Typed, CommandMoves, Busy DEF Files
<1>1. UNCHANGED <<job, graph>>
    <2>1. UNCHANGED job
        BY <1>0, CommandMoves DEF Continues, End, Go, PrivateOK
    <2>2. CASE Read(p)
        BY <1>0, <2>2 DEF Read, AfterRead, Go, Ends, End, PrivateOK
    <2>3. CASE Copies(p) \/ OutputExists(p) \/ Unread(p) \/ StageFails(p) \/ FillFails(p) \/ RenameFails(p)
                  \/ Report(p) \/ Crash(p)
        BY <1>0, <2>3 DEF Copies, OutputExists, Unread, StageFails, FillFails, RenameFails, Report, Crash, Ends, End, PrivateOK
    <2>4. CASE MayWrite(p) \/ Clear(p) \/ StageNew(p) \/ StageOver(p) \/ Fill(p) \/ Rename(p)
        BY <2>1, <2>4 DEF MayWrite, Clear, StageNew, StageOver, Fill, Rename, Opens, Goes, private
    <2>5. CASE Export(p)
        BY <1>0, <2>1, <2>5 DEF Export, Goes, Ends, End, private, PrivateOK
    <2> QED BY <2>1, <2>2, <2>3, <2>4, <2>5 DEF Command
<1>2. CASE Makes(p)
    <2>1. /\ Output(p) \in Paths /\ Staged(Output(p)) \in DOMAIN name /\ Unmade(number[p])
          /\ \A o \in Paths : /\ Itself(o) # Staged(Output(p))
                              /\ o # Output(p) => Staged(o) # Staged(Output(p))
        BY <1>0, <1>2, CommandMoves, Busy, Apart DEF Makes, At, DiskOK, NumbersFit
    <2>2. /\ open'[p] = number[p] /\ name'[Staged(Output(p))] = number[p]
          /\ holds'[number[p]] = Partial /\ pc'[p] = "fill"
        BY <1>0, <1>2, <2>1 DEF Makes, Points, Put, PrivateOK, DiskOK
    <2>3. \A o \in Paths : number[p] \in {name'[Itself(o)], name'[Staged(o)]} => o = Output(p)
        BY <1>0, <1>2, <2>1 DEF Makes, Points, Unmade, DiskOK
    <2> QED BY <1>0, <1>1, <2>2, <2>3 DEF Output, At
<1>3. CASE Truncates(p)
    <2>1. /\ Output(p) \in Paths /\ Staged(Output(p)) \in DOMAIN name
          /\ \A o \in Paths : /\ Itself(o) # Staged(Output(p)) /\ Itself(o) \in DOMAIN name /\ Staged(o) \in DOMAIN name
                              /\ o # Output(p) => Staged(o) # Staged(Output(p))
        BY <1>0, <1>3, CommandMoves, Busy, Apart DEF Truncates, At, DiskOK
    <2>2. /\ open'[p] = name[Staged(Output(p))] /\ UNCHANGED name
          /\ open'[p] \in Files \ {NoFile}
          /\ holds'[open'[p]] = Partial /\ pc'[p] = "fill"
        BY <1>0, <1>3, <2>1 DEF Truncates, Put, PrivateOK, DiskOK, Files
    <2>3. \A o \in Paths : open'[p] \in {name[Itself(o)], name[Staged(o)]} => o = Output(p)
        BY <1>0, <2>1, <2>2 DEF DiskOK
    <2> QED BY <1>0, <1>1, <2>2, <2>3 DEF Output, At
<1>4. CASE Fills(p)
    <2>1. FileFits(p) /\ At(p, "fill")
        BY <1>0, <1>4 DEF OpenFits, Fills, At
    <2>2. Alone(Output(p)) => holds'[open[p]] = graph[p]
        BY <1>0, <1>4, <2>1 DEF Fills, Put, Files, DiskOK
    <2> QED BY <1>0, <1>1, <1>4, <2>1, <2>2 DEF Fills, Output, At, Alone
<1> QED BY <1>2, <1>3, <1>4, CommandOnDisk DEF Keeps, Closes, Clears, Renames, Exports

\* A command leaves the files of others as they are, unless it shares them.
LEMMA OtherFile ==
    ASSUME ConvertInv, NEW p \in Procs, Command(p), NEW q \in Procs, q # p,
           pc[q] \in {"fill", "rename"}
    PROVE  FileFits(q)'
<1> USE ConvertAssumption DEF FileFits
<1>0. /\ DiskOK /\ PrivateOK /\ NumbersFit /\ OpenFits /\ SharedFits /\ FileFits(q)
      /\ Writes(job[q]) /\ Output(q) \in Paths /\ UNCHANGED shared
    BY Typed, CommandMoves, Busy DEF OpenFits, At
<1>1. /\ pc[p] # "read" => Writes(job[p]) /\ Output(p) \in Paths
      /\ number[p] \in 1..MaxCommands /\ number[p] # NoFile
      /\ At(p, "stage") \/ At(p, "export") => open[q] # number[p]
    BY <1>0, CommandMoves, Busy DEF NumbersFit, Unmade, At
<1>2. open'[q] = open[q] /\ pc'[q] = pc[q] /\ job'[q] = job[q] /\ graph'[q] = graph[q]
    <2>1. open'[q] = open[q]
        BY <1>0, CommandOnDisk DEF PrivateOK, Keeps, Closes, Clears, Makes, Truncates, Fills, Renames, Exports
    <2> QED BY <1>0, <2>1, CommandMoves DEF Continues, End, Go, PrivateOK
<1>3. \A o \in Paths : open[q] \in {name'[Itself(o)], name'[Staged(o)]} => o = Output(q)
    <2>1. \A o \in Paths : Itself(o) \in DOMAIN name /\ Staged(o) \in DOMAIN name
        BY <1>0, Apart DEF DiskOK
    <2>2. CASE Keeps(p) \/ Truncates(p) \/ Fills(p)
        BY <1>0, <2>2 DEF Keeps, Truncates, Fills, disk
    <2>3. CASE Closes(p) \/ Clears(p)
        BY <1>0, <2>1, <2>3 DEF Closes, Clears, Points, DiskOK
    <2>4. CASE Makes(p) \/ Exports(p)
        BY <1>0, <1>1, <2>1, <2>4 DEF Makes, Exports, Points, DiskOK
    <2>5. CASE Renames(p)
        <3>1. Writes(job[p]) /\ Output(p) \in Paths
            BY <1>1, <2>5 DEF Renames, At
        <3>2. \A o \in Paths :
                  /\ name'[Itself(o)] \in {name[Itself(o)], NoFile} \/ (o = Output(p) /\ name'[Itself(o)] = name[Staged(o)])
                  /\ name'[Staged(o)] \in {name[Staged(o)], NoFile}
            BY <1>0, <2>1, <2>5, <3>1, Apart DEF Renames, Renamed, DiskOK
        <3> QED BY <1>0, <3>2
    <2> QED BY <2>2, <2>3, <2>4, <2>5, CommandOnDisk
<1>4. CASE Alone(Output(q))
    <2>1. ~Writes(job[p]) \/ Output(p) # Output(q)
        BY <1>0, <1>4 DEF SharedFits, Alone
    <2>2. name'[Staged(Output(q))] = open[q]
        BY <1>0, <1>4, <2>1, SiblingsStay
    <2>3. holds'[open[q]] = holds[open[q]]
        <3>1. CASE Truncates(p)
            <4>1. name[Staged(Output(p))] # open[q]
                BY <1>0, <1>1, <2>1, <3>1 DEF Truncates, At
            <4> QED BY <1>0, <3>1, <4>1 DEF Truncates, Put, DiskOK, Files
        <3>2. CASE Fills(p)
            <4>1. open[p] # open[q]
                BY <1>0, <1>1, <1>4, <2>1, <3>2 DEF Fills, OpenFits, At
            <4> QED BY <1>0, <3>2, <4>1 DEF Fills, Put, DiskOK, Files
        <3>3. CASE Makes(p) \/ Exports(p)
            BY <1>0, <1>1, <3>3 DEF Makes, Exports, Put, DiskOK, Files
        <3>4. CASE Keeps(p) \/ Closes(p) \/ Clears(p) \/ Renames(p)
            BY <3>4 DEF Keeps, Closes, Clears, Renames, disk
        <3> QED BY <3>1, <3>2, <3>3, <3>4, CommandOnDisk
    <2> QED BY <1>0, <1>2, <1>3, <2>2, <2>3 DEF Output, Alone, At
<1>5. CASE ~Alone(Output(q))
    BY <1>0, <1>2, <1>3, <1>5 DEF Output, Alone
<1> QED BY <1>4, <1>5

LEMMA OpenNext == ConvertInv /\ [Next]_vars => OpenFits'
<1> SUFFICES ASSUME ConvertInv, [Next]_vars PROVE OpenFits'
    OBVIOUS
<1>0. PrivateOK /\ OpenFits
    BY Typed
<1>1. ASSUME NEW p \in Procs, Command(p) PROVE OpenFits'
    <2>1. \A q \in Procs \ {p} : pc'[q] = pc[q]
        BY <1>0, <1>1, CommandMoves DEF Continues, End, Go, PrivateOK
    <2>2. \A q \in Procs : pc'[q] \in {"fill", "rename"} => FileFits(q)'
        BY <1>1, <2>1, OwnFile, OtherFile
    <2> QED BY <2>2 DEF FileFits, OpenFits
<1>2. ASSUME NEW p \in Procs, NEW j \in Jobs, Type(p, j) PROVE OpenFits'
    BY <1>0, <1>2 DEF Type, OpenFits, PrivateOK, Alone, Output, At, disk
<1>3. CASE UNCHANGED vars
    BY <1>0, <1>3 DEF vars, private, bounds, disk, OpenFits, Alone, Output, At
<1> QED BY <1>1, <1>2, <1>3 DEF Next

\* The outputs: whole, as found, and as reported.
LEMMA OutputNext == ConvertInv /\ [Next]_vars => OutputWhole' /\ OutputFits'
<1> SUFFICES ASSUME ConvertInv, [Next]_vars PROVE OutputWhole' /\ OutputFits'
    OBVIOUS
<1> USE ConvertAssumption
<1>0. DiskOK /\ PrivateOK /\ WorkFits /\ SharedFits /\ OutputWhole /\ OutputFits
    BY Typed
<1>1. ASSUME NEW p \in Procs, Command(p) PROVE OutputWhole' /\ OutputFits'
    <2>0. UNCHANGED shared /\ ~At(p, "idle")
        BY <1>1, CommandMoves
    <2>1. OutputWhole'
        BY <1>0, <1>1, <2>0, ItselfStays DEF OutputWhole, Alone
    <2>2. ASSUME NEW q \in Procs, Writes(job'[q]), Alone(Output(q))'
          PROVE  LET now == Held(Itself(Output(q)))' IN
                 IF pc'[q] = "report" THEN now = graph'[q]
                 ELSE /\ now = before'[q]
                      /\ job'[q].op = "convert" /\ ~job'[q].replace /\ pc'[q] # "exists" => now = NoFile
        <3>1. job'[q] = job[q] /\ Alone(Output(q)) /\ Output(q)' = Output(q)
            BY <1>0, <1>1, <2>0, <2>2, CommandMoves DEF Continues, End, Go, PrivateOK, Writes, NoJob, Alone, Output
        <3>2. Output(q) \in Paths /\ ~At(q, "idle")
            BY <1>0, <2>2, <3>1, Busy DEF WorkFits, Writes, NoJob
        <3>3. CASE q = p
            <4>1. \E step \in Steps \ {"idle"} : Continues(p, step)
                BY <1>0, <1>1, <2>2, <3>3, CommandMoves DEF End, PrivateOK, Writes, NoJob
            <4>2. before'[p] = before[p] /\ pc[p] # "report" /\ pc'[p] # "exists"
                <5>1. pc[p] # "report"
                    BY <1>0, <1>1, <4>1, CommandOnDisk DEF Continues, Go, PrivateOK, Keeps, Closes, Clears, Makes, Truncates, Fills, Renames, Exports, At
                <5> QED BY <1>0, <4>1, <5>1 DEF Continues, Go, PrivateOK
            <4>3. CASE pc'[p] = "report"
                <5>1. Renames(p) \/ Exports(p)
                    BY <1>1, <4>3, CommandOnDisk DEF Keeps, Closes, Clears, Makes, Truncates, Fills
                <5>2. graph'[p] = graph[p]
                    <6>1. Rename(p) \/ Export(p)
                        BY <1>0, <1>1, <4>3, <5>1 DEF Renames, Exports, At, Command, Copies, OutputExists, MayWrite, Read, Unread, Clear, StageNew, StageOver, StageFails, Fill, FillFails, RenameFails, Report, Crash, Ends, End, PrivateOK
                    <6> QED BY <1>0, <4>3, <6>1 DEF Rename, Export, Goes, Ends, End, private, PrivateOK
                <5> QED BY <1>1, <2>2, <3>1, <3>2, <3>3, <4>3, <5>2, ItselfStays DEF Writes
            <4>4. CASE pc'[p] # "report"
                <5>1. Held(Itself(Output(p)))' = Held(Itself(Output(p)))
                    <6>1. PICK r \in Paths : r = Output(p)
                        BY <3>2, <3>3
                    <6>2. Held(Itself(r))' = Held(Itself(r))
                        BY <1>1, <3>1, <3>3, <4>4, <6>1, ItselfStays
                    <6> QED BY <3>1, <3>3, <6>1, <6>2
                <5>2. At(p, "exists") /\ ~job[p].replace => Held(Itself(Output(p))) = NoFile
                    BY <1>0, <1>1, <4>1, CommandOnDisk
                       DEF Continues, Go, PrivateOK, Keeps, Closes, Clears, Makes, Truncates, Fills, Renames, Exports, At
                <5> QED BY <1>0, <2>2, <3>1, <3>2, <3>3, <4>2, <4>4, <5>1, <5>2 DEF OutputFits, At
            <4> QED BY <4>3, <4>4
        <3>4. CASE q # p
            <4>1. pc'[q] = pc[q] /\ graph'[q] = graph[q] /\ before'[q] = before[q]
                BY <1>0, <1>1, <3>4, CommandMoves DEF Continues, End, Go, PrivateOK
            <4>2. ~Writes(job[p]) \/ Output(p) # Output(q)
                BY <1>0, <2>2, <3>1, <3>4 DEF SharedFits, Alone
            <4>3. Held(Itself(Output(q)))' = Held(Itself(Output(q)))
                <5>1. PICK r \in Paths : r = Output(q)
                    BY <3>2
                <5>2. Held(Itself(r))' = Held(Itself(r))
                    BY <1>1, <3>1, <4>2, <5>1, ItselfStays
                <5> QED BY <3>1, <5>1, <5>2
            <4> QED BY <1>0, <2>2, <3>1, <4>1, <4>3 DEF OutputFits, At
        <3> QED BY <3>3, <3>4
    <2> QED BY <2>1, <2>2 DEF OutputFits, At
<1>2. ASSUME NEW p \in Procs, NEW j \in Jobs, Type(p, j) PROVE OutputWhole' /\ OutputFits'
    <2>1. /\ \A o : Held(Itself(o))' = Held(Itself(o)) /\ (Alone(o)' => Alone(o))
          /\ \A q \in Procs \ {p} : pc'[q] = pc[q] /\ job'[q] = job[q] /\ graph'[q] = graph[q] /\ before'[q] = before[q]
          /\ job'[p] = j /\ pc'[p] # "report"
          /\ Writes(j) => before'[p] = Held(Itself(j.output))
          /\ j.op = "convert" => pc'[p] = "exists"
        BY <1>0, <1>2 DEF Type, disk, Held, Alone, PrivateOK
    <2>2. OutputWhole'
        BY <1>0, <2>1 DEF OutputWhole
    <2>3. ASSUME NEW q \in Procs, Writes(job'[q]), Alone(Output(q))'
          PROVE  LET now == Held(Itself(Output(q)))' IN
                 IF pc'[q] = "report" THEN now = graph'[q]
                 ELSE /\ now = before'[q]
                      /\ job'[q].op = "convert" /\ ~job'[q].replace /\ pc'[q] # "exists" => now = NoFile
        <3>1. Held(Itself(Output(q)))' = Held(Itself(job'[q].output)) /\ Alone(job'[q].output)
            BY <2>1, <2>3 DEF Output
        <3>2. CASE q = p
            BY <2>1, <2>3, <3>1, <3>2
        <3>3. CASE q # p
            BY <1>0, <2>1, <2>3, <3>1, <3>3 DEF OutputFits, Output, At
        <3> QED BY <3>2, <3>3
    <2> QED BY <2>2, <2>3 DEF OutputFits, At
<1>3. CASE UNCHANGED vars
    BY <1>0, <1>3 DEF vars, private, bounds, disk, OutputWhole, OutputFits, Alone, Output, Held, At
<1> QED BY <1>1, <1>2, <1>3 DEF Next

\* What a command left behind is in nobody's way.
LEMMA SiblingNext == ConvertInv /\ [Next]_vars => SiblingFits'
<1> SUFFICES ASSUME ConvertInv, [Next]_vars PROVE SiblingFits'
    OBVIOUS
<1> USE ConvertAssumption DEF SiblingFits
<1>0. DiskOK /\ PrivateOK /\ SharedFits /\ SiblingFits /\ WorkFits
    BY Typed
<1>1. ASSUME NEW p \in Procs, Command(p), NEW q \in Procs,
             pc'[q] = "stage", Output(q)' \in Databases, Alone(Output(q))'
      PROVE  failed'[q] \/ name'[Staged(Output(q)')] = NoFile
    <2>1. UNCHANGED shared
        BY <1>1, CommandMoves
    <2>2. CASE q = p
        <3>1. Output(q)' = Output(p) /\ job'[p] = job[p]
            BY <1>0, <1>1, <2>2, CommandMoves DEF Continues, End, Go, PrivateOK, Output
        <3>2. CASE Keeps(p)
            BY <1>1, <2>2, <3>1, <3>2 DEF Keeps
        <3>3. CASE Clears(p)
            <4>1. Staged(Output(p)) \in DOMAIN name
                BY <1>0, <1>1, <3>3, CommandMoves, Busy, Apart DEF Clears, DiskOK, At
            <4> QED BY <1>0, <2>2, <3>1, <3>3, <4>1 DEF Clears, Points, DiskOK
        <3>4. ~Closes(p) /\ ~Makes(p) /\ ~Truncates(p) /\ ~Fills(p) /\ ~Renames(p) /\ ~Exports(p)
            BY <1>1, <2>2 DEF Closes, Makes, Truncates, Fills, Renames, Exports
        <3> QED BY <1>1, <3>2, <3>3, <3>4, CommandOnDisk
    <2>3. CASE q # p
        <3>1. pc'[q] = pc[q] /\ job'[q] = job[q] /\ Output(q)' = Output(q)
            BY <1>0, <1>1, <2>3, CommandMoves DEF Continues, End, Go, PrivateOK, Output
        <3>2. failed'[q] = failed[q]
            BY <1>0, <1>1, <2>3 DEF PrivateOK, Command, Copies, OutputExists, MayWrite, Read, Unread, Clear, StageNew,
                StageOver, StageFails, Fill, FillFails, Rename, RenameFails, Report, Export, Crash, Opens, Well, Fails
        <3>3. /\ Alone(Output(q)) /\ Writes(job[q]) /\ Output(q) \in Paths
              /\ ~Writes(job[p]) \/ Output(p) # Output(q)
            BY <1>0, <1>1, <2>1, <2>3, <3>1, Busy DEF SharedFits, Alone, At
        <3>4. name'[Staged(Output(q))] = name[Staged(Output(q))]
            BY <1>1, <3>3, SiblingsStay
        <3> QED BY <1>0, <1>1, <3>1, <3>2, <3>3, <3>4 DEF At
    <2> QED BY <2>2, <2>3
<1>2. ASSUME NEW p \in Procs, NEW j \in Jobs, Type(p, j) PROVE SiblingFits'
    <2>1. /\ \A q \in Procs \ {p} : pc'[q] = pc[q] /\ job'[q] = job[q] /\ failed'[q] = failed[q]
          /\ pc'[p] # "stage" /\ UNCHANGED name /\ shared \subseteq shared'
        BY <1>0, <1>2 DEF Type, disk, PrivateOK
    <2> QED BY <1>0, <2>1 DEF Output, Alone, At
<1>3. CASE UNCHANGED vars
    BY <1>0, <1>3 DEF vars, private, bounds, disk, Alone, Output, At
<1>4. (\E p \in Procs : Command(p)) => SiblingFits'
    BY <1>1 DEF At
<1> QED BY <1>2, <1>3, <1>4 DEF Next

LEMMA LeftoverNext == ConvertInv /\ [Next]_vars => LeftoverHarmless'
<1> SUFFICES ASSUME ConvertInv, [Next]_vars PROVE LeftoverHarmless'
    OBVIOUS
<1> USE ConvertAssumption DEF LeftoverHarmless
<1>0. DiskOK /\ PrivateOK /\ SiblingFits /\ LeftoverHarmless /\ OpenFits
    BY Typed
<1>1. ASSUME NEW p \in Procs, Command(p) PROVE LeftoverHarmless'
    <2>0. UNCHANGED shared /\ \A q \in Procs \ {p} : told'[q] = told[q]
        BY <1>0, <1>1, CommandMoves DEF Continues, End, Go, PrivateOK
    <2>1. \A q \in Procs \ {p} : failed'[q] = failed[q]
        BY <1>0, <1>1 DEF PrivateOK, Command, Copies, OutputExists, MayWrite, Read, Unread, Clear, StageNew,
            StageOver, StageFails, Fill, FillFails, Rename, RenameFails, Report, Export, Crash, Opens, Well, Fails
    <2>2. ASSUME told'[p].op = "convert", told'[p].class = "io"
          PROVE  failed'[p] \/ ~Alone(told[p].output)'
        <3>1. /\ End(p, "io") /\ job[p].op = "convert" /\ told'[p].output = Output(p)
            <4>1. ~\E step \in Steps \ {"idle"} : Continues(p, step)
                BY <1>1, <2>2, CommandMoves, Busy DEF Continues, Go, Untold
            <4>2. PICK class \in Classes : End(p, class)
                BY <1>1, <4>1, CommandMoves
            <4>3. told'[p] = [op |-> job[p].op, class |-> class,
                              output |-> IF Writes(job[p]) THEN Output(p) ELSE NoFile]
                BY <1>0, <4>2 DEF End, PrivateOK
            <4> QED BY <2>2, <4>2, <4>3 DEF Writes
        <3>2. /\ Output(p) \in Paths /\ Staged(Output(p)) \in DOMAIN name /\ ~At(p, "idle")
              /\ pc[p] \notin {"exists", "read"} => graph[p] \in Graphs
            BY <1>0, <1>1, <3>1, CommandMoves, Busy, Apart DEF Writes, DiskOK
        <3>3. SUFFICES ASSUME Alone(Output(p)) PROVE failed'[p]
            BY <2>0, <3>1 DEF Alone
        <3>4. CASE StageFails(p)
            <4>1. CASE Fails(p)
                BY <1>0, <4>1 DEF Fails, PrivateOK
            <4>2. CASE Held(Staged(Output(p))) # NoFile /\ Output(p) \in Databases /\ Well
                BY <1>0, <3>3, <3>4, <4>2 DEF StageFails, SiblingFits, Held, Well
            <4> QED BY <3>4, <4>1, <4>2 DEF StageFails
        <3>5. CASE RenameFails(p)
            <4>1. Held(Staged(Output(p))) # NoFile
                BY <1>0, <3>2, <3>3, <3>5 DEF RenameFails, OpenFits, Held, At
            <4> QED BY <1>0, <3>5, <4>1 DEF RenameFails, Fails, PrivateOK
        <3>6. CASE Unread(p) \/ FillFails(p)
            BY <1>0, <2>2, <3>6 DEF Unread, FillFails, Fails, Ends, End, PrivateOK
        <3>7. CASE Copies(p) \/ OutputExists(p) \/ Report(p) \/ Crash(p)
            BY <1>0, <2>2, <3>7 DEF Copies, OutputExists, Report, Crash, Ends, End, PrivateOK
        <3>10. CASE Read(p)
            BY <1>0, <2>2, <3>1, <3>10 DEF Read, Go, Ends, End, PrivateOK, AfterRead
        <3>8. CASE MayWrite(p) \/ Clear(p) \/ StageNew(p) \/ StageOver(p) \/ Fill(p) \/ Rename(p)
            BY <1>0, <3>1, <3>8 DEF MayWrite, Clear, StageNew, StageOver, Fill, Rename, Opens, Goes, Go, End, PrivateOK
        <3>9. CASE Export(p)
            <4>1. job[p].op = "export"
                BY <1>1, <3>9, CommandMoves, Busy DEF Export, StepsOf, At
            <4> QED BY <3>1, <4>1
        <3> QED BY <1>1, <3>4, <3>5, <3>6, <3>7, <3>8, <3>9, <3>10 DEF Command
    <2> QED BY <1>0, <2>0, <2>1, <2>2 DEF Alone
<1>2. ASSUME NEW p \in Procs, NEW j \in Jobs, Type(p, j) PROVE LeftoverHarmless'
    <2>1. /\ \A q \in Procs \ {p} : told'[q] = told[q] /\ failed'[q] = failed[q]
          /\ told'[p] = Untold /\ shared \subseteq shared'
        BY <1>0, <1>2 DEF Type, PrivateOK
    <2> QED BY <1>0, <2>1 DEF Untold, Alone
<1>3. CASE UNCHANGED vars
    BY <1>0, <1>3 DEF vars, bounds, Alone
<1> QED BY <1>1, <1>2, <1>3 DEF Next

-----------------------------------------------------------------------------
(* The theorems.                                                           *)

\* The invariant holds before the first command.
LEMMA InvInit == Init => ConvertInv
<1> SUFFICES ASSUME Init PROVE ConvertInv
    OBVIOUS
<1> USE ConvertAssumption
<1>0. PICK held \in [Paths -> {Refused, Linked, NoFile} \cup Graphs] :
          /\ name = [n \in Paths \X {"itself", "staged"} |->
                       IF n[2] = "itself" /\ held[n[1]] # NoFile THEN n[1] ELSE NoFile]
          /\ holds = [f \in Paths \cup 1..MaxCommands |-> IF f \in Paths THEN held[f] ELSE NoFile]
    BY DEF Init
<1>1. DiskOK
    <2>1. name \in [Paths \X {"itself", "staged"} -> Files]
        BY <1>0 DEF Files
    <2>2. holds \in [Paths \cup 1..MaxCommands -> Contents]
        BY <1>0 DEF Contents
    <2>3. \A m, n \in DOMAIN name : name[m] = name[n] /\ name[m] # NoFile => m = n
        BY <1>0
    <2> QED BY <2>1, <2>2, <2>3 DEF DiskOK
<1>2. PrivateOK
    BY DEF Init, PrivateOK, Steps, Contents, Files
<1>3. OutputWhole
    BY <1>0, Apart DEF OutputWhole, Held, Itself, Paths
<1>4. LeftoverHarmless /\ WorkFits /\ SharedFits /\ OpenFits /\ OutputFits /\ SiblingFits
    BY DEF Init, LeftoverHarmless, WorkFits, SharedFits, OpenFits, OutputFits, SiblingFits, At, Untold, Writes, NoJob
<1>5. NumbersFit
    <2>1. \A f \in 1..MaxCommands : Unmade(f)
        BY <1>0, Apart DEF Init, Unmade, Paths
    <2> QED BY <2>1 DEF Init, NumbersFit
<1> QED BY <1>1, <1>2, <1>3, <1>4, <1>5, Typed

LEMMA InvNext == ConvertInv /\ [Next]_vars => ConvertInv'
<1> SUFFICES ASSUME ConvertInv, [Next]_vars PROVE ConvertInv'
    OBVIOUS
<1>1. DiskOK' /\ PrivateOK'
    BY DiskNext, PrivateNext
<1>2. /\ OutputWhole' /\ LeftoverHarmless'
      /\ WorkFits' /\ SharedFits' /\ NumbersFit' /\ OpenFits' /\ OutputFits' /\ SiblingFits'
    BY WorkNext, NumbersNext, OpenNext, OutputNext, SiblingNext, LeftoverNext
<1> QED BY <1>1, <1>2 DEF ConvertInv, TypeOK, DiskOK, PrivateOK

\* The invariant is inductive.
THEOREM ConvertFits == Spec => []ConvertInv
BY InvInit, InvNext, PTL DEF Spec

\* An output is never seen half written, whatever step a command is killed or
\* fails at, unless two commands have written it together.
THEOREM OutputIsWhole == Spec => []OutputWhole
BY ConvertFits, PTL DEF ConvertInv

\* What a killed or failed conversion leaves makes no later one fail.
THEOREM LeftoversAreHarmless == Spec => []LeftoverHarmless
BY ConvertFits, PTL DEF ConvertInv

\* A conversion has done to its output what it reports.
THEOREM AnsweredIsDone == Spec => AnsweredAsDone
<1>1. ASSUME ConvertInv, [Next]_vars, NEW p \in Procs, NEW o \in Paths,
             job[p].op = "convert", Output(p) = o, job'[p] = NoJob, Alone(o)
      PROVE  CASE told'[p].class = "success" -> Held(Itself(o))' = graph[p]
               [] told'[p].class = "killed" -> Held(Itself(o))' \in {before[p], graph[p]}
               [] OTHER -> Held(Itself(o))' = before[p]
    <2>0. PrivateOK /\ OutputFits /\ WorkFits /\ Writes(job[p]) /\ job[p] # NoJob /\ ~At(p, "idle")
        BY <1>1, Typed DEF Writes, NoJob, WorkFits
    <2>1. Command(p)
        <3>1. ASSUME NEW q \in Procs \ {p}, Command(q) PROVE FALSE
            BY <1>1, <2>0, <3>1, CommandMoves DEF Continues, End, Go, PrivateOK
        <3>2. ASSUME NEW q \in Procs, NEW j \in Jobs, Type(q, j) PROVE FALSE
            BY <1>1, <2>0, <3>2 DEF Type, PrivateOK, At
        <3>3. vars' # vars
            BY <1>1, <2>0 DEF vars
        <3> QED BY <1>1, <3>1, <3>2, <3>3 DEF Next
    <2>2. pc'[p] = "idle"
        BY <1>1, <2>0, <2>1, CommandMoves DEF Continues, End, Go, PrivateOK
    <2>3. Held(Itself(o))' = Held(Itself(o))
        BY <1>1, <2>1, <2>2, ItselfStays
    <2>4. Held(Itself(o)) = IF At(p, "report") THEN graph[p] ELSE before[p]
        BY <1>1, <2>0 DEF OutputFits
    <2>5. told'[p].class = "success" <=> Report(p)
        BY <1>1, <2>0, <2>1, <2>2 DEF Command, Copies, OutputExists, MayWrite, Read, Unread, Clear, StageNew, StageOver,
            StageFails, Fill, FillFails, Rename, RenameFails, Report, Export, Crash, Ends, End, Goes, Go, Opens, PrivateOK
    <2>6. At(p, "report") => Report(p) \/ told'[p].class = "killed"
        BY <1>1, <2>0, <2>1, <2>2 DEF Command, Copies, OutputExists, MayWrite, Read, Unread, Clear, StageNew, StageOver,
            StageFails, Fill, FillFails, Rename, RenameFails, Export, Crash, End, At, PrivateOK
    <2>7. Report(p) => At(p, "report")
        BY DEF Report
    <2> QED BY <2>3, <2>4, <2>5, <2>6, <2>7
<1>2. ConvertInv /\ [Next]_vars =>
        [\A p \in Procs, o \in Paths :
            (job[p].op = "convert" /\ Output(p) = o /\ job'[p] = NoJob /\ Alone(o)) =>
                LET after == Held(Itself(o))' IN
                CASE told'[p].class = "success" -> after = graph[p]
                  [] told'[p].class = "killed" -> after \in {before[p], graph[p]}
                  [] OTHER -> after = before[p]]_vars
    BY <1>1
<1> QED BY <1>2, ConvertFits, PTL DEF Spec, AnsweredAsDone

\* No file is written over unasked.
THEOREM KeptWhatWasThere == Spec => KeptUnlessAsked
<1>1. ConvertInv /\ [Next]_vars =>
        [\A p \in Procs :
            (At(p, "rename") /\ pc'[p] = "report" /\ ~job[p].replace /\ Alone(Output(p))) =>
                Held(Itself(Output(p))) = NoFile]_vars
    <2>1. ASSUME ConvertInv, NEW p \in Procs, At(p, "rename"), ~job[p].replace, Alone(Output(p))
          PROVE  Held(Itself(Output(p))) = NoFile
        BY <2>1, Busy, Typed DEF OutputFits, At, Writes
    <2> QED BY <2>1
<1> QED BY <1>1, ConvertFits, PTL DEF Spec, KeptUnlessAsked
=============================================================================
