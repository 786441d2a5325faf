---------------------------- MODULE DaemonProofs ----------------------------
(***************************************************************************)
(* What the commands of a user's terminals report of the daemon, of the    *)
(* statement and of the catalog is so, for every number of terminals,      *)
(* commands, names, kills and failing calls.                               *)
(***************************************************************************)
EXTENDS Daemon, TLAPS

-----------------------------------------------------------------------------
(* The ways a step of a terminal can go.                                   *)

\* A command under way is one that can be typed, and has a number.
LEMMA Busy ==
    ASSUME DaemonInv, NEW p \in Procs, ~At(p, "idle")
    PROVE  /\ job[p] \in Jobs /\ pc[p] \in StepsOf(job[p].op)
           /\ number[p] \in Daemons /\ number[p] <= commands
           /\ executed[p] = 0 /\ told[p] = Untold
BY DaemonAssumption DEF DaemonInv, WorkFits, NumbersFit, TypeOK, Daemons

Continues(p, step) ==
    /\ Go(p, step) /\ step \in StepsOf(job[p].op)
    /\ polls' \in [Procs -> 0..MaxPolls]
    /\ UNCHANGED <<job, number, told, standing, executed>>

Finishes(p, class) ==
    /\ End(p, class)
    /\ executed' \in {executed, [executed EXCEPT ![p] = 1]}

\* A step of a terminal is one of a command, which goes on or ends.
LEMMA ClientMoves ==
    ASSUME DaemonInv, NEW p \in Procs, Client(p)
    PROVE  /\ ~At(p, "idle") /\ UNCHANGED bounds
           /\ \/ \E step \in Steps \ {"idle"} : Continues(p, step)
              \/ \E class \in Classes : Finishes(p, class)
<1> USE Busy, DaemonAssumption DEF At, StepsOf, Continues, Finishes, Goes, Ends, Go, Steps, Classes, OtherThings
<1>0. polls \in [Procs -> 0..MaxPolls] /\ executed \in [Procs -> 0..MaxCommands]
    BY DEF DaemonInv, TypeOK
<1>1. CASE Status(p)
    BY <1>0, <1>1 DEF Status
<1>2. CASE StartCheck(p)
    BY <1>0, <1>2 DEF StartCheck, Found
<1>3. CASE Spawn(p)
    BY <1>0, <1>3 DEF Spawn
<1>4. CASE Look(p)
    BY <1>0, <1>4 DEF Look, Found
<1>5. CASE LookAtChild(p)
    BY <1>0, <1>5 DEF LookAtChild
<1>6. CASE Deadline(p)
    BY <1>0, <1>6 DEF Deadline
<1>7. CASE Attend(p)
    BY <1>0, <1>7 DEF Attend
<1>8. CASE ConnectRefused(p)
    BY <1>0, <1>8 DEF ConnectRefused
<1>9. CASE Connect(p)
    BY <1>0, <1>9 DEF Connect
<1>10. CASE Breaks(p)
    <2>1. PICK done \in BOOLEAN : End(p, "io")
              /\ executed' = [executed EXCEPT ![p] = @ + IF done THEN 1 ELSE 0]
        BY <1>10 DEF Breaks
    <2>2. executed[p] = 0 /\ UNCHANGED bounds
        BY <1>10 DEF Breaks
    <2>3. executed' \in {executed, [executed EXCEPT ![p] = 1]}
        <3>1. CASE done
            BY <1>0, <2>1, <2>2, <3>1
        <3>2. CASE ~done
            BY <1>0, <2>1, <2>2, <3>2
        <3> QED BY <3>1, <3>2
    <2> QED BY <1>10, <2>1, <2>2, <2>3 DEF Breaks
<1>11. CASE Shutdown(p)
    BY <1>0, <1>11 DEF Shutdown
<1>12. CASE OpenSession(p)
    BY <1>0, <1>12 DEF OpenSession
<1>13. CASE Query(p)
    <2>1. executed[p] = 0 /\ executed[p] + 1 = 1
        BY <1>13 DEF Query
    <2>2. CASE Ends(p, "validation")
        BY <1>0, <1>13, <2>2 DEF Query
    <2>3. CASE Executes(p) /\ \E class \in {"success", "usage"} : End(p, class)
        BY <1>0, <1>13, <2>1, <2>3 DEF Query, Executes
    <2> QED BY <1>13, <2>2, <2>3 DEF Query
<1>14. CASE Load(p)
    BY <1>0, <1>14 DEF Load
<1>15. CASE Store(p)
    BY <1>0, <1>15 DEF Store
<1>16. CASE StoreFails(p)
    BY <1>0, <1>16 DEF StoreFails
<1> QED BY <1>1, <1>2, <1>3, <1>4, <1>5, <1>6, <1>7, <1>8, <1>9, <1>10, <1>11, <1>12, <1>13, <1>14, <1>15, <1>16 DEF Client

\* What a step of a terminal does to the daemons.
LEMMA ClientOnServer ==
    ASSUME DaemonInv, NEW p \in Procs, Client(p)
    PROVE  \/ UNCHANGED server
           \/ /\ At(p, "spawn") /\ pc'[p] = "look"
              /\ life' = [life EXCEPT ![number[p]] = "born"] /\ UNCHANGED <<lock, socket, busy>>
           \/ /\ At(p, "look") /\ Exits(number[p]) /\ End(p, "io")
              /\ IF lock = number[p] THEN lock' = 0 /\ busy' = FALSE /\ socket' = "left"
                 ELSE UNCHANGED <<lock, busy, socket>>
           \/ /\ At(p, "shutdown") /\ Serving /\ UNCHANGED <<lock, socket, busy>>
              /\ life' = [life EXCEPT ![lock] = "leaving"]
<1> USE DEF At, Goes, Go, Ends, server
<1>0. pc \in [Procs -> Steps]
    BY DEF DaemonInv, TypeOK
<1>1. CASE Status(p) \/ StartCheck(p) \/ Look(p) \/ LookAtChild(p) \/ Attend(p)
    BY <1>1 DEF Status, StartCheck, Look, Found, LookAtChild, Attend
<1>2. CASE Spawn(p)
    BY <1>0, <1>2 DEF Spawn
<1>3. CASE Deadline(p)
    BY <1>3 DEF Deadline
<1>4. CASE ConnectRefused(p) \/ Connect(p) \/ OpenSession(p) \/ Query(p)
    BY <1>4 DEF ConnectRefused, Connect, OpenSession, Query
<1>5. CASE Breaks(p) \/ Shutdown(p)
    BY <1>5 DEF Breaks, Shutdown
<1>6. CASE Load(p) \/ Store(p) \/ StoreFails(p)
    BY <1>6 DEF Load, Store, StoreFails
<1> QED BY <1>1, <1>2, <1>3, <1>4, <1>5, <1>6 DEF Client

\* What it does to the catalog: only a command that changes it gets to store.
LEMMA ClientOnNames ==
    ASSUME DaemonInv, NEW p \in Procs, Client(p)
    PROVE  \/ Load(p) \/ Store(p)
           \/ UNCHANGED names /\ pc'[p] # "store"
<1> USE DEF At, Goes, Go, End, Ends, OtherThings
<1>0. pc \in [Procs -> Steps]
    BY DEF DaemonInv, TypeOK
<1>1. CASE Status(p) \/ StartCheck(p) \/ Spawn(p) \/ Look(p) \/ LookAtChild(p) \/ Deadline(p) \/ Attend(p)
    BY <1>0, <1>1 DEF Status, StartCheck, Found, Spawn, Look, LookAtChild, Deadline, Attend
<1>2. CASE ConnectRefused(p) \/ Connect(p) \/ Breaks(p) \/ Shutdown(p) \/ OpenSession(p) \/ Query(p)
    BY <1>0, <1>2 DEF ConnectRefused, Connect, Breaks, Shutdown, OpenSession, Query
<1>3. CASE StoreFails(p)
    BY <1>0, <1>3 DEF StoreFails
<1> QED BY <1>1, <1>2, <1>3 DEF Client

-----------------------------------------------------------------------------
(* The parts of the invariant, each kept by every step.                    *)

\* The invariant holds before the first command.
LEMMA InvInit == Init => DaemonInv
<1> SUFFICES ASSUME Init PROVE DaemonInv
    OBVIOUS
<1> USE DaemonAssumption DEF Init, Daemons
<1>1. TypeOK
    <2>1. lock \in Daemons \cup {0} /\ busy \in BOOLEAN /\ life \in [Daemons -> Lives]
        BY DEF Lives
    <2>7. \A d \in Daemons : life[d] \in {"serving", "leaving"} <=> lock = d
        OBVIOUS
    <2>8. socket \in {"none", "bound", "left"} /\ (lock # 0 => socket = "bound")
        OBVIOUS
    <2>2. catalog \in Catalog /\ meant \in Catalog /\ snapshot \in [Procs -> Catalog]
        BY DEF Catalog, NoCatalog
    <2>3. /\ pc \in [Procs -> Steps] /\ job \in [Procs -> Jobs \cup {NoJob}]
          /\ told \in [Procs -> [op : {j.op : j \in Jobs}, class : Classes] \cup {Untold}]
        BY DEF Steps
    <2>4. number \in [Procs -> Daemons \cup {0}] /\ executed \in [Procs -> 0..MaxCommands]
        OBVIOUS
    <2>5. /\ polls \in [Procs -> 0..MaxPolls]
          /\ commands \in 0..MaxCommands /\ kills \in 0..MaxKills
        OBVIOUS
    <2>6. stale \subseteq Procs /\ torn \in BOOLEAN /\ standing \in {"start", "stop", Quiet}
        OBVIOUS
    <2> QED BY <2>1, <2>2, <2>3, <2>4, <2>5, <2>6, <2>7, <2>8 DEF TypeOK
<1>2. FailedStartLeavesNothing /\ ToldAsDone
    BY DEF FailedStartLeavesNothing, ToldAsDone, Untold
<1>3. StoppedStays /\ CatalogAsTold /\ StoppedFits /\ SnapshotFits
    BY DEF StoppedStays, CatalogAsTold, StoppedFits, SnapshotFits, At, Quiet
<1>4. WorkFits /\ NumbersFit
    BY DEF WorkFits, NumbersFit, At, NoJob
<1> QED BY <1>1, <1>2, <1>3, <1>4 DEF DaemonInv

\* A terminal is at a step of its command.
LEMMA WorkNext == DaemonInv /\ [Next]_vars => WorkFits'
<1> SUFFICES ASSUME DaemonInv, [Next]_vars PROVE WorkFits'
    OBVIOUS
<1> USE DaemonAssumption DEF WorkFits, At
<1>0. /\ WorkFits /\ pc \in [Procs -> Steps] /\ job \in [Procs -> Jobs \cup {NoJob}]
      /\ told \in [Procs -> [op : {j.op : j \in Jobs}, class : Classes] \cup {Untold}]
      /\ executed \in [Procs -> 0..MaxCommands]
    BY DEF DaemonInv, TypeOK
<1>1. ASSUME NEW p \in Procs, Client(p) PROVE WorkFits'
    <2>1. CASE \E step \in Steps \ {"idle"} : Continues(p, step)
        BY <1>0, <1>1, <2>1, ClientMoves DEF Continues, Go
    <2>2. CASE \E class \in Classes : Finishes(p, class)
        BY <1>0, <1>1, <2>2, ClientMoves, Busy DEF Finishes, End, Go
    <2> QED BY <1>1, <2>1, <2>2, ClientMoves
<1>2. ASSUME NEW p \in Procs, NEW j \in Jobs, Type(p, j) PROVE WorkFits'
    BY <1>0, <1>2 DEF Type, First, Go, StepsOf
<1>3. ASSUME NEW d \in Daemons, Server(d) \/ DaemonDies(d) PROVE WorkFits'
    BY <1>0, <1>3 DEF Server, DaemonStarts, DaemonGivesUp, DaemonLeaves, DaemonDies, client
<1>4. CASE Transaction \/ UNCHANGED vars
    BY <1>0, <1>4 DEF Transaction, vars, client
<1> QED BY <1>1, <1>2, <1>3, <1>4 DEF Next

\* What the daemons, their lock and their socket may be.
ServerOK ==
    /\ lock \in Daemons \cup {0} /\ busy \in BOOLEAN
    /\ life \in [Daemons -> Lives]
    /\ \A d \in Daemons : life[d] \in {"serving", "leaving"} <=> lock = d
    /\ socket \in {"none", "bound", "left"} /\ (lock # 0 => socket = "bound")

LEMMA ServerNext == DaemonInv /\ [Next]_vars => ServerOK'
<1> SUFFICES ASSUME DaemonInv, [Next]_vars PROVE ServerOK'
    OBVIOUS
<1> USE DaemonAssumption DEF ServerOK, Lives
<1>0. ServerOK /\ 0 \notin Daemons
    BY DEF DaemonInv, TypeOK, Daemons
<1>1. ASSUME NEW p \in Procs, Client(p) PROVE ServerOK'
    <2>0. ~At(p, "idle") /\ number[p] \in Daemons
        BY <1>1, ClientMoves, Busy
    <2>1. CASE UNCHANGED server
        BY <1>0, <2>1 DEF server
    <2>2. CASE /\ At(p, "spawn") /\ pc'[p] = "look"
               /\ life' = [life EXCEPT ![number[p]] = "born"] /\ UNCHANGED <<lock, socket, busy>>
        <3>1. life[number[p]] = "none"
            BY <2>0, <2>2, Busy DEF DaemonInv, NumbersFit, At, StepsOf
        <3> QED BY <1>0, <2>0, <2>2, <3>1
    <2>3. CASE /\ At(p, "look") /\ Exits(number[p]) /\ End(p, "io")
               /\ IF lock = number[p] THEN lock' = 0 /\ busy' = FALSE /\ socket' = "left"
                  ELSE UNCHANGED <<lock, busy, socket>>
        BY <1>0, <2>0, <2>3 DEF Exits
    <2>4. CASE /\ At(p, "shutdown") /\ Serving /\ UNCHANGED <<lock, socket, busy>>
               /\ life' = [life EXCEPT ![lock] = "leaving"]
        BY <1>0, <2>4 DEF Serving, IsRunning
    <2> QED BY <1>1, <2>1, <2>2, <2>3, <2>4, ClientOnServer
<1>2. ASSUME NEW p \in Procs, NEW j \in Jobs, Type(p, j) PROVE ServerOK'
    <2>1. commands + 1 \in Daemons /\ life[commands + 1] = "none"
        BY <1>2 DEF Type, DaemonInv, TypeOK, NumbersFit, Daemons
    <2> QED BY <1>0, <1>2, <2>1 DEF Type
<1>3. ASSUME NEW d \in Daemons, Server(d) \/ DaemonDies(d) PROVE ServerOK'
    <2>1. CASE DaemonStarts(d)
        BY <1>0, <2>1 DEF DaemonStarts
    <2>2. CASE DaemonGivesUp(d)
        BY <1>0, <2>2 DEF DaemonGivesUp, Exits
    <2>3. CASE DaemonLeaves(d) \/ DaemonDies(d)
        BY <1>0, <2>3 DEF DaemonLeaves, DaemonDies, Exits, Release
    <2> QED BY <1>3, <2>1, <2>2, <2>3 DEF Server
<1>4. CASE Transaction \/ UNCHANGED vars
    BY <1>0, <1>4 DEF Transaction, vars, server
<1> QED BY <1>1, <1>2, <1>3, <1>4 DEF Next

\* The numbers of the commands, and of the daemons they have not spawned yet.
LEMMA NumbersNext == DaemonInv /\ [Next]_vars => NumbersFit'
<1> SUFFICES ASSUME DaemonInv, [Next]_vars PROVE NumbersFit'
    OBVIOUS
<1> USE DaemonAssumption DEF NumbersFit, Daemons
<1>0. /\ NumbersFit /\ commands \in 0..MaxCommands /\ WorkFits /\ ServerOK
      /\ pc \in [Procs -> Steps] /\ job \in [Procs -> Jobs \cup {NoJob}]
      /\ number \in [Procs -> Daemons \cup {0}]
      /\ told \in [Procs -> [op : {j.op : j \in Jobs}, class : Classes] \cup {Untold}]
    BY DEF DaemonInv, TypeOK, ServerOK
<1>1. ASSUME NEW p \in Procs, Client(p) PROVE NumbersFit'
    <2>0. /\ ~At(p, "idle") /\ number[p] \in Daemons /\ number[p] <= commands
          /\ UNCHANGED <<number, commands>> /\ told[p] = Untold
        BY <1>1, ClientMoves, Busy DEF bounds, Continues, Finishes, End
    <2>1. \A q \in Procs : number'[q] = 0 => At(q, "idle")' /\ told'[q] = Untold
        BY <1>0, <1>1, <2>0, ClientMoves DEF Continues, Finishes, End, Go, At
    <2>2. \A q \in Procs : job'[q].op = "start" /\ pc'[q] \in {"check", "spawn"} =>
              /\ job[q].op = "start" /\ pc[q] \in {"check", "spawn"}
              /\ q = p => UNCHANGED life
        <3>1. CASE \E step \in Steps \ {"idle"} : Continues(p, step)
            <4>1. job[p].op = "start" /\ pc'[p] \in {"check", "spawn"} =>
                      pc[p] \in {"check", "spawn"} /\ UNCHANGED life
                <5>1. CASE Status(p) \/ StartCheck(p) \/ Spawn(p)
                    BY <1>0, <3>1, <5>1 DEF Status, StartCheck, Found, Spawn, Goes, Ends, End, Go, At, Steps, server
                <5>2. CASE Look(p) \/ LookAtChild(p) \/ Deadline(p) \/ Attend(p)
                    BY <1>0, <5>2 DEF Look, Found, LookAtChild, Deadline, Attend, Goes, Ends, End, Go
                <5>3. CASE ConnectRefused(p) \/ Connect(p) \/ Breaks(p) \/ Shutdown(p) \/ OpenSession(p) \/ Query(p)
                    BY <1>0, <5>3 DEF ConnectRefused, Connect, Breaks, Shutdown, OpenSession, Query, Goes, Ends, End, Go
                <5>4. CASE Load(p) \/ Store(p) \/ StoreFails(p)
                    BY <1>0, <5>4 DEF Load, Store, StoreFails, Goes, Ends, End, Go
                <5> QED BY <1>1, <5>1, <5>2, <5>3, <5>4 DEF Client
            <4> QED BY <1>0, <3>1, <4>1 DEF Continues, Go
        <3>2. CASE \E class \in Classes : Finishes(p, class)
            BY <1>0, <3>2 DEF Finishes, End, Go, NoJob
        <3> QED BY <1>1, <3>1, <3>2, ClientMoves
    <2>3. \A d \in Daemons : life'[d] = life[d] \/ d = number[p] \/ d = lock
        <3>1. \/ UNCHANGED life \/ life' = [life EXCEPT ![number[p]] = "born"]
              \/ life' = [life EXCEPT ![number[p]] = "gone"]
              \/ life' = [life EXCEPT ![lock] = "leaving"]
            BY <1>1, ClientOnServer DEF server, Exits
        <3> QED BY <1>0, <3>1 DEF ServerOK
    <2>4. \A d \in Daemons : life[d] = "none" /\ d # number[p] => life'[d] = "none"
        BY <1>0, <2>3 DEF ServerOK
    <2>5. \A q \in Procs : job'[q].op = "start" /\ pc'[q] \in {"check", "spawn"} =>
              life'[number'[q]] = "none"
        <3>1. SUFFICES ASSUME NEW q \in Procs, job'[q].op = "start", pc'[q] \in {"check", "spawn"}
                       PROVE  life'[number[q]] = "none"
            BY <2>0
        <3>2. life[number[q]] = "none" /\ ~At(q, "idle")
            BY <1>0, <2>2, <3>1 DEF At
        <3>3. number[q] \in Daemons
            BY <1>0, <3>2
        <3>4. CASE q = p
            BY <2>2, <3>1, <3>2, <3>4
        <3>5. CASE q # p
            BY <1>0, <2>0, <2>4, <3>2, <3>3, <3>5
        <3> QED BY <3>4, <3>5
    <2>6. \A d \in Daemons : d > commands => life'[d] = "none"
        BY <1>0, <2>0, <2>4
    <2> QED BY <1>0, <2>0, <2>1, <2>5, <2>6
<1>2. ASSUME NEW p \in Procs, NEW j \in Jobs, Type(p, j) PROVE NumbersFit'
    <2>1. commands + 1 \in Daemons /\ commands' = commands + 1
        BY <1>0, <1>2 DEF Type
    <2>2. /\ number' = [number EXCEPT ![p] = commands + 1]
          /\ told' = [told EXCEPT ![p] = Untold] /\ job' = [job EXCEPT ![p] = j]
          /\ \E s \in Steps : pc' = [pc EXCEPT ![p] = s]
        BY <1>0, <1>2 DEF Type, Go, First, Steps
    <2>3. life' = IF j.op = "run" THEN [life EXCEPT ![commands + 1] = "born"] ELSE life
        BY <1>2 DEF Type
    <2>4. \A d \in Daemons : life'[d] = life[d] \/ (d = commands + 1 /\ j.op = "run")
        BY <1>0, <2>1, <2>3 DEF ServerOK
    <2>5. \A q \in Procs : job'[q].op = "start" /\ pc'[q] \in {"check", "spawn"} =>
              life'[number'[q]] = "none"
        <3>1. SUFFICES ASSUME NEW q \in Procs, job'[q].op = "start", pc'[q] \in {"check", "spawn"}
                       PROVE  life'[number'[q]] = "none"
            OBVIOUS
        <3>2. CASE q = p
            BY <1>0, <2>1, <2>2, <2>4, <3>1, <3>2
        <3>3. CASE q # p
            <4>1. /\ job[q].op = "start" /\ pc[q] \in {"check", "spawn"} /\ number'[q] = number[q]
                  /\ number[q] \in Daemons /\ number[q] <= commands
                BY <1>0, <2>2, <3>1, <3>3 DEF At
            <4> QED BY <1>0, <2>1, <2>4, <4>1
        <3> QED BY <3>2, <3>3
    <2> QED BY <1>0, <2>1, <2>2, <2>4, <2>5 DEF At
<1>3. ASSUME NEW d \in Daemons, Server(d) \/ DaemonDies(d) PROVE NumbersFit'
    <2>1. /\ UNCHANGED <<pc, job, number, told, commands>> /\ life[d] # "none"
          /\ \E l \in Lives : life' = [life EXCEPT ![d] = l]
        BY <1>3 DEF Server, DaemonStarts, DaemonGivesUp, DaemonLeaves, DaemonDies, Exits, Lives, client, bounds, OtherThings
    <2> QED BY <1>0, <2>1 DEF At, ServerOK
<1>4. CASE Transaction \/ UNCHANGED vars
    BY <1>0, <1>4 DEF Transaction, vars, client, server, bounds, At
<1> QED BY <1>1, <1>2, <1>3, <1>4 DEF Next

\* What is known of the terminals.
ClientOK ==
    /\ pc \in [Procs -> Steps]
    /\ job \in [Procs -> Jobs \cup {NoJob}]
    /\ number \in [Procs -> Daemons \cup {0}]
    /\ polls \in [Procs -> 0..MaxPolls]
    /\ told \in [Procs -> [op : {j.op : j \in Jobs}, class : Classes] \cup {Untold}]
    /\ standing \in {"start", "stop", Quiet}
    /\ executed \in [Procs -> 0..MaxCommands]
    /\ commands \in 0..MaxCommands /\ kills \in 0..MaxKills

LEMMA ClientNext == DaemonInv /\ [Next]_vars => ClientOK'
<1> SUFFICES ASSUME DaemonInv, [Next]_vars PROVE ClientOK'
    OBVIOUS
<1> USE DaemonAssumption DEF ClientOK
<1>0. ClientOK
    BY DEF DaemonInv, TypeOK
<1>1. ASSUME NEW p \in Procs, Client(p) PROVE ClientOK'
    <2>0. UNCHANGED <<commands, kills>>
        BY <1>1, ClientMoves DEF bounds
    <2>1. CASE \E step \in Steps \ {"idle"} : Continues(p, step)
        BY <1>0, <2>0, <2>1 DEF Continues, Go
    <2>2. ASSUME NEW class \in Classes, Finishes(p, class) PROVE ClientOK'
        <3>1. job[p] \in Jobs /\ 1 \in 0..MaxCommands
            BY <1>1, ClientMoves, Busy DEF Daemons
        <3>2. executed' \in [Procs -> 0..MaxCommands]
            BY <1>0, <2>2, <3>1 DEF Finishes
        <3>3. told' \in [Procs -> [op : {j.op : j \in Jobs}, class : Classes] \cup {Untold}]
            BY <1>0, <2>2, <3>1 DEF Finishes, End
        <3>4. standing' \in {"start", "stop", Quiet}
            BY <1>0, <2>2 DEF Finishes, End
        <3>5. pc' \in [Procs -> Steps] /\ job' \in [Procs -> Jobs \cup {NoJob}]
            BY <1>0, <2>2 DEF Finishes, End, Go, Steps
        <3>6. number' \in [Procs -> Daemons \cup {0}] /\ polls' \in [Procs -> 0..MaxPolls]
            BY <1>0, <2>2 DEF Finishes, End
        <3> QED BY <1>0, <2>0, <3>2, <3>3, <3>4, <3>5, <3>6
    <2> QED BY <1>1, <2>1, <2>2, ClientMoves
<1>2. ASSUME NEW p \in Procs, NEW j \in Jobs, Type(p, j) PROVE ClientOK'
    <2>1. commands + 1 \in Daemons /\ commands + 1 \in 0..MaxCommands
        BY <1>0, <1>2 DEF Type, Daemons
    <2>2. pc' \in [Procs -> Steps] /\ job' \in [Procs -> Jobs \cup {NoJob}]
        BY <1>0, <1>2 DEF Type, Go, First, Steps
    <2>3. /\ number' \in [Procs -> Daemons \cup {0}] /\ UNCHANGED polls
          /\ commands' \in 0..MaxCommands /\ UNCHANGED kills
        BY <1>0, <1>2, <2>1 DEF Type
    <2>4. /\ told' \in [Procs -> [op : {i.op : i \in Jobs}, class : Classes] \cup {Untold}]
          /\ standing' \in {"start", "stop", Quiet} /\ executed' \in [Procs -> 0..MaxCommands]
        BY <1>0, <1>2 DEF Type
    <2> QED BY <1>0, <2>2, <2>3, <2>4
<1>3. ASSUME NEW d \in Daemons, Server(d) \/ DaemonDies(d) PROVE ClientOK'
    BY <1>0, <1>3 DEF Server, DaemonStarts, DaemonGivesUp, DaemonLeaves, DaemonDies, client, bounds, OtherThings
<1>4. CASE Transaction \/ UNCHANGED vars
    BY <1>0, <1>4 DEF Transaction, vars, client, bounds
<1> QED BY <1>1, <1>2, <1>3, <1>4 DEF Next

\* Of the catalog and what has been loaded of it.
NamesOK ==
    /\ catalog \in Catalog /\ meant \in Catalog
    /\ snapshot \in [Procs -> Catalog]
    /\ stale \subseteq Procs /\ torn \in BOOLEAN

LEMMA NamesNext ==
    DaemonInv /\ [Next]_vars => NamesOK' /\ CatalogAsTold' /\ SnapshotFits'
<1> SUFFICES ASSUME DaemonInv, [Next]_vars PROVE NamesOK' /\ CatalogAsTold' /\ SnapshotFits'
    OBVIOUS
<1> USE DaemonAssumption DEF NamesOK, CatalogAsTold, SnapshotFits, At
<1>0. /\ NamesOK /\ CatalogAsTold /\ SnapshotFits /\ pc \in [Procs -> Steps]
    BY DEF DaemonInv, TypeOK
<1>1. ASSUME NEW p \in Procs, Client(p) PROVE NamesOK' /\ CatalogAsTold' /\ SnapshotFits'
    <2>1. CASE Load(p)
        <3>1. NamesOK' /\ UNCHANGED <<catalog, torn, meant>> /\ stale' = stale \ {p}
            BY <1>0, <2>1 DEF Load
        <3>2. CASE snapshot' = [snapshot EXCEPT ![p] = catalog] /\ Goes(p, "store")
            BY <1>0, <3>1, <3>2 DEF Goes, Go
        <3>3. CASE UNCHANGED snapshot /\ \E class \in {"io", "validation"} : Ends(p, class)
            BY <1>0, <3>1, <3>3 DEF Ends, End, Go
        <3> QED BY <2>1, <3>2, <3>3, <3>1 DEF Load
    <2>2. CASE Store(p)
        <3>1. job[p] \in Jobs /\ job[p].op \in {"add", "remove"}
            BY <2>2, Busy DEF Store, StepsOf
        <3>2. \A c \in Catalog : Changed(job[p], c) \in Catalog
            BY <3>1 DEF Changed, Catalog
        <3>3. /\ catalog' = Changed(job[p], snapshot[p]) /\ meant' = Changed(job[p], meant)
              /\ torn' = (torn \/ p \in stale) /\ UNCHANGED snapshot
              /\ stale' = {q \in Procs \ {p} : pc[q] = "store"}
              /\ pc' = [pc EXCEPT ![p] = "idle"]
            BY <2>2 DEF Store, Stored, Ends, End, Go
        <3>4. NamesOK'
            BY <1>0, <3>2, <3>3
        <3>5. CatalogAsTold'
            BY <1>0, <2>2, <3>3 DEF Store
        <3>6. SnapshotFits'
            BY <1>0, <3>3
        <3> QED BY <3>4, <3>5, <3>6
    <2>3. CASE UNCHANGED names /\ pc'[p] # "store"
        BY <1>0, <1>1, <2>3, ClientMoves DEF names, Continues, Finishes, End, Go
    <2> QED BY <1>1, <2>1, <2>2, <2>3, ClientOnNames
<1>2. ASSUME NEW p \in Procs, NEW j \in Jobs, Type(p, j)
      PROVE  NamesOK' /\ CatalogAsTold' /\ SnapshotFits'
    BY <1>0, <1>2 DEF Type, First, Go, names
<1>3. ASSUME NEW d \in Daemons, Server(d) \/ DaemonDies(d)
      PROVE  NamesOK' /\ CatalogAsTold' /\ SnapshotFits'
    BY <1>0, <1>3 DEF Server, DaemonStarts, DaemonGivesUp, DaemonLeaves, DaemonDies, client, names, OtherThings
<1>4. CASE Transaction \/ UNCHANGED vars
    BY <1>0, <1>4 DEF Transaction, vars, client, names
<1> QED BY <1>1, <1>2, <1>3, <1>4 DEF Next

\* A start that fails has spawned nothing, or has seen or made its child end.
LEMMA FailedNext == DaemonInv /\ [Next]_vars => FailedStartLeavesNothing'
<1> SUFFICES ASSUME DaemonInv, [Next]_vars PROVE FailedStartLeavesNothing'
    OBVIOUS
<1> USE DaemonAssumption DEF FailedStartLeavesNothing, Untold
<1>0. ClientOK /\ ServerOK /\ NumbersFit /\ FailedStartLeavesNothing /\ WorkFits
    BY DEF DaemonInv, TypeOK, ClientOK, ServerOK
<1>1. ASSUME NEW p \in Procs, Client(p) PROVE FailedStartLeavesNothing'
    <2>0. /\ ~At(p, "idle") /\ number[p] \in Daemons /\ UNCHANGED number
          /\ pc[p] \in StepsOf(job[p].op)
        BY <1>1, ClientMoves, Busy DEF Continues, Finishes, End
    <2>1. ASSUME End(p, "io"), job[p].op = "start" PROVE life'[number[p]] \in {"none", "gone"}
        <3>1. CASE Spawn(p)
            <4>1. life[number[p]] = "none" /\ pc'[p] = "idle"
                BY <1>0, <2>1, <3>1 DEF Spawn, At, NumbersFit, End, Go, ClientOK
            <4> QED BY <1>0, <3>1, <4>1 DEF Spawn, Goes, Go, ClientOK
        <3>2. CASE LookAtChild(p)
            <4>1. life[number[p]] = "gone"
                BY <1>0, <2>1, <3>2 DEF LookAtChild, Goes, Go, End, ClientOK
            <4> QED BY <3>2, <4>1 DEF LookAtChild, server
        <3>3. CASE Deadline(p)
            BY <1>0, <2>0, <3>3 DEF Deadline, Exits, ServerOK
        <3>4. CASE StartCheck(p) \/ Look(p)
            BY <1>0, <2>1, <3>4 DEF StartCheck, Look, Found, Ends, End, Goes, Go, ClientOK
        <3>5. CASE Status(p) \/ Attend(p) \/ ConnectRefused(p) \/ Connect(p) \/ Breaks(p) \/ Shutdown(p)
                      \/ OpenSession(p) \/ Query(p) \/ Load(p) \/ Store(p) \/ StoreFails(p)
            BY <2>0, <2>1, <3>5 DEF Status, Attend, ConnectRefused, Connect, Breaks, Shutdown, OpenSession, Query, Load, Store, StoreFails, At, StepsOf
        <3> QED BY <1>1, <3>1, <3>2, <3>3, <3>4, <3>5 DEF Client
    <2>2. \A q \in Procs \ {p} : told'[q] = told[q]
        BY <1>0, <1>1, ClientMoves DEF Continues, Finishes, End, ClientOK
    <2>3. told'[p] = [op |-> "start", class |-> "io"] => life'[number'[p]] \in {"none", "gone"}
        <3>1. CASE \E step \in Steps \ {"idle"} : Continues(p, step)
            BY <1>1, <3>1, ClientMoves, Busy DEF Continues
        <3>2. ASSUME NEW class \in Classes, Finishes(p, class), told'[p] = [op |-> "start", class |-> "io"]
              PROVE  life'[number'[p]] \in {"none", "gone"}
            <4>1. told'[p] = [op |-> job[p].op, class |-> class]
                BY <1>0, <3>2 DEF Finishes, End, ClientOK
            <4>2. job[p].op = "start" /\ class = "io"
                BY <3>2, <4>1
            <4> QED BY <2>0, <2>1, <3>2, <4>2 DEF Finishes
        <3> QED BY <1>1, <3>1, <3>2, ClientMoves
    <2>4. ASSUME NEW q \in Procs \ {p}, told[q] = [op |-> "start", class |-> "io"]
          PROVE  life'[number[q]] \in {"none", "gone"}
        <3>1. number[q] \in Daemons /\ number[q] # number[p] /\ life[number[q]] \in {"none", "gone"}
            BY <1>0, <2>0, <2>4 DEF NumbersFit, ClientOK, Daemons
        <3>2. \/ UNCHANGED life \/ life' = [life EXCEPT ![number[p]] = "born"]
              \/ life' = [life EXCEPT ![number[p]] = "gone"]
              \/ Serving /\ life' = [life EXCEPT ![lock] = "leaving"]
            BY <1>1, ClientOnServer DEF server, Exits
        <3> QED BY <1>0, <3>1, <3>2 DEF ServerOK, Serving
    <2> QED BY <2>0, <2>2, <2>3, <2>4
<1>2. ASSUME NEW p \in Procs, NEW j \in Jobs, Type(p, j) PROVE FailedStartLeavesNothing'
    <2>1. ASSUME NEW q \in Procs, told'[q] = [op |-> "start", class |-> "io"]
          PROVE  life'[number'[q]] \in {"none", "gone"}
        <3>1. q # p /\ told'[q] = told[q] /\ number'[q] = number[q]
            BY <1>0, <1>2, <2>1 DEF Type, ClientOK
        <3>2. number[q] \in Daemons /\ number[q] # commands + 1
            BY <1>0, <2>1, <3>1 DEF NumbersFit, ClientOK, Daemons
        <3> QED BY <1>0, <1>2, <2>1, <3>1, <3>2 DEF Type, ServerOK
    <2> QED BY <2>1
<1>3. ASSUME NEW d \in Daemons, Server(d) \/ DaemonDies(d) PROVE FailedStartLeavesNothing'
    <2>1. /\ UNCHANGED <<told, number>> /\ life[d] \notin {"none", "gone"}
          /\ \E l \in Lives : life' = [life EXCEPT ![d] = l]
        BY <1>3 DEF Server, DaemonStarts, DaemonGivesUp, DaemonLeaves, DaemonDies, Exits, Lives, client
    <2>2. \A q \in Procs : told[q] = [op |-> "start", class |-> "io"] => number[q] \in Daemons
        BY <1>0 DEF NumbersFit, ClientOK
    <2> QED BY <1>0, <2>1, <2>2 DEF ServerOK
<1>4. CASE Transaction \/ UNCHANGED vars
    BY <1>0, <1>4 DEF Transaction, vars, client, server
<1> QED BY <1>1, <1>2, <1>3, <1>4 DEF Next

\* A statement is executed at most once, and as is told.
LEMMA ToldNext == DaemonInv /\ [Next]_vars => ToldAsDone'
<1> SUFFICES ASSUME DaemonInv, [Next]_vars PROVE ToldAsDone'
    OBVIOUS
<1> USE DaemonAssumption DEF ToldAsDone, Untold
<1>0. ClientOK /\ ToldAsDone /\ WorkFits
    BY DEF DaemonInv, TypeOK, ClientOK
<1>1. ASSUME NEW p \in Procs, Client(p) PROVE ToldAsDone'
    <2>0. /\ ~At(p, "idle") /\ pc[p] \in StepsOf(job[p].op) /\ executed[p] = 0 /\ told[p] = Untold
        BY <1>1, ClientMoves, Busy
    <2>1. CASE \E step \in Steps \ {"idle"} : Continues(p, step)
        BY <1>0, <2>1 DEF Continues
    <2>2. ASSUME NEW class \in Classes, Finishes(p, class) PROVE ToldAsDone'
        <3>1. /\ told' = [told EXCEPT ![p] = [op |-> job[p].op, class |-> class]]
              /\ executed' \in {executed, [executed EXCEPT ![p] = 1]}
            BY <2>2 DEF Finishes, End
        <3>2. CASE job[p].op # "query"
            BY <1>0, <3>1, <3>2 DEF ClientOK
        <3>3. CASE job[p].op = "query"
            <4>1. told'[p].class = class
                BY <1>0, <3>1 DEF ClientOK
            <4>2. /\ class = "success" => executed'[p] = 1
                  /\ class \in {"validation", "unavailable"} => executed'[p] = 0
                <5>1. pc[p] \in {"connect", "open", "query"} /\ pc'[p] = "idle"
                    BY <1>0, <2>0, <2>2, <3>3 DEF StepsOf, Finishes, End, Go, ClientOK
                <5>2. CASE ConnectRefused(p) \/ Connect(p) \/ OpenSession(p)
                    BY <1>0, <2>0, <3>3, <4>1, <5>1, <5>2 DEF ConnectRefused, Connect, OpenSession, Ends, End, Goes, Go, ClientOK
                <5>3. CASE Breaks(p)
                    BY <1>0, <4>1, <5>3 DEF Breaks, End, ClientOK
                <5>4. CASE Query(p)
                    BY <1>0, <2>0, <4>1, <5>4 DEF Query, Ends, End, Executes, ClientOK
                <5>5. CASE Status(p) \/ StartCheck(p) \/ Spawn(p) \/ Look(p) \/ LookAtChild(p) \/ Deadline(p)
                              \/ Attend(p) \/ Shutdown(p) \/ Load(p) \/ Store(p) \/ StoreFails(p)
                    BY <5>1, <5>5 DEF Status, StartCheck, Spawn, Look, LookAtChild, Deadline, Attend, Shutdown, Load, Store, StoreFails, At
                <5> QED BY <1>1, <5>2, <5>3, <5>4, <5>5 DEF Client
            <4>3. executed'[p] <= 1 /\ \A q \in Procs \ {p} : executed'[q] = executed[q] /\ told'[q] = told[q]
                BY <1>0, <2>0, <3>1 DEF ClientOK
            <4> QED BY <1>0, <4>1, <4>2, <4>3
        <3> QED BY <3>2, <3>3
    <2> QED BY <1>1, <2>1, <2>2, ClientMoves
<1>2. ASSUME NEW p \in Procs, NEW j \in Jobs, Type(p, j) PROVE ToldAsDone'
    BY <1>0, <1>2 DEF Type, ClientOK
<1>3. ASSUME NEW d \in Daemons, Server(d) \/ DaemonDies(d) PROVE ToldAsDone'
    BY <1>0, <1>3 DEF Server, DaemonStarts, DaemonGivesUp, DaemonLeaves, DaemonDies, client
<1>4. CASE Transaction \/ UNCHANGED vars
    BY <1>0, <1>4 DEF Transaction, vars, client
<1> QED BY <1>1, <1>2, <1>3, <1>4 DEF Next

\* After a stop has reported success nobody begins a daemon unasked.
LEMMA StoppedNext == DaemonInv /\ [Next]_vars => StoppedStays' /\ StoppedFits'
<1> SUFFICES ASSUME DaemonInv, [Next]_vars PROVE StoppedStays' /\ StoppedFits'
    OBVIOUS
<1> USE DaemonAssumption DEF StoppedStays, StoppedFits
<1>0. ClientOK /\ ServerOK /\ StoppedStays /\ StoppedFits /\ WorkFits /\ NumbersFit /\ 0 \notin Daemons
    BY DEF DaemonInv, TypeOK, ClientOK, ServerOK, Daemons
<1>1. ASSUME NEW p \in Procs, Client(p) PROVE StoppedStays' /\ StoppedFits'
    <2>0. ~At(p, "idle") /\ pc[p] \in StepsOf(job[p].op)
        BY <1>1, ClientMoves, Busy
    <2>1. \/ UNCHANGED life
          \/ job[p].op = "start" /\ At(p, "spawn") /\ pc'[p] = "look"
          \/ life' = [life EXCEPT ![number[p]] = "gone"]
          \/ Serving /\ life' = [life EXCEPT ![lock] = "leaving"]
        BY <1>1, <2>0, ClientOnServer DEF server, Exits, At, StepsOf
    <2>2. CASE \E step \in Steps \ {"idle"} : Continues(p, step)
        BY <1>0, <2>1, <2>2 DEF Continues, ServerOK, Controls
    <2>3. ASSUME NEW class \in Classes, Finishes(p, class) PROVE StoppedStays' /\ StoppedFits'
        <3>1. job' = [job EXCEPT ![p] = NoJob] /\ pc'[p] = "idle"
            BY <1>0, <2>3 DEF Finishes, End, Go, ClientOK
        <3>2. \A q \in Procs : job'[q].op \in Controls => q # p /\ job[q].op \in Controls
            BY <1>0, <3>1 DEF ClientOK, NoJob, Controls
        <3>3. \A d \in Daemons : life'[d] \in {"born", "serving"} => life[d] = life'[d]
            BY <1>0, <2>1, <3>1 DEF ServerOK
        <3>4. CASE UNCHANGED standing
            BY <1>0, <3>2, <3>3, <3>4
        <3>5. CASE standing' = "stop" /\ standing' # standing
            <4>1. job[p].op = "stop" /\ class = "success" /\ ~Others(p)
                BY <1>0, <2>3, <3>5 DEF Finishes, End, Quiet
            <4>2. pc[p] \in {"connect", "shutdown"} /\ told'[p].class = "success"
                BY <1>0, <2>0, <2>3, <4>1 DEF StepsOf, Finishes, End, ClientOK
            <4>3. \A d \in Daemons : life'[d] # "serving"
                <5>1. CASE ConnectRefused(p)
                    BY <1>0, <5>1 DEF ConnectRefused, Serving, IsRunning, ServerOK, server
                <5>2. CASE Shutdown(p)
                    <6>1. Serving
                        BY <5>2 DEF Shutdown
                    <6>2. ~busy
                        BY <1>0, <4>2, <5>2 DEF Shutdown, Ends, End, ClientOK
                    <6>3. life' = [life EXCEPT ![lock] = "leaving"]
                        BY <5>2, <6>2 DEF Shutdown
                    <6> QED BY <1>0, <6>1, <6>3 DEF Serving, IsRunning, ServerOK
                <5>3. CASE Connect(p) \/ Breaks(p)
                    BY <1>0, <3>1, <4>1, <4>2, <5>3 DEF Connect, Breaks, Ends, End, Goes, Go, ClientOK
                <5>4. CASE Status(p) \/ StartCheck(p) \/ Spawn(p) \/ Look(p) \/ LookAtChild(p) \/ Deadline(p)
                              \/ Attend(p) \/ OpenSession(p) \/ Query(p) \/ Load(p) \/ Store(p) \/ StoreFails(p)
                    BY <4>2, <5>4 DEF Status, StartCheck, Spawn, Look, LookAtChild, Deadline, Attend, OpenSession, Query, Load, Store, StoreFails, At
                <5> QED BY <1>1, <5>1, <5>2, <5>3, <5>4 DEF Client
            <4>4. \A q \in Procs : job'[q].op \notin Controls
                BY <3>2, <4>1 DEF Others
            <4>5. \A d \in Daemons : life'[d] # "born"
                BY <3>3, <4>1 DEF Others
            <4> QED BY <4>3, <4>4, <4>5
        <3> QED BY <3>4, <3>5
    <2> QED BY <1>1, <2>2, <2>3, ClientMoves
<1>2. ASSUME NEW p \in Procs, NEW j \in Jobs, Type(p, j) PROVE StoppedStays' /\ StoppedFits'
    <2>1. CASE j.op \in Controls
        BY <2>1, <1>2 DEF Type, Quiet
    <2>2. CASE j.op \notin Controls
        BY <1>0, <2>2, <1>2 DEF Type, ClientOK, Controls
    <2> QED BY <2>1, <2>2
<1>3. ASSUME NEW d \in Daemons, Server(d) \/ DaemonDies(d) PROVE StoppedStays' /\ StoppedFits'
    <2>1. CASE DaemonStarts(d)
        BY <1>0, <2>1 DEF DaemonStarts, client
    <2>2. CASE DaemonGivesUp(d) \/ DaemonLeaves(d) \/ DaemonDies(d)
        BY <1>0, <2>2 DEF DaemonGivesUp, DaemonLeaves, DaemonDies, Exits, client, ServerOK, Quiet
    <2> QED BY <1>3, <2>1, <2>2 DEF Server
<1>4. CASE Transaction \/ UNCHANGED vars
    BY <1>0, <1>4 DEF Transaction, vars, client, server
<1> QED BY <1>1, <1>2, <1>3, <1>4 DEF Next

\* No start is under way while a daemon that has acknowledged a shutdown has not exited.
Settled == \A d \in Daemons : life[d] = "leaving" => \A p \in Procs : job[p].op # "start"

\* After a start that was left alone, the daemon serves and nobody stops it.
StartedFits ==
    standing = "start" =>
        /\ IsRunning /\ life[lock] = "serving"
        /\ \A q \in Procs : job[q].op # "stop"

LEMMA StartedNext == DaemonInv /\ Settled /\ StartedFits /\ [Next]_vars => StartedFits'
<1> SUFFICES ASSUME DaemonInv, Settled, StartedFits, [Next]_vars PROVE StartedFits'
    OBVIOUS
<1> USE DaemonAssumption DEF StartedFits, IsRunning
<1>0. ClientOK /\ ServerOK /\ WorkFits /\ NumbersFit /\ 0 \notin Daemons
    BY DEF DaemonInv, TypeOK, ClientOK, ServerOK, Daemons
<1>1. ASSUME NEW p \in Procs, Client(p) PROVE StartedFits'
    <2>0. ~At(p, "idle") /\ pc[p] \in StepsOf(job[p].op)
        BY <1>1, ClientMoves, Busy
    <2>1. ASSUME UNCHANGED standing, standing = "start", job[p].op # "start" \/ ~At(p, "look")
          PROVE lock' = lock /\ life'[lock] = "serving"
        <3>1. CASE UNCHANGED server
            BY <2>1, <3>1 DEF server
        <3>2. CASE At(p, "spawn") /\ life' = [life EXCEPT ![number[p]] = "born"] /\ UNCHANGED <<lock, socket, busy>>
            <4>1. job[p].op = "start"
                BY <2>0, <3>2 DEF At, StepsOf
            <4>2. life[number[p]] = "none" /\ number[p] # lock
                BY <1>0, <2>1, <3>2, <4>1 DEF At, NumbersFit
            <4> QED BY <1>0, <2>1, <3>2, <4>2 DEF ServerOK
        <3>3. ~At(p, "look") /\ ~At(p, "shutdown")
            BY <2>0, <2>1 DEF At, StepsOf
        <3> QED BY <1>1, <3>1, <3>2, <3>3, ClientOnServer
    <2>2. CASE \E step \in Steps \ {"idle"} : Continues(p, step)
        <3>1. UNCHANGED <<standing, job>> /\ pc'[p] # "idle"
            BY <1>0, <2>2 DEF Continues, Go, ClientOK
        <3>2. CASE At(p, "look") /\ job[p].op = "start"
            <4>1. UNCHANGED server
                BY <1>0, <1>1, <3>1, <3>2, ClientOnServer DEF At, End, Go, ClientOK
            <4> QED BY <3>1, <4>1 DEF server
        <3> QED BY <2>1, <3>1, <3>2
    <2>3. ASSUME NEW class \in Classes, Finishes(p, class), standing' = "start" PROVE StartedFits'
        <3>1. job' = [job EXCEPT ![p] = NoJob]
            BY <2>3 DEF Finishes, End
        <3>2. \A q \in Procs : job'[q].op = "stop" => q # p /\ job[q].op = "stop"
            BY <1>0, <3>1 DEF ClientOK, NoJob
        <3>3. CASE job[p].op \notin {"start", "stop"}
            <4>1. UNCHANGED standing
                BY <2>3, <3>3 DEF Finishes, End
            <4> QED BY <2>1, <2>3, <3>2, <3>3, <4>1
        <3>4. CASE job[p].op \in {"start", "stop"}
            <4>1. job[p].op = "start" /\ class = "success" /\ ~Others(p)
                BY <2>3, <3>4 DEF Finishes, End, Quiet
            <4>2. pc[p] \in {"check", "spawn", "look", "child"} /\ told'[p].class = "success"
                BY <1>0, <2>0, <2>3, <4>1 DEF StepsOf, Finishes, End, ClientOK
            <4>3. IsRunning /\ UNCHANGED server
                <5>1. CASE StartCheck(p) \/ Look(p)
                    BY <1>0, <2>3, <4>1, <5>1 DEF StartCheck, Look, Found, Goes, Go, Finishes, End, ClientOK, Quiet
                <5>2. CASE Spawn(p) \/ LookAtChild(p) \/ Deadline(p) \/ Status(p)
                    BY <1>0, <2>3, <4>1, <4>2, <5>2 DEF Spawn, LookAtChild, Deadline, Status, Goes, Go, Ends, End, ClientOK, Finishes
                <5>3. CASE Attend(p) \/ ConnectRefused(p) \/ Connect(p) \/ Breaks(p) \/ Shutdown(p)
                              \/ OpenSession(p) \/ Query(p) \/ Load(p) \/ Store(p) \/ StoreFails(p)
                    BY <4>2, <5>3 DEF Attend, ConnectRefused, Connect, Breaks, Shutdown, OpenSession, Query, Load, Store, StoreFails, At
                <5> QED BY <1>1, <5>1, <5>2, <5>3 DEF Client
            <4>4. life[lock] \in {"serving", "leaving"} /\ life[lock] # "leaving"
                BY <1>0, <4>1, <4>3 DEF ServerOK, Settled
            <4>5. \A q \in Procs : job'[q].op # "stop"
                BY <3>2, <4>1 DEF Others, Controls
            <4> QED BY <4>3, <4>4, <4>5 DEF server
        <3> QED BY <3>3, <3>4
    <2> QED BY <1>1, <2>2, <2>3, ClientMoves
<1>2. ASSUME NEW p \in Procs, NEW j \in Jobs, Type(p, j) PROVE StartedFits'
    <2>1. CASE j.op \in Controls
        BY <2>1, <1>2 DEF Type, Quiet
    <2>2. CASE j.op \notin Controls
        BY <1>0, <2>2, <1>2 DEF Type, ClientOK, Controls
    <2> QED BY <2>1, <2>2
<1>3. ASSUME NEW d \in Daemons, Server(d) \/ DaemonDies(d) PROVE StartedFits'
    <2>1. CASE DaemonStarts(d)
        BY <1>0, <2>1 DEF DaemonStarts, client
    <2>2. CASE DaemonGivesUp(d) \/ DaemonLeaves(d) \/ DaemonDies(d)
        BY <1>0, <2>2 DEF DaemonGivesUp, DaemonLeaves, DaemonDies, Exits, client, ServerOK, Quiet
    <2> QED BY <1>3, <2>1, <2>2 DEF Server
<1>4. CASE Transaction \/ UNCHANGED vars
    BY <1>0, <1>4 DEF Transaction, vars, client, server
<1> QED BY <1>1, <1>2, <1>3, <1>4 DEF Next

-----------------------------------------------------------------------------
(* The theorems.                                                           *)

\* The invariant is inductive: the types of the state, the daemon that holds
\* the lock being the one that serves or leaves, and the parts above.
THEOREM DaemonFits == Spec => []DaemonInv
<1>1. DaemonInv /\ [Next]_vars => DaemonInv'
    BY ServerNext, ClientNext, NamesNext, WorkNext, NumbersNext, FailedNext, ToldNext, StoppedNext
       DEF DaemonInv, TypeOK, ServerOK, ClientOK, NamesOK
<1> QED BY <1>1, InvInit, PTL DEF Spec

\* A start that fails for one of the reasons its doc gives leaves no daemon of its own,
\* at whatever moment of the child's life the deadline passes.
THEOREM FailedLeavesNothing == Spec => []FailedStartLeavesNothing
BY DaemonFits, PTL DEF DaemonInv

\* What a query through the daemon reports is what was executed.
THEOREM ToldIsDone == Spec => []ToldAsDone
BY DaemonFits, PTL DEF DaemonInv

\* No daemon serves after a stop until one is asked for.
THEOREM StopStays == Spec => []StoppedStays
BY DaemonFits, PTL DEF DaemonInv

\* The catalog is what the reported changes add up to until two overlap.
THEOREM CatalogIsAsTold == Spec => []CatalogAsTold
BY DaemonFits, PTL DEF DaemonInv

\* Once a start that was left alone reports success, a daemon runs until it is asked to
\* stop or killed, if no start overlaps with a daemon that is leaving: the lock such a
\* daemon still holds is all that makes the report of a start wrong.
THEOREM StartStays == Spec /\ []Settled => []StartedStays
<1>1. Init => StartedFits
    BY DEF Init, StartedFits, Quiet
<1>2. StartedFits => StartedStays
    BY DEF StartedFits, StartedStays
<1> QED BY <1>1, <1>2, DaemonFits, StartedNext, PTL DEF Spec
=============================================================================
