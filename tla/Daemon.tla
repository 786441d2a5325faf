------------------------------- MODULE Daemon -------------------------------
(***************************************************************************)
(* `nostdb server start|status|stop|run`, `query --database @name` and     *)
(* `catalog add|remove`, from several terminals of one user, against the   *)
(* one daemon that user may have.                                          *)
(*                                                                         *)
(* The daemon is external. What is used of it: it holds a lock and listens *)
(* from `start()` until it has exited; a killed one leaves its socket file *)
(* behind; it refuses to shut down while a transaction is open; it answers *)
(* a request, or the connection breaks.                                    *)
(***************************************************************************)
EXTENDS Naturals, FiniteSets

CONSTANTS
    Procs,       \* terminals
    Names,       \* names of databases
    Paths,       \* their paths
    NoPath,      \* a name the catalog does not hold
    Jobs,        \* the commands that are typed
    Faults,      \* the calls that may fail
    MaxPolls,    \* bound: tests of the endpoint before the deadline
    MaxCommands, \* bound: commands typed; a daemon has its command's number
    MaxKills     \* bound: daemons killed from outside

ASSUME DaemonAssumption ==
    /\ NoPath \notin Paths
    /\ MaxPolls \in Nat \ {0} /\ MaxCommands \in Nat /\ MaxKills \in Nat
    /\ \A j \in Jobs :
        /\ j.op \in {"start", "stop", "run", "status", "query", "add", "remove"}
        /\ j.op \in {"query", "add", "remove"} => j.name \in Names
        /\ j.op = "add" => j.path \in Paths

VARIABLES
    lock,      \* the daemon that holds the lock, or 0
    life,      \* how far each daemon has come
    socket,    \* the socket file: none, bound, or left behind
    busy,      \* whether a transaction is open in the daemon
    catalog,   \* the catalog file
    pc, job,   \* the next step of each terminal, and the command it carries out
    number,    \* the command's number, and the name of the daemon it spawns
    polls,     \* tests of the endpoint a start has made
    snapshot,  \* the catalog a command has loaded
    told,      \* what each terminal was last told
    standing,  \* what the last start or stop reported, nothing asked since
    executed,  \* times the daemon executed the statement of the command
    stale,     \* terminals whose snapshot another one has written over
    torn,      \* whether a stale snapshot has been written
    meant,     \* the catalog if each change told of had been made in turn
    commands, kills

server == <<lock, life, socket, busy>>
names  == <<catalog, snapshot, stale, torn, meant>>
client == <<pc, job, number, polls, told, standing, executed>>
bounds == <<commands, kills>>
vars   == <<server, names, client, bounds>>

Daemons == 1..MaxCommands
Lives == {"none", "born", "serving", "leaving", "gone"}
Quiet == "nothing"

\* How a command ends; "unnamed" is an I/O failure like "io", of a start that found
\* a daemon running and could not name its endpoint.
Classes == {"success", "usage", "validation", "unavailable", "io", "unnamed"}

Steps == {"idle", "check", "spawn", "look", "child", "attend", "connect",
          "shutdown", "open", "query", "load", "store"}

Catalog == [Names -> Paths \cup {NoPath}]
NoCatalog == [n \in Names |-> NoPath]
NoJob == [op |-> "none"]
Untold == [op |-> "none", class |-> Quiet]

Init ==
    /\ lock = 0 /\ busy = FALSE
    /\ life = [d \in Daemons |-> "none"]
    /\ socket \in {"none", "left"}
    /\ catalog = NoCatalog /\ meant = NoCatalog
    /\ snapshot = [p \in Procs |-> NoCatalog]
    /\ stale = {} /\ torn = FALSE
    /\ pc = [p \in Procs |-> "idle"]
    /\ job = [p \in Procs |-> NoJob]
    /\ number = [p \in Procs |-> 0]
    /\ polls = [p \in Procs |-> 0]
    /\ standing = Quiet
    /\ told = [p \in Procs |-> Untold]
    /\ executed = [p \in Procs |-> 0]
    /\ commands = 0 /\ kills = 0

-----------------------------------------------------------------------------
At(p, step) == pc[p] = step
Go(p, step) == pc' = [pc EXCEPT ![p] = step]
Goes(p, step) ==
    Go(p, step) /\ UNCHANGED <<job, number, polls, told, standing, executed>>

Controls == {"start", "stop", "run"}

\* Somebody else is about to begin or to end a daemon.
Others(p) == \/ \E q \in Procs \ {p} : job[q].op \in Controls
             \/ \E d \in Daemons : life[d] = "born"

\* The command ends and its class is reported.
End(p, class) ==
    /\ Go(p, "idle")
    /\ told' = [told EXCEPT ![p] = [op |-> job[p].op, class |-> class]]
    /\ job' = [job EXCEPT ![p] = NoJob]
    /\ polls' = [polls EXCEPT ![p] = 0]
    /\ standing' = IF job[p].op \in {"start", "stop"}
                   THEN IF class = "success" /\ ~Others(p) THEN job[p].op ELSE Quiet
                   ELSE standing
    /\ UNCHANGED number

Ends(p, class) == End(p, class) /\ UNCHANGED executed

IsRunning == lock # 0
OtherThings == UNCHANGED <<names, bounds>>

First(op) == CASE op = "start" -> "check"
               [] op \in {"stop", "query"} -> "connect"
               [] op = "run" -> "attend"
               [] op \in {"add", "remove"} -> "load"
               [] op = "status" -> "check"

Type(p, j) ==
    /\ At(p, "idle") /\ commands < MaxCommands
    /\ commands' = commands + 1 /\ UNCHANGED kills
    /\ Go(p, First(j.op))
    /\ job' = [job EXCEPT ![p] = j]
    /\ number' = [number EXCEPT ![p] = commands + 1]
    /\ told' = [told EXCEPT ![p] = Untold]
    /\ standing' = IF j.op \in Controls THEN Quiet ELSE standing
    /\ executed' = [executed EXCEPT ![p] = 0]
    /\ life' = IF j.op = "run" THEN [life EXCEPT ![commands + 1] = "born"] ELSE life
    /\ UNCHANGED <<lock, socket, busy, names, polls>>

-----------------------------------------------------------------------------
(* The daemon: `server run`, in the foreground or as the child of a start. *)

Exits(d) == life' = [life EXCEPT ![d] = "gone"]

\* Mutant: a socket file left behind is taken for a daemon, and none for none.
DaemonStarts_BySocket(d) ==
    /\ life[d] = "born" /\ socket # "left"
    /\ life' = [life EXCEPT ![d] = "serving"]
    /\ lock' = d /\ socket' = "bound"
    /\ UNCHANGED <<busy, client>> /\ OtherThings

\* `start()`: the lock decides, whatever socket file was left behind.
DaemonStarts(d) ==
    /\ life[d] = "born" /\ lock = 0
    /\ life' = [life EXCEPT ![d] = "serving"]
    /\ lock' = d /\ socket' = "bound"
    /\ UNCHANGED <<busy, client>> /\ OtherThings

\* Another one is running, or `start()` fails.
DaemonGivesUp(d) ==
    /\ life[d] = "born"
    /\ lock # 0 \/ "start" \in Faults
    /\ Exits(d)
    /\ UNCHANGED <<lock, socket, busy, client>> /\ OtherThings

Release(d) == /\ lock' = 0 /\ busy' = FALSE
              /\ socket' \in {"none", "left"}

\* It has acknowledged a shutdown, and has exited.
DaemonLeaves(d) ==
    /\ life[d] = "leaving"
    /\ Exits(d) /\ Release(d)
    /\ UNCHANGED client /\ OtherThings

\* A kill from outside, or a failure of `accept_until_shutdown`.
DaemonDies(d) ==
    /\ kills < MaxKills /\ life[d] \in {"serving", "leaving"}
    /\ Exits(d)
    /\ lock' = 0 /\ busy' = FALSE /\ socket' = "left"
    /\ kills' = kills + 1 /\ standing' = Quiet
    /\ UNCHANGED <<commands, names, pc, job, number, polls, told, executed>>

\* A transaction of another client begins or ends.
Transaction ==
    /\ "busy" \in Faults
    /\ lock # 0 /\ life[lock] = "serving"
    /\ busy' = ~busy
    /\ UNCHANGED <<lock, life, socket, names, client, bounds>>

\* The foreground command ends with its daemon.
Attend(p) ==
    /\ At(p, "attend") /\ life[number[p]] = "gone"
    /\ \E class \in {"success", "io"} : Ends(p, class)
    /\ UNCHANGED server /\ OtherThings

-----------------------------------------------------------------------------
(* `server status` and `server start`.                                     *)

Status(p) ==
    /\ At(p, "check") /\ job[p].op = "status"
    /\ \/ Ends(p, "success")
       \/ "lock" \in Faults /\ Ends(p, "io")
    /\ UNCHANGED server /\ OtherThings

\* A daemon runs, and its endpoint is what a start returns.
Found(p) ==
    /\ IsRunning
    /\ Ends(p, "success") \/ ("endpoint" \in Faults /\ Ends(p, "unnamed"))

\* Starting something already started is what the caller wanted. A lock that
\* cannot be asked counts as free.
StartCheck(p) ==
    /\ At(p, "check") /\ job[p].op = "start"
    /\ \/ Found(p)
       \/ (IsRunning => "lock" \in Faults) /\ Goes(p, "spawn")
    /\ UNCHANGED server /\ OtherThings

Spawn(p) ==
    /\ At(p, "spawn")
    /\ \/ Goes(p, "look") /\ life' = [life EXCEPT ![number[p]] = "born"]
       \/ "spawn" \in Faults /\ Ends(p, "io") /\ UNCHANGED life
    /\ UNCHANGED <<lock, socket, busy>> /\ OtherThings

\* Mutant: the deadline is not looked at.
Look_Forever(p) ==
    /\ At(p, "look")
    /\ \/ Found(p)
       \/ (IsRunning => "lock" \in Faults) /\ Goes(p, "child")
    /\ UNCHANGED server /\ OtherThings

\* Before the deadline: whoever is running, it is what was asked for. The child
\* is left to itself, also when the endpoint cannot be named.
Look(p) ==
    /\ At(p, "look") /\ polls[p] < MaxPolls
    /\ \/ Found(p)
       \/ /\ IsRunning => "lock" \in Faults
          /\ polls' = [polls EXCEPT ![p] = @ + 1]
          /\ Go(p, "child") /\ UNCHANGED <<job, number, told, standing, executed>>
    /\ UNCHANGED server /\ OtherThings

\* A child that cannot be asked counts as running.
LookAtChild(p) ==
    /\ At(p, "child")
    /\ \/ life[number[p]] = "gone" /\ Ends(p, "io")
       \/ (life[number[p]] = "gone" => "wait" \in Faults) /\ Goes(p, "look")
    /\ UNCHANGED server /\ OtherThings

\* Mutant: the child is left to itself.
Deadline_Leaves(p) ==
    /\ At(p, "look") /\ polls[p] > 0
    /\ Ends(p, "io")
    /\ UNCHANGED server /\ OtherThings

\* The deadline has passed since the last test: the child is killed, whatever
\* has become of it.
Deadline(p) ==
    /\ At(p, "look") /\ polls[p] > 0
    /\ Ends(p, "io")
    /\ Exits(number[p])
    /\ IF lock = number[p] THEN lock' = 0 /\ busy' = FALSE /\ socket' = "left"
                   ELSE UNCHANGED <<lock, busy, socket>>
    /\ OtherThings

-----------------------------------------------------------------------------
(* The client: connect and hello, then a request at a time.                *)

Serving == IsRunning /\ life[lock] = "serving"

\* Nothing listens: a success for a stop, unavailable for a query. One that is
\* leaving may still take the connection, and breaks it; an endpoint that
\* cannot be named or reached is an I/O failure.
ConnectRefused(p) ==
    /\ At(p, "connect") /\ ~Serving
    /\ \/ Ends(p, IF job[p].op = "stop" THEN "success" ELSE "unavailable")
       \/ (~IsRunning => "transport" \in Faults) /\ Ends(p, "io")
    /\ UNCHANGED server /\ OtherThings

Connect(p) ==
    /\ At(p, "connect") /\ Serving
    /\ \/ Goes(p, IF job[p].op = "stop" THEN "shutdown" ELSE "open")
       \/ "version" \in Faults /\ Ends(p, "validation")
       \/ "transport" \in Faults /\ Ends(p, "io")
    /\ UNCHANGED server /\ OtherThings

\* Mutant: a request that broke is made again over a new connection.
Breaks_Retries(p) ==
    /\ pc[p] \in {"shutdown", "open", "query"}
    /\ ~Serving \/ "transport" \in Faults
    /\ Go(p, "connect")
    /\ executed' = [executed EXCEPT ![p] = @ + IF At(p, "query") /\ Serving THEN 1 ELSE 0]
    /\ UNCHANGED <<job, number, polls, told, standing, server>> /\ OtherThings

\* The connection breaks, which it does when the daemon is no longer there,
\* or the answer is to another request, or unreadable. The daemon may have
\* executed the request.
Breaks(p) ==
    /\ pc[p] \in {"shutdown", "open", "query"}
    /\ ~Serving \/ "transport" \in Faults
    /\ \E done \in {FALSE, At(p, "query") /\ Serving} :
        /\ End(p, "io")
        /\ executed' = [executed EXCEPT ![p] = @ + IF done THEN 1 ELSE 0]
    /\ \/ UNCHANGED life
       \/ /\ At(p, "shutdown") /\ Serving /\ ~busy
          /\ life' = [life EXCEPT ![lock] = "leaving"]
    /\ UNCHANGED <<lock, socket, busy>> /\ OtherThings

\* Mutant: what the daemon answers is not looked at.
Shutdown_Unread(p) ==
    /\ At(p, "shutdown") /\ Serving
    /\ Ends(p, "success")
    /\ life' = IF busy THEN life ELSE [life EXCEPT ![lock] = "leaving"]
    /\ UNCHANGED <<lock, socket, busy>> /\ OtherThings

\* A daemon with a transaction open refuses.
Shutdown(p) ==
    /\ At(p, "shutdown") /\ Serving
    /\ IF busy
       THEN Ends(p, "validation") /\ UNCHANGED life
       ELSE Ends(p, "success") /\ life' = [life EXCEPT ![lock] = "leaving"]
    /\ UNCHANGED <<lock, socket, busy>> /\ OtherThings

OpenSession(p) ==
    /\ At(p, "open") /\ Serving
    /\ IF catalog[job[p].name] # NoPath
       THEN Goes(p, "query")
       ELSE Ends(p, "validation")
    /\ UNCHANGED server /\ OtherThings

Executes(p) == executed' = [executed EXCEPT ![p] = @ + 1]

\* A statement the Engine refuses changes nothing; one it executes is
\* reported as a wrong usage when its result cannot be rendered.
Query(p) ==
    /\ At(p, "query") /\ Serving
    /\ \/ "engine" \in Faults /\ Ends(p, "validation")
       \/ End(p, IF job[p].format = "json" THEN "success" ELSE "usage")
          /\ Executes(p)
    /\ UNCHANGED server /\ OtherThings

-----------------------------------------------------------------------------
(* The catalog: loaded, changed and stored whole, by the command itself.   *)

Load(p) ==
    /\ At(p, "load")
    /\ \/ snapshot' = [snapshot EXCEPT ![p] = catalog] /\ Goes(p, "store")
       \/ /\ "catalog" \in Faults /\ UNCHANGED snapshot
          /\ \E class \in {"io", "validation"} : Ends(p, class)
    /\ stale' = stale \ {p}
    /\ UNCHANGED <<server, catalog, torn, meant, bounds>>

Changed(j, c) == [c EXCEPT ![j.name] = IF j.op = "add" THEN j.path ELSE NoPath]

\* Mutant: what was loaded is forgotten.
Stored_Anew(p) == Changed(job[p], NoCatalog)

Stored(p) == Changed(job[p], snapshot[p])

Store(p) ==
    /\ At(p, "store")
    /\ job[p].op = "remove" => snapshot[p][job[p].name] # NoPath
    /\ catalog' = Stored(p)
    /\ meant' = Changed(job[p], meant)
    /\ torn' = (torn \/ p \in stale)
    /\ stale' = {q \in Procs \ {p} : At(q, "store")}
    /\ Ends(p, "success")
    /\ UNCHANGED <<server, snapshot, bounds>>

\* The name is not one to insert, or not there to remove; or storing fails.
StoreFails(p) ==
    /\ At(p, "store")
    /\ \/ job[p].op = "add" /\ "name" \in Faults /\ Ends(p, "validation")
       \/ /\ job[p].op = "remove" /\ snapshot[p][job[p].name] = NoPath
          /\ Ends(p, "validation")
       \/ "catalog" \in Faults /\ Ends(p, "io")
    /\ UNCHANGED <<server, names, bounds>>

-----------------------------------------------------------------------------
Client(p) ==
    \/ Status(p) \/ StartCheck(p) \/ Spawn(p) \/ Look(p) \/ LookAtChild(p)
    \/ Deadline(p) \/ Attend(p)
    \/ ConnectRefused(p) \/ Connect(p) \/ Breaks(p) \/ Shutdown(p)
    \/ OpenSession(p) \/ Query(p)
    \/ Load(p) \/ Store(p) \/ StoreFails(p)

Server(d) == DaemonStarts(d) \/ DaemonGivesUp(d) \/ DaemonLeaves(d)

Next ==
    \/ \E p \in Procs : Client(p)
    \/ \E d \in Daemons : Server(d) \/ DaemonDies(d)
    \/ \E p \in Procs, j \in Jobs : Type(p, j)
    \/ Transaction

\* A command goes on; the child of a start runs; a daemon that has acknowledged
\* a shutdown exits.
Spec == Init /\ [][Next]_vars
        /\ \A p \in Procs : WF_vars(Client(p))
        /\ \A d \in Daemons : WF_vars(Server(d))

-----------------------------------------------------------------------------
TypeOK ==
    /\ lock \in Daemons \cup {0} /\ busy \in BOOLEAN
    /\ life \in [Daemons -> Lives]
    /\ \A d \in Daemons : life[d] \in {"serving", "leaving"} <=> lock = d
    /\ socket \in {"none", "bound", "left"} /\ (lock # 0 => socket = "bound")
    /\ catalog \in Catalog /\ meant \in Catalog
    /\ snapshot \in [Procs -> Catalog]
    /\ stale \subseteq Procs /\ torn \in BOOLEAN
    /\ pc \in [Procs -> Steps]
    /\ job \in [Procs -> Jobs \cup {NoJob}]
    /\ number \in [Procs -> Daemons \cup {0}]
    /\ polls \in [Procs -> 0..MaxPolls]
    /\ told \in [Procs -> [op : {j.op : j \in Jobs}, class : Classes] \cup {Untold}]
    /\ standing \in {"start", "stop", Quiet}
    /\ executed \in [Procs -> 0..MaxCommands]
    /\ commands \in 0..MaxCommands /\ kills \in 0..MaxKills

\* A start that fails for one of the reasons its doc gives ("when spawning fails,
\* when the daemon exits immediately, or when it does not become reachable before
\* `timeout`", start_daemon) leaves no process of its own behind, though the child
\* may have become reachable since it was last looked at. The doc leaves out a
\* fourth: one that cannot name the endpoint of the daemon it sees running
\* ("unnamed") leaves its child as it is, which may be that daemon.
FailedStartLeavesNothing ==
    \A p \in Procs : told[p] = [op |-> "start", class |-> "io"]
        => life[number[p]] \in {"none", "gone"}

\* A query through the daemon executes its statement at most once; told a
\* success it was executed, refused or without a daemon it was not. (A failure
\* of the connection and a refused format say neither.)
ToldAsDone ==
    \A p \in Procs : told[p].op = "query" =>
        /\ executed[p] <= 1
        /\ told[p].class = "success" => executed[p] = 1
        /\ told[p].class \in {"validation", "unavailable"} => executed[p] = 0

\* Once a stop reports success with nobody else beginning a daemon, none serves
\* until one is asked for.
StoppedStays == standing = "stop" => \A d \in Daemons : life[d] # "serving"

\* Once a start reports success with nobody else beginning or ending a daemon,
\* one runs until it is asked to stop or killed.
StartedStays == standing = "start" => IsRunning

\* Unless two commands overlapped, the catalog is what the changes reported as
\* made add up to.
CatalogAsTold == torn \/ catalog = meant

-----------------------------------------------------------------------------
(* The inductive invariant.                                                *)

StepsOf(op) ==
    CASE op = "start" -> {"check", "spawn", "look", "child"}
      [] op = "status" -> {"check"}
      [] op = "run" -> {"attend"}
      [] op = "stop" -> {"connect", "shutdown"}
      [] op = "query" -> {"connect", "open", "query"}
      [] OTHER -> {"load", "store"}

\* A terminal is at a step of its command, which has executed nothing yet.
WorkFits ==
    \A p \in Procs :
        IF At(p, "idle") THEN job[p] = NoJob /\ executed[p] <= 1
        ELSE /\ job[p] \in Jobs /\ pc[p] \in StepsOf(job[p].op)
             /\ executed[p] = 0 /\ told[p] = Untold

\* A command has a number of its own, and no daemon before it spawns one.
NumbersFit ==
    /\ \A p \in Procs :
        /\ number[p] <= commands
        /\ number[p] = 0 => At(p, "idle") /\ told[p] = Untold
        /\ job[p].op = "start" /\ pc[p] \in {"check", "spawn"} =>
               life[number[p]] = "none"
    /\ \A p, q \in Procs : p # q /\ number[p] = number[q] => number[p] = 0
    /\ \A d \in Daemons : d > commands => life[d] = "none"

\* After a stop nobody is about to begin a daemon.
StoppedFits ==
    standing = "stop" =>
        /\ \A q \in Procs : job[q].op \notin Controls
        /\ \A d \in Daemons : life[d] # "born"

\* Before any two overlap, a command about to store holds what the file holds.
SnapshotFits ==
    torn \/ \A p \in Procs : At(p, "store") => p \in stale \/ snapshot[p] = catalog

DaemonInv ==
    /\ TypeOK /\ FailedStartLeavesNothing /\ ToldAsDone /\ StoppedStays /\ CatalogAsTold
    /\ WorkFits /\ NumbersFit /\ StoppedFits /\ SnapshotFits

\* Every command but a daemon in the foreground ends.
CommandsEnd == \A p \in Procs : []<>(At(p, "idle") \/ At(p, "attend"))
=============================================================================
