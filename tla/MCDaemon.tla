------------------------------ MODULE MCDaemon ------------------------------
(* Instances of Daemon for TLC. *)
EXTENDS Daemon

CONSTANTS p1, p2, here, there, db, other

MCProcs == {p1, p2}
MCPaths == {here, there}
MCNames == {db, other}

Queries == {[op |-> "query", name |-> db, format |-> f] : f \in {"json", "table"}}
Changes == {[op |-> "add", name |-> db, path |-> q] : q \in MCPaths}
               \cup {[op |-> "add", name |-> other, path |-> here]}
               \cup {[op |-> "remove", name |-> db]}
Control == {[op |-> o] : o \in {"start", "stop", "status", "run"}}

MCJobs == Queries \cup Changes \cup Control
MCRestartJobs == {[op |-> o] : o \in {"start", "stop"}}

MCFaults == {"start", "lock", "spawn", "busy", "version", "transport", "engine",
             "catalog", "name", "endpoint", "wait"}
=============================================================================
