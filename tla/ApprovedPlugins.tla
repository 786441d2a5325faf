--------------------------- MODULE ApprovedPlugins --------------------------
(***************************************************************************)
(* What the plugin manager promises, with every command one atomic step.   *)
(*                                                                         *)
(* A name is approved for one entry. Approving it again at the same commit *)
(* never changes the entry: the commit is immutable, so other bytes at it  *)
(* are evidence and are refused. A plugin is started only from the bytes   *)
(* its name is approved for, for an action the approved manifest declares, *)
(* by a version of the CLI the approved manifest admits.                   *)
(***************************************************************************)
EXTENDS PluginTree

CONSTANT Procs   \* processes of the CLI

VARIABLES
    approved,   \* the entry each name is approved for
    running     \* the plugin each process has started

Init ==
    /\ approved = EmptyRecord
    /\ running = [p \in Procs |-> NoRun]

Approve(o) ==
    /\ approved[o.name] # NoEntry => approved[o.name].commit # o.commit
    /\ approved' = [approved EXCEPT ![o.name] = EntryOf(o)]
    /\ UNCHANGED running

Forget(n) ==
    /\ approved' = [approved EXCEPT ![n] = NoEntry]
    /\ UNCHANGED running

Start(p, n, action, engine) ==
    /\ approved[n] # NoEntry
    /\ action \in Meaning[approved[n].manifest_digest].actions
    /\ engine \in Meaning[approved[n].manifest_digest].engines
    /\ running' = [running EXCEPT
                      ![p] = [name     |-> n,
                              manifest |-> approved[n].manifest_digest,
                              tree     |-> approved[n].tree_digest,
                              action   |-> action,
                              engine   |-> engine]]
    /\ UNCHANGED approved

Stop(p) ==
    /\ running' = [running EXCEPT ![p] = NoRun]
    /\ UNCHANGED approved

Next ==
    \/ \E o \in Offers : Approve(o)
    \/ \E n \in Names : Forget(n)
    \/ \E p \in Procs, n \in Names, action \in Actions, engine \in Engines :
           Start(p, n, action, engine)
    \/ \E p \in Procs : Stop(p)

Spec == Init /\ [][Next]_<<approved, running>>

=============================================================================
