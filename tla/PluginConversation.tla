-------------------------- MODULE PluginConversation ------------------------
(***************************************************************************)
(* `plugin run` and `view` from the choice of the plugin to their exit     *)
(* class: what is handed over, the two questions the process is asked, the *)
(* checks of its two answers, and what is taken away afterwards.           *)
(*                                                                         *)
(* PluginStore models the verification of a plugin file by file; here its  *)
(* outcome is the field `intact` of what is installed. The plugin is free: *)
(* it may write any line, asked or not, exit, or say nothing.              *)
(***************************************************************************)
EXTENDS Naturals, Sequences, FiniteSets

CONSTANTS
    Names, Actions,
    ViewAction,     \* the action a viewer declares
    NoAction,       \* the empty action of `plugin run NAME`
    Parts,          \* the last segments of outputs
    HtmlParts,      \* those that end in .html
    Globs,          \* output globs a manifest may ask for
    Outputs,        \* outputs a plugin may claim
    NotText,        \* an output that is not a string
    NoList,         \* a reply without a list of outputs
    NotJson,        \* a line that is not JSON
    Unstated,       \* a field a message leaves out
    Replies,        \* the lines a plugin may write
    Stores,         \* what may be installed
    Unreadable,     \* a record that cannot be read
    Nothing,        \* no plugin chosen, no request sent
    Faults,         \* the calls that may fail
    MaxAhead,       \* bound: lines a plugin has written and nobody has read
    MaxKills        \* bound: how many commands are killed

Codes == {"PLUGIN_PROTOCOL_UNSUPPORTED", "PLUGIN_REQUEST_INVALID", "PLUGIN_ACTION_UNKNOWN",
          "PLUGIN_IDENTITY_MISMATCH", "PLUGIN_REQUIRED", "PLUGIN_FAILED"}

\* The last part of a glob: the segments it fits, and whether it is `**`.
Glob == [fits : SUBSET Parts, across : BOOLEAN]

\* escapes: absolute, or with a `..`.
Output == [last : Parts, escapes : BOOLEAN]

Entry == [name : Names, intact : BOOLEAN, actions : SUBSET Actions,
          graph_read : BOOLEAN, globs : SUBSET Globs]

Message == [version : Nat \cup {Unstated},
            reply   : {"handshake", "invoke", "error", "other"},
            plugin  : Names \cup {Unstated},
            actions : SUBSET Actions,
            code    : Codes \cup {Unstated},
            status  : {"complete", "partial", "other"},
            outputs : {NoList} \cup SUBSET (Outputs \cup {NotText})]

\* The records of the project and of the home directory, each ordered by name.
Store == [1..2 -> {Unreadable} \cup Seq(Entry)]

\* An invoke request; exchange: whether it names the artifact.
Request == [action : Actions, exchange : BOOLEAN]

ASSUME ConversationAssumption ==
    /\ ViewAction \in Actions
    /\ NoAction \notin Actions
    /\ Globs \subseteq Glob
    /\ Outputs \subseteq Output
    /\ NotText \notin Outputs
    /\ NotJson \notin Message
    /\ \A m \in Replies : m = NotJson \/ m \in Message
    /\ \A s \in Stores : s \in Store
    /\ Nothing \notin Request
    /\ MaxAhead \in Nat \ {0}
    /\ MaxKills \in Nat

VARIABLES
    pc,         \* the next step of the command
    store,      \* what is installed
    job,        \* the command line
    ready,      \* the verified plugin, and the action it is to be asked for
    temp,       \* the temporary directory of this process
    child,      \* the plugin: not started, running or gone
    asked,      \* the invoke request it has been sent
    pipe,       \* the lines it has written and nobody has read
    heard,      \* the line it has read in answer to each request
    outcome,    \* how the last command ended
    kills

plugin == <<child, pipe>>
vars   == <<pc, store, job, ready, temp, plugin, asked, heard, outcome, kills>>

-----------------------------------------------------------------------------
RunJob  == [op : {"run"}, name : Names, action : Actions \cup {NoAction}]
ViewJob == [op : {"view"}, standalone : BOOLEAN]

Ready == [entry : Entry, action : Actions]

Lines == [handshake : Replies \cup {Nothing}, invoke : Replies \cup {Nothing}]
Unheard == [handshake |-> Nothing, invoke |-> Nothing]

Outcomes == Codes \cup {"none", "success", "io", "refused", "killed"}

Labels == {"idle", "choose", "output", "make", "write", "start", "greet", "hear",
           "ask", "answer", "release"}

\* Mutant: the actions a process claims are not compared with the approved ones.
HandshakeCode_AnyActions(m, e) ==
    IF m = NotJson \/ m.reply # "handshake" \/ m.version # 1 \/ m.plugin # e.name
    THEN "PLUGIN_FAILED"
    ELSE "none"

\* What a handshake reply is refused with, in the order of the checks.
HandshakeCode(m, e) ==
    IF m = NotJson THEN "PLUGIN_FAILED"
    ELSE IF m.version = Unstated THEN "PLUGIN_FAILED"
    ELSE IF m.version # 1 THEN "PLUGIN_PROTOCOL_UNSUPPORTED"
    ELSE IF m.reply # "handshake" THEN "PLUGIN_FAILED"
    ELSE IF m.plugin # e.name \/ ~(m.actions \subseteq e.actions)
         THEN "PLUGIN_IDENTITY_MISMATCH"
    ELSE "none"

\* Only the last parts of the glob and of the output are compared.
MatchesGlob(g, o) == g.across \/ o.last \in g.fits

Accepted(o, e) ==
    /\ o # NotText
    /\ ~o.escapes
    /\ \E g \in e.globs : MatchesGlob(g, o)

\* Mutant: one acceptable output is enough.
InvokeCode_AnyOutput(m, e) ==
    IF m = NotJson \/ m.version # 1 \/ m.reply # "invoke" \/ m.status = "other"
       \/ m.outputs = NoList
    THEN "PLUGIN_FAILED"
    ELSE IF m.outputs # {} /\ \A o \in m.outputs : ~Accepted(o, e) THEN "PLUGIN_FAILED"
    ELSE "none"

\* What an invoke reply is refused with; a refusal is a reply.
InvokeCode(m, e) ==
    IF m = NotJson THEN "PLUGIN_FAILED"
    ELSE IF m.version # 1 THEN "PLUGIN_PROTOCOL_UNSUPPORTED"
    ELSE IF m.reply = "error" /\ m.code # Unstated THEN m.code
    ELSE IF m.reply # "invoke" \/ m.status = "other" \/ m.outputs = NoList
         THEN "PLUGIN_FAILED"
    ELSE IF \E o \in m.outputs : ~Accepted(o, e) THEN "PLUGIN_FAILED"
    ELSE "none"

Init ==
    /\ pc = "idle"
    /\ store \in Stores
    /\ job = Nothing
    /\ ready = Nothing
    /\ temp = "none"
    /\ child = "none"
    /\ asked = Nothing
    /\ pipe = <<>>
    /\ heard = Unheard
    /\ outcome = "none"
    /\ kills = 0

Is(op) == job.op = op
Go(label) == pc' = label

\* The process is over, and its memory and its pipes with it.
End ==
    /\ Go("idle")
    /\ job' = Nothing
    /\ ready' = Nothing
    /\ child' = "none"
    /\ asked' = Nothing
    /\ pipe' = <<>>
    /\ heard' = Unheard

\* A return from where the plugin and what it was handed are still held.
Return(code) == Go("release") /\ outcome' = code

-----------------------------------------------------------------------------
(* The choice of the plugin.                                               *)

\* What is installed may have changed since the last command, and a directory
\* left by a killed process of the same number may be in the way.
Begin ==
    /\ pc = "idle"
    /\ store' \in Stores
    /\ job' \in RunJob \cup ViewJob
    /\ temp' \in IF temp = "none" THEN {"none"} ELSE {"none", "stale"}
    /\ outcome' = "none"
    /\ Go("choose")
    /\ UNCHANGED <<ready, plugin, asked, heard, kills>>

\* `run` is given a name; `view` takes an entry that may read the graph.
Wanted(e) == IF Is("run") THEN e.name = job.name ELSE e.graph_read

Has(scope) == scope # Unreadable /\ \E i \in DOMAIN scope : Wanted(scope[i])

\* The first entry that will do, in the first scope that has one.
Located(i, k) ==
    /\ Has(store[i])
    /\ k \in DOMAIN store[i] /\ Wanted(store[i][k])
    /\ \A j \in 1..(i - 1) : store[j] # Unreadable /\ ~Has(store[j])
    /\ \A j \in 1..(k - 1) : ~Wanted(store[i][j])

\* The action: named, or the only one the manifest declares.
ActionFor(e, a) ==
    /\ a \in e.actions
    /\ \/ Is("view") /\ a = ViewAction
       \/ Is("run") /\ job.action = a
       \/ Is("run") /\ job.action = NoAction /\ e.actions = {a}

\* Mutant: the digests are not compared.
Choose_Unverified ==
    /\ pc = "choose"
    /\ \E i \in 1..2 : Has(store[i]) /\ \E k \in DOMAIN store[i] : \E a \in Actions :
        /\ Located(i, k)
        /\ ActionFor(store[i][k], a)
        /\ ready' = [entry |-> store[i][k], action |-> a]
    /\ Go(IF Is("view") THEN "make" ELSE "output")
    /\ UNCHANGED <<store, job, temp, plugin, asked, heard, outcome, kills>>

Choose ==
    /\ pc = "choose"
    /\ \E i \in 1..2 : Has(store[i]) /\ \E k \in DOMAIN store[i] : \E a \in Actions :
        /\ Located(i, k)
        /\ store[i][k].intact
        /\ ActionFor(store[i][k], a)
        /\ ready' = [entry |-> store[i][k], action |-> a]
    /\ Go(IF Is("view") THEN "make" ELSE "output")
    /\ UNCHANGED <<store, job, temp, plugin, asked, heard, outcome, kills>>

\* `view` outside of any project.
DiscoverFails ==
    /\ pc = "choose" /\ Is("view") /\ "project" \in Faults
    /\ outcome' = "refused"
    /\ End
    /\ UNCHANGED <<store, temp, kills>>

\* What is located is not what was approved, or has no such action.
ChooseRefuse ==
    /\ pc = "choose"
    /\ \E i \in 1..2 : Has(store[i]) /\ \E k \in DOMAIN store[i] :
        /\ Located(i, k)
        /\ \/ ~store[i][k].intact /\ outcome' = "refused"
           \/ /\ store[i][k].intact
              /\ \A a \in Actions : ~ActionFor(store[i][k], a)
              /\ outcome' = "PLUGIN_ACTION_UNKNOWN"
    /\ End
    /\ UNCHANGED <<store, temp, kills>>

\* Nothing is located, or a record on the way cannot be read.
ChooseNone ==
    /\ pc = "choose"
    /\ \A i \in 1..2 : Has(store[i]) => \E j \in 1..(i - 1) : store[j] = Unreadable
    /\ outcome' = IF \E i \in 1..2 : store[i] = Unreadable THEN "refused" ELSE "PLUGIN_REQUIRED"
    /\ End
    /\ UNCHANGED <<store, temp, kills>>

-----------------------------------------------------------------------------
(* What the plugin is handed.                                              *)

\* create_dir_all(.nostdb/out): first in `run`, last in `view`.
MakeOutput ==
    /\ pc = "output"
    /\ Go(IF Is("run") /\ ready.entry.graph_read THEN "make" ELSE "start")
    /\ UNCHANGED <<store, job, ready, temp, plugin, asked, heard, outcome, kills>>

MakeOutputFails ==
    /\ pc = "output" /\ "output" \in Faults
    /\ Return("io")
    /\ UNCHANGED <<store, job, ready, temp, plugin, asked, heard, kills>>

\* The graph is read and rendered, an old directory removed, a new one made.
MakeTemp ==
    /\ pc = "make"
    /\ temp' = "empty"
    /\ Go("write")
    /\ UNCHANGED <<store, job, ready, plugin, asked, heard, outcome, kills>>

MakeTempFails ==
    /\ pc = "make" /\ "make" \in Faults
    /\ temp' \in {temp, "none"}
    /\ outcome' = "io"
    /\ End
    /\ UNCHANGED <<store, kills>>

WriteArtifact ==
    /\ pc = "write"
    /\ temp' = "whole"
    /\ Go(IF Is("view") THEN "output" ELSE "start")
    /\ UNCHANGED <<store, job, ready, plugin, asked, heard, outcome, kills>>

\* `view` removes the directory; `run` holds nothing yet that would.
WriteArtifactFails ==
    /\ pc = "write" /\ "write" \in Faults
    /\ temp' \in {"empty", "partial"}
    /\ IF Is("view")
       THEN Return("io") /\ UNCHANGED <<job, ready, plugin, asked, heard>>
       ELSE outcome' = "io" /\ End
    /\ UNCHANGED <<store, kills>>

-----------------------------------------------------------------------------
(* The conversation.                                                       *)

Start ==
    /\ pc = "start"
    /\ child' = "running"
    /\ Go("greet")
    /\ UNCHANGED <<store, job, ready, temp, asked, pipe, heard, outcome, kills>>

StartFails ==
    /\ pc = "start" /\ "start" \in Faults
    /\ Return("PLUGIN_FAILED")
    /\ UNCHANGED <<store, job, ready, temp, plugin, asked, heard, kills>>

Greet ==
    /\ pc = "greet"
    /\ Go("hear")
    /\ UNCHANGED <<store, job, ready, temp, plugin, asked, heard, outcome, kills>>

\* Mutant: lines that are not JSON are skipped rather than refused.
HearHandshake_SkipsNoise ==
    /\ pc = "hear" /\ pipe # <<>>
    /\ pipe' = Tail(pipe)
    /\ IF Head(pipe) = NotJson THEN UNCHANGED <<pc, heard>>
       ELSE Go("ask") /\ heard' = [heard EXCEPT !.handshake = Head(pipe)]
    /\ UNCHANGED <<store, job, ready, temp, child, asked, outcome, kills>>

\* The handshake must be acceptable, and claim the action.
HearHandshake ==
    /\ pc = "hear" /\ pipe # <<>>
    /\ heard' = [heard EXCEPT !.handshake = Head(pipe)]
    /\ pipe' = Tail(pipe)
    /\ LET code == HandshakeCode(Head(pipe), ready.entry)
       IN  IF code # "none" THEN Return(code)
           ELSE IF ready.action \notin Head(pipe).actions
           THEN Return("PLUGIN_ACTION_UNKNOWN")
           ELSE Go("ask") /\ UNCHANGED outcome
    /\ UNCHANGED <<store, job, ready, temp, child, asked, kills>>

Ask ==
    /\ pc = "ask"
    /\ asked' = [action |-> ready.action,
                 exchange |-> Is("view") \/ ready.entry.graph_read]
    /\ Go("answer")
    /\ UNCHANGED <<store, job, ready, temp, plugin, heard, outcome, kills>>

\* What the command makes of an acceptable answer.
Verdict(m) ==
    IF \/ m.status # "complete"
       \/ Is("view") /\ job.standalone /\ \A o \in m.outputs : o.last \notin HtmlParts
    THEN "PLUGIN_FAILED"
    ELSE "success"

HearAnswer ==
    /\ pc = "answer" /\ pipe # <<>>
    /\ heard' = [heard EXCEPT !.invoke = Head(pipe)]
    /\ pipe' = Tail(pipe)
    /\ LET code == InvokeCode(Head(pipe), ready.entry)
       IN  Return(IF code # "none" THEN code ELSE Verdict(Head(pipe)))
    /\ UNCHANGED <<store, job, ready, temp, child, asked, kills>>

\* A line cannot be sent to, or read from, a plugin that has exited.
Broken ==
    /\ child = "gone"
    /\ pc \in {"greet", "ask"} \/ (pc \in {"hear", "answer"} /\ pipe = <<>>)
    /\ Return("PLUGIN_FAILED")
    /\ UNCHANGED <<store, job, ready, temp, plugin, asked, heard, kills>>

\* Mutant: the artifact is removed only after a success.
Release_OnSuccess ==
    /\ pc = "release"
    /\ temp' = IF outcome = "success" THEN "none" ELSE temp
    /\ End
    /\ UNCHANGED <<store, outcome, kills>>

Made == {"empty", "partial", "whole"}

\* The directory is removed (an error is dropped) and the process let go of.
Release ==
    /\ pc = "release"
    /\ \/ temp' = IF temp \in Made THEN "none" ELSE temp
       \/ "remove" \in Faults /\ temp' = IF temp \in Made THEN "stuck" ELSE temp
    /\ End
    /\ UNCHANGED <<store, outcome, kills>>

-----------------------------------------------------------------------------
(* The plugin, and the user.                                               *)

Speak ==
    /\ child = "running" /\ Len(pipe) < MaxAhead
    /\ \E m \in Replies : pipe' = Append(pipe, m)
    /\ UNCHANGED <<pc, store, job, ready, temp, child, asked, heard, outcome, kills>>

Exit ==
    /\ child = "running"
    /\ child' = "gone"
    /\ UNCHANGED <<pc, store, job, ready, temp, asked, pipe, heard, outcome, kills>>

Kill ==
    /\ pc # "idle" /\ kills < MaxKills
    /\ kills' = kills + 1
    /\ outcome' = "killed"
    /\ End
    /\ UNCHANGED <<store, temp>>

Command ==
    \/ Choose \/ DiscoverFails \/ ChooseRefuse \/ ChooseNone
    \/ MakeOutput \/ MakeOutputFails \/ MakeTemp \/ MakeTempFails
    \/ WriteArtifact \/ WriteArtifactFails
    \/ Start \/ StartFails \/ Greet \/ HearHandshake \/ Ask \/ HearAnswer
    \/ Broken \/ Release

Plugin == Speak \/ Exit

Next == Begin \/ Command \/ Plugin \/ Kill

Spec == Init /\ [][Next]_vars

\* The command runs on as long as it can.
FairSpec == Spec /\ WF_vars(Command)

\* Besides, a plugin writes a line or exits, sooner or later.
ResponsiveSpec == FairSpec /\ WF_vars(Plugin)

-----------------------------------------------------------------------------
(* Properties.                                                             *)

\* Every variable holds a value of its kind.
TypeOK ==
    /\ pc \in Labels
    /\ store \in Store
    /\ job \in RunJob \cup ViewJob \cup {Nothing}
    /\ ready \in Ready \cup {Nothing}
    /\ temp \in {"none", "stale", "stuck"} \cup Made
    /\ child \in {"none", "running", "gone"}
    /\ asked \in Request \cup {Nothing}
    /\ pipe \in Seq(Replies)
    /\ heard \in Lines
    /\ outcome \in Outcomes
    /\ kills \in 0..MaxKills

\* A line by which a process shows that it is what was approved, and that it
\* implements the action it is to be asked for.
Identifies(m, r) ==
    /\ m \in Message
    /\ m.version = 1 /\ m.reply = "handshake"
    /\ m.plugin = r.entry.name
    /\ m.actions \subseteq r.entry.actions
    /\ r.action \in m.actions

\* A line by which it reports that everything is done, and where.
Completes(m, r) ==
    /\ m \in Message
    /\ m.version = 1 /\ m.reply = "invoke" /\ m.status = "complete"
    /\ m.outputs \subseteq Outputs
    /\ \A o \in m.outputs : ~o.escapes /\ \E g \in r.entry.globs : g.across \/ o.last \in g.fits

\* A command succeeds only when the verified plugin has first identified itself
\* and then reported all of the work done, within the outputs approved for it;
\* and `view --standalone` only with an HTML file among them.
SuccessIsEarned ==
    pc = "release" /\ outcome = "success" =>
        /\ ready.entry.intact
        /\ Identifies(heard.handshake, ready)
        /\ Completes(heard.invoke, ready)
        /\ Is("view") /\ job.standalone => \E o \in heard.invoke.outputs : o.last \in HtmlParts

\* The graph goes only to a plugin approved to read it, whose process has
\* identified itself, for an action it implements; and as long as its answer is
\* awaited the artifact it was told of is there, whole.
GraphOnlyToIdentified ==
    asked # Nothing =>
        /\ ready.entry.intact
        /\ asked.action \in ready.entry.actions
        /\ Identifies(heard.handshake, ready)
        /\ asked.exchange => ready.entry.graph_read
        /\ asked.exchange /\ pc = "answer" => temp = "whole"

\* Where a command ends by itself, nothing of what it made for the graph is left,
\* not whole, not in part, not the empty directory: "an artifact left behind is
\* authorized graph data sitting in a temporary directory after the authorization
\* ended" (Handover, view::run). Excepted are a removal the system refuses
\* ("stuck"), and the one place where the code asks for none: a failing write of
\* the artifact in `run`, before a Handover owns its directory (hand_over).
GraphTakenBack ==
    [][pc # "idle" /\ pc' = "idle" /\ outcome' # "killed" =>
          temp' \notin Made \/ (pc = "write" /\ Is("run"))
      ]_vars

\* With a plugin that answers or exits sooner or later, every command ends.
CommandEnds == pc # "idle" ~> pc = "idle"

-----------------------------------------------------------------------------
(* The inductive invariant behind the safety properties.                   *)

Early   == {"choose", "output", "make", "write", "start", "greet", "hear"}
Serving == {"start", "greet", "hear", "ask", "answer"}

\* A command that has chosen a plugin has chosen a verified one.
ReadyFits ==
    /\ pc # "idle" => job \in RunJob \cup ViewJob
    /\ pc \in Labels \ {"idle", "choose"} =>
        /\ ready \in Ready
        /\ ready.entry.intact
        /\ ready.action \in ready.entry.actions
        /\ Is("view") \/ pc \in {"make", "write"} => ready.entry.graph_read

\* The artifact is whole wherever the plugin may be told of it, and there is none
\* of this command where it ends without removing one.
TempFits ==
    /\ pc \in {"choose", "make"} => temp \in {"none", "stale"}
    /\ pc = "output" => temp \in (IF Is("view") THEN {"whole"} ELSE {"none", "stale"})
    /\ pc \in Serving =>
        temp \in (IF ready.entry.graph_read THEN {"whole"} ELSE {"none", "stale"})

\* What has been heard, at each step of the conversation.
HeardFits ==
    /\ pc \in Early => heard = Unheard
    /\ pc \in {"ask", "answer"} => Identifies(heard.handshake, ready)
    /\ pc = "answer" <=> asked # Nothing /\ pc # "release"
    /\ pc \in {"idle", "choose"} => ready = Nothing
    /\ pc = "idle" => heard = Unheard
    /\ pc # "release" => outcome # "success" \/ pc = "idle"

ConversationInv ==
    /\ TypeOK /\ ReadyFits /\ TempFits /\ HeardFits
    /\ SuccessIsEarned /\ GraphOnlyToIdentified

=============================================================================
