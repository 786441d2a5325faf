--------------------- MODULE PluginConversationProofs ----------------------
(***************************************************************************)
(* The safety properties of PluginConversation, for every set of plugins,  *)
(* of lines they may write and of failing calls.                           *)
(***************************************************************************)
EXTENDS PluginConversation, TLAPS

\* The invariant holds before the first command.
LEMMA InvInit == Init => ConversationInv
BY ConversationAssumption DEF Init, ConversationInv, ReadyFits, TempFits, HeardFits, SuccessIsEarned, GraphOnlyToIdentified, TypeOK, Made, Early, Serving, Labels, Outcomes, Codes, Lines, Unheard

\* Every step of the command, of the plugin and of the user keeps the invariant.
LEMMA InvNext == ConversationInv /\ [Next]_vars => ConversationInv'
<1> SUFFICES ASSUME ConversationInv, [Next]_vars PROVE ConversationInv'
    OBVIOUS
<1> USE ConversationAssumption DEF ConversationInv, ReadyFits, TempFits, HeardFits, SuccessIsEarned, GraphOnlyToIdentified, TypeOK, Made, Early, Serving, Labels, Outcomes, Codes, Lines, Unheard, Is, Go, End, Return, plugin
<1>1. CASE Begin
    BY <1>1 DEF Begin
<1>2. CASE Choose
    <2>0. PICK i \in 1..2 : Has(store[i]) /\ \E k \in DOMAIN store[i] : \E a \in Actions :
            /\ Located(i, k) /\ store[i][k].intact
            /\ ActionFor(store[i][k], a)
            /\ ready' = [entry |-> store[i][k], action |-> a]
        BY <1>2 DEF Choose
    <2>1. PICK k \in DOMAIN store[i], a \in Actions :
            /\ Has(store[i]) /\ Located(i, k) /\ store[i][k].intact
            /\ ActionFor(store[i][k], a)
            /\ ready' = [entry |-> store[i][k], action |-> a]
        BY <2>0
    <2>2. store[i][k] \in Entry
        BY <2>1 DEF Store, Has
    <2>3. ready' \in Ready /\ ready'.entry.intact /\ ready'.action \in ready'.entry.actions
        BY <2>1, <2>2 DEF Ready, ActionFor
    <2>4. Is("view") => ready'.entry.graph_read
        BY <2>1 DEF Located, Wanted
    <2> QED BY <1>2, <2>3, <2>4 DEF Choose
<1>3. CASE DiscoverFails
    BY <1>3 DEF DiscoverFails
<1>4. CASE ChooseRefuse
    BY <1>4 DEF ChooseRefuse
<1>5. CASE ChooseNone
    BY <1>5 DEF ChooseNone
<1>6. CASE MakeOutput
    BY <1>6 DEF MakeOutput, Ready, Entry, RunJob, ViewJob
<1>7. CASE MakeOutputFails
    BY <1>7 DEF MakeOutputFails
<1>8. CASE MakeTemp
    BY <1>8 DEF MakeTemp
<1>9. CASE MakeTempFails
    BY <1>9 DEF MakeTempFails
<1>10. CASE WriteArtifact
    <2>1. ready.entry.graph_read /\ temp' = "whole"
        BY <1>10 DEF WriteArtifact
    <2> QED BY <1>10, <2>1 DEF WriteArtifact
<1>11. CASE WriteArtifactFails
    <2>1. CASE Is("view")
        BY <1>11, <2>1 DEF WriteArtifactFails
    <2>2. CASE ~Is("view")
        BY <1>11, <2>2 DEF WriteArtifactFails
    <2> QED BY <2>1, <2>2
<1>12. CASE Start
    BY <1>12 DEF Start
<1>13. CASE StartFails
    BY <1>13 DEF StartFails
<1>14. CASE Greet
    BY <1>14 DEF Greet
<1>15. CASE HearHandshake
    <2> DEFINE m == Head(pipe)
               code == HandshakeCode(m, ready.entry)
    <2>1. m \in Replies /\ Tail(pipe) \in Seq(Replies)
        BY <1>15 DEF HearHandshake
    <2>2. code \in Codes \cup {"none"}
        BY DEF HandshakeCode
    <2>3. heard = Unheard /\ asked = Nothing /\ ready \in Ready
        BY <1>15 DEF HearHandshake
    <2>5. code = "none" /\ ready.action \in m.actions => Identifies(m, ready)
        BY <2>1, <2>3 DEF HandshakeCode, Identifies, Message
    <2> HIDE DEF m, code
    <2>6. CASE code # "none"
        BY <1>15, <2>1, <2>2, <2>3, <2>6 DEF HearHandshake, m, code
    <2>7. CASE code = "none" /\ ready.action \notin m.actions
        BY <1>15, <2>1, <2>3, <2>7 DEF HearHandshake, m, code
    <2>8. CASE code = "none" /\ ready.action \in m.actions
        <3>1. heard' = [heard EXCEPT !.handshake = m] /\ pc' = "ask" /\ pipe' = Tail(pipe)
            BY <1>15, <2>8 DEF HearHandshake, m, code
        <3>2. UNCHANGED <<store, job, ready, temp, child, asked, outcome, kills>>
            BY <1>15, <2>8 DEF HearHandshake, m, code
        <3>3. Identifies(heard'.handshake, ready')
            BY <2>3, <2>5, <2>8, <3>1, <3>2 DEF Identifies
        <3> QED BY <1>15, <2>1, <2>3, <3>1, <3>2, <3>3 DEF HearHandshake
    <2> QED BY <2>6, <2>7, <2>8
<1>16. CASE Ask
    <2>1. ready \in Ready /\ asked' \in Request /\ asked' # Nothing
        BY <1>16 DEF Ask, Ready, Entry, Request
    <2>2. asked'.action = ready.action /\ (asked'.exchange => ready.entry.graph_read)
        BY <1>16 DEF Ask
    <2>3. Identifies(heard.handshake, ready)
        BY <1>16 DEF Ask
    <2> QED BY <1>16, <2>1, <2>2, <2>3 DEF Ask, Identifies
<1>17. CASE HearAnswer
    <2> DEFINE m == Head(pipe)
               code == InvokeCode(m, ready.entry)
    <2>1. m \in Replies /\ Tail(pipe) \in Seq(Replies)
        BY <1>17 DEF HearAnswer
    <2>2. code \in Codes \cup {"none"}
        BY <2>1 DEF InvokeCode, Message
    <2>3. /\ Identifies(heard.handshake, ready)
          /\ ready \in Ready /\ ready.entry.intact /\ asked # Nothing
        BY <1>17 DEF HearAnswer
    <2>5. code = "none" /\ Verdict(m) = "success" => Completes(m, ready)
        <3> SUFFICES ASSUME code = "none", Verdict(m) = "success" PROVE Completes(m, ready)
            OBVIOUS
        <3>1. m # NotJson /\ m \in Message /\ m.version = 1 /\ m.reply = "invoke"
              /\ m.outputs # NoList
            BY <2>1 DEF InvokeCode, Message
        <3>2. \A o \in m.outputs : Accepted(o, ready.entry)
            BY <3>1 DEF InvokeCode, Message
        <3>3. m.status = "complete"
            BY DEF Verdict
        <3>4. m.outputs \subseteq Outputs
            BY <3>1, <3>2 DEF Message, Accepted
        <3> QED BY <3>1, <3>2, <3>3, <3>4 DEF Completes, Accepted, MatchesGlob
    <2>6. Verdict(m) \in {"PLUGIN_FAILED", "success"}
        BY DEF Verdict
    <2>7. Verdict(m) = "success" /\ Is("view") /\ job.standalone
              => \E o \in m.outputs : o.last \in HtmlParts
        BY DEF Verdict
    <2>8. /\ heard' = [heard EXCEPT !.invoke = m] /\ pipe' = Tail(pipe) /\ pc' = "release"
          /\ outcome' = IF code # "none" THEN code ELSE Verdict(m)
          /\ UNCHANGED <<store, job, ready, temp, child, asked, kills>>
        BY <1>17 DEF HearAnswer
    <2> HIDE DEF m, code
    <2>9. outcome' \in Outcomes
        BY <2>2, <2>6, <2>8
    <2>10. TypeOK'
        BY <2>1, <2>8, <2>9
    <2>11. ReadyFits' /\ TempFits' /\ HeardFits'
        BY <1>17, <2>3, <2>8 DEF HearAnswer
    <2>12. SuccessIsEarned'
        BY <2>2, <2>3, <2>5, <2>7, <2>8 DEF Identifies, Completes
    <2>13. GraphOnlyToIdentified'
        BY <1>17, <2>3, <2>8 DEF Identifies, HearAnswer
    <2> QED BY <2>10, <2>11, <2>12, <2>13
<1>18. CASE Broken
    BY <1>18 DEF Broken
<1>19. CASE Release
    BY <1>19 DEF Release
<1>20. CASE Speak
    BY <1>20 DEF Speak
<1>21. CASE Exit
    BY <1>21 DEF Exit
<1>22. CASE Kill
    BY <1>22 DEF Kill
<1>23. CASE UNCHANGED vars
    BY <1>23 DEF vars
<1> QED BY <1>1, <1>2, <1>3, <1>4, <1>5, <1>6, <1>7, <1>8, <1>9, <1>10, <1>11, <1>12, <1>13, <1>14, <1>15, <1>16, <1>17, <1>18, <1>19, <1>20, <1>21, <1>22, <1>23 DEF Next, Command, Plugin

(***************************************************************************)
(* The invariant holds, and with it what it is made of.                    *)
(***************************************************************************)

\* The state of a command always fits the step it has reached: what has been
\* chosen, handed over, asked and heard.
THEOREM ConversationFits == Spec => []ConversationInv
BY InvInit, InvNext, PTL DEF Spec

\* A command succeeds only after a verified and identified plugin has reported
\* all of the work, within its approved outputs.
THEOREM SuccessEarned == Spec => []SuccessIsEarned
<1>1. ConversationInv => SuccessIsEarned
    BY DEF ConversationInv
<1> QED BY <1>1, ConversationFits, PTL

\* The graph goes only to a plugin that is approved to read it and that has
\* identified itself, and lies there whole while the answer is awaited.
THEOREM GraphToIdentified == Spec => []GraphOnlyToIdentified
<1>1. ConversationInv => GraphOnlyToIdentified
    BY DEF ConversationInv
<1> QED BY <1>1, ConversationFits, PTL

\* A command that ends by itself takes back whatever it made for the graph, even if
\* only in part; but for a refused removal, and a `run` whose own write fails.
THEOREM GraphIsTakenBack == Spec => GraphTakenBack
<1> DEFINE Taken == pc # "idle" /\ pc' = "idle" /\ outcome' # "killed" =>
                       temp' \notin Made \/ (pc = "write" /\ Is("run"))
<1>1. ConversationInv /\ [Next]_vars => [Taken]_vars
    <2> SUFFICES ASSUME ConversationInv, [Next]_vars PROVE [Taken]_vars
        OBVIOUS
    <2>1. TempFits /\ ReadyFits
        BY DEF ConversationInv
    <2>2. CASE Begin
        BY <2>2 DEF Begin
    <2>3. CASE DiscoverFails \/ ChooseRefuse \/ ChooseNone
        BY <2>1, <2>3 DEF DiscoverFails, ChooseRefuse, ChooseNone, TempFits, Made
    <2>4. CASE MakeTempFails
        BY <2>1, <2>4 DEF MakeTempFails, TempFits, Made
    <2>5. CASE WriteArtifactFails
        <3>1. Is("view") \/ Is("run")
            BY <2>1, <2>5 DEF WriteArtifactFails, ReadyFits, RunJob, ViewJob, Is
        <3>2. CASE Is("view")
            BY <2>5, <3>2 DEF WriteArtifactFails, Return, Go
        <3>3. CASE Is("run")
            BY <2>5, <3>3 DEF WriteArtifactFails
        <3> QED BY <3>1, <3>2, <3>3
    <2>6. CASE Release
        BY <2>6 DEF Release, Made
    <2>7. CASE Choose \/ MakeOutput \/ MakeOutputFails \/ MakeTemp \/ WriteArtifact
        BY <2>7 DEF Choose, MakeOutput, MakeOutputFails, MakeTemp, WriteArtifact, Return, Go
    <2>8. CASE Start \/ StartFails \/ Greet \/ HearHandshake \/ Ask \/ HearAnswer \/ Broken
        BY <2>8 DEF Start, StartFails, Greet, HearHandshake, Ask, HearAnswer, Broken, Return, Go
    <2>9. CASE Plugin
        BY <2>9 DEF Plugin, Speak, Exit
    <2>10. CASE Kill
        BY <2>10 DEF Kill
    <2>11. CASE UNCHANGED vars
        BY <2>11
    <2> QED BY <2>2, <2>3, <2>4, <2>5, <2>6, <2>7, <2>8, <2>9, <2>10, <2>11 DEF Next, Command
<1>2. [Taken]_vars => [pc # "idle" /\ pc' = "idle" /\ outcome' # "killed" =>
                          temp' \notin Made \/ (pc = "write" /\ Is("run"))]_vars
    OBVIOUS
<1> HIDE DEF Taken
<1> QED BY <1>1, <1>2, ConversationFits, PTL DEF Spec, GraphTakenBack

=============================================================================
