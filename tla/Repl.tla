--------------------------------- MODULE Repl -------------------------------
(***************************************************************************)
(* `nostdb query`, immediate and interactive: how statements are read from *)
(* lines, explicit transactions, and what ends a session. The Engine is    *)
(* external: a database is the blocks of writes committed to it, and a     *)
(* transaction whose base is no longer the last generation is refused.     *)
(*                                                                         *)
(* A text is a sequence of characters. Only the characters the reader      *)
(* tells apart matter; a statement is otherwise a letter.                  *)
(***************************************************************************)
EXTENDS Naturals, FiniteSets, Sequences

CONSTANTS
    Chars,        \* the characters of texts
    Lines,        \* the lines that may be typed, without their end
    Given,        \* the texts an immediate query may be given
    Writes,       \* the texts that parse and write
    Reads,        \* the texts that parse and only read
    Nothing,      \* no transaction
    Faults,       \* the calls that may fail
    MaxLines,     \* bound: lines typed in a session
    MaxForeign    \* bound: commits of other processes

Blank == " "

Commands == [begin    |-> <<":", "b">>,
             commit   |-> <<":", "c">>,
             rollback |-> <<":", "r">>,
             quit     |-> <<":", "q">>]

Text == Seq(Chars)

Parsed == Writes \cup Reads

ASSUME ReplAssumption ==
    /\ Blank \in Chars
    /\ Lines \cup Given \cup Parsed \subseteq Text
    /\ \A t \in Parsed : t # <<>> /\ t[1] # ":"
    /\ Writes \cap Reads = {}
    /\ Nothing \notin [base : Nat, writes : Seq(Text)]
    /\ MaxLines \in Nat
    /\ MaxForeign \in Nat

VARIABLES
    pc,          \* the next step
    mode,        \* "immediate" or "session"
    lines,       \* how many lines have been typed
    buffer,      \* what read_statement has read of a statement
    statement,   \* the statement or command read last
    told,        \* what the user has been told of each statement
    known,       \* the generation the open database was last seen at
    log,         \* the blocks of writes committed, each with its author
    tx,          \* the transaction of transaction_session
    class        \* the exit class, "" while the command runs

vars == <<pc, mode, lines, buffer, statement, told, known, log, tx, class>>

-----------------------------------------------------------------------------
(* Reading.                                                                *)

\* Mutant: a backslash does not protect the character after it.
Inside_NoEscape(text) ==
    LET after[i \in 0..Len(text)] ==
            IF i = 0 THEN [quoted |-> FALSE, escaped |-> FALSE]
            ELSE [quoted |-> IF text[i] \in {"\"", "'"} THEN ~after[i - 1].quoted
                             ELSE after[i - 1].quoted,
                  escaped |-> FALSE]
    IN  after

Outside == [quoted |-> FALSE, escaped |-> FALSE]

\* What `terminator` knows after one more character: either quote opens and closes.
After(s, c) ==
    [escaped |-> ~s.escaped /\ s.quoted /\ c = "\\",
     quoted  |-> IF ~s.escaped /\ c \in {"\"", "'"} THEN ~s.quoted ELSE s.quoted]

\* What it knows after each character of a text.
Inside(text) ==
    LET after[i \in 0..Len(text)] ==
            IF i = 0 THEN Outside ELSE After(after[i - 1], text[i])
    IN  after

\* The first of the given places that holds a `;`, 0 if none does.
FirstSemicolon(text, places) ==
    LET found == {i \in places : text[i] = ";"}
    IN  IF found = {} THEN 0 ELSE CHOOSE i \in found : \A j \in found : i <= j

Terminator(text) ==
    LET inside == Inside(text)
    IN  FirstSemicolon(text, {i \in 1..Len(text) : ~inside[i - 1].quoted})

\* Without the blanks at both ends.
Trim(text) ==
    LET ink == {i \in 1..Len(text) : text[i] # Blank}
    IN  IF ink = {} THEN <<>>
        ELSE SubSeq(text, CHOOSE i \in ink : \A j \in ink : i <= j,
                          CHOOSE i \in ink : \A j \in ink : i >= j)

IsCommand(text) == Trim(text) # <<>> /\ Trim(text)[1] = ":"

\* A line and its end.
WithEnd(line) == Append(line, Blank)

-----------------------------------------------------------------------------
(* The Engine: a transaction starts from a generation the database has     *)
(* had since it was last seen, and may write only if that is still the     *)
(* last one.                                                               *)

NoWrites == <<>>

Generation == Len(log)

Bases == known..Generation

\* The writes of a statement.
Effect(text) == IF text \in Writes THEN <<text>> ELSE NoWrites

Committed(writes, base) == writes = NoWrites \/ base = Generation

Logged(writes) ==
    IF writes = NoWrites THEN log ELSE Append(log, [by |-> "me", writes |-> writes])

-----------------------------------------------------------------------------

Init ==
    /\ \/ mode = "session" /\ pc = "open" /\ statement = <<>>
       \/ mode = "immediate" /\ pc = "parse" /\ statement \in Given
    /\ lines = 0
    /\ buffer = <<>>
    /\ told = <<>>
    /\ known = 0
    /\ log = <<>>
    /\ tx = Nothing
    /\ class = ""

Tell(done) == told' = Append(told, [text |-> statement, done |-> done])

End(with) == pc' = "ended" /\ class' = with

\* The next statement is read.
Loop == pc' = "read" /\ buffer' = <<>> /\ UNCHANGED class

\* `immediate` parses its text before it opens anything.
ParseGiven ==
    /\ pc = "parse"
    /\ IF statement \in Parsed
       THEN pc' = "open" /\ UNCHANGED class
       ELSE End("query")
    /\ UNCHANGED <<mode, lines, buffer, statement, told, known, log, tx>>

Open ==
    /\ pc = "open"
    /\ pc' = IF mode = "session" THEN "read" ELSE "dispatch"
    /\ known' = Generation
    /\ UNCHANGED <<mode, lines, buffer, statement, told, log, tx, class>>

OpenFails ==
    /\ pc = "open"
    /\ "open" \in Faults
    /\ End("project")
    /\ UNCHANGED <<mode, lines, buffer, statement, told, known, log, tx>>

-----------------------------------------------------------------------------
(* read_statement.                                                         *)

\* A command is taken only while nothing has been read.
ReadLine(line) ==
    /\ pc = "read"
    /\ lines < MaxLines
    /\ lines' = lines + 1
    /\ IF buffer = <<>> /\ IsCommand(line)
       THEN /\ statement' = Trim(line)
            /\ pc' = "dispatch"
            /\ UNCHANGED buffer
       ELSE LET read == buffer \o WithEnd(line)
                end  == Terminator(read)
            IN  /\ buffer' = read
                /\ IF end = 0
                   THEN UNCHANGED <<pc, statement>>
                   ELSE pc' = "dispatch" /\ statement' = Trim(SubSeq(read, 1, end - 1))
    /\ UNCHANGED <<mode, told, known, log, tx, class>>

\* Mutant: the open transaction is left as it is.
Leave_KeepsOpen == End("success") /\ UNCHANGED <<buffer, log, known, tx>>

\* The session ends, and an open transaction is rolled back.
Leave == End("success") /\ tx' = Nothing /\ UNCHANGED <<buffer, log, known>>

\* What has been read of a statement is discarded, as the empty statement.
EndOfInput ==
    /\ pc = "read"
    /\ IF Trim(buffer) = <<>>
       THEN Leave /\ UNCHANGED statement
       ELSE pc' = "dispatch" /\ statement' = <<>> /\ UNCHANGED <<buffer, known, log, tx, class>>
    /\ UNCHANGED <<mode, lines, told>>

ReadFails ==
    /\ pc = "read"
    /\ "input" \in Faults
    /\ Leave
    /\ UNCHANGED <<mode, lines, statement, told>>

-----------------------------------------------------------------------------
(* What both loops do with a statement.                                    *)

Dispatch(text) == pc = "dispatch" /\ statement = text

Reading == UNCHANGED <<mode, lines, statement>>

\* The empty statement, and `:quit`: with a transaction, it is rolled back.
DiscardOrQuit ==
    /\ mode = "session"
    /\ Dispatch(<<>>) \/ Dispatch(Commands.quit)
    /\ Leave
    /\ Reading
    /\ UNCHANGED told

\* What neither loop can do is said, and the loop goes on.
Refuse ==
    /\ mode = "session"
    /\ pc = "dispatch"
    /\ statement # <<>>
    /\ statement \notin Parsed \cup {Commands.quit}
    /\ IF tx = Nothing THEN statement # Commands.begin
                       ELSE statement \notin {Commands.commit, Commands.rollback}
    /\ Tell(FALSE)
    /\ Loop
    /\ Reading
    /\ UNCHANGED <<known, log, tx>>

\* An error of the Engine in a statement of a session is only told.
GoOn == IF mode = "session" THEN Loop ELSE UNCHANGED buffer /\ End("success")

Fail(with) == IF mode = "session" THEN Loop ELSE UNCHANGED buffer /\ End(with)

\* run_one: a transaction of its own.
RunOne ==
    /\ pc = "dispatch"
    /\ tx = Nothing
    /\ statement \in Parsed
    /\ \E base \in Bases :
         IF Committed(Effect(statement), base)
         THEN /\ log' = Logged(Effect(statement))
              /\ known' = Len(log')
              /\ Tell(TRUE)
              /\ GoOn
         ELSE /\ Tell(FALSE)
              /\ Fail("conflict")
              /\ UNCHANGED <<log, known>>
    /\ Reading
    /\ UNCHANGED tx

\* A failed begin, run or commit.
RunOneFails ==
    /\ pc = "dispatch"
    /\ tx = Nothing
    /\ statement \in Parsed
    /\ \/ "engine" \in Faults /\ Fail("io")
       \/ "query" \in Faults /\ Fail("query")
    /\ Tell(FALSE)
    /\ Reading
    /\ UNCHANGED <<known, log, tx>>

-----------------------------------------------------------------------------
(* transaction_session.                                                    *)

Begin ==
    /\ mode = "session"
    /\ Dispatch(Commands.begin)
    /\ tx = Nothing
    /\ \E base \in Bases : tx' = [base |-> base, writes |-> NoWrites] /\ known' = base
    /\ Tell(TRUE)
    /\ Loop
    /\ Reading
    /\ UNCHANGED log

\* Mutant: the session goes on without a transaction, and the user is not told.
BeginFails_GoesOn ==
    /\ mode = "session"
    /\ Dispatch(Commands.begin)
    /\ tx = Nothing
    /\ "engine" \in Faults
    /\ Tell(TRUE)
    /\ Loop
    /\ Reading
    /\ UNCHANGED <<known, log, tx>>

BeginFails ==
    /\ mode = "session"
    /\ Dispatch(Commands.begin)
    /\ tx = Nothing
    /\ "engine" \in Faults
    /\ Tell(FALSE)
    /\ End("io")
    /\ Reading
    /\ UNCHANGED <<buffer, known, log, tx>>

RunInside ==
    /\ pc = "dispatch"
    /\ tx # Nothing
    /\ statement \in Parsed
    /\ tx' = [tx EXCEPT !.writes = @ \o Effect(statement)]
    /\ Tell(TRUE)
    /\ Loop
    /\ Reading
    /\ UNCHANGED <<known, log>>

RunInsideFails ==
    /\ pc = "dispatch"
    /\ tx # Nothing
    /\ statement \in Parsed
    /\ "query" \in Faults
    /\ Tell(FALSE)
    /\ Loop
    /\ Reading
    /\ UNCHANGED <<known, log, tx>>

RollBack ==
    /\ Dispatch(Commands.rollback)
    /\ tx # Nothing
    /\ tx' = Nothing
    /\ Tell(TRUE)
    /\ Loop
    /\ Reading
    /\ UNCHANGED <<known, log>>

\* A refused commit ends the session with its class, not only the transaction.
CommitAll ==
    /\ Dispatch(Commands.commit)
    /\ tx # Nothing
    /\ IF Committed(tx.writes, tx.base)
       THEN /\ log' = Logged(tx.writes)
            /\ known' = Len(log')
            /\ Tell(TRUE)
            /\ Loop
       ELSE /\ Tell(FALSE)
            /\ End("conflict")
            /\ UNCHANGED <<buffer, known, log>>
    /\ tx' = Nothing
    /\ Reading

CommitFails ==
    /\ Dispatch(Commands.commit)
    /\ tx # Nothing
    /\ "engine" \in Faults
    /\ tx' = Nothing
    /\ Tell(FALSE)
    /\ End("io")
    /\ Reading
    /\ UNCHANGED <<buffer, known, log>>

-----------------------------------------------------------------------------

\* Another process commits to the same database.
Foreign ==
    /\ Cardinality({i \in 1..Len(log) : log[i].by = "other"}) < MaxForeign
    /\ pc # "ended"
    /\ log' = Append(log, [by |-> "other", writes |-> NoWrites])
    /\ UNCHANGED <<pc, mode, lines, buffer, statement, told, known, tx, class>>

Next ==
    \/ ParseGiven
    \/ Open
    \/ OpenFails
    \/ \E line \in Lines : ReadLine(line)
    \/ EndOfInput
    \/ ReadFails
    \/ DiscardOrQuit
    \/ Refuse
    \/ RunOne
    \/ RunOneFails
    \/ Begin
    \/ BeginFails
    \/ RunInside
    \/ RunInsideFails
    \/ RollBack
    \/ CommitAll
    \/ CommitFails
    \/ Foreign

Spec == Init /\ [][Next]_vars

-----------------------------------------------------------------------------
(* Properties.                                                             *)

\* The reader's state, with quotes matched in kind: the quote a literal was
\* opened with, "" outside of one.
NoLiteral == [quote |-> "", escaped |-> FALSE]

AfterInKind(s, c) ==
    [escaped |-> ~s.escaped /\ s.quote # "" /\ c = "\\",
     quote   |-> IF s.escaped \/ c \notin {"\"", "'"} THEN s.quote
                 ELSE IF s.quote = "" THEN c
                 ELSE IF s.quote = c THEN "" ELSE s.quote]

Literal(text) ==
    LET after[i \in 0..Len(text)] ==
            IF i = 0 THEN NoLiteral ELSE AfterInKind(after[i - 1], text[i])
    IN  after

\* The first `;` outside a string literal.
ProperEnd(text) ==
    LET literal == Literal(text)
    IN  FirstSemicolon(text, {i \in 1..Len(text) : literal[i - 1].quote = ""})

\* What the user may conclude from one more thing the session has told: whether
\* a transaction is open, its writes, and the blocks that are committed. Nothing
\* follows from what was not done.
Conclude(so, entry) ==
    LET said == IF entry.done THEN entry.text ELSE <<>>
        written == said \in Writes
    IN  [open    |-> \/ said = Commands.begin
                     \/ so.open /\ said \notin {Commands.commit, Commands.rollback},
         pending |-> IF said = Commands.begin THEN NoWrites
                     ELSE IF so.open /\ written THEN Append(so.pending, said)
                     ELSE so.pending,
         kept    |-> IF said = Commands.commit /\ so.pending # NoWrites
                     THEN Append(so.kept, so.pending)
                     ELSE IF ~so.open /\ written THEN Append(so.kept, <<said>>)
                     ELSE so.kept]

NothingTold == [open |-> FALSE, pending |-> NoWrites, kept |-> <<>>]

\* What follows from each beginning of what was told.
Conclusions(entries) ==
    LET after[n \in 0..Len(entries)] ==
            IF n = 0 THEN NothingTold ELSE Conclude(after[n - 1], entries[n])
    IN  after

Concluded == Conclusions(told)[Len(told)]

\* The blocks of this command among the first of a log.
Own(blocks, block) == IF block.by = "me" THEN Append(blocks, block.writes) ELSE blocks

OwnBlocks(blocks) ==
    LET after[n \in 0..Len(blocks)] ==
            IF n = 0 THEN <<>> ELSE Own(after[n - 1], blocks[n])
    IN  after

Mine == OwnBlocks(log)[Len(log)]

\* Every variable has a value of its kind, and no transaction outlives the
\* command, whichever way it ends (query.rs:322).
TypeOK ==
    /\ pc \in {"parse", "open", "read", "dispatch", "ended"}
    /\ mode \in {"immediate", "session"}
    /\ lines \in 0..MaxLines
    /\ buffer \in Text /\ statement \in Text
    /\ told \in Seq([text : Text, done : BOOLEAN])
    /\ log \in Seq([by : {"me", "other"}, writes : Seq(Text)])
    /\ known \in 0..Generation
    /\ tx \in {Nothing} \cup [base : Bases, writes : Seq(Text)]
    /\ class \in {"", "success", "query", "project", "io", "conflict"}
    /\ class = "" <=> pc # "ended"
    /\ mode = "immediate" => pc # "read"
    /\ tx # Nothing => mode = "session" /\ pc \in {"read", "dispatch"}

\* What has been committed is exactly what the user has been told is
\* committed, block by block: a statement outside a transaction when it has
\* succeeded, and those of a transaction together when its :commit has, however
\* the session ends and whatever other processes commit. While the session runs
\* the prompt is right about whether a transaction is open and about what it
\* holds. An immediate query exits with success just when it was done
\* (query.rs:145, query.rs:260, query.rs:322).
CommittedAsTold ==
    /\ Mine = Concluded.kept
    /\ pc # "ended" =>
         /\ Concluded.open <=> tx # Nothing
         /\ tx # Nothing => tx.writes = Concluded.pending
    /\ mode = "immediate" =>
         IF pc = "ended" THEN class = "success" <=> told # <<>> /\ told[1].done
                         ELSE told = <<>>

\* Within the literals of a text no quote of the other kind stands unescaped.
Unmixed(text) ==
    LET literal == Literal(text)
    IN  \A i \in 1..Len(text) :
          literal[i - 1].quote # "" /\ ~literal[i - 1].escaped /\ text[i] \in {"\"", "'"} =>
              text[i] = literal[i - 1].quote

\* A session waits for the rest of a statement until its `;`, and runs only
\* what was terminated by one: the `;` is the first outside a string literal,
\* as the docs of read_statement and terminator have it, and a literal ends
\* with the quote it began with (query.rs:210, query.rs:241).
EndsAtTerminator ==
    mode = "session" =>
      /\ pc = "read" => ProperEnd(buffer) = 0
      /\ pc = "dispatch" /\ statement # <<>> /\ ~IsCommand(statement) =>
           /\ ProperEnd(buffer) # 0
           /\ statement = Trim(SubSeq(buffer, 1, ProperEnd(buffer) - 1))

\* So it is of what is read, over however many lines, while no literal holds a
\* quote of the other kind. With one it is not: terminator takes either quote
\* for the end of a literal (query.rs:249).
UnmixedEndsAtTerminator == Unmixed(buffer) => EndsAtTerminator

=============================================================================
