------------------------------- MODULE MCRepl ------------------------------
(* Instances of Repl: what is typed, by what the reader tells apart.        *)
EXTENDS Repl

MCChars == {Blank, ":", ";", "\"", "'", "\\", "a", "b", "c", "q", "r", "x"}

MCWrites == {<<"a">>, <<"a", Blank, "a">>}
MCReads == {<<"r">>}

\* Written at once, over two lines, and closed only by a later line.
Plain == {<<"a", ";">>, <<"a">>, <<"r", ";">>}

\* A `;` in a literal, and a quote that an escape keeps in it.
Quoted == {<<"\"", "a", ";">>, <<"\\", "\"", ";">>, <<"\"", ";">>}

\* The other quote, which opens a literal or closes it.
Single == {<<"'", ";">>}

\* A literal of each kind that holds a quote of the other, like "it's".
Mixed == {<<"\"", "'", "\"", ";">>, <<"'", "\"", "'", ";">>}

Command == {Commands[c] : c \in DOMAIN Commands}

MCLines == Plain \cup Quoted \cup Single \cup Mixed \cup {<<";">>} \cup Command
MCGiven == MCWrites \cup MCReads \cup {<<"x">>}
=============================================================================
