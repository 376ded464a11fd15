-------------------------- MODULE MCEntryPointCommand --------------------------
(* An instance of EntryPointCommand for TLC: every command of up to four    *)
(* words, of eight kinds of words.  decimal is a number such as 1.10, which *)
(* comes out of json.loads as short, 1.1.                                   *)
EXTENDS EntryPointCommand, TLC
CONSTANTS python, m, script, name, number, decimal, short, blanks

AllWords == {python, m, script, name, number, decimal, short, blanks}
AsPython == number :> number @@ decimal :> short @@ short :> short
=============================================================================
