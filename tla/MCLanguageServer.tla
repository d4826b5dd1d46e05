-------------------------- MODULE MCLanguageServer --------------------------
(***************************************************************************)
(* Two connections, two documents, a pool of two threads.                  *)
(***************************************************************************)
EXTENDS LanguageServer

MCCharacters == {"a", "b", Newline}
MCContents == {<<"a", Newline, "b">>}
MCPositions == {[line |-> 0, character |-> 2], [line |-> 1, character |-> 1]}
MCInserted == {<<Newline>>}
MCBudgets == {[c1 |-> 3, c2 |-> 0], [c1 |-> 2, c2 |-> 1]}
=============================================================================
