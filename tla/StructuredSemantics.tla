------------------------ MODULE StructuredSemantics -------------------------
(***************************************************************************)
(* What the statements of StatementEmitter mean, without any bytecode: the *)
(* reference against which emitter and frame machine are checked together. *)
(* An execution is a result: the calls made, how it ended, and how many    *)
(* conditional blocks it entered.                                          *)
(*                                                                         *)
(* Defers of a block run when the block is left, in whatever way, the last *)
(* one first; an exception of a deferred statement replaces the way the    *)
(* block was being left.  One point follows the virtual machine, where     *)
(* another choice would be possible: a handler is given up before the      *)
(* defers below it run, so an exception a defer raises while another one   *)
(* is being unwound passes one try statement more ("skip").                *)
(***************************************************************************)
EXTENDS Integers, SequencesExt

CONSTANTS MaxRounds,  \* how many conditional blocks may be entered
          None        \* no exception

Result(log, end, exc, skip, n) == [log |-> log, end |-> end, exc |-> exc, skip |-> skip, n |-> n]

Done(log, n)  == Result(log, "normal", None, 0, n)
After(log, r) == [r EXCEPT !.log = log \o @]

RECURSIVE Exec(_, _, _)
RECURSIVE ExecBlock(_, _, _, _, _)
RECURSIVE LeaveBlock(_, _, _)
RECURSIVE ExecLoop(_, _, _, _)

\* How r changes when the deferred execution d runs while r leaves the block.
Merge(r, d) ==
    IF d.end # "raise" THEN [r EXCEPT !.log = @ \o d.log, !.n = d.n]
    ELSE [d EXCEPT !.log = r.log \o @,
                   !.skip = IF r.end = "raise" THEN r.skip + 1 + @ ELSE @]

LeaveBlock(pending, cur, r) ==
    IF pending = << >> THEN {r}
    ELSE UNION { LeaveBlock(Front(pending), cur, Merge(r, d)) : d \in Exec(Last(pending), r.n, cur) }

\* cur is the exception that "throw;" throws again.
ExecBlock(stmts, pending, log, n, cur) ==
    IF stmts = << >> THEN LeaveBlock(pending, cur, Done(log, n))
    ELSE IF Head(stmts).k = "defer"
         THEN ExecBlock(Tail(stmts), Append(pending, Head(stmts).stmt), log, n, cur)
         ELSE UNION { IF r.end = "normal"
                      THEN ExecBlock(Tail(stmts), pending, log \o r.log, r.n, cur)
                      ELSE LeaveBlock(pending, cur, After(log, r)) : r \in Exec(Head(stmts), n, cur) }

Block(stmts, n, cur) == ExecBlock(stmts, << >>, << >>, n, cur)

\* The rounds of a loop; "again" are the results of one more round.
ExecLoop(s, log, n, cur) ==
    LET rounds == IF n = MaxRounds THEN {} ELSE Block(s.body, n + 1, cur)
        afters(r) == IF s.k # "for" THEN {Done(<< >>, r.n)} ELSE Exec(s.after, r.n, cur)
        next(r) == CASE r.end = "break" -> {Done(log \o r.log, r.n)}
                     [] r.end \in {"normal", "continue"} ->
                            UNION { IF a.end = "normal"
                                    THEN ExecLoop(s, log \o r.log \o a.log, a.n, cur)
                                    ELSE {After(log \o r.log, a)} : a \in afters(r) }
                     [] OTHER -> {After(log, r)}
    IN  {Done(log, n)} \cup UNION { next(r) : r \in rounds }

Accepts(c, e) == c.any \/ e \in c.excs

ExecTry(s, n, cur) ==
    LET caught(r) ==
            LET fits == {i \in DOMAIN s.clauses : Accepts(s.clauses[i], r.exc)}
            IN  IF fits = {} THEN {r}
                ELSE { After(r.log, h) : h \in Block(s.clauses[Min(fits)].body, r.n, r.exc) }
        leave(r) == IF s.clauses = << >> \/ r.end # "raise" THEN {r}
                    ELSE IF r.skip > 0 THEN {[r EXCEPT !.skip = @ - 1]}
                    ELSE caught(r)
    IN  UNION { leave(r) : r \in Block(s.body, n, cur) }

\* The first clause whose test is true, or the default clause.
ExecSwitch(s, n, cur) ==
    LET leave(r)  == IF r.end = "break" THEN [r EXCEPT !.end = "normal"] ELSE r
        dflts     == {i \in DOMAIN s.cases : s.cases[i].dflt}
        reachable == {i \in DOMAIN s.cases : \A j \in dflts : i < j}
        chosen    == UNION { {leave(r) : r \in Block(s.cases[i].body, n + 1, cur)} :
                                i \in IF n = MaxRounds THEN {} ELSE reachable }
    IN  chosen \cup (IF dflts = {} THEN {Done(<< >>, n)}
                     ELSE {leave(r) : r \in Block(s.cases[Min(dflts)].body, n, cur)})

Exec(s, n, cur) ==
    CASE s.k \in {"call", "expr"} ->
                {Done(<< s.tag >>, n)}
               \cup {Result(<< s.tag >>, "raise", e, 0, n) : e \in s.excs}
      [] s.k = "throw"    -> {Result(<< >>, "raise", s.e, 0, n)}
      [] s.k = "rethrow"  -> {Result(<< >>, "raise", cur, 0, n)}
      [] s.k \in {"return", "break", "continue"} -> {Result(<< >>, s.k, None, 0, n)}
      [] s.k = "try"      -> ExecTry(s, n, cur)
      [] s.k \in {"if", "unless"} -> (IF n = MaxRounds THEN {} ELSE Block(s.then, n + 1, cur))
                             \cup Block(s.else, n, cur)
      [] s.k = "switch"   -> ExecSwitch(s, n, cur)
      [] s.k \in {"while", "until", "for", "forin"} -> ExecLoop(s, << >>, n, cur)

\* The executions of a method with that body.
ExecMethod(body) == Block(body, 0, None)
=============================================================================
