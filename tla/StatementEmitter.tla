-------------------------- MODULE StatementEmitter --------------------------
(***************************************************************************)
(* AbstractEmiter: how statements become the instructions that             *)
(* FrameMachine executes.  A statement is a record of the syntax tree; the *)
(* emitter's state is the bytecode so far together with DeferScopes and    *)
(* Loops.  Jumps are emitted with operand 0 and pasted later, as in the    *)
(* code; offset 0 is the first instruction, index 1.                       *)
(***************************************************************************)
EXTENDS Integers, SequencesExt

\* Statements.  An expression statement keeps an operand on the stack while it
\* calls.  A body, a clause body and a method body are sequences of
\* statements, the StatementsBlockSyntax.
CallS(tag, excs)     == [k |-> "call", tag |-> tag, excs |-> excs]
ExprS(v, tag, excs)  == [k |-> "expr", v |-> v, tag |-> tag, excs |-> excs]
ThrowS(e)            == [k |-> "throw", e |-> e]
RethrowS             == [k |-> "rethrow"]
ReturnS              == [k |-> "return"]
BreakS               == [k |-> "break"]
ContinueS            == [k |-> "continue"]
DeferS(s)            == [k |-> "defer", stmt |-> s]
TryS(body, clauses)  == [k |-> "try", body |-> body, clauses |-> clauses]
IfS(then, else)      == [k |-> "if", then |-> then, else |-> else]
UnlessS(then, else)  == [k |-> "unless", then |-> then, else |-> else]
WhileS(body)         == [k |-> "while", body |-> body]
UntilS(body)         == [k |-> "until", body |-> body]
ForS(body, after)    == [k |-> "for", body |-> body, after |-> after]
ForInS(body)         == [k |-> "forin", body |-> body]
SwitchS(cases)       == [k |-> "switch", cases |-> cases]

\* A catch clause: the exceptions its type accepts, Any when it has none.
CatchC(excs, body)   == [any |-> FALSE, excs |-> excs, body |-> body]
CatchAnyC(body)      == [any |-> TRUE, excs |-> {}, body |-> body]

\* A clause of a switch: with a test, or the default clause.
CaseC(body)          == [dflt |-> FALSE, body |-> body]
DefaultC(body)       == [dflt |-> TRUE, body |-> body]

-----------------------------------------------------------------------------
(* Emitter state                                                           *)

\* DeferScopes, Loops and the try blocks around the next instruction.
NoCode == [code |-> << >>, scopes |-> << >>, loops |-> << >>, tries |-> << >>]

Here(st) == Len(st.code) + 1

EmitI(st, op, arg, objs, tag) ==
    [st EXCEPT !.code = Append(@, [op |-> op, arg |-> arg, objs |-> objs,
                                   tag |-> tag, tries |-> st.tries])]

Emit(st, op)        == EmitI(st, op, 1, {}, "")
EmitN(st, op, n)    == EmitI(st, op, n, {}, "")

\* ByteCodeEncoder::PasteData of a jump target.
PasteData(st, at, target) == [st EXCEPT !.code[at].arg = target]
PasteAll(st, ats, target) ==
    LET Pasted(i) == IF Contains(ats, i) THEN [st.code[i] EXCEPT !.arg = target] ELSE st.code[i]
    IN  [st EXCEPT !.code = << >> \o [i \in 1 .. Len(st.code) |-> Pasted(i)]]

-----------------------------------------------------------------------------
(* Defer scopes                                                            *)

\* Scopes from the innermost one down to the first loop scope.
ScopesUntilLoop(scopes) ==
    LET loopAt == {i \in DOMAIN scopes : scopes[i].isLoop}
        from   == IF loopAt = {} THEN 1 ELSE Max(loopAt)
    IN  from .. Len(scopes)

EmitDrainOf(st, idx) ==
    LET n == MapThenSumSet(LAMBDA i : st.scopes[i].count, idx)
        cleared == [st EXCEPT !.scopes = [i \in DOMAIN @ |->
                        IF i \in idx THEN [@[i] EXCEPT !.count = 0] ELSE @[i]]]
    IN  IF n > 0 THEN EmitN(cleared, "DEFER_DRAIN", n) ELSE cleared

EmitCurrentScopeDefers(st) == EmitDrainOf(st, {Len(st.scopes)})
EmitDefersUntilLoop(st)    == EmitDrainOf(st, ScopesUntilLoop(st.scopes))
EmitAllDefers(st)          == EmitDrainOf(st, DOMAIN st.scopes)

-----------------------------------------------------------------------------
(* Statements                                                              *)

RECURSIVE VisitStatement(_, _)
RECURSIVE VisitStatements(_, _)
RECURSIVE VisitStatementsBlock(_, _, _)
RECURSIVE VisitSwitchClauses(_, _)
RECURSIVE VisitCatchClauses(_, _, _)

VisitStatements(stmts, st) ==
    IF stmts = << >> THEN st ELSE VisitStatements(Tail(stmts), VisitStatement(Head(stmts), st))

\* isLoop: the parent of the block is a while, until, for or foreach
\* statement.  The body of a for-in and of a switch clause is not counted.
VisitStatementsBlock(stmts, isLoop, st) ==
    LET opened == [st EXCEPT !.scopes = Append(@, [count |-> 0, isLoop |-> isLoop])]
        body   == VisitStatements(stmts, opened)
        closed == EmitCurrentScopeDefers(body)
    IN  [closed EXCEPT !.scopes = Front(@)]

\* DEFER and a jump over the deferred expression, which ends in DEFER_BREAK.
EmitDefer(s, st) ==
    LET at     == Here(st)
        opened == Emit(Emit(st, "DEFER"), "JUMP")
        closed == Emit(VisitStatement(s.stmt, opened), "DEFER_BREAK")
    IN  PasteData(PasteData(closed, at, at + 2), at + 1, Here(closed))

VisitDeferStatement(s, st) ==
    EmitDefer(s, [st EXCEPT !.scopes[Len(st.scopes)].count = @ + 1])

VisitReturnStatement(st) == Emit(EmitAllDefers(st), "RETURN")

VisitBreakStatement(st) ==
    LET drained == EmitDefersUntilLoop(st)
    IN  Emit([drained EXCEPT !.loops[Len(st.loops)].loopEnd = Append(@, Here(drained))], "JUMP")

VisitContinueStatement(st) ==
    Emit([st EXCEPT !.loops[Len(st.loops)].blockEnd = Append(@, Here(st))], "JUMP")

\* A loop: condition, body, the statement after each round, jump back.  A
\* "continue" jumps behind that statement, to the jump back.
EmitLoop(exitOp, body, after, isLoop, st) ==
    LET start  == Here(st)
        opened == Emit([st EXCEPT !.loops = Append(@, [blockEnd |-> << >>, loopEnd |-> << start >>])],
                       exitOp)
        round  == VisitStatements(after, VisitStatementsBlock(body, isLoop, opened))
        closed == EmitN(round, "JUMP", start)
        loop   == Last(closed.loops)
        pasted == PasteAll(PasteAll(closed, loop.blockEnd, Here(round)), loop.loopEnd, Here(closed))
    IN  [pasted EXCEPT !.loops = Front(@)]

VisitConditional(jump, s, st) ==
    LET at   == Here(st)
        then == VisitStatementsBlock(s.then, FALSE, Emit(st, jump))
    IN  IF s.else = << >>
        THEN PasteData(then, at, Here(then))
        ELSE LET jumped == Emit(then, "JUMP")
                 else   == VisitStatementsBlock(s.else, FALSE, PasteData(jumped, at, Here(jumped)))
             IN  PasteData(else, Here(then), Here(else))

\* The clauses of a switch: its test, its body and a jump to the end.
VisitSwitchClauses(cases, st) ==
    IF cases = << >> THEN st ELSE
    LET c      == Head(cases)
        tested == IF c.dflt THEN st ELSE Emit(st, "JUMP_FALSE")
        clause == VisitStatementsBlock(c.body, FALSE, tested)
        jumped == Emit([clause EXCEPT !.loops[Len(clause.loops)].loopEnd =
                            Append(@, Here(clause))], "JUMP")
    IN  VisitSwitchClauses(Tail(cases),
            IF c.dflt THEN jumped ELSE PasteData(jumped, Here(st), Here(jumped)))

\* A switch is a loop scope for "break".  Only the loop-end jumps of the scope
\* are pasted.
VisitSwitchStatement(s, st) ==
    LET closed == VisitSwitchClauses(s.cases,
                      [st EXCEPT !.loops = Append(@, [blockEnd |-> << >>, loopEnd |-> << >>])])
        pasted == PasteAll(closed, Last(closed.loops).loopEnd, Here(closed))
    IN  [pasted EXCEPT !.loops = Front(@)]

\* The catch clauses.  One whose type does not match goes on with the next,
\* the last one with the fallback THROW; the end of each body jumps to
\* END_CATCH.  "ends" are these jumps.
VisitCatchClauses(clauses, ends, st) ==
    IF clauses = << >>
    THEN LET thrown == Emit(st, "THROW") IN PasteAll(Emit(thrown, "END_CATCH"), ends, Here(thrown))
    ELSE LET c      == Head(clauses)
             tested == IF c.any THEN st ELSE EmitI(st, "ISINSTANCE", 1, c.excs, "")
             body   == Emit(VisitStatementsBlock(c.body, FALSE, Emit(tested, "POP")), "JUMP")
         IN  VisitCatchClauses(Tail(clauses), Append(ends, Len(body.code)),
                 IF c.any THEN body ELSE PasteData(body, Here(st), Here(body)))

\* The handler starts with the exception on the stack.
VisitTryStatement(s, st) ==
    IF s.clauses = << >> THEN VisitStatementsBlock(s.body, FALSE, st) ELSE
    LET at     == Here(st)
        inside == [Emit(st, "ENTER_TRY") EXCEPT !.tries = Append(@, at)]
        tried  == Emit(VisitStatementsBlock(s.body, FALSE, inside), "LEAVE_TRY")
        left   == Emit([tried EXCEPT !.tries = st.tries], "JUMP")
    IN  VisitCatchClauses(s.clauses, << Here(tried) >>, PasteData(left, at, Here(left)))

VisitStatement(s, st) ==
    CASE s.k = "call"     -> EmitI(st, "CALL", 1, s.excs, s.tag)
      [] s.k = "expr"     -> Emit(EmitI(EmitI(st, "LOAD", 1, {s.v}, ""), "CALL", 1, s.excs, s.tag), "POP")
      [] s.k = "throw"    -> Emit(EmitI(st, "LOAD", 1, {s.e}, ""), "THROW")
      [] s.k = "rethrow"  -> Emit(st, "RETHROW")
      [] s.k = "return"   -> VisitReturnStatement(st)
      [] s.k = "break"    -> VisitBreakStatement(st)
      [] s.k = "continue" -> VisitContinueStatement(st)
      [] s.k = "defer"    -> VisitDeferStatement(s, st)
      [] s.k = "try"      -> VisitTryStatement(s, st)
      [] s.k = "if"       -> VisitConditional("JUMP_FALSE", s, st)
      [] s.k = "unless"   -> VisitConditional("JUMP_TRUE", s, st)
      [] s.k = "while"    -> EmitLoop("JUMP_FALSE", s.body, << >>, TRUE, st)
      [] s.k = "until"    -> EmitLoop("JUMP_TRUE", s.body, << >>, TRUE, st)
      [] s.k = "for"      -> EmitLoop("JUMP_FALSE", s.body, << s.after >>, TRUE, st)
      [] s.k = "forin"    -> EmitLoop("JUMP_FALSE", s.body, << >>, FALSE, st)
      [] s.k = "switch"   -> VisitSwitchStatement(s, st)

\* VisitMethodDeclaration: the body and a final RETURN.
VisitMethodDeclaration(body) == Emit(VisitStatementsBlock(body, FALSE, NoCode), "RETURN").code
=============================================================================
