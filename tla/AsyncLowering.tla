--------------------------- MODULE AsyncLowering ----------------------------
(***************************************************************************)
(* The three passes of the lowering of an async method: AsyncHoistingPass  *)
(* rewrites its body until every await stands at the top of an expression, *)
(* variable or return statement, AsyncAnalysisPass finds the awaits of the *)
(* rewritten body and where each one resumes, and AsyncEmissionPass writes *)
(* the MoveNext method of the state machine.                               *)
(*                                                                         *)
(* An expression is a node: its kind, what identifies it (the name of a    *)
(* call or of a variable), its operands, and the outcomes a call or the    *)
(* result of an await may have.  A statement holds its expressions, its    *)
(* blocks and its names; the clauses of an if statement are the blocks of  *)
(* one statement, the one without a condition being its else clause; a for *)
(* statement has its initializer and its repeated statement as the second  *)
(* and third block; a try statement has its catch bodies after its own.    *)
(*                                                                         *)
(* A rejected body is reported as an error.  The loops accept a body that  *)
(* could not be rewritten: the statement is lost ("null").                 *)
(***************************************************************************)
EXTENDS Integers, SequencesExt

Node(k, id, of, outs) == [k |-> k, id |-> id, of |-> of, outs |-> outs]
Var(x)         == Node("var", x, << >>, {})
Const(x)       == Node("const", x, << >>, {})
Assign(x, e)   == Node("assign", x, << e >>, {})
Not(e)         == Node("not", "", << e >>, {})

Statement(k, name, es, blocks) ==
    [k |-> k, name |-> name, es |-> es, blocks |-> blocks, catches |-> << >>, up |-> -1]
VariableStatement(x, e)   == Statement("var", x, << e >>, << >>)
AssignmentStatement(x, e) == Statement("expr", "", << Assign(x, e) >>, << >>)
IfStatement(c, a, b)      == Statement("if", "", << c >>, << a, b >>)
BreakIf(c)                == Statement("if", "", << c >>, << << Statement("break", "", << >>, << >>) >> >>)
NullStatement             == Statement("null", "", << >>, << >>)

\* Temporary variables are named after the await they are made for.
Temporary(kind, e) == kind \o e.id

-----------------------------------------------------------------------------
(* Expressions                                                             *)

RECURSIVE ContainsAwait(_)
ContainsAwait(e) == e.k = "await" \/ \E i \in DOMAIN e.of : ContainsAwait(e.of[i])

RECURSIVE StatementContainsAwait(_)
StatementContainsAwait(s) ==
    \/ \E i \in DOMAIN s.es : ContainsAwait(s.es[i])
    \/ \E i \in DOMAIN s.blocks : \E j \in DOMAIN s.blocks[i] : StatementContainsAwait(s.blocks[i][j])

\* The first await of an expression, in the order of its text.
RECURSIVE FirstAwait(_)
FirstAwait(e) ==
    IF e.k = "await" THEN e
    ELSE FirstAwait(e.of[CHOOSE i \in DOMAIN e.of :
             ContainsAwait(e.of[i]) /\ \A j \in 1 .. i - 1 : ~ContainsAwait(e.of[j])])

\* IsShortCircuitOrConditionalOperator, and the arms of conditional
\* expressions: operands that may not be evaluated.
Arm(k, i) == k \in {"and", "or", "cond"} /\ i > 1

Unsupported == [ok |-> FALSE, e |-> Const("F"), pre |-> << >>]

\* The statement for a nested await comes before the ones for the awaits in
\* its own operand.
HoistedAwait(x, e, pre) == << VariableStatement(x, e) >> \o pre

RECURSIVE HoistExpression(_, _, _)

\* The operands from left to right; what they need goes in front of all.
HoistOperands(e, conditional) ==
    LET hs == [i \in DOMAIN e.of |-> HoistExpression(e.of[i], FALSE, conditional \/ Arm(e.k, i))]
    IN  [ok  |-> \A i \in DOMAIN hs : hs[i].ok,
         e   |-> [e EXCEPT !.of = [i \in DOMAIN hs |-> hs[i].e]],
         pre |-> FlattenSeq([i \in DOMAIN hs |-> hs[i].pre])]

HoistExpression(e, allowTopLevelAwait, conditional) ==
    IF e.k = "await"
    THEN LET awaitable == HoistExpression(e.of[1], FALSE, FALSE)
             await     == [e EXCEPT !.of = << awaitable.e >>]
         IN  CASE ~awaitable.ok -> Unsupported
               [] awaitable.ok /\ allowTopLevelAwait ->
                      [ok |-> TRUE, e |-> await, pre |-> awaitable.pre]
               [] awaitable.ok /\ ~allowTopLevelAwait /\ conditional -> Unsupported
               [] OTHER -> [ok |-> TRUE, e |-> Var(Temporary("t", e)),
                            pre |-> HoistedAwait(Temporary("t", e), await, awaitable.pre)]
    ELSE HoistOperands(e, conditional)

\* The spilled expression is re-rooted below the block it is spilled into, so
\* the awaits in it have that block, "depth" generated clauses further up, as
\* their parent.
Rerooted(stmts, depth) == [i \in DOMAIN stmts |-> [stmts[i] EXCEPT !.up = depth]]

\* The right operand of && and ||, evaluated when the left one asks for it.
ShortCircuit(k, x, right) ==
    << Statement(IF k = "and" THEN "if" ELSE "unless", "", << Var(x) >>, << right >>) >>

RECURSIVE SpillExpressionInto(_, _, _)
SpillTernaryLike(e, x, depth) ==
    LET c  == Temporary("b", FirstAwait(e))
        ss == SpillExpressionInto(e.of[1], c, depth)
        a  == SpillExpressionInto(e.of[2], x, depth + 1)
        b  == SpillExpressionInto(e.of[3], x, depth + 1)
    IN  [ok  |-> ss.ok /\ a.ok /\ b.ok,
         pre |-> << VariableStatement(c, Const("F")) >> \o ss.pre
                 \o << IfStatement(Var(c), a.pre, b.pre) >>]

SpillExpressionInto(e, x, depth) ==
    CASE e.k = "await" ->
            LET h == HoistExpression(e.of[1], FALSE, FALSE)
                t == Temporary("s", e)
            IN  [ok  |-> h.ok,
                 pre |-> Rerooted(h.pre \o << VariableStatement(t, [e EXCEPT !.of = << h.e >>]) >>, depth)
                         \o << AssignmentStatement(x, Var(t)) >>]
      [] e.k \in {"and", "or"} ->
            LET l == SpillExpressionInto(e.of[1], x, depth)
                r == SpillExpressionInto(e.of[2], x, depth + 1)
            IN  [ok  |-> l.ok /\ r.ok,
                 pre |-> l.pre \o ShortCircuit(e.k, x, r.pre)]
      [] e.k = "not" ->
            LET h == SpillExpressionInto(e.of[1], x, depth)
            IN  [ok |-> h.ok, pre |-> h.pre \o << AssignmentStatement(x, Not(Var(x))) >>]
      [] e.k = "cond" -> SpillTernaryLike(e, x, depth)
      [] OTHER ->
            LET h == HoistExpression(e, FALSE, FALSE)
            IN  [ok |-> h.ok, pre |-> Rerooted(h.pre, depth) \o << AssignmentStatement(x, h.e) >>]

\* A condition with an await becomes a variable that the statements in front
\* of the tested one compute.
SpillCondition(e) ==
    IF ~ContainsAwait(e) THEN [ok |-> TRUE, e |-> e, pre |-> << >>]
    ELSE LET x == Temporary("c", FirstAwait(e))
             h == SpillExpressionInto(e, x, 0)
         IN  [ok |-> h.ok, e |-> Var(x), pre |-> << VariableStatement(x, Const("F")) >> \o h.pre]

-----------------------------------------------------------------------------
(* Statements                                                              *)

\* A rewritten statement: whether it is supported and the prefix before it.
Rewritten(ok, s, pre) == [ok |-> ok, s |-> s, pre |-> pre]
Rejected == Rewritten(FALSE, NullStatement, << >>)

RECURSIVE HoistStatements(_, _)
RECURSIVE HoistStatement(_)

\* The statements up to the first unsupported one, which is gone.  An empty
\* block leaves "supported" as it was.
HoistStatements(stmts, supported) ==
    IF stmts = << >> THEN [ok |-> supported, block |-> << >>]
    ELSE LET h == HoistStatement(Head(stmts))
         IN  IF ~h.ok THEN [ok |-> FALSE, block |-> << NullStatement >> \o Tail(stmts)]
             ELSE LET rest == HoistStatements(Tail(stmts), TRUE)
                  IN  [rest EXCEPT !.block = h.pre \o << h.s >> \o @]

\* Expression, variable and return statements keep an await at their top.
HoistTop(s) ==
    IF s.es = << >> THEN Rewritten(TRUE, s, << >>)
    ELSE LET top == s.k # "throw" /\ s.es[1].k = "await"
             h   == IF top THEN HoistExpression(s.es[1].of[1], TRUE, FALSE)
                           ELSE HoistExpression(s.es[1], FALSE, FALSE)
         IN  Rewritten(h.ok,
                       [s EXCEPT !.es = << IF top THEN [s.es[1] EXCEPT !.of = << h.e >>] ELSE h.e >>],
                       h.pre)

\* The clauses of an if statement: the statements that compute any of their
\* conditions come before the whole statement.
HoistConditional(s) ==
    LET cs == [i \in DOMAIN s.es |-> SpillCondition(s.es[i])]
        bs == [i \in DOMAIN s.blocks |-> HoistStatements(s.blocks[i], FALSE)]
    IN  Rewritten((\A i \in DOMAIN cs : cs[i].ok) /\ (\A i \in DOMAIN bs : bs[i].ok),
                  [s EXCEPT !.es = [i \in DOMAIN cs |-> cs[i].e],
                            !.blocks = [i \in DOMAIN bs |-> bs[i].block]],
                  FlattenSeq([i \in DOMAIN cs |-> cs[i].pre]))

\* A loop body is accepted as it is after HoistStatements.
HoistLoopBody(s) == [s EXCEPT !.blocks[1] = HoistStatements(@, FALSE).block]

\* while (c) with an await in c becomes while (true) { c'; if (!c') break; .. }
HoistWhile(s) ==
    LET c    == SpillCondition(s.es[1])
        test == IF s.k = "until" THEN c.e ELSE Not(c.e)
        body == HoistStatements(c.pre \o << BreakIf(test) >> \o s.blocks[1], FALSE)
    IN  IF ~ContainsAwait(s.es[1]) THEN Rewritten(TRUE, HoistLoopBody(s), << >>)
        ELSE Rewritten(c.ok /\ body.ok, Statement("while", "", << Const("T") >>, << body.block >>), << >>)

HoistFor(s) ==
    LET init  == HoistStatements(s.blocks[2], TRUE)
        pre   == IF init.block = << >> THEN << >> ELSE Front(init.block)
        first == IF init.block = << >> THEN << >> ELSE << Last(init.block) >>
        inC   == s.es # << >> /\ ContainsAwait(s.es[1])
        inA   == \E i \in DOMAIN s.blocks[3] : StatementContainsAwait(s.blocks[3][i])
        c     == SpillCondition(s.es[1])
        body  == HoistStatements((IF inC THEN c.pre \o << BreakIf(Not(c.e)) >> ELSE << >>)
                                 \o s.blocks[1] \o (IF inA THEN s.blocks[3] ELSE << >>), FALSE)
    IN  CASE ~init.ok -> Rejected
          [] init.ok /\ (inC \/ inA) ->
                Rewritten((inC => c.ok) /\ body.ok,
                          [s EXCEPT !.es = IF inC THEN << Const("T") >> ELSE @,
                                    !.blocks = << body.block, first, IF inA THEN << >> ELSE @[3] >>],
                          pre)
          [] OTHER -> Rewritten(TRUE, HoistLoopBody([s EXCEPT !.blocks[2] = first]), pre)

HoistForEach(s) ==
    LET top == s.es[1].k = "await"
        r   == HoistExpression(IF top THEN s.es[1].of[1] ELSE s.es[1], FALSE, FALSE)
        x   == Temporary("r", s.es[1])
    IN  IF ~r.ok THEN Rejected
        ELSE Rewritten(TRUE, HoistLoopBody([s EXCEPT !.es = << IF top THEN Var(x) ELSE r.e >>]),
                       IF top THEN r.pre \o << VariableStatement(x, [s.es[1] EXCEPT !.of = << r.e >>]) >>
                       ELSE r.pre)

\* The try block may not be empty; a catch body may.
HoistTry(s) ==
    LET bs == [i \in DOMAIN s.blocks |-> HoistStatements(s.blocks[i], i > 1)]
    IN  Rewritten(\A i \in DOMAIN bs : bs[i].ok,
                  [s EXCEPT !.blocks = [i \in DOMAIN bs |-> bs[i].block]], << >>)

HoistStatement(s) ==
    CASE s.k \in {"expr", "var", "return", "throw"} -> HoistTop(s)
      [] s.k \in {"if", "unless"} -> HoistConditional(s)
      [] s.k \in {"while", "until"} -> HoistWhile(s)
      [] s.k = "for"     -> HoistFor(s)
      [] s.k = "foreach" -> HoistForEach(s)
      [] s.k = "try"     -> HoistTry(s)
      [] s.k \in {"break", "continue", "defer"} -> Rewritten(TRUE, s, << >>)
      [] OTHER -> Rejected

Rewrite(body) == HoistStatements(body, TRUE)

-----------------------------------------------------------------------------
(***************************************************************************)
(* Suspension points and the code.                                         *)
(*                                                                         *)
(* A node of the body is named by its path: the index of a statement in    *)
(* its block, the number of one of the statement's blocks, and so on.  The *)
(* path of a statement has odd length, that of a block even.               *)
(*                                                                         *)
(* The emitter is written with continuations: what follows a statement is  *)
(* a function that emits it, and it is called once for every place where   *)
(* the statement may end, so the same source has several copies in the     *)
(* code.  Here the continuation is a sequence of the things still to emit; *)
(* the empty one emits nothing, the code falls through to whatever comes.  *)
(* Jumps are patched when their target is known, as in the code.           *)
(***************************************************************************)

(* Positions                                                               *)

RECURSIVE BlockAt(_, _)
BlockAt(block, p) ==
    IF p = << >> THEN block ELSE BlockAt(block[p[1]].blocks[p[2]], SubSeq(p, 3, Len(p)))

StatementAt(body, p) == BlockAt(body, Front(p))[Last(p)]

RECURSIVE Paths(_, _)
Paths(block, at) ==
    UNION { {Append(at, i)} \cup
            UNION { Paths(block[i].blocks[b], at \o << i, b >>) : b \in DOMAIN block[i].blocks } :
            i \in DOMAIN block }

Loops == {"while", "until", "for", "foreach"}
IsLoop(body, p) == StatementAt(body, p).k \in Loops

\* What owns a block.
OwnerKind(body, bp) ==
    IF bp = << >> THEN "method"
    ELSE LET s == StatementAt(body, Front(bp))
         IN  CASE s.k \in {"if", "unless"} -> "clause"
               [] s.k = "try" -> IF Last(bp) = 1 THEN "try" ELSE "catch"
               [] OTHER -> "loop"

-----------------------------------------------------------------------------
(* AsyncAnalysisPass                                                       *)

NoPath == << >>

\* The statement after the one at p: the next one of its block, the loop
\* whose body ends there, or whatever comes after the owner of the block.
RECURSIVE FindResumeStatement(_, _)
FindResumeStatement(body, p) ==
    LET bp == Front(p)
    IN  CASE Last(p) < Len(BlockAt(body, bp)) -> Append(bp, Last(p) + 1)
          [] Last(p) = Len(BlockAt(body, bp)) /\ OwnerKind(body, bp) = "method" -> NoPath
          [] Last(p) = Len(BlockAt(body, bp)) /\ OwnerKind(body, bp) = "loop" ->
                IF Last(bp) = 1 THEN Front(bp) ELSE NoPath
          [] OTHER -> FindResumeStatement(body, Front(bp))

\* An await site.  The try statements whose blocks are around it, and the
\* catch clause whose body it is in.
Site(body, p, tries, catch) ==
    [ path  |-> p,
      kind  |-> StatementAt(body, p).k,
      next  |-> IF StatementAt(body, p).k = "return" THEN NoPath ELSE FindResumeStatement(body, p),
      tries |-> tries,
      catch |-> catch ]

IsAwaitStatement(s) ==
    s.k \in {"expr", "var", "return"} /\ s.es # << >> /\ s.es[1].k = "await"

\* AwaitScanVisitor: the sites in the order of the text.  The initializer and
\* the repeated statement of a for loop come before its body.
RECURSIVE ScanBlock(_, _, _, _)
ScanBlock(body, bp, tries, catch) ==
    LET scan(p) ==
            LET s == StatementAt(body, p)
                sub(b) == ScanBlock(body, Append(p, b),
                                    IF s.k = "try" /\ b = 1 THEN Append(tries, p) ELSE tries,
                                    IF s.k = "try" /\ b > 1 THEN Append(p, b) ELSE catch)
            IN  CASE IsAwaitStatement(s) -> << Site(body, p, tries, catch) >>
                  [] s.k = "for" -> sub(2) \o sub(3) \o sub(1)
                  [] OTHER -> FlattenSeq([b \in DOMAIN s.blocks |-> sub(b)])
    IN  FlattenSeq([i \in DOMAIN BlockAt(body, bp) |-> scan(Append(bp, i))])

AwaitSites(body) == ScanBlock(body, << >>, << >>, NoPath)

\* A defer whose statement awaits is not supported, and the rewriting leaves
\* it alone; neither is an await that was not moved to the top.
Supported(body) ==
    /\ \A p \in Paths(body, << >>) :
        LET s == StatementAt(body, p)
        IN  /\ s.k # "null"
            /\ s.k = "defer" => ~ContainsAwait(s.es[1])

\* A loop over an enumerator that a field has to hold across its awaits.
EnumeratorLoop(body, p) == Len(ScanBlock(body, Append(p, 1), << >>, NoPath)) > 0

\* VariableCollector: the variables kept in fields.  Catch variables are not.
LiftedLocals(body) ==
    { StatementAt(body, p).name : p \in { q \in Paths(body, << >>) : StatementAt(body, q).k \in {"var", "foreach"} } }

-----------------------------------------------------------------------------
(* Code, and the tables of the emitter                                     *)

Instr(op, arg, x) == [op |-> op, arg |-> arg, x |-> x]

NoRegion == [handler |-> 0, after |-> 0, enters |-> {}, afters |-> {}, ends |-> {}]
NoLabels == [start |-> 0, tail |-> 0, end |-> 0, breaks |-> {}, continues |-> {}]

MoveNextEmitter(body) ==
    [ body    |-> body,
      sites   |-> AwaitSites(body),
      code    |-> << >>,
      regions |-> [p \in Paths(body, << >>) |-> NoRegion],
      labels  |-> [p \in Paths(body, << >>) |-> NoLabels],
      loops   |-> << >>,
      chains  |-> << >> ]

Here(c)          == Len(c.code) + 1
Emit(c, op, x)   == [c EXCEPT !.code = Append(@, Instr(op, 0, x))]
EmitTo(c, op, t) == [c EXCEPT !.code = Append(@, Instr(op, t, ""))]
Patch(c, at, t)  == [c EXCEPT !.code = [i \in DOMAIN @ |-> IF i \in at THEN [@[i] EXCEPT !.arg = t] ELSE @[i]]]

\* What an emission returns: the emitter, and whether control reaches the end.
Fell(c)    == [c |-> c, fell |-> TRUE]
Stopped(c) == [c |-> c, fell |-> FALSE]

-----------------------------------------------------------------------------
(* Defers                                                                  *)

DefersBefore(body, bp, n) ==
    Reverse(SelectSeq([i \in 1 .. n - 1 |-> Append(bp, i)], LAMBDA p : StatementAt(body, p).k = "defer"))

\* The defers in force at index n of a block, the last registered one first.
RECURSIVE CollectDefers(_, _, _, _)
CollectDefers(body, bp, n, stopAtLoopBlock) ==
    DefersBefore(body, bp, n) \o
    (IF bp = << >> \/ (stopAtLoopBlock /\ OwnerKind(body, bp) = "loop") THEN << >>
     ELSE CollectDefers(body, Front(Front(bp)), Last(Front(bp)), stopAtLoopBlock))

CollectDefersUpward(body, p, stopAtLoopBlock) == CollectDefers(body, Front(p), Last(p), stopAtLoopBlock)

\* The defers above an await.  One of a spilled condition hangs directly below
\* the block, where it has no index: all defers of the block count.
DefersAtAwait(body, p) ==
    LET up == StatementAt(body, p).up
        bp == Front(SubSeq(p, 1, Len(p) - 2 * up))
    IN  IF up < 0 THEN CollectDefersUpward(body, p, FALSE)
        ELSE CollectDefers(body, bp, Len(BlockAt(body, bp)) + 1, FALSE)

EmitDefer(c, p) == Emit(c, "DEFER", StatementAt(c.body, p).es[1])
EmitDeferDrain(c, n) == IF n = 0 THEN c ELSE EmitTo(c, "DRAIN", n)

\* The defers and try regions in force at an await, the outermost first.
EmitResumeDefersAndEnterTries(c, site) ==
    LET defers == Reverse(DefersAtAwait(c.body, site.path))
        inside(p, t)    == IsPrefix(Append(t, 1), p)
        containing(p)   == {i \in DOMAIN site.tries : inside(p, site.tries[i])}
        ofTry(i)        == SelectSeq(defers, LAMBDA p : IF i = 0 THEN containing(p) = {}
                                                        ELSE i \in containing(p)
                                                             /\ \A j \in containing(p) : j <= i)
        register(d, i)  == FoldLeft(LAMBDA x, p : EmitDefer(x, p), d, ofTry(i))
        enter(d, i)     == [EmitTo(d, "ENTER_TRY", 0) EXCEPT !.regions[site.tries[i]].enters = @ \cup {Here(d)}]
    IN  FoldLeft(LAMBDA d, i : register(enter(d, i), i), register(c, 0), [i \in DOMAIN site.tries |-> i])

-----------------------------------------------------------------------------
(* Statements                                                              *)

\* Things to emit after a statement.
Rest(bp, i, tries, leave)  == [k |-> "rest", p |-> bp, i |-> i, tries |-> tries, leave |-> leave]
Leave(p, tries, leave)     == [k |-> "try", p |-> p, i |-> 0, tries |-> tries, leave |-> leave]
ChainEnd(id)               == [k |-> "chain", p |-> << >>, i |-> id, tries |-> << >>, leave |-> FALSE]
ClauseEnd(p, id)           == [k |-> "clause", p |-> p, i |-> id, tries |-> << >>, leave |-> FALSE]
Tail_(at)                  == [k |-> "tail", p |-> << >>, i |-> at, tries |-> << >>, leave |-> FALSE]
CatchEnd(p)                == [k |-> "catch", p |-> p, i |-> 0, tries |-> << >>, leave |-> FALSE]

RECURSIVE After(_, _)
RECURSIVE EmitStatementSequence(_, _, _, _, _, _)
RECURSIVE EmitStatement(_, _, _, _, _)
RECURSIVE EmitConditionalChain(_, _, _, _, _, _, _)
RECURSIVE EmitConditionalChainBody(_, _, _, _, _, _, _, _)
RECURSIVE EmitAfterTry(_, _, _, _, _)
RECURSIVE EmitCatchClauses(_, _, _, _, _)

\* The jump at the end of a clause goes to the code after the whole chain.
JumpToChainEnd(c, id) == [EmitTo(c, "JUMP", 0) EXCEPT !.chains[id] = @ \cup {Here(c)}]

PatchChain(c, id) == Patch(c, c.chains[id], Here(c))

After(c, ks) ==
    IF ks = << >> THEN Fell(c)
    ELSE LET k == Head(ks)
             r == c.regions[k.p]
         IN  CASE k.k = "rest"   -> EmitStatementSequence(c, k.p, k.i, k.tries, k.leave, Tail(ks))
               [] k.k = "try"    -> EmitAfterTry(c, k.p, k.tries, k.leave, Tail(ks))
               [] k.k = "chain"  -> After(PatchChain(c, k.i), Tail(ks))
               [] k.k = "clause" ->
                     LET s == StatementAt(c.body, Front(k.p))
                         d == JumpToChainEnd(c, k.i)
                     IN  IF Last(k.p) = Len(s.blocks) THEN After(d, Tail(ks))
                         ELSE EmitConditionalChain(d, Front(k.p), Last(k.p) + 1, k.i, k.tries, k.leave, Tail(ks))
               [] k.k = "tail"   -> Fell(EmitTo(c, "JUMP", k.i))
               [] k.k = "catch"  ->
                     Fell(IF r.after # 0 THEN EmitTo(c, "JUMP", r.after)
                          ELSE [EmitTo(c, "JUMP", 0) EXCEPT !.regions[k.p].ends = @ \cup {Here(c)}])

\* The end of a block runs its defers, and leaves the try it is the body of.
EmitStatementSequence(c, bp, i, tries, leave, ks) ==
    LET block == BlockAt(c.body, bp)
        own   == {j \in DOMAIN tries : Append(tries[j], 1) = bp}
        d     == EmitDeferDrain(c, Len(DefersBefore(c.body, bp, Len(block) + 1)))
    IN  IF i <= Len(block)
        THEN EmitStatement(c, Append(bp, i), tries, leave, << Rest(bp, i + 1, tries, leave) >> \o ks)
        ELSE IF own # {} /\ leave
        THEN LET j == CHOOSE x \in own : TRUE
             IN  EmitAfterTry(d, tries[j], SubSeq(tries, 1, j - 1), leave, ks)
        ELSE After(d, ks)

\* LEAVE_TRY, a jump to the code after the try statement, and one more copy of
\* that code behind the jump.
EmitAfterTry(c, p, tries, leave, ks) ==
    LET d == EmitTo(c, "LEAVE_TRY", 0)
        e == IF c.regions[p].after # 0 THEN EmitTo(d, "JUMP", c.regions[p].after)
             ELSE [EmitTo(d, "JUMP", 0) EXCEPT !.regions[p].afters = @ \cup {Here(d)}]
    IN  EmitStatementSequence(e, Front(p), Last(p) + 1, tries, leave, ks)

\* The clauses from the n-th on.  A clause that does not accept the exception
\* jumps to the next one; the last one to the THROW behind them.
EmitCatchClauses(c, p, n, tries, leave) ==
    LET s    == StatementAt(c.body, p)
        d    == Emit(c, "CATCH", s.catches[n - 1])
        body == EmitStatementSequence(d, Append(p, n), 1, tries, leave, << >>)
        e    == IF ~body.fell THEN body.c
                ELSE [EmitTo(body.c, "JUMP", 0) EXCEPT !.regions[p].ends = @ \cup {Here(body.c)}]
    IN  IF n > Len(s.blocks) THEN c
        ELSE EmitCatchClauses(Patch(e, {Here(c)}, Here(e)), p, n + 1, tries, leave)

EmitTryStatement(c, p, tries, leave, ks) ==
    LET enter   == [EmitTo(c, "ENTER_TRY", 0) EXCEPT !.regions[p].enters = @ \cup {Here(c)}]
        body    == EmitStatementSequence(enter, Append(p, 1), 1, Append(tries, p), FALSE,
                                         << Leave(p, tries, leave) >> \o ks).c
        clauses == EmitCatchClauses([body EXCEPT !.regions[p].handler = Here(body)], p, 2, tries, leave)
        throw   == EmitTo(clauses, "THROW", 0)
        end     == [EmitTo(throw, "END_CATCH", 0) EXCEPT !.regions[p].after = Here(throw)]
    IN  After(Patch(end, end.regions[p].afters \cup end.regions[p].ends, Here(throw)), ks)

\* The clauses of an if statement from the n-th on.
EmitConditionalChain(c, p, n, id, tries, leave, ks) ==
    LET s    == StatementAt(c.body, p)
        op   == IF s.k = "unless" /\ n = 1 THEN "JUMP_TRUE" ELSE "JUMP_FALSE"
        body == EmitStatementSequence(Emit(c, op, s.es[n]), Append(p, n), 1, tries, leave, << >>)
        d    == IF body.fell /\ n < Len(s.blocks) THEN JumpToChainEnd(body.c, id) ELSE body.c
        e    == Patch(d, {Here(c)}, Here(d))
    IN  IF n > Len(s.es) THEN EmitConditionalChainBody(c, p, n, 1, id, tries, leave, ks)
        ELSE IF n < Len(s.blocks) THEN EmitConditionalChain(e, p, n + 1, id, tries, leave, ks)
        ELSE After(e, ks)

EmitConditionalChainBody(c, p, n, i, id, tries, leave, ks) ==
    LET end  == [ClauseEnd(Append(p, n), id) EXCEPT !.tries = tries, !.leave = leave]
        body == EmitStatementSequence(c, Append(p, n), i, tries, leave, << end >> \o ks)
    IN  IF body.fell THEN body ELSE After(body.c, ks)

NewChain(c) == [c EXCEPT !.chains = Append(@, {})]

\* A loop over an enumerator without awaits is emitted by the regular emitter.
EmitLoopStatement(c, p, tries, leave, ks) ==
    LET s      == StatementAt(c.body, p)
        init   == CASE s.k = "foreach" -> Emit(c, "ENUMERATE", s)
                    [] s.k = "for" /\ s.blocks[2] # << >> -> Emit(c, "EXEC", s.blocks[2][1])
                    [] OTHER -> c
        start  == Here(init)
        test   == CASE s.k = "foreach" -> Emit(init, "MOVE_NEXT", s)
                    [] s.k # "foreach" /\ s.es = << >> -> init
                    [] OTHER -> Emit(init, IF s.k = "until" THEN "JUMP_TRUE" ELSE "JUMP_FALSE", s.es[1])
        body   == EmitStatementSequence([test EXCEPT !.loops = Append(@, [NoLabels EXCEPT !.start = start])],
                                        Append(p, 1), 1, tries, leave, << >>).c
        labels == Last(body.loops)
        tail   == Patch([body EXCEPT !.loops = Front(@)], labels.continues, Here(body))
        after  == IF s.k = "for" /\ s.blocks[3] # << >> THEN Emit(tail, "EXEC", s.blocks[3][1]) ELSE tail
        back   == EmitTo(after, "JUMP", start)
        tested == s.k = "foreach" \/ s.es # << >>
        end    == Patch(back, labels.breaks \cup (IF tested THEN {start} ELSE {}), Here(back))
    IN  IF s.k = "foreach" /\ ~EnumeratorLoop(c.body, p) THEN After(Emit(c, "EXEC", s), ks)
        ELSE After([end EXCEPT !.labels[p] = [labels EXCEPT !.tail = Here(body), !.end = Here(back)]], ks)

\* break and continue: the defers of the loop body, then a jump.  A loop
\* emitted in an earlier segment has its addresses already.
EmitLoopExit(c, p, kind) ==
    LET d  == EmitDeferDrain(c, Len(CollectDefersUpward(c.body, p, TRUE)))
        n  == Len(d.loops)
        to == IF kind = "break" THEN d.loops[n].end ELSE d.loops[n].tail
    IN  Stopped(CASE to # 0 -> EmitTo(d, "JUMP", to)
                  [] to = 0 /\ kind = "break" ->
                        [EmitTo(d, "JUMP", 0) EXCEPT !.loops[n].breaks = @ \cup {Here(d)}]
                  [] OTHER -> [EmitTo(d, "JUMP", 0) EXCEPT !.loops[n].continues = @ \cup {Here(d)}])

SiteIndex(c, p) == CHOOSE i \in DOMAIN c.sites : c.sites[i].path = p

SaveLiftedParametersAndLocals(c) == Emit(c, "SAVE", "")

\* The variables are saved, the awaited expression evaluated, and the frame
\* left unless its awaiter is completed already.
EmitAwait(c, p) ==
    LET i == SiteIndex(c, p)
    IN  Emit(Emit(SaveLiftedParametersAndLocals(c), "AWAIT", i), "CONSUME", i)

\* Mutant of EmitReturnStatement: the frame goes on after the completion.
EmitReturnAndGoOn(c, p) ==
    LET s == StatementAt(c.body, p)
        d == IF s.es = << >> THEN c ELSE Emit(c, "EVAL", s.es[1])
        e == EmitDeferDrain(d, Len(CollectDefersUpward(c.body, p, FALSE)))
    IN  Fell(Emit(e, "COMPLETE", IF s.es = << >> THEN "" ELSE "value"))

\* A returned value waits on the stack while the defers run.
EmitReturnStatement(c, p) ==
    LET s == StatementAt(c.body, p)
        d == IF s.es = << >> THEN c ELSE Emit(c, "EVAL", s.es[1])
        e == EmitDeferDrain(d, Len(CollectDefersUpward(c.body, p, FALSE)))
    IN  Stopped(EmitTo(Emit(e, "COMPLETE", IF s.es = << >> THEN "" ELSE "value"), "RETURN", 0))

EmitStatement(c, p, tries, leave, ks) ==
    LET s == StatementAt(c.body, p)
    IN  CASE IsAwaitStatement(s) -> After(EmitAwait(c, p), ks)
          [] s.k \in {"expr", "var"} /\ ~IsAwaitStatement(s) -> After(Emit(c, "EXEC", s), ks)
          [] s.k = "defer"  -> After(EmitDefer(c, p), ks)
          [] s.k = "throw"  -> Stopped(EmitTo(IF s.es = << >> THEN c ELSE Emit(c, "EVAL", s.es[1]), "THROW", 0))
          [] s.k = "return" /\ ~IsAwaitStatement(s) -> EmitReturnStatement(c, p)
          [] s.k = "try"    -> EmitTryStatement(c, p, tries, leave, ks)
          [] s.k \in {"if", "unless"} ->
                LET d  == NewChain(c)
                    id == Len(d.chains)
                IN  EmitConditionalChain(d, p, 1, id, tries, leave, << ChainEnd(id) >> \o ks)
          [] s.k \in Loops -> EmitLoopStatement(c, p, tries, leave, ks)
          [] s.k \in {"break", "continue"} -> EmitLoopExit(c, p, s.k)

-----------------------------------------------------------------------------
(* MoveNext                                                                *)

RECURSIVE FindEnclosingLoop(_, _)
FindEnclosingLoop(body, p) ==
    CASE Front(p) = << >> -> NoPath
      [] Front(p) # << >> /\ OwnerKind(body, Front(p)) = "loop" -> Front(Front(p))
      [] OTHER -> FindEnclosingLoop(body, Front(Front(p)))

\* Where a resumed segment goes on: at the statement at p, in the middle of
\* its block, and then after the owner of the block.
EmitStatementContinuation(c, p, tries, leave) ==
    LET bp    == Front(p)
        owner == OwnerKind(c.body, bp)
        loop  == FindEnclosingLoop(c.body, p)
        known == loop # NoPath /\ c.labels[loop].end # 0
        d     == IF known THEN [c EXCEPT !.loops = Append(@, c.labels[loop])] ELSE c
        ks    == IF known THEN << Tail_(c.labels[loop].tail) >> ELSE << >>
        own   == Front(bp)
        e     == NewChain(d)
        id    == Len(e.chains)
        inner == IF \E j \in DOMAIN tries : tries[j] = own THEN tries ELSE Append(tries, own)
        r     == CASE owner = "clause" ->
                        EmitConditionalChainBody(e, own, Last(bp), Last(p), id, tries, leave,
                            << ChainEnd(id), Rest(Front(own), Last(own) + 1, tries, leave) >> \o ks)
                   [] owner = "try" ->
                        EmitStatementSequence(d, bp, Last(p), inner, FALSE, << Leave(own, tries, leave) >> \o ks)
                   [] owner = "catch" ->
                        EmitStatementSequence(d, bp, Last(p), tries, leave, << CatchEnd(own) >>)
                   [] OTHER -> EmitStatementSequence(d, bp, Last(p), tries, leave, ks)
    IN  IF IsLoop(c.body, p) /\ c.labels[p].end # 0
        THEN Fell(EmitTo(c, "JUMP", c.labels[p].tail))
        ELSE [r EXCEPT !.c.loops = c.loops]

\* Mutant of EmitResume: the awaiter is asked for its result before the try
\* regions around the await are entered again.
EmitResumeUnguarded(c, n) ==
    EmitResumeDefersAndEnterTries(Emit(Emit(c, "RESTORE", ""), "CONSUME", n), c.sites[n])

\* What comes before the continuation in the segment of the n-th await.
EmitResume(c, n) ==
    LET d == EmitResumeDefersAndEnterTries(Emit(c, "RESTORE", ""), c.sites[n])
        e == Emit(d, "CONSUME", n)
    IN  IF c.sites[n].catch = NoPath THEN e
        ELSE Emit(e, "RESTORE_EXCEPTION", StatementAt(c.body, Front(c.sites[n].catch)).catches[Last(c.sites[n].catch) - 1])

\* Segment 0 is the start of the method, segment n the code after the n-th
\* await.  One that falls through jumps to the exit.
EmitSegment(c, n, exit) ==
    LET site  == c.sites[n]
        tries == IF n = 0 THEN << >> ELSE site.tries
        d     == IF n = 0 THEN Emit(c, "RESTORE", "") ELSE EmitResume(c, n)
        next  == CASE n = 0 /\ c.body = << >> -> NoPath
                   [] n = 0 /\ c.body # << >> -> << 1 >>
                   [] OTHER -> site.next
        r     == CASE next = NoPath /\ tries = << >> -> Fell(d)
                   [] next = NoPath /\ tries # << >> -> EmitAfterTry(d, Last(tries), Front(tries), TRUE, << >>)
                   [] OTHER -> EmitStatementContinuation(d, next, tries, TRUE)
    IN  IF r.fell THEN [c |-> EmitTo(r.c, "JUMP", 0), exit |-> exit \cup {Here(r.c)}]
        ELSE [c |-> r.c, exit |-> exit]

\* The guard around everything, the dispatch on _state, the segments, the
\* handler that gives the exception to the task, and the normal exit.
EmitMoveNextBody(body) ==
    LET c0    == MoveNextEmitter(body)
        n     == Len(c0.sites)
        head  == Emit(EmitTo(c0, "ENTER_TRY", 0), "DISPATCH", << >>)
        seg(a, i) == LET s == EmitSegment(a.c, i, a.exit)
                     IN  [c |-> s.c, exit |-> s.exit, at |-> Append(a.at, Here(a.c))]
        segs  == FoldLeft(seg, [c |-> head, exit |-> {}, at |-> << >>], [i \in 1 .. n + 1 |-> i - 1])
        leave == IF segs.exit = {} THEN segs.c ELSE EmitTo(EmitTo(segs.c, "LEAVE_TRY", 0), "JUMP", 0)
        guard == EmitTo(EmitTo(leave, "SET_EXCEPTION", 0), "RETURN", 0)
        done  == EmitTo(Emit(guard, "COMPLETE", ""), "RETURN", 0)
        out   == Patch(Patch(done, segs.exit \cup (IF segs.exit = {} THEN {} ELSE {Here(leave) - 1}), Here(guard)),
                       {1}, Here(leave))
        regs  == {p \in DOMAIN out.regions : out.regions[p].handler # 0}
        enter(i) == {p \in regs : i \in out.regions[p].enters}
    IN  [i \in DOMAIN out.code |->
            CASE i = 2 -> [out.code[i] EXCEPT !.x = segs.at]
              [] i # 2 /\ enter(i) # {} -> [out.code[i] EXCEPT !.arg = out.regions[CHOOSE p \in enter(i) : TRUE].handler]
              [] OTHER -> out.code[i]]

\* The state machine of a method: what MoveNext executes, the sites it may
\* suspend at and the variables its fields keep.
Lower(body) ==
    LET h == Rewrite(body)
    IN  IF h.ok /\ Supported(h.block)
        THEN [ok |-> TRUE, code |-> EmitMoveNextBody(h.block), sites |-> AwaitSites(h.block),
              body |-> h.block, lifted |-> LiftedLocals(h.block)]
        ELSE [ok |-> FALSE, code |-> << >>, sites |-> << >>, body |-> << >>, lifted |-> {}]
=============================================================================
