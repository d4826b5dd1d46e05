---------------------------- MODULE FlowAnalyzer ----------------------------
(***************************************************************************)
(* FlowAnalyzer: which ways a body can be left, which exceptions leave a   *)
(* method, and how the effects of methods spread along the call graph.     *)
(* Statements are the records of StatementEmitter, a lambda (a member that *)
(* is a statement) and the expressions of ScanExpression.                  *)
(*                                                                         *)
(* An exception type is the set of the exceptions that are instances of    *)
(* it, so a type is assignable to another when it is a subset.  The checks *)
(* of definite assignment are left out: no local variable is in the scope  *)
(* they look into, so they never report anything.                          *)
(***************************************************************************)
EXTENDS Integers, SequencesExt, FiniteSetsExt, TLC

CONSTANT Exceptions     \* all exceptions: the type "any"

IsAssignableTo(catchType, thrownType) == thrownType \subseteq catchType

(***************************************************************************)
(* Flow states are sets of flags.                                          *)
(***************************************************************************)
Normal == {"Normal"}
IsTerminal(flow) == "Normal" \notin flow
MergeBranches(f, g) == f \cup g

WithoutBreaksAndContinues(flow) ==
  LET rest == flow \ {"Breaks", "Continues"} IN IF rest = {} THEN Normal ELSE rest
WithoutThrows(flow) ==
  LET rest == flow \ {"Throws"} IN IF rest = {} THEN Normal ELSE rest

(***************************************************************************)
(* The analyzer: _currentMethod, _currentMethodIsAsync, _loopDepth,        *)
(* _switchDepth, _tryCatchStack, _catchExceptionStack, the summaries and   *)
(* the call graph, and the kinds of errors reported.                       *)
(***************************************************************************)
NoEffects(async) ==
  [async |-> async, flags |-> {}, mayThrow |-> FALSE, thrown |-> {}, asyncThrown |-> {}]
Start == [method |-> "none", async |-> FALSE, loop |-> 0, switch |-> 0, tries |-> <<>>, catches |-> <<>>,
          effects |-> <<>>, edges |-> {}, errors |-> {}]
Flow(st, flow) == [st |-> st, flow |-> flow]

\* PushTryCatch: the clauses behind one without a type do not count.
TryFrame(clauses) ==
  LET all == {i \in DOMAIN clauses : clauses[i].any}
  IN  [all |-> all # {}, types |-> {clauses[i].excs : i \in {k \in DOMAIN clauses : \A j \in all : k < j}}]

\* RebuildEffectiveCaughtTypes.
CaughtTypes(st) == UNION {st.tries[i].types : i \in {k \in DOMAIN st.tries : ~st.tries[k].all}}
CatchesAll(st) == \E i \in DOMAIN st.tries : st.tries[i].all

Catches(all, types, thrownType) == all \/ \E c \in types : IsAssignableTo(c, thrownType)
IsCaughtByActiveTry(st, thrownType) == Catches(CatchesAll(st), CaughtTypes(st), thrownType)

RecordCalleeEffects(st, callee, awaited) ==
  IF st.method = "none" THEN st
  ELSE [st EXCEPT !.edges = @ \cup {[caller |-> st.method, callee |-> callee, types |-> CaughtTypes(st),
                                     all |-> CatchesAll(st), awaited |-> awaited]}]

\* RecordFieldOrPropertyWrite, RecordIndexatorWrite.
RecordWrite(st, effect) ==
  IF st.method = "none" THEN st ELSE [st EXCEPT !.effects[st.method].flags = @ \cup {effect}]

\* ThrowStatement: the type of the expression, or of the enclosing catch clause.
RecordThrow(st, thrownType) ==
  IF st.method = "none" THEN st
  ELSE LET s == [st.effects[st.method] EXCEPT !.mayThrow = TRUE]
           leaves == ~IsCaughtByActiveTry(st, thrownType)
       IN  [st EXCEPT !.effects[st.method] =
              CASE leaves /\ st.async -> [s EXCEPT !.asyncThrown = @ \cup {thrownType}]
                [] leaves /\ ~st.async -> [s EXCEPT !.thrown = @ \cup {thrownType}]
                [] OTHER -> s]

(***************************************************************************)
(* Expressions: writes of members and elements, calls of methods (an async *)
(* one leaves an edge only when it is awaited at once), calls of delegates *)
(* and awaits of a task that is not the call itself.                       *)
(***************************************************************************)
ScanExpression(s, st) ==
  CASE s.k \in {"call", "expr"} -> RecordCalleeEffects(st, s.tag, FALSE)
    [] s.k = "async call" -> IF s.awaited THEN RecordCalleeEffects(st, s.tag, TRUE) ELSE st
    [] s.k = "write" -> RecordWrite(st, s.effect)
    [] s.k = "delegate" -> RecordWrite(st, "HasUnknownSideEffects")
    [] s.k = "await" -> IF st.method = "none" THEN st ELSE [st EXCEPT !.effects[st.method].mayThrow = TRUE]

(***************************************************************************)
(* Statements.                                                             *)
(***************************************************************************)
RECURSIVE AnalyzeStatement(_, _), AnalyzeStatementsBlock(_, _), AnalyzeMemberBody(_, _)

AnalyzeStatementsBlock(stmts, st) ==
  LET step(r, s) == IF IsTerminal(r.flow)
                    THEN Flow(IF r.st.async THEN r.st ELSE [r.st EXCEPT !.errors = @ \cup {"unreachable"}], r.flow)
                    ELSE AnalyzeStatement(s, r.st)
  IN  FoldLeft(step, Flow(st, Normal), stmts)

\* The analysis of several bodies in turn; their flows are merged.
Branches(bodies, st, enter(_, _), leave(_)) ==
  LET step(r, i) == LET a == AnalyzeStatementsBlock(bodies[i], enter(r.st, i))
                    IN  Flow(leave(a.st), MergeBranches(r.flow, a.flow))
  IN  FoldLeft(step, Flow(st, {}), [i \in DOMAIN bodies |-> i])
Keep(st) == st
KeepAt(st, i) == st

AnalyzeConditionalChain(s, st) ==
  LET r == Branches(<<s.then, s.else>>, st, KeepAt, Keep) IN r

\* Each clause loses its breaks and continues before the clauses are merged.
AnalyzeSwitchStatement(s, st) ==
  LET step(r, c) == LET a == AnalyzeStatementsBlock(c.body, r.st)
                    IN  Flow(a.st, MergeBranches(r.flow, WithoutBreaksAndContinues(a.flow)))
      all == FoldLeft(step, Flow([st EXCEPT !.switch = @ + 1], {}), s.cases)
  IN  Flow([all.st EXCEPT !.switch = @ - 1], IF s.cases = <<>> THEN Normal ELSE all.flow)

\* Mutant: the clauses of a try statement also catch what they throw themselves.
AnalyzeTryStatementAround(s, st) ==
  LET body == AnalyzeStatementsBlock(s.body, [st EXCEPT !.tries = Append(@, TryFrame(s.clauses))])
      enter(t, i) == [t EXCEPT !.catches = Append(@, IF s.clauses[i].any THEN Exceptions ELSE s.clauses[i].excs)]
      handlers == Branches([i \in DOMAIN s.clauses |-> s.clauses[i].body], body.st, enter,
                           LAMBDA t : [t EXCEPT !.catches = Front(@)])
  IN  Flow([handlers.st EXCEPT !.tries = Front(@)], MergeBranches(WithoutThrows(body.flow), handlers.flow))

AnalyzeTryStatement(s, st) ==
  LET pushed == [st EXCEPT !.tries = Append(@, TryFrame(s.clauses))]
      body == AnalyzeStatementsBlock(s.body, pushed)
      enter(t, i) == [t EXCEPT !.catches = Append(@, IF s.clauses[i].any THEN Exceptions ELSE s.clauses[i].excs)]
      handlers == Branches([i \in DOMAIN s.clauses |-> s.clauses[i].body],
                           [body.st EXCEPT !.tries = Front(@)], enter,
                           LAMBDA t : [t EXCEPT !.catches = Front(@)])
  IN  IF s.clauses = <<>> THEN AnalyzeStatementsBlock(s.body, st)
      ELSE Flow(handlers.st, MergeBranches(WithoutThrows(body.flow), handlers.flow))

\* Mutant: a loop that always runs its body.
AnalyzeLoopBodyOnce(body, st) ==
  LET r == AnalyzeStatementsBlock(body, [st EXCEPT !.loop = @ + 1])
  IN  Flow([r.st EXCEPT !.loop = @ - 1], WithoutBreaksAndContinues(r.flow))

\* A loop may run or not: what follows it is always reached.
AnalyzeLoopBody(body, st) ==
  LET r == AnalyzeStatementsBlock(body, [st EXCEPT !.loop = @ + 1])
  IN  Flow([r.st EXCEPT !.loop = @ - 1], Normal)

AnalyzeStatement(s, st) ==
  CASE s.k \in {"call", "expr", "async call", "write", "delegate", "await"} -> Flow(ScanExpression(s, st), Normal)
    [] s.k = "break" ->
         Flow(IF st.loop + st.switch > 0 THEN st ELSE [st EXCEPT !.errors = @ \cup {"break"}], {"Breaks"})
    [] s.k = "continue" ->
         Flow(IF st.loop > 0 THEN st ELSE [st EXCEPT !.errors = @ \cup {"continue"}], {"Continues"})
    [] s.k = "defer" -> Flow(AnalyzeStatement(s.stmt, st).st, Normal)
    [] s.k \in {"while", "until", "forin"} -> AnalyzeLoopBody(s.body, st)
    [] s.k = "for" -> Flow(AnalyzeStatement(s.after, AnalyzeLoopBody(s.body, st).st).st, Normal)
    [] s.k \in {"if", "unless"} -> AnalyzeConditionalChain(s, st)
    [] s.k = "switch" -> AnalyzeSwitchStatement(s, st)
    [] s.k = "try" -> AnalyzeTryStatement(s, st)
    [] s.k = "return" -> Flow(st, {"Returns"})
    [] s.k = "throw" -> Flow(RecordThrow(st, {s.e}), {"Throws"})
    [] s.k = "rethrow" ->
         Flow(RecordThrow(st, IF st.catches = <<>> THEN Exceptions ELSE Last(st.catches)), {"Throws"})
    [] s.k = "lambda" -> Flow(AnalyzeMemberBody(s, st), Normal)

(***************************************************************************)
(* Members: methods, operators, accessors, constructors and lambdas.  A    *)
(* setter and a constructor return nothing.  LeaveMemberBody forgets the   *)
(* method, also when the member was a lambda inside of it, and the try     *)
(* statements and loops around a lambda count inside it.                   *)
(***************************************************************************)
Member(kind, name, async, returns, body) ==
  [k |-> kind, name |-> name, async |-> async, body |-> body,
   returns |-> returns /\ kind \notin {"constructor", "setter"}]

EnterMemberBody(st, m) ==
  [st EXCEPT !.method = m.name, !.async = m.async, !.effects = (m.name :> NoEffects(m.async)) @@ @]
LeaveMemberBody(st, outer) == [st EXCEPT !.method = "none", !.async = outer.async]

AnalyzeMemberBody(m, st) ==
  LET r == AnalyzeStatementsBlock(m.body, EnterMemberBody(st, m))
      missing == m.returns /\ ~m.async /\ (r.flow \cap {"Normal", "Breaks", "Continues"}) # {}
  IN  LeaveMemberBody([r.st EXCEPT !.errors = @ \cup (IF missing THEN {"missing return"} ELSE {})], st)

(***************************************************************************)
(* PropagateEffects: round by round until nothing changes.                 *)
(***************************************************************************)
\* The exceptions of the callee that an edge lets through.
Passing(edge, effects) ==
  LET callee == effects[edge.callee]
      types == IF ~callee.async THEN callee.thrown ELSE IF edge.awaited THEN callee.asyncThrown ELSE {}
  IN  {t \in types : ~Catches(edge.all, edge.types, t)}

Spread(effects, edges, m) ==
  LET mine == {x \in edges : x.caller = m}
      arriving == UNION {Passing(x, effects) : x \in mine}
      e == effects[m]
  IN  [e EXCEPT !.flags = @ \cup UNION {effects[x.callee].flags : x \in mine},
                !.mayThrow = @ \/ arriving # {},
                !.thrown = IF e.async THEN @ ELSE @ \cup arriving,
                !.asyncThrown = IF e.async THEN @ \cup arriving ELSE @]

\* Mutant: one round, as if every callee were complete before its callers.
PropagateEffectsOnce(effects, edges) == [m \in DOMAIN effects |-> Spread(effects, edges, m)]

RECURSIVE PropagateEffects(_, _)
PropagateEffects(effects, edges) ==
  LET next == [m \in DOMAIN effects |-> Spread(effects, edges, m)]
  IN  IF next = effects THEN effects ELSE PropagateEffects(next, edges)

\* ReportEffectDiagnostics: the warnings, with "any" where only MayThrow is known.
Warnings(effects, edges) ==
  UNION {LET callee == effects[x.callee]
             known == IF callee.async THEN callee.asyncThrown ELSE callee.thrown
         IN  {<<x, t>> : t \in Passing(x, effects)}
               \cup {<<x, "any">> : i \in {1} \cap (IF callee.mayThrow /\ known = {} THEN {1} ELSE {})}
         : x \in edges}
=============================================================================
