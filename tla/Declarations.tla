---------------------------- MODULE Declarations ----------------------------
(***************************************************************************)
(* Where the variables of a method live.  DeclarationCollector numbers the *)
(* slots of a frame while it walks the body, ExpressionBinder finds the    *)
(* variable behind each name and turns the variables a lambda uses of the  *)
(* enclosing body into fields of a closure, AbstractEmiter fills those     *)
(* fields from the frame that creates the lambda.                          *)
(*                                                                         *)
(* A method is [linking, place, params, body].  A parameter and a variable *)
(* is [id, name].  A body is a sequence of statements:                     *)
(*   [kind |-> "variable", var, init]   [kind |-> "expression", expr]      *)
(*   [kind |-> "block", body]           [kind |-> "loop", var, range, body]*)
(*   [kind |-> "try", body, var, handler]                                  *)
(* and an expression is [kind |-> "name", id, name] or                     *)
(* [kind |-> "lambda", id, isAsync, params, body].                         *)
(***************************************************************************)
EXTENDS Integers, Functions, SequencesExt, FiniteSetsExt, TLC

CONSTANT NoSymbol   \* nullptr

This == [id |-> "this", name |-> "this"]

\* VisitMethodDeclaration of the collector: methods of a namespace become static.
Linking(m) == IF m.place = "namespace" THEN "static" ELSE m.linking
GetEvalStackArgumentsCountAsDeclared(m) == Len(m.params) + (IF m.linking = "instance" THEN 1 ELSE 0)
\* MethodSymbol::GetEvalStackArgumentsCount
GetEvalStackArgumentsCount(m) == Len(m.params) + (IF Linking(m) = "instance" THEN 1 ELSE 0)

(***************************************************************************)
(* DeclarationCollector: the locals, in the order of the walk.  The bodies *)
(* of lambdas are not walked.                                              *)
(***************************************************************************)
Number(slots, m, id) == (id :> GetEvalStackArgumentsCount(m) + Cardinality(DOMAIN slots)) @@ slots

RECURSIVE CollectStatement(_, _, _), CollectBody(_, _, _)
CollectBody(slots, m, body) == FoldLeft(LAMBDA s, st : CollectStatement(s, m, st), slots, body)
CollectStatement(slots, m, st) ==
  CASE st.kind = "variable" -> Number(slots, m, st.var.id)
    [] st.kind = "block" -> CollectBody(slots, m, st.body)
    [] st.kind = "loop" -> CollectBody(Number(slots, m, st.var.id), m, st.body)
    [] st.kind = "try" -> CollectBody(Number(CollectBody(slots, m, st.body), m, st.var.id), m, st.handler)
    [] OTHER -> slots
CollectMethod(m) == CollectBody(<<>>, m, m.body)

\* The emitter's own variables follow the collected ones (VisitForEachStatement, a switch subject).
Temporaries(m) ==
  LET RECURSIVE Loops(_)
      Loops(body) == FoldLeft(LAMBDA n, st : CASE st.kind = "loop" -> n + 1 + Loops(st.body)
                                               [] st.kind = "block" -> n + Loops(st.body)
                                               [] st.kind = "try" -> n + Loops(st.body) + Loops(st.handler)
                                               [] OTHER -> n, 0, body)
      first == GetEvalStackArgumentsCount(m) + Cardinality(DOMAIN CollectMethod(m))
  IN {first + i - 1 : i \in 1..Loops(m.body)}
GetEvalStackLocalsCount(m) ==
  GetEvalStackArgumentsCount(m) + Cardinality(DOMAIN CollectMethod(m)) + Cardinality(Temporaries(m))

(***************************************************************************)
(* Scopes: the last declaration of a name in a scope, then the enclosing   *)
(* scopes.  A block does not open one.                                     *)
(***************************************************************************)
Symbol(var, slot) == [id |-> var.id, name |-> var.name, slot |-> slot]
Declare(scopes, symbol) == [scopes EXCEPT ![Len(scopes)] = (symbol.name :> symbol) @@ @]
PushScope(scopes) == Append(scopes, <<>>)
PopScope(scopes) == Front(scopes)
Lookup(scopes, name) ==
  LET found == {i \in DOMAIN scopes : name \in DOMAIN scopes[i]}
  IN IF found = {} THEN NoSymbol ELSE scopes[Max(found)][name]
DeclareParameters(scopes, params, first) ==
  FoldLeftDomain(LAMBDA s, i : Declare(s, Symbol(params[i], first + i - 1)), scopes, params)

(***************************************************************************)
(* LambdaCaptureCollector: the names of the body that are not its own.     *)
(***************************************************************************)
RECURSIVE FreeNames(_, _)
FreeNames(body, local) ==
  LET InExpression(e, own) == IF e.kind = "name" /\ e.name \notin own THEN {e.name} ELSE {}
      Step(at, st) ==
        CASE st.kind = "variable" -> [names |-> at.names \cup InExpression(st.init, at.local), local |-> at.local \cup {st.var.name}]
          [] st.kind = "expression" -> [at EXCEPT !.names = @ \cup InExpression(st.expr, at.local)]
          [] st.kind = "block" -> [at EXCEPT !.names = @ \cup FreeNames(st.body, at.local)]
          [] st.kind = "loop" -> [at EXCEPT !.names = @ \cup InExpression(st.range, at.local)
                                                        \cup FreeNames(st.body, at.local \cup {st.var.name})]
          [] st.kind = "try" -> [at EXCEPT !.names = @ \cup FreeNames(st.body, at.local)
                                                       \cup FreeNames(st.handler, at.local \cup {st.var.name})]
  IN FoldLeft(Step, [names |-> {}, local |-> local], body).names

Captures(lambda, scopes) ==
  {Lookup(scopes, n) : n \in FreeNames(lambda.body, {p.name : p \in ToSet(lambda.params)})} \ {NoSymbol}

(***************************************************************************)
(* ExpressionBinder.  at is the walk: the scopes, what each name was bound *)
(* to, the closures built, and whether no error was met.  In frame, a name *)
(* is a slot, or a field of the innermost closure.  The collector did not  *)
(* number the variables of a lambda's body: the binder throws there.       *)
(***************************************************************************)
Closure(lambda, scopes, frame) ==
  [id |-> lambda.id, from |-> frame, fields |-> Captures(lambda, scopes)]

BindName(at, in, e) ==
  LET symbol == Lookup(at.scopes, e.name)
  IN CASE symbol = NoSymbol -> [at EXCEPT !.accepted = FALSE]
       [] symbol # NoSymbol /\ in.closure # NoSymbol /\ symbol \in in.closure.fields ->
            [at EXCEPT !.bound = @ \cup {[name |-> e.id, frame |-> in.frame, via |-> in.closure.id, symbol |-> symbol]}]
       [] symbol # NoSymbol /\ (in.closure = NoSymbol \/ symbol \notin in.closure.fields) ->
            [at EXCEPT !.bound = @ \cup {[name |-> e.id, frame |-> in.frame, via |-> NoSymbol, symbol |-> symbol]}]

RECURSIVE BindExpression(_, _, _), BindStatement(_, _, _), BindBody(_, _, _)
BindBody(at, in, body) == FoldLeft(LAMBDA a, st : BindStatement(a, in, st), at, body)

BindLambda(at, in, lambda) ==
  LET closure == Closure(lambda, at.scopes, in.frame)
      boxed == closure.fields # {} /\ ~lambda.isAsync
      own == DeclareParameters(PushScope(at.scopes), lambda.params, IF boxed THEN 1 ELSE 0)
      body == BindBody([at EXCEPT !.scopes = own, !.closures = @ \cup (IF boxed THEN {closure} ELSE {})],
                       [slots |-> <<>>, frame |-> lambda.id, closure |-> IF boxed THEN closure ELSE in.closure],
                       lambda.body)
  IN [body EXCEPT !.scopes = at.scopes]
BindExpression(at, in, e) == IF e.kind = "name" THEN BindName(at, in, e) ELSE BindLambda(at, in, e)

BindStatement(at, in, st) ==
  LET Declared(a, var) == [a EXCEPT !.scopes = Declare(@, Symbol(var, in.slots[var.id]))]
  IN CASE st.kind \in {"variable", "loop", "try"} /\ st.var.id \notin DOMAIN in.slots -> [at EXCEPT !.accepted = FALSE]
       [] st.kind = "variable" /\ st.var.id \in DOMAIN in.slots ->
            BindExpression(Declared(at, st.var), in, st.init)
       [] st.kind = "expression" -> BindExpression(at, in, st.expr)
       [] st.kind = "block" -> BindBody(at, in, st.body)
       [] st.kind = "loop" /\ st.var.id \in DOMAIN in.slots ->
            LET entered == Declared(BindExpression(at, in, st.range), st.var)
                body == BindBody([entered EXCEPT !.scopes = PushScope(@)], in, st.body)
            IN [body EXCEPT !.scopes = PopScope(@)]
       [] st.kind = "try" /\ st.var.id \in DOMAIN in.slots ->
            LET tried == BindBody(at, in, st.body)
                handled == BindBody(Declared([tried EXCEPT !.scopes = PushScope(@)], st.var), in, st.handler)
            IN [handled EXCEPT !.scopes = PopScope(@)]

\* VisitMethodDeclaration, VisitConstructorDeclaration, VisitAccessorDeclaration of the binder.
BindMethod(m) ==
  LET this == IF Linking(m) = "instance" THEN Declare(<<<<>>>>, Symbol(This, 0)) ELSE <<<<>>>>
      scopes == DeclareParameters(this, m.params, IF Linking(m) = "static" THEN 0 ELSE 1)
  IN BindBody([scopes |-> scopes, bound |-> {}, closures |-> {}, accepted |-> TRUE],
              [slots |-> CollectMethod(m), frame |-> "method", closure |-> NoSymbol], m.body)

\* VisitLambdaExpression of the emitter: a field is loaded from a slot of the frame being generated.
FieldSource(closure, symbol) == [frame |-> closure.from, slot |-> symbol.slot]
=============================================================================
