--------------------------- MODULE ExpressionBinder ---------------------------
(***************************************************************************)
(* The types ExpressionBinder gives to expressions and the members it      *)
(* writes into their nodes for the emitter.  A node has its kind k, the    *)
(* type written in it t, its operator or member name op, its operands      *)
(* kids; binding adds the member m, the type, and ok, which is FALSE after *)
(* an error.  The type is Null where the code has no type.                 *)
(***************************************************************************)
EXTENDS MethodResolution

CONSTANT Statics        \* the static methods every call may find

Node(k, t, op, kids) ==
  [k |-> k, t |-> t, op |-> op, kids |-> kids, patterns |-> <<>>, m |-> Null, typeArgs |-> <<>>, extension |-> FALSE, type |-> Null, ok |-> TRUE]

Typed(n, type) == [n EXCEPT !.type = type]
Error(n, type) == [n EXCEPT !.type = type, !.ok = FALSE]
Chosen(n, m, type) == [n EXCEPT !.m = m, !.type = type]

Comparisons == {"==", "!=", "<", "<=", ">", ">="}
ArithmeticOps == {"+", "-", "*", "/", "%", "pow"}
BitOps == {"<<", ">>"}
BooleanOps == Comparisons \cup {"|", "&"}

NumericPrimitive == {Integer, Double, Char, Byte, NativeInteger}
IntegralPrimitive == NumericPrimitive \ {Double}
ScalarPrimitive == NumericPrimitive \cup {Boolean}

Wider(l, r) == IF Double \in {l, r} THEN Double ELSE Integer

(***************************************************************************)
(* AnalyzeLiteralExpression.  A number takes the type byte or nint when    *)
(* the assignment it stands in, at any depth, has such a left side.        *)
(***************************************************************************)
AnalyzeLiteral(n, expected) ==
  Typed(n, IF n.t = Integer /\ expected \in {Byte, NativeInteger} THEN expected ELSE n.t)

AnalyzeAssignment(n) ==
  LET l == n.kids[1].type  r == n.kids[2].type
  IN IF l # Null /\ (l = AnyType \/ IsAssignableTo(l, r)) THEN Typed(n, l) ELSE Error(n, l)

\* The type of a primitive binary operation, or Null for an error.
ComparableTypes(l, r) ==
  \/ l = NullType /\ ByReference(r)
  \/ r = NullType /\ ByReference(l)
  \/ {l, r} = {String} \/ {l, r} = {Boolean} \/ {l, r} \subseteq NumericPrimitive
  \/ l = r /\ l.kind = "named" /\ Symbols[l.name].kind = "enum"
  \/ l = r /\ l.kind = "parameter"
PrimitiveResult(op, l, r) ==
  CASE op \in Comparisons -> IF ComparableTypes(l, r) THEN Boolean ELSE Null
    [] op \notin Comparisons /\ l = r /\ l.kind = "parameter" -> l
    [] op \in {"|", "&"} /\ l.kind # "parameter" ->
         CASE {l, r} = {Boolean} -> Boolean
           [] {l, r} \subseteq IntegralPrimitive -> Integer
           [] OTHER -> Null
    [] op \in BitOps /\ l.kind # "parameter" -> IF {l, r} \subseteq IntegralPrimitive THEN Integer ELSE Null
    [] op = "+" /\ l.kind # "parameter" /\ String \in {l, r} -> String
    [] OTHER -> IF {l, r} \subseteq NumericPrimitive THEN Wider(l, r) ELSE Null

AnalyzeBinary(n) ==
  LET l == n.kids[1].type
      r == n.kids[2].type
      primitive == \/ IsPrimitiveType(l) /\ IsPrimitiveType(r)
                   \/ l = r /\ l.kind = "parameter"
      method == IF primitive THEN Null ELSE FindOperator(l, n.op, <<l, r>>)
      result == PrimitiveResult(n.op, l, r)
  IN CASE Null \in {l, r} -> Error(n, l)
       [] Null \notin {l, r} /\ method # Null -> Chosen(n, method, method.returns)
       [] OTHER ->
            IF /\ primitive \/ IsPrimitiveType(l) \/ n.op \in {"==", "!="}
               /\ result # Null
            THEN Typed(n, result)
            ELSE Error(n, IF n.op \in Comparisons /\ (primitive \/ IsPrimitiveType(l) \/ n.op \in {"==", "!="})
                          THEN Boolean ELSE Null)

AnalyzeUnary(n) ==
  LET t == n.kids[1].type
      method == IF t = Null \/ IsPrimitiveType(t) \/ n.op \in {"++", "--"} THEN Null ELSE FindOperator(t, n.op, <<t>>)
  IN CASE method # Null -> Chosen(n, method, method.returns)
       [] method = Null /\ t \in (IF n.op = "!" THEN {Boolean} ELSE {Integer, Double}) -> Typed(n, t)
       [] OTHER -> Error(n, Null)

(***************************************************************************)
(* Member access on a receiver: a property before a field.  A property     *)
(* that stands directly in an assignment, on either side, needs a setter,  *)
(* elsewhere a getter.  n.t is the class for an access through its name.   *)
(***************************************************************************)
Receiver(n) == IF n.t # Null THEN n.t ELSE n.kids[1].type
SameContext(n, linking) == (n.t # Null) <=> linking = "static"
NeedsSetter(parent) == parent = "="

AnalyzePropertyAccess(n, p, type, parent) ==
  IF /\ IF NeedsSetter(parent) THEN p.setter ELSE p.getter
     /\ SameContext(n, p.linking)
  THEN Chosen(n, p, type) ELSE Error(n, Null)

AnalyzeMemberAccess(n, parent) ==
  LET t == Receiver(n)
      generic == IF t.kind = "generic" THEN t ELSE Null
      property == FindProperty(t, n.op)
      field == FindField(t, n.op)
      accessOp == FindOperator(t, ".", <<String>>)
  IN CASE ~(Declared(t) \/ t.kind = "array") -> Error(n, Null)
       [] (Declared(t) \/ t.kind = "array") /\ property # Null ->
            AnalyzePropertyAccess(n, property, Substitute(property.returns, generic, Null, <<>>), parent)
       [] (Declared(t) \/ t.kind = "array") /\ property = Null /\ field # Null ->
            [Chosen(n, field, Substitute(field.returns, generic, Null, <<>>)) EXCEPT !.ok = @ /\ SameContext(n, field.linking)]
       [] OTHER -> IF accessOp # Null THEN Chosen(n, accessOp, accessOp.returns) ELSE Error(n, Null)

\* kids[1] is the receiver, the others the indices.  An array has the indexer of
\* Array and its own element type.
ArgumentsOf(n) == [i \in 1..(Len(n.kids) - 1) |-> n.kids[i + 1].type]
AnalyzeIndexator(n, parent) ==
  LET t == n.kids[1].type
      args == ArgumentsOf(n)
      generic == IF t.kind = "generic" THEN t ELSE Null
      found == IF t.kind = "array" THEN Head(Symbols["Array"].indexators)
               ELSE IF Declared(t) THEN FindIndexator(t, args, t) ELSE Null
      matched == Len(found.params) = Len(args)
                   /\ \A i \in DOMAIN args : IsAssignableTo(Substitute(found.params[i], generic, Null, <<>>), args[i])
  IN IF t = Null \/ Null \in ToSet(args) \/ found = Null THEN Error(n, Null)
     ELSE IF ~matched THEN Error(n, Null)
     ELSE AnalyzePropertyAccess(n, found, IF t.kind = "array" THEN t.of ELSE Substitute(found.returns, generic, Null, <<>>), parent)

\* VisitInvocationExpression and AnalyzeInvokationExpression: n.t is the class of
\* a static call, kids[1] the receiver otherwise; with neither a bare name.
AnalyzeInvokation(n, kids, args) ==
  LET current == CASE n.t # Null -> n.t [] n.t = Null /\ kids # <<>> -> kids[1].type [] OTHER -> Null
      static == n.t # Null \/ kids = <<>>
      found == ResolveMethod(current, <<>>, static, n.op, args, <<>>, Statics, <<>>)
      generic == IF found.receiver.kind = "generic" THEN found.receiver ELSE Null
  IN IF (~static /\ current = Null) \/ Null \in ToSet(args) \/ found = Null THEN Error(n, Null)
     ELSE [Chosen(n, found.method, Substitute(found.method.returns, generic, found.method.name, found.typeArgs))
             EXCEPT !.ok = @ /\ ~found.reported, !.typeArgs = found.typeArgs, !.extension = found.extension]

\* AnalyzeObjectExpression: FindConstructor on the declaration, then
\* MatchMethodArguments, which accepts everything behind a parameter of type any.
MatchMethodArguments(params, args, generic) ==
  LET param(i) == Substitute(params[i], generic, Null, <<>>)
      toCheck == SelectInSeq(params, LAMBDA p : p = AnyType)
  IN /\ Len(params) = Len(args)
     /\ \A i \in 1..(IF toCheck = 0 THEN Len(params) ELSE toCheck - 1) : IsAssignableTo(param(i), args[i])
ResolveConstructor(n, args) == IF Null \in ToSet(args) THEN Null ELSE FindConstructor(n.t, args)
AnalyzeObject(n) ==
  LET args == [i \in DOMAIN n.kids |-> n.kids[i].type]
      ctor == ResolveConstructor(n, args)
  IN IF ctor # Null /\ MatchMethodArguments(ctor.params, args, IF n.t.kind = "generic" THEN n.t ELSE Null)
     THEN Chosen(n, ctor, n.t) ELSE Error(n, n.t)

AnalyzeArrayCreation(n) ==
  [Typed(n, ArrayType(n.t)) EXCEPT !.ok = @ /\ n.kids[1].type = Integer]
AnalyzeCollection(n) ==
  LET known == SelectSeq(n.kids, LAMBDA kid : kid.type # Null)
      of == IF known = <<>> THEN Null ELSE known[1].type
  IN [Typed(n, ArrayType(of)) EXCEPT !.ok = @ /\ \A i \in DOMAIN n.kids : n.kids[i].type = of]
AnalyzeRange(n) ==
  [Typed(n, ArrayType(Integer)) EXCEPT !.ok = @ /\ \A i \in {1, 2} : n.kids[i].type = Integer]

\* VisitTernaryExpression and VisitIfExpression: both arms have the same type.
AnalyzeConditional(n) ==
  LET then == n.kids[2].type  else == n.kids[3].type
  IN [Typed(n, IF then = Null THEN else ELSE then)
        EXCEPT !.ok = @ /\ n.kids[1].type = Boolean /\ then # Null /\ then = else]

\* VisitSwitchExpression: kids[1] is the subject, the others are the arms, patterns their
\* patterns: a type, or Null for the default.
AnalyzeSwitch(n) ==
  LET arms == SelectSeq(Tail(n.kids), LAMBDA a : a.type # Null)
      type == IF arms = <<>> THEN Null ELSE arms[1].type
  IN [Typed(n, type)
        EXCEPT !.ok = /\ @
                      /\ \A i \in DOMAIN arms : IsAssignableTo(type, arms[i].type) \/ IsAssignableTo(arms[i].type, type)
                      /\ \A i \in DOMAIN n.patterns : n.patterns[i] # Null => ByReference(n.patterns[i])]

(***************************************************************************)
(* VisitCastExpression: a conversion operator of either type, a reference  *)
(* cast, or a conversion of primitives.                                    *)
(***************************************************************************)
FindConversionOperator(owner, source, target) ==
  IF FindConversion(owner, <<source>>, target) # Null THEN FindConversion(owner, <<source>>, target)
  ELSE FindConversion(owner, <<>>, target)

IsReferenceCastAllowed(source, target) ==
  \/ AreTypesEqual(source, target)
  \/ source = NullType /\ (ByReference(target) \/ target = AnyType)
  \/ source # NullType /\ AnyType \in {source, target}
  \/ /\ source # NullType /\ ByReference(source) /\ ByReference(target)
     /\ \/ IsAssignableTo(target, source) \/ IsAssignableTo(source, target)
        \/ IsInterface(target) \/ IsInterface(source)

AnalyzeCast(n) ==
  LET source == n.kids[1].type
      target == n.t
      ofSource == FindConversionOperator(source, source, target)
      ofTarget == FindConversionOperator(target, source, target)
      chosen == IF ofSource # Null THEN ofSource ELSE ofTarget
  IN CASE source = Null \/ AreTypesEqual(source, target) -> Typed(n, target)
       [] source # Null /\ source # target /\ chosen # Null ->
            IF ofSource # Null /\ ofTarget # Null /\ ofTarget # ofSource THEN Error(n, target) ELSE Chosen(n, chosen, target)
       [] OTHER ->
            CASE IsReferenceCastAllowed(source, target) -> Typed(n, target)
              [] ~IsReferenceCastAllowed(source, target) /\ {source, target} \subseteq ScalarPrimitive ->
                   [Typed(n, target) EXCEPT !.op = "primitive"]
              [] OTHER -> Error(n, target)

(***************************************************************************)
(* VisitExpression.  expected is the type of the nearest left side.        *)
(***************************************************************************)
Analyze(n, expected, parent) ==
  CASE n.k = "literal" -> AnalyzeLiteral(n, expected)
    [] n.k = "local" -> Typed(n, n.t)
    [] n.k = "=" -> AnalyzeAssignment(n)
    [] n.k = "binary" -> AnalyzeBinary(n)
    [] n.k = "unary" -> AnalyzeUnary(n)
    [] n.k = "member" -> AnalyzeMemberAccess(n, parent)
    [] n.k = "index" -> AnalyzeIndexator(n, parent)
    [] n.k = "call" -> LET receivers == IF n.t = Null THEN 1 ELSE 0
                       IN AnalyzeInvokation(n, SubSeq(n.kids, 1, receivers),
                                            [i \in 1..(Len(n.kids) - receivers) |-> n.kids[i + receivers].type])
    [] n.k = "bare" -> AnalyzeInvokation(n, <<>>, [i \in DOMAIN n.kids |-> n.kids[i].type])
    [] n.k = "new" -> AnalyzeObject(n)
    [] n.k = "array" -> AnalyzeArrayCreation(n)
    [] n.k = "collection" -> AnalyzeCollection(n)
    [] n.k = "range" -> AnalyzeRange(n)
    [] n.k \in {"ternary", "if"} -> AnalyzeConditional(n)
    [] n.k = "switch" -> AnalyzeSwitch(n)
    [] n.k = "cast" -> AnalyzeCast(n)
    [] n.k = "is" -> Typed(n, Boolean)

RECURSIVE Bind(_, _, _)
Bind(n, expected, parent) ==
  LET left == Bind(n.kids[1], expected, n.k)
      kids == IF n.k = "=" THEN <<left, Bind(n.kids[2], left.type, n.k)>>
              ELSE [i \in DOMAIN n.kids |-> Bind(n.kids[i], expected, n.k)]
  IN Analyze([n EXCEPT !.kids = kids, !.ok = \A i \in DOMAIN kids : kids[i].ok], expected, parent)

(***************************************************************************)
(* Statements.  A member has its kind, the type it returns and whether it  *)
(* is async.  Binding a body keeps the member, the types vars of the       *)
(* variables in scope, ok, and for every value that a statement uses its   *)
(* role, its bound expression and the type it must have (uses).            *)
(***************************************************************************)
Unbound(member) == [member |-> member, vars |-> <<>>, ok |-> TRUE, uses |-> <<>>]
Use(role, node, type) == [role |-> role, node |-> node, type |-> type]

\* The variables of an expression take their types.
RECURSIVE Within(_, _)
Within(e, vars) ==
  IF e.k = "name" THEN [e EXCEPT !.k = "local", !.t = vars[e.op]]
  ELSE [e EXCEPT !.kids = [i \in DOMAIN @ |-> Within(@[i], vars)]]
BindIn(st, e, expected) == Bind(Within(e, st.vars), expected, "")
Uses(st, role, b, type, right) == [st EXCEPT !.ok = @ /\ b.ok /\ right, !.uses = Append(@, Use(role, b, type))]
Declares(st, name, type) == [st EXCEPT !.vars = (name :> type) @@ @]
Refused(st) == [st EXCEPT !.ok = FALSE]

\* The condition of while, until, for, if and unless.
Condition(st, e) == LET b == BindIn(st, e, Null) IN Uses(st, "condition", b, Boolean, b.type = Boolean)

\* A variable of type any takes the type of its initializer.
VisitVariableStatement(st, s) ==
  LET declared == Declares(st, s.name, s.t)
      b == BindIn(declared, s.e, s.t)
      type == IF s.t = AnyType /\ b.type # Null THEN b.type ELSE s.t
  IN Declares(Uses(declared, "variable", b, type, b.type = Null \/ IsAssignableTo(s.t, b.type)), s.name, type)

\* The T of the first IEnumerable<T> among the interfaces the declaration names itself.
FindEnumerableElementType(range) ==
  LET generic == IF range.kind = "generic" THEN range ELSE Null
      enumerable == FirstOf(Symbols[range.name].interfaces, LAMBDA i : i.kind = "generic" /\ i.name = "IEnumerable")
  IN CASE range.kind = "array" -> range.of
       [] Declared(range) -> IF generic # Null /\ range.name = "IEnumerable" THEN range.args[1]
                             ELSE IF enumerable = Null THEN Null ELSE Substitute(enumerable.args[1], generic, Null, <<>>)
       [] OTHER -> Null

GetAsyncMethodElementType(member) ==
  CASE member.returns = Named("Task") -> Void
    [] member.returns.kind = "generic" -> IF member.returns.name = "ValueTask" THEN member.returns.args[1] ELSE Null
    [] OTHER -> Null

\* A constructor is no target of a return: the search goes on to the scopes around it.
FindTargetReturnType(member) == IF member.kind = "constructor" THEN Null ELSE member.returns

NoValue == [k |-> "none"]
Returned(st, e, type, right) == LET b == BindIn(st, e, Null) IN Uses(st, "return", b, type, b.type # Null /\ (right \/ IsAssignableTo(type, b.type)))
Rejected(st, e) == Refused(Returned(st, e, Void, TRUE))
ReturnFromAsync(st, s) ==
  LET element == GetAsyncMethodElementType(st.member)
  IN CASE element = Void -> IF s.e = NoValue THEN st ELSE Rejected(st, s.e)
       [] element = Null -> st
       [] OTHER -> IF s.e = NoValue THEN Refused(st) ELSE Returned(st, s.e, element, FALSE)
\* A method of type any takes the type of each value it returns while it still has that type.
ReturnInferred(st, s) ==
  LET after == Returned(st, s.e, AnyType, TRUE)
  IN CASE st.member.kind # "method" -> Refused(st)
       [] st.member.kind = "method" /\ s.e = NoValue -> [st EXCEPT !.member.returns = Void]
       [] OTHER -> [after EXCEPT !.member.returns = Last(after.uses).node.type]
VisitReturnStatement(st, s) ==
  LET target == FindTargetReturnType(st.member)
  IN CASE st.member.kind = "method" /\ st.member.async -> ReturnFromAsync(st, s)
       [] ~(st.member.kind = "method" /\ st.member.async) /\ target = AnyType -> ReturnInferred(st, s)
       [] ~(st.member.kind = "method" /\ st.member.async) /\ target = Void -> IF s.e = NoValue THEN st ELSE Rejected(st, s.e)
       [] OTHER -> IF target = Null \/ s.e = NoValue THEN Refused(st) ELSE Returned(st, s.e, target, target.kind = "parameter")

\* The expression body of a member without a value is bound as a statement.
IsStatementExpression(member) ==
  \/ FindTargetReturnType(member) = Void
  \/ member.kind = "method" /\ member.async /\ GetAsyncMethodElementType(member) = Void

\* The variable of defer is disposed of: its type implements IDisposable.
FindInterfaceImplementation(type, name) == FirstOf(Symbols[type.name].methods, LAMBDA m : m.name = name)
DeferVariable(st, name) ==
  LET type == st.vars[name]
      disposable == IsAssignableTo(Named("IDisposable"), type) /\ Declared(type)
      found == IF ~disposable \/ IsInterface(type) THEN Null ELSE FindInterfaceImplementation(type, "Dispose")
  IN IF found = Null THEN Refused(st)
     ELSE Uses(st, "dispose", Typed(Node("local", type, name, <<>>), type), found.owner, TRUE)

\* VisitForEachStatement, VisitForInStatement: the variable outlives the loop, those of its body do not.
Enumerated(st, s) ==
  LET b == BindIn(st, s.e, Null)
      element == FindEnumerableElementType(b.type)
  IN Declares(Uses(st, s.k, b, element, element # Null /\ (s.k = "forin" => b.type.kind = "array")), s.name, element)

RECURSIVE VisitStatement(_, _)
VisitStatementsBlock(st, body) == FoldLeft(VisitStatement, st, body)
VisitEnumeration(st, s) ==
  LET entered == Enumerated(st, s)
  IN [VisitStatementsBlock(entered, s.body) EXCEPT !.vars = entered.vars]
VisitConditional(st, s) ==
  LET tested == IF s.cond.k = "expression" THEN Condition(st, s.cond.e) ELSE Refused(st)
  IN VisitStatementsBlock(VisitStatementsBlock(tested, s.body), s.next)
VisitForStatement(st, s) ==
  VisitStatementsBlock(VisitStatementsBlock(Condition(VisitStatementsBlock(st, s.init), s.e), s.after), s.body)
VisitStatement(st, s) ==
  CASE s.k = "expression" -> LET b == BindIn(st, s.e, Null) IN [st EXCEPT !.ok = @ /\ b.ok]
    [] s.k = "variable" -> VisitVariableStatement(st, s)
    [] s.k \in {"while", "until"} -> VisitStatementsBlock(Condition(st, s.e), s.body)
    [] s.k = "for" -> VisitForStatement(st, s)
    [] s.k \in {"foreach", "forin"} -> VisitEnumeration(st, s)
    [] s.k \in {"if", "unless"} -> VisitConditional(st, s)
    [] s.k = "else" -> VisitStatementsBlock(st, s.body)
    [] s.k = "return" -> VisitReturnStatement(st, s)
    [] s.k = "defer" -> IF s.of.k = "variable" THEN DeferVariable(VisitStatement(st, s.of), s.of.name) ELSE VisitStatement(st, s.of)

\* A member and its body; arrow is TRUE for a body written as an expression.
VisitBody(member, body, arrow) ==
  IF arrow /\ IsStatementExpression(member)
  THEN VisitStatement(Unbound(member), [k |-> "expression", e |-> body[1].e])
  ELSE VisitStatementsBlock(Unbound(member), body)
VisitFieldDeclaration(member, init) ==
  LET b == BindIn(Unbound(member), init, Null) IN Uses(Unbound(member), "variable", b, member.returns, IsAssignableTo(member.returns, b.type))
\* VisitPropertyDeclaration, VisitIndexatorDeclaration: of is the type of the property.
VisitAccessor(member, of, body, arrow) ==
  LET after == VisitBody(member, body, arrow) IN [after EXCEPT !.ok = @ /\ of # Void]
=============================================================================
