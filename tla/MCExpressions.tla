---------------------------- MODULE MCExpressions ----------------------------
(***************************************************************************)
(* Expressions over a small world of declarations: bound, emitted and      *)
(* executed in every way the runtime types of their operands allow.        *)
(***************************************************************************)
EXTENDS Jobs, PrimitiveOperators

\* What becomes of an expression: what it is bound to, its code and the runs of the code
\* (FateOf, as a parameter so that TLC does not unfold it in its statistics).
CONSTANT Fate(_)
\* What becomes of a member and of every value its body uses (BodyOf).
CONSTANT BodyFor(_)
\* The longest word of a number literal.
CONSTANT LiteralLength

Item == [kind |-> "parameter", owner |-> "Box", index |-> 1]
Element == [kind |-> "parameter", owner |-> "Array", index |-> 1]
boxOfInt == [kind |-> "generic", name |-> "Box", args |-> <<P("int")>>]
intArray == [kind |-> "array", of |-> P("int")]
Absent == [kind |-> "nullptr"]

Decl(kind, size, byValue) ==
  [kind |-> kind, size |-> size, byValue |-> byValue, typeParameters |-> 0, interfaces |-> <<>>, operators |-> <<>>,
   indexators |-> <<>>, constructors |-> <<>>, fields |-> <<>>, properties |-> <<>>, methods |-> <<>>]
Mem(owner, name, linking, params, ret) ==
  [owner |-> P(owner), name |-> name, linking |-> linking, typeParameters |-> <<>>, params |-> params, returns |-> ret,
   getter |-> TRUE, setter |-> TRUE]

Basic == [n \in {"any", "void", "null", "bool", "int", "double", "char", "string", "byte", "nint"} |->
            [Decl(IF n \in {"any", "void", "null", "string"} THEN "class" ELSE "struct", 8,
                  n \notin {"any", "void", "null", "string"}) EXCEPT !.operators = ResolvePrimitiveOperators(n)]]
Shape == [Decl("interface", 8, FALSE) EXCEPT !.methods = <<Mem("IShape", "area", "instance", <<P("int")>>, P("double"))>>]
Big ==
  [Decl("struct", 24, TRUE) EXCEPT
     !.fields = <<Mem("Big", "x", "instance", <<>>, P("int"))>>,
     !.operators = <<Mem("Big", "+", "static", <<P("Big"), P("int")>>, P("Big")), Mem("Big", "-", "static", <<P("Big")>>, P("Big"))>>,
     !.constructors = <<Mem("Big", "ctor", "instance", <<>>, P("void"))>>]
Color == [Decl("enum", 8, TRUE) EXCEPT !.fields = <<Mem("Color", "Red", "static", <<>>, P("Color"))>>]
Cell ==
  [Decl("class", 8, FALSE) EXCEPT
     !.interfaces = <<P("IShape")>>,
     !.fields = <<Mem("Cell", "n", "instance", <<>>, P("int")), Mem("Cell", "big", "instance", <<>>, P("Big")),
                  Mem("Cell", "total", "static", <<>>, P("int"))>>,
     !.properties = <<Mem("Cell", "next", "instance", <<>>, P("Cell")),
                      [Mem("Cell", "size", "instance", <<>>, P("Big")) EXCEPT !.setter = FALSE]>>,
     !.indexators = <<Mem("Cell", "[]", "instance", <<P("int"), P("string")>>, P("Big"))>>,
     !.operators = <<Mem("Cell", "+", "static", <<P("Cell"), P("int")>>, P("Cell")), Mem("Cell", "as", "static", <<P("Cell")>>, P("int")),
                     Mem("Cell", "!", "static", <<P("Cell")>>, P("bool")), Mem("Cell", ".", "static", <<P("Cell"), P("string")>>, P("any"))>>,
     !.constructors = <<Mem("Cell", "ctor", "instance", <<P("int"), P("string")>>, P("void"))>>,
     !.methods = <<Mem("Cell", "area", "instance", <<P("int")>>, P("double")), Mem("Cell", "mix", "instance", <<P("any"), P("int")>>, P("Big")),
                   Mem("Cell", "make", "static", <<P("int"), P("bool")>>, P("Cell")), Mem("Cell", "clear", "instance", <<>>, P("void"))>>]
Box ==
  [Decl("class", 8, FALSE) EXCEPT
     !.typeParameters = 1, !.fields = <<Mem("Box", "item", "instance", <<>>, Item)>>,
     !.indexators = <<Mem("Box", "[]", "instance", <<Item>>, Item)>>,
     !.constructors = <<Mem("Box", "ctor", "instance", <<>>, P("void"))>>,
     !.methods = <<Mem("Box", "get", "instance", <<>>, Item), Mem("Box", "put", "instance", <<Item, P("string")>>, P("void"))>>]
ArrayDecl ==
  [Decl("class", 8, FALSE) EXCEPT
     !.indexators = <<Mem("Array", "[]", "instance", <<P("int")>>, Element)>>,
     !.properties = <<[Mem("Array", "Length", "instance", <<>>, P("int")) EXCEPT !.setter = FALSE]>>]

Elements == [kind |-> "parameter", owner |-> "List", index |-> 1]
Constructed1(name, arg) == [kind |-> "generic", name |-> name, args |-> <<arg>>]
Enumerable == [Decl("interface", 8, FALSE) EXCEPT !.typeParameters = 1]
List == [Decl("class", 8, FALSE) EXCEPT !.typeParameters = 1, !.interfaces = <<Constructed1("IEnumerable", Elements)>>]
Task1 == [Decl("class", 8, FALSE) EXCEPT !.typeParameters = 1]
FileClass == [Decl("class", 8, FALSE) EXCEPT
           !.interfaces = <<P("IDisposable"), Constructed1("IEnumerable", P("string"))>>,
           !.methods = <<Mem("File", "Dispose", "instance", <<>>, P("void"))>>]
Disposable == [Decl("interface", 8, FALSE) EXCEPT !.methods = <<Mem("IDisposable", "Dispose", "instance", <<>>, P("void"))>>]

Program == Basic @@ ("IShape" :> Shape) @@ ("Big" :> Big) @@ ("Color" :> Color) @@ ("Cell" :> Cell) @@ ("Box" :> Box) @@ ("Array" :> ArrayDecl)
             @@ ("IEnumerable" :> Enumerable) @@ ("List" :> List) @@ ("Task" :> Decl("class", 8, FALSE)) @@ ("ValueTask" :> Task1)
             @@ ("File" :> FileClass) @@ ("IDisposable" :> Disposable)
StaticMethods == <<Mem("Cell", "make", "static", <<P("int"), P("bool")>>, P("Cell")),
                   Mem("Box", "scale", "static", <<P("Cell"), P("int")>>, P("Big"))>>

M == INSTANCE ExpressionMachine WITH Symbols <- Program, Statics <- StaticMethods

(***************************************************************************)
(* The expressions.                                                        *)
(***************************************************************************)
No == ""
\* A node as the parser leaves it (ExpressionBinder!Node).
E(k, t, op, kids) ==
  [k |-> k, t |-> t, op |-> op, kids |-> kids, patterns |-> <<>>, m |-> Absent, typeArgs |-> <<>>, extension |-> FALSE,
   type |-> Absent, ok |-> TRUE]
Literals == {E("literal", P(t), No, <<>>) : t \in {"int", "double", "string", "bool", "null"}}
Locals == {E("local", t, No, <<>>) : t \in {P(n) : n \in {"int", "byte", "nint", "char", "bool", "string", "any", "Cell", "IShape", "Big", "Color"}}
                                         \cup {boxOfInt, intArray}}
Operands == Literals \cup Locals

Local(t) == E("local", t, No, <<>>)
one == E("literal", P("int"), No, <<>>)
text == Local(P("string"))
cell == Local(P("Cell"))
Few == {one, E("literal", P("null"), No, <<>>), text, Local(P("bool")), cell, Local(P("Big"))}

Operators(ops, l, r) == {E("binary", Absent, op, <<a, b>>) : op \in ops, a \in l, b \in r}
AllOperators == {"==", "!=", "<", "<=", ">", ">=", "+", "-", "*", "/", "%", "pow", "|", "<<"}
Unaries(es) == {E("unary", Absent, op, <<a>>) : op \in {"!", "-", "+"}, a \in es}
Selections(es) ==
  {E("member", Absent, name, <<e>>) : name \in {"n", "big", "total", "next", "size", "x", "item", "Length"}, e \in es}
Indexed(es, is) == {E("index", Absent, No, <<e, i>>) : e \in es, i \in is} \cup {E("index", Absent, No, <<e, i, j>>) : e \in es, i, j \in is}
Invoked(es, as) ==
  {E("call", Absent, name, <<e>>) : name \in {"get", "clear"}, e \in es}
    \cup {E("call", Absent, name, <<e, a>>) : name \in {"area", "scale"}, e \in es, a \in as}
    \cup {E("call", Absent, name, <<e, a, b>>) : name \in {"mix", "put"}, e \in es, a, b \in as}
    \cup {E("call", P("Cell"), "make", <<a, b>>) : a, b \in as} \cup {E("bare", Absent, "make", <<a, b>>) : a, b \in as}
Created(as) ==
  {E("new", P("Cell"), No, <<a, b>>) : a, b \in as} \cup {E("new", t, No, <<>>) : t \in {P("Big"), boxOfInt}}
    \cup {E("array", t, No, <<a>>) : t \in {P("int"), P("Cell")}, a \in as}
    \cup {E(k, Absent, No, <<a, b>>) : k \in {"range", "collection"}, a, b \in as}
Conditionals(cs, as) == {E("ternary", Absent, No, <<c, a, b>>) : c \in cs, a, b \in as}
Tests(es) ==
  {E(k, t, No, <<e>>) : k \in {"cast", "is"}, t \in {P(n) : n \in {"int", "byte", "string", "any", "Cell", "IShape"}}, e \in es}
Switch(p, kids) == [E("switch", Absent, No, kids) EXCEPT !.patterns = <<P(p), Absent>>]
\* A switch takes the type of its first arm, also where a later one is wider: the first
\* arm is at least as wide here.
Switches(es, as) ==
  {Switch(p, <<e, a, b>>) : p \in {"Cell", "IShape"}, e \in es,
     <<a, b>> \in {<<x, x>> : x \in as} \cup {<<Local(P("IShape")), cell>>, <<Local(P("any")), one>>}}
Named1 == {E("member", P("Color"), "Red", <<>>), E("member", P("Cell"), "total", <<>>)}

\* Operands of operands: a few of each kind.
Inner ==
  Operators({"+", "=="}, {one, text, cell}, {one, text}) \cup Named1
    \cup {E("member", Absent, n, <<cell>>) : n \in {"n", "big", "next", "size"}}
    \cup {E("call", Absent, "mix", <<cell, a, one>>) : a \in {one, Local(P("Big"))}}
    \cup {E("index", Absent, No, <<cell, one, text>>), E("index", Absent, No, <<Local(intArray), one>>),
          E("ternary", Absent, No, <<Local(P("bool")), Local(P("Big")), Local(P("Big"))>>),
          Switch("Cell", <<Local(P("any")), one, one>>),
          E("new", P("Cell"), No, <<one, text>>), E("cast", P("Cell"), No, <<Local(P("IShape"))>>),
          E("cast", P("int"), No, <<cell>>)}
Targets == Locals \cup {E("member", Absent, n, <<Local(t)>>) : n \in {"n", "big", "next", "item"}, t \in {P("Cell"), boxOfInt}}
             \cup {E("index", Absent, No, <<cell, a, b>>) : a, b \in Few}
             \cup {E("index", Absent, No, <<Local(t), a>>) : t \in {intArray, boxOfInt}, a \in Few}

Of1(e) == job' = [part |-> "expression", node |-> e]
BindExpression ==
  /\ Asked("BindExpression")
  /\ \/ \E e \in Operators(AllOperators, Operands, Operands) \cup Unaries(Operands) : Of1(e)
     \/ \E e \in Selections(Operands) \cup Indexed(Locals, Few) \cup Named1 \cup Tests(Operands) \cup Created(Operands) : Of1(e)
     \/ \E e \in Invoked(Locals, Few) \cup Conditionals(Few, Operands) \cup Switches(Locals, Few) : Of1(e)
     \/ \E e \in Operators({"+", "==", "|"}, Inner, Inner) \cup Selections(Inner) \cup Tests(Inner) : Of1(e)
     \/ \E a, b \in Inner : \/ Of1(E("index", Absent, No, <<cell, a, b>>)) \/ Of1(E("ternary", Absent, No, <<a, b, b>>))
                           \/ Of1(Switch("Cell", <<a, b, b>>))
                           \/ \E c \in Few : Of1(E("call", Absent, "mix", <<a, b, c>>)) \/ Of1(E("collection", Absent, No, <<b, b, c>>))
     \/ \E t \in Targets, v \in Operands \cup Inner : Of1(E("=", Absent, No, <<t, v>>))

FateOf(e) ==
  LET b == M!Bind(e, Absent, No)
      st == M!VisitExpressionStatement(M!Fresh, b)
  IN IF b.ok THEN [node |-> b, code |-> st, runs |-> M!Outcomes(st.code, M!Machine)]
     ELSE [node |-> b, code |-> M!Fresh, runs |-> {}]

(***************************************************************************)
(* The members and their bodies.                                           *)
(***************************************************************************)
Member1(kind, type, async) == [kind |-> kind, returns |-> type, async |-> async]
MembersOf ==
  {Member1("method", t, FALSE) : t \in {P(n) : n \in {"void", "int", "any", "Big", "Cell", "IShape"}} \cup {Item}}
    \cup {Member1("method", P("Task"), TRUE), Member1("method", Constructed1("ValueTask", P("int")), TRUE)}
    \cup {Member1(k, P(n), FALSE) : k \in {"operator", "getter"}, n \in {"int", "any", "Cell"}}
    \cup {Member1("setter", P("void"), FALSE), Member1("constructor", P("void"), FALSE)}
Few1 == {Member1("method", P("int"), FALSE), Member1("method", P("any"), FALSE), Member1("method", P("void"), FALSE)}

NoResult == [k |-> "none"]
Return1(e) == [k |-> "return", e |-> e]
Perform(e) == [k |-> "expression", e |-> e]
VariableOf(name, t, e) == [k |-> "variable", name |-> name, t |-> t, e |-> e]
LoopOn(k, e, body) == [k |-> k, e |-> e, body |-> body]
For(init, e, after, body) == [k |-> "for", init |-> init, e |-> e, after |-> after, body |-> body]
Each(k, e, body) == [k |-> k, name |-> "x", e |-> e, body |-> body]
If1(k, cond, body, next) == [k |-> k, cond |-> cond, body |-> body, next |-> next]
Else(body) == [k |-> "else", body |-> body]
Defer(s) == [k |-> "defer", of |-> s]
NamedX == E("name", Absent, "x", <<>>)
\* The last two are a call without a value and an expression with an error.
Clear == E("call", Absent, "clear", <<cell>>)
ValuesOf == Few \cup {Local(P("any")), E("call", Absent, "mix", <<cell, one, one>>), E("binary", Absent, "<", <<one, one>>),
                      E("unary", Absent, "!", <<cell>>), E("unary", Absent, "!", <<text>>)}
Ranges == {Local(t) : t \in {intArray, P("File"), P("Cell"), P("any")} \cup {Constructed1(n, P("int")) : n \in {"List", "IEnumerable", "Box"}}}
ReturnStatements == {Return1(e) : e \in ValuesOf \cup {NoResult}}

OfBody(member, of, body, arrow) == job' = [part |-> "body", member |-> member, of |-> of, body |-> body, arrow |-> arrow]
BindMember ==
  /\ Asked("BindMember")
  /\ \/ \E m \in MembersOf, r \in ReturnStatements, q \in ReturnStatements : OfBody(m, m.returns, <<r, q>>, FALSE)
     \/ \E m \in MembersOf, e \in ValuesOf \cup {Clear} : OfBody(m, m.returns, <<Return1(e)>>, TRUE)
     \/ \E n \in {"int", "void"}, r \in ReturnStatements : OfBody(Member1("setter", P("void"), FALSE), P(n), <<r>>, FALSE)
     \/ \E t \in {P("byte"), P("Cell"), P("IShape"), P("any"), P("Big")}, e \in ValuesOf : OfBody(Member1("field", t, FALSE), t, <<Perform(e)>>, FALSE)
     \/ \E m \in Few1, c \in ValuesOf, r \in ReturnStatements :
          \/ \E k \in {"while", "until"} : OfBody(m, m.returns, <<LoopOn(k, c, <<r>>)>>, FALSE)
          \/ OfBody(m, m.returns, <<For(<<VariableOf("x", P("any"), c)>>, NamedX, <<Perform(cell)>>, <<r>>), Return1(NamedX)>>, FALSE)
          \/ \E k \in {"if", "unless"}, v \in {Perform(c), VariableOf("x", P("bool"), c)} :
               OfBody(m, m.returns, <<If1(k, v, <<r>>, <<Else(<<Return1(c)>>)>>)>>, FALSE)
     \/ \E m \in Few1, t \in {P("any"), P("byte"), P("IShape"), P("Cell"), P("Big")}, e \in ValuesOf :
          OfBody(m, m.returns, <<VariableOf("x", t, e), If1("if", Perform(NamedX), <<>>, <<>>), Return1(NamedX)>>, FALSE)
     \/ \E m \in Few1, k \in {"foreach", "forin"}, e \in Ranges, r \in {Return1(NamedX), Perform(NamedX)} :
          OfBody(m, m.returns, <<Each(k, e, <<VariableOf("y", P("any"), NamedX), r>>), Return1(NamedX)>>, FALSE)
     \/ \E m \in Few1, t \in {P("any"), P("Cell"), P("File"), P("IDisposable")}, e \in {Local(P(n)) : n \in {"File", "Cell", "IDisposable"}} :
          OfBody(m, m.returns, <<Defer(VariableOf("x", t, e)), Defer(Perform(Clear)), Return1(NamedX)>>, FALSE)

Bound1(j) ==
  CASE j.member.kind = "field" -> M!VisitFieldDeclaration(j.member, j.body[1].e)
    [] j.member.kind \in {"getter", "setter"} -> M!VisitAccessor(j.member, j.of, j.body, j.arrow)
    [] OTHER -> M!VisitBody(j.member, j.body, j.arrow)
RunsOf(node) == M!Outcomes(M!Visit(M!Fresh, node).code, M!Machine)
BodyOf(j) ==
  LET after == Bound1(j)
  IN [after EXCEPT !.uses = IF after.ok THEN [i \in DOMAIN @ |-> [use |-> @[i], runs |-> RunsOf(@[i].node)]] ELSE <<>>]

\* The code of an accepted expression never pops an empty stack, and every instruction,
\* call, store and jump finds operands of the types it reads, for every value the
\* operands may have (AnalyzeBinaryExpression to VisitCastExpression against
\* ProcessCode).  Whatever path runs, one value of the type of the expression is left;
\* nothing is left by an assignment and by a call that stands as a statement.  The
\* exception is a null operand of an operator, which gives a bool.  The frame published
\* for the code (PublishLayout) has an entry for every value that is on the stack at the
\* same time, and its entries are as large as the largest of them.
Leaves(r, type) == \/ r.status = "raised" \/ r.nulls
                   \/ r.status = "done" /\ Len(r.stack) = 1 /\ M!ConformsTo(r.stack[1], type)
Covered(r, code) == r.high <= code.max /\ r.largest <= M!PayloadOf(code) /\ ~code.poisoned
WellTypedExpression(fate) ==
  \A r \in fate.runs :
    /\ Covered(r, fate.code)
    /\ IF fate.node.k \in {"=", "call", "bare"} THEN r.status = "raised" \/ r.nulls \/ (r.status = "done" /\ r.stack = <<>>)
       ELSE Leaves(r, fate.node.type)

\* In an accepted body every condition gives a bool, every variable, also that of a
\* loop, a value of its type, and every return one of the type the callers of the member
\* see when its body is bound, whatever order inference met the returns in
\* (VisitReturnStatement).  Not so, and left out: a returned value of type any before one
\* of another type, a call without a value as the value of an inferred type, and a
\* result that is a type parameter, which nothing tests.
Unsettled(use, member) == \/ use.node.type = P("any") /\ member.returns # P("any")
                          \/ member.returns.kind = "parameter" \/ use.node.type = P("void")
ResultType(use, member) == IF member.async THEN use.type ELSE member.returns
UsedWell(u, member) ==
  CASE u.use.role \in {"foreach", "forin"} -> M!IsAssignableTo(Constructed1("IEnumerable", u.use.type), u.use.node.type)
    [] u.use.role = "return" -> Unsettled(u.use, member) \/ \A r \in u.runs : Leaves(r, ResultType(u.use, member))
    [] OTHER -> \A r \in u.runs : Leaves(r, u.use.type)
WellTypedBody(after, body) ==
  after.ok => /\ \A i \in DOMAIN after.uses : UsedWell(after.uses[i], after.member)
              /\ (\E i \in DOMAIN body : body[i] = Return1(NoResult)) => after.member.returns \in {P("void"), P("Task")}

\* Expressions and bodies that pass ExpressionBinder run with the values they are bound for.
WellTyped ==
  /\ job.part = "expression" => WellTypedExpression(Fate(job.node))
  /\ job.part = "body" => WellTypedBody(BodyFor(job), job.body)
(***************************************************************************)
(* The values of primitive operations and of literals.                     *)
(***************************************************************************)
\* The build for a platform: where wchar_t is signed and swprintf does not measure, or not.
On(platform) == INSTANCE PrimitiveOperators WITH Platform <- platform
Integers1 == {Value("int", Whole(n)) : n \in {-8, -3, -1, 0, 1, 2, 5, 7}}
Reals == {FromDouble(q) : q \in {Zero, <<1, 2>>, <<-3, 2>>, Whole(2), Whole(9)}}
Chars == {Value("char", Whole(n)) : n \in {0, 1, 3}}
Truths == {FromBoolean(b) : b \in BOOLEAN}
Small == {Value("byte", Whole(n)) : n \in {0, 1, 3}} \cup {Value("nint", Whole(n)) : n \in {0, 3}}
Letter(n) == Piece("char", Whole(n))
Strings1 == {Value("string", s) : s \in {<<>>, <<Letter(1)>>, <<Letter(2)>>, <<Letter(1), Letter(2)>>}}
Everything == Integers1 \cup Reals \cup Chars \cup Truths \cup Small \cup Strings1 \cup {Value("enum", Whole(n)) : n \in {0, 2}}

\* An exponent with a fraction has no exact power.  The builds differ on characters and text.
Compute ==
  /\ Asked("Compute")
  /\ \E on \in {"windows", "linux"} :
       \/ \E op \in AllOperators \cup {"&", ">>"}, l, r \in Everything :
            /\ op = "pow" /\ r.t # "string" => r.v[2] = 1
            /\ on = "linux" => {l.t, r.t} \cap {"char", "string"} # {}
            /\ job' = [part |-> "binary", on |-> on, op |-> op, l |-> l, r |-> r]
       \/ \E op \in {"!", "-", "+", "++", "--"}, x \in Everything : job' = [part |-> "unary", on |-> on, op |-> op, l |-> x]
       \/ \E t \in {"int", "double", "bool", "char", "byte", "nint", "enum", "string"}, x \in Everything :
            job' = [part |-> "convert", on |-> on, op |-> t, l |-> x]

Symbols1 == {"0", "1", "2", "e", "b", "x", "k"}
\* As ReadNumberLiteral leaves it: a digit first, at most one point, followed by a symbol.
\* An exponent of two digits is not computed.
ReadLiteral ==
  /\ Asked("ReadLiteral")
  /\ \E n \in 1..LiteralLength, first \in {"0", "1", "2"}, expected \in {"int", "byte", "nint"} :
       \E rest \in [1..n - 1 -> Symbols1 \cup {"d", "."}] :
         LET word == <<first>> \o rest
         IN /\ Cardinality({i \in DOMAIN word : word[i] = "."}) <= 1 /\ Last(word) # "."
            /\ n > 3 \/ Contains(word, ".") => expected = "int" 
            /\ Contains(word, ".") /\ n > 2 => word[n - 2] # "e"
            /\ job' = [part |-> "literal", word |-> word, expected |-> expected]

HasValue(x) == x.t \notin {"undefined", "thrown", "none"}
Absolute(p) == <<Abs1(p[1]), p[2]>>
TypeIn(x) == IF x.t = "enum" THEN P("Color") ELSE P(x.t)

\* Sums, differences and products are exact or, as an int that does not fit, undefined.
ExactResult(op, l, r, x) ==
  LET exact == CASE op = "+" -> Plus(l.v, r.v) [] op = "-" -> Minus(l.v, r.v) [] op = "*" -> Times(l.v, r.v)
  IN IF Real(l, r) THEN x.t = "double" /\ x.v = exact
     ELSE IF Fits(exact[1]) THEN x.t = "int" /\ x.v = exact ELSE x.t = "undefined"
\* Division by zero is always an exception, and quotient and remainder belong together:
\* the remainder is smaller than the divisor and has the sign of the dividend.
Divided(l, r, quotient, remainder) ==
  /\ \A x \in {quotient, remainder} : r.v = Zero => x.t = "thrown"
  /\ HasValue(quotient) /\ HasValue(remainder) =>
       /\ Plus(Times(Whole(Truncate(quotient.v)), r.v), remainder.v) = l.v
       /\ Compares("<", Absolute(remainder.v), Absolute(r.v)) /\ remainder.v[1] * l.v[1] >= 0
       /\ quotient.t = "double" => Times(quotient.v, r.v) = l.v
  /\ quotient.t = "undefined" => l.v = Whole(-Half) /\ r.v = Whole(-1)
\* The six comparisons are those of one total order.
Ordered(is, l, r) ==
  /\ Cardinality({op \in {"<", "==", ">"} : is[op]}) = 1
  /\ is["<="] = ~is[">"] /\ is[">="] = ~is["<"] /\ is["!="] = ~is["=="]
  /\ IF l.t = "string" THEN (is["=="] <=> l.v = r.v) /\ (IsStrictPrefix(l.v, r.v) => is["<"])
     ELSE is["<"] = Compares("<", l.v, r.v) /\ is["=="] = Compares("==", l.v, r.v)
BitsOf(op, l, r, x) ==
  LET a == AsInteger(l)  b == AsInteger(r)  n == AsInteger(x)
  IN CASE op = "|" -> \A i \in 0..IntBits : Bit(n, i) = Max({Bit(a, i), Bit(b, i)})
       [] op = "&" -> \A i \in 0..IntBits : Bit(n, i) = Min({Bit(a, i), Bit(b, i)})
       [] op = "<<" -> b \in 0..IntBits - 1 => Fits(n) /\ (n - a * 2 ^ b) % 2 ^ IntBits = 0
       [] op = ">>" -> b \in 0..IntBits - 1 => n * 2 ^ b <= a /\ a < (n + 1) * 2 ^ b
\* The text of an operand is not lost; with glibc that holds of numbers only where they
\* are not added to a string, and a NUL ends the text.
Joined(on, l, r, x) ==
  (on = "windows" \/ {l.t, r.t} \subseteq {"string", "char", "bool"}) /\ Value("char", Zero) \notin {l, r} =>
    x.t = "string" /\ x.v = FormatString(l) \o FormatString(r)
Repeated(l, r, x) ==
  /\ x.t = "string" /\ Len(x.v) = Len(l.v) * Max({0, AsInteger(r)})
  /\ \A i \in DOMAIN x.v : x.v[i] = l.v[((i - 1) % Len(l.v)) + 1]
\* The function registered for an operator gives what PrimitiveMathModule gives, which is
\* asked first.  Not so: sums of a char and its multiples, which are text to the table
\* and numbers to the module; equality of strings, of pointers to the table; orderings,
\* which give a number; and bytes, which wrap.
AgreesWith(op, l, r, f, x) ==
  \/ l.t = "char" /\ op \in {"+", "*"}
  \/ <<op, r.t>> = <<"+", "char">>
  \/ l.t = "string" /\ op \in {"==", "!="}
  \/ op \in {"<", "<=", ">", ">="} /\ f.v = x.v
  \/ l.t = "byte" /\ f.v = Whole(AsInteger(x) % 2 ^ ByteBits)
  \/ f.t = x.t /\ f.v = x.v
BinaryExact(on, op, l, r) ==
  LET value == [o \in AllOperators \cup {"&", ">>"} |-> On(on)!BinaryValue(o, l, r)]
      x == value[op]
      f == On(on)!InvokeOperator(op, <<l, r>>)
      type == M!ExecuteBinary(op, TypeIn(l), TypeIn(r))
      numbers == Numeric(l, r)
  IN /\ type # Absent => P(x.t) \in {type, P("thrown"), P("undefined")}
     /\ numbers /\ op \in {"+", "-", "*"} => ExactResult(op, l, r, x)
     /\ numbers /\ op = "/" => Divided(l, r, x, value["%"])
     /\ numbers /\ op = "/" => (x.t = "thrown" <=> r.v = Zero \/ r.t \in {"char", "byte", "nint"})
     /\ numbers \/ {l.t, r.t} = {"string"} => (op = "<" => Ordered([c \in {"<", "<=", "==", "!=", ">=", ">"} |-> value[c].v # Zero], l, r))
     /\ {l.t, r.t} \subseteq {"int", "char", "byte", "nint"} /\ op \in {"|", "&", "<<", ">>"} => BitsOf(op, l, r, x)
     /\ op = "+" /\ "string" \in {l.t, r.t} => Joined(on, l, r, x)
     /\ op = "*" /\ l.t = "string" /\ r.t = "int" => Repeated(l, r, x)
     /\ HasValue(f) /\ HasValue(x) => AgreesWith(op, l, r, f, x) \/ (on = "linux" /\ "string" \in {l.t, r.t})
     /\ f.t = "undefined" => ~HasValue(x)
\* What an operation undoes comes back, where both are defined.
UnaryExact(on, op, x) ==
  LET y == On(on)!UnaryValue(op, x)
      back == On(on)!UnaryValue(CASE op = "++" -> "--" [] op = "--" -> "++" [] OTHER -> op, y)
  IN /\ HasValue(y) /\ HasValue(back) => back.v = x.v
     /\ op \in {"!", "-", "+"} /\ M!IsPrimitiveType(P(x.t)) /\ (op = "!" <=> x.t = "bool") /\ x.t # "string" =>
          HasValue(y) \/ x.v = Whole(-Half)
\* A cast keeps the number, without its fraction, or takes it modulo the width of the
\* target; every narrower type comes back from an int.  Not so: a byte and a nint become
\* the character NUL, and true the character 1.
CastExact(on, t, x) ==
  LET y == On(on)!CastValue(t, x)
  IN /\ CASE "string" \in {t, x.t} -> y.t = "thrown"
          [] "string" \notin {t, x.t} /\ t = "double" -> y = FromDouble(x.v)
          [] "string" \notin {t, x.t} /\ t = "bool" -> y = FromBoolean(x.v # Zero)
          [] "string" \notin {t, x.t} /\ t \in {"int", "nint", "enum"} ->
               IF Fits(Truncate(x.v)) THEN y = Value(t, Whole(Truncate(x.v))) ELSE y.t = "undefined"
          [] "string" \notin {t, x.t} /\ t = "byte" ->
               HasValue(y) => AsInteger(y) \in 0..2 ^ ByteBits - 1 /\ (AsInteger(y) - Truncate(x.v)) % 2 ^ ByteBits = 0
          [] OTHER -> HasValue(y) /\ x.t \notin {"bool", "byte", "nint"} => (AsInteger(y) - Truncate(x.v)) % 2 ^ CharBits = 0
     /\ t = "int" /\ x.t \notin {"double", "string"} => On(on)!CastValue(x.t, y) = x

\* The numbers a word spells: prefix, digits of its base, unit.
Positional(digits, base) == MapThenSumSet(LAMBDA i : DigitOf(digits[i]) * base ^ (Len(digits) - i), DOMAIN digits)
Bases == [x |-> 16, d |-> 10, b |-> 2]
Spelled(word) ==
  {n \in {LET digits == SubSeq(word, p + 1, Len(word) - u)
              base == IF p = 0 THEN 10 ELSE IF word[2] \in DOMAIN Bases THEN Bases[word[2]] ELSE 0
              alphabet == CASE base = 16 -> {"0", "1", "2", "e", "b", "d"} [] base = 10 -> {"0", "1", "2"} [] base = 2 -> {"0", "1"} [] base = 0 -> {}
          IN IF /\ digits # <<>> /\ ToSet(digits) \subseteq alphabet
                /\ p = 2 => word[1] = "0"
                /\ u = 2 => SubSeq(word, Len(word) - 1, Len(word)) = <<"k", "b">>
             THEN Positional(digits, base) * (IF u = 2 THEN 2 ^ VolumeBits ELSE 1) ELSE -1 :
            <<p, u>> \in {<<i, j>> \in {0, 2} \X {0, 2} : i + j < Len(word)}} : n >= 0}
\* The numbers a word with a point spells: digits, point, digits, and an exponent.
Fractional(word) ==
  {Ratio(Positional(SubSeq(word, 1, dot - 1) \o SubSeq(word, dot + 1, e - 1), 10) * 10 ^ Positional(SubSeq(word, e + 1, Len(word)), 10), 10 ^ (e - 1 - dot)) :
     <<dot, e>> \in {<<i, j>> \in (2..Len(word)) \X (3..Len(word) + 1) :
       /\ i < j /\ word[i] = "." /\ (j = Len(word) + 1 \/ (j < Len(word) /\ word[j] = "e"))
       /\ \A k \in DOMAIN word \ {i, j} : word[k] \in {"0", "1", "2"}}}
\* A literal is accepted exactly when it spells a number its type can hold, and that is
\* the number pushed.  Not so: a literal where a byte is expected, which is cut off.
LiteralExact(word, expected) ==
  LET x == LiteralValue(word, expected)
  IN IF Contains(word, ".") THEN Fractional(word) = (IF HasValue(x) THEN {x.v} ELSE {})
     ELSE LET fitting == {n \in Spelled(word) : Fits(n)}
          IN (IF expected = "byte" THEN {n % 2 ^ ByteBits : n \in fitting} ELSE fitting) = (IF HasValue(x) THEN {AsInteger(x)} ELSE {})

ExactOf(question) ==
  CASE question.part = "binary" -> BinaryExact(question.on, question.op, question.l, question.r)
    [] question.part = "unary" -> UnaryExact(question.on, question.op, question.l)
    [] question.part = "convert" -> CastExact(question.on, question.op, question.l)
    [] question.part = "literal" -> LiteralExact(question.word, question.expected)

\* Operators, casts and literals of the primitive types compute what they stand for, also
\* at the ends of the ranges, and two implementations of an operator agree
\* (PrimitiveMathModule, the functions of PrimitiveOperators.cpp, ParseIntegerLiteral and
\* ParseDoubleLiteral).
ValuesExact == [][job'.part \in {"binary", "unary", "convert", "literal"} => ExactOf(job')]_job
=============================================================================
