------------------------------ MODULE MCParser ------------------------------
(***************************************************************************)
(* Sources for the parser: well-formed programs, made from a reference     *)
(* grammar that gives the tokens of a phrase and the nodes it stands for,  *)
(* and every short sequence of tokens in four contexts.                    *)
(***************************************************************************)
EXTENDS Parser, SequencesExt

\* A phrase: its tokens t and its nodes n, children first.
P(t, n) == [t |-> t, n |-> n]
Cat(ps) == P(FlattenSeq([i \in DOMAIN ps |-> ps[i].t]), FlattenSeq([i \in DOMAIN ps |-> ps[i].n]))
T(token) == P(<<token>>, <<>>)
Ts(tokens) == P(tokens, <<>>)
N(node) == P(<<>>, <<node>>)

(***************************************************************************)
(* Expressions.  The levels are those of the operators, loosest first;     *)
(* operators of one level group to the left.                               *)
(***************************************************************************)
Levels == << {"AssignOperator", "AddAssignOperator"}, {"NullCoalescingOperator"}, {"OrOperator"}, {"AndOperator"},
             {"EqualsOperator"}, {"GreaterOperator", "LessOrEqualsOperator"},
             {"LeftShiftOperator", "RangeOperator"}, {"AddOperator", "SubOperator"},
             {"MultOperator"}, {"PowOperator"} >>
Level(op) == CHOOSE i \in DOMAIN Levels : op \in Levels[i]
Infix == UNION {Levels[i] : i \in DOMAIN Levels}
InfixNode(op) == N(IF op = "RangeOperator" THEN "Range" ELSE op)

Id == P(<<"Identifier">>, <<"MemberAccess">>)
Num == P(<<"NumberLiteral">>, <<"Literal">>)
Bin(op, a, b) == Cat(<<a, T(op), b, InfixNode(op)>>)
\* a op1 b op2 c, grouped by the levels.
Mixed(op1, op2, a, b, c) ==
  IF Level(op1) < Level(op2)
  THEN Cat(<<a, T(op1), b, T(op2), c, InfixNode(op2), InfixNode(op1)>>)
  ELSE Bin(op2, Bin(op1, a, b), c)
Paren(a) == Cat(<<T("OpenCurl"), a, T("CloseCurl")>>)
Args(as) == IF as = <<>> THEN Ts(<<"OpenCurl", "CloseCurl">>)
            ELSE IF Len(as) = 1 THEN Paren(as[1])
            ELSE Cat(<<T("OpenCurl"), as[1], T("Comma"), as[2], T("CloseCurl")>>)
Invoke(as) == Cat(<<T("Identifier"), Args(as), N("Invokation")>>)
Dot(a, b) == Cat(<<a, T("Delimeter"), b>>)
Index(a, b) == Cat(<<a, T("OpenSquare"), b, T("CloseSquare"), N("Indexator")>>)
Unary(op, a) == Cat(<<T(op), a, N(<<"Unary", op>>)>>)
IntT == P(<<"IntegerKeyword">>, <<"Type">>)
Named == P(<<"Identifier">>, <<"Type">>)
ArrayOf(t) == Cat(<<t, Ts(<<"OpenSquare", "CloseSquare">>), N("ArrayType")>>)
Nullable(t) == Cat(<<t, T("Question"), N("Nullable")>>)
Generic(t) == Cat(<<Named, T("LessOperator"), t, T("GreaterOperator"), N("GenericType")>>)
\* Named<Named<t>>, closed by one token.
Generic2(t) == Cat(<<Named, T("LessOperator"), Named, T("LessOperator"), t, T("RightShiftOperator"),
                     N("GenericType"), N("GenericType")>>)
Types == {IntT, Named, ArrayOf(IntT), Nullable(Named), Generic(IntT), Generic2(IntT), ArrayOf(Generic(Named)),
          Cat(<<Named, Ts(<<"Delimeter", "Identifier">>), N("QualifiedName")>>),
          Cat(<<T("DelegateKeyword"), IntT, T("OpenCurl"), Named, N("Parameter"), T("CloseCurl"), N("DelegateType")>>)}

Params == Cat(<<Ts(<<"OpenCurl", "Identifier", "Colon">>), IntT, N("Parameter"), Ts(<<"Comma", "ValueKeyword", "Colon">>), Named, N("Parameter"), T("CloseCurl")>>)
NoParams == Ts(<<"OpenCurl", "CloseCurl">>)

Lambda(body) == Cat(<<T("LambdaKeyword"), NoParams, body, N("Lambda")>>)
Arms == Cat(<<Ts(<<"IsOperator">>), Named, T("Identifier"), N("IsPattern"), T("LambdaOperator"), Id, N("Arm"), T("Comma"),
              Num, T("LambdaOperator"), Num, N("Arm"), T("Comma"),
              T("Identifier _"), N("Literal"), T("LambdaOperator"), Id, N("Arm")>>)

\* At the start of a statement these keywords begin a statement.
KeywordExpressions ==
  {Cat(<<T("IfKeyword"), Paren(Id), Num, T("ElseKeyword"), Id, N("IfExpression")>>),
   Cat(<<T("SwitchKeyword"), Id, T("OpenBrace"), Arms, T("CloseBrace"), N("SwitchExpression")>>)}

Simple == {Id, Num, Invoke(<<Num>>), Dot(Id, Id), Unary("SubOperator", Num), Paren(Id)}

Expressions ==
  Simple
  \cup {Mixed(op1, op2, Id, Num, Id) : op1 \in Infix, op2 \in Infix \ Levels[1]}
  \cup {Bin("AssignOperator", Id, Bin(op, a, Num)) : op \in Infix \ Levels[1], a \in Simple}
  \cup {Bin("AssignOperator", Id, a) : a \in KeywordExpressions}
  \cup {Bin("MultOperator", Paren(Bin("AddOperator", Id, Id)), Num), Unary("NotOperator", Dot(Id, Invoke(<<>>))),
        Cat(<<Id, T("IncrementOperator"), N(<<"Postfix", "IncrementOperator">>)>>),
        Invoke(<<Invoke(<<Id>>), Bin("AddOperator", Num, Num)>>), Index(Id, Num), Dot(Index(Index(Id, Num), Id), Id),
        Dot(Invoke(<<>>), Dot(Id, Invoke(<<Num>>))), Dot(Paren(Bin("RangeOperator", Num, Num)), Id),
        Cat(<<T("OpenSquare"), Num, T("Comma"), Id, T("CloseSquare"), N("Collection")>>),
        Cat(<<Ts(<<"OpenSquare", "CloseSquare">>), N("Collection")>>),
        Cat(<<T("OpenSquare"), Bin("RangeOperator", Num, Num), T("CloseSquare")>>),
        Cat(<<T("NewKeyword"), Generic(IntT), Args(<<Num>>), N("New")>>),
        Cat(<<T("NewKeyword"), IntT, T("OpenSquare"), Num, T("CloseSquare"), N("NewArray")>>),
        Cat(<<Id, T("AsOperator"), IntT, N("AsOperator")>>),
        Bin("EqualsOperator", Cat(<<Id, T("IsOperator"), Named, N("IsOperator")>>), Id),
        Lambda(Cat(<<T("LambdaOperator"), Id, N("Return")>>)),
        Cat(<<T("AsyncKeyword"), Lambda(Cat(<<T("ArrowOperator"), IntT, Ts(<<"OpenBrace", "CloseBrace">>)>>))>>),
        Unary("AwaitKeyword", Dot(Id, Invoke(<<>>))),
        Cat(<<T("Identifier"), T("LessOperator"), IntT, T("GreaterOperator"), Args(<<Id>>), N("Invokation")>>),
        Cat(<<T("Identifier"), T("LessOperator"), IntT, T("GreaterOperator"), N("GenericType"), T("Delimeter"), Id>>)}

(***************************************************************************)
(* Statements.                                                             *)
(***************************************************************************)
Semi == T("Semicolon")
Exp(e) == Cat(<<e, N("ExpressionStatement")>>)
Braced(ss) == Cat(<<T("OpenBrace"), Cat(ss), T("CloseBrace")>>)
Line(e) == Cat(<<Exp(e), Semi>>)
Var == Cat(<<Ts(<<"Identifier", "DeclareAssignOperator">>), Num, N("Variable")>>)
Declared(t) == Cat(<<Ts(<<"Identifier", "Colon">>), t, T("AssignOperator"), Num, N("Variable")>>)
One == Line(Invoke(<<>>))
Keyword(k) == Cat(<<T(k), Semi, N(k)>>)
If(k, body, rest) == Cat(<<T(k), Paren(Exp(Id)), body, rest, N(k)>>)
Else(body) == Cat(<<T("ElseKeyword"), body, N("Else")>>)
Loop(k, body) == Cat(<<T(k), Paren(Id), body, N(k)>>)
Catch(t) == Cat(<<Ts(<<"CatchKeyword", "OpenCurl", "Identifier">>), t, T("CloseCurl"), Braced(<<One>>), N("Catch")>>)

Statements ==
  {Line(e) : e \in Expressions} \cup {Cat(<<Declared(t), Semi>>) : t \in Types}
  \cup {Cat(<<Var, Semi>>), Keyword("ReturnKeyword"), Cat(<<T("ReturnKeyword"), Id, Semi, N("ReturnKeyword")>>),
        Cat(<<T("ThrowKeyword"), Id, Semi, N("ThrowKeyword")>>), Keyword("BreakKeyword"), Keyword("ContinueKeyword"),
        Cat(<<T("DeferKeyword"), One, N("Defer")>>),
        If("IfKeyword", Braced(<<One>>), Cat(<<T("ElseKeyword"), If("UnlessKeyword", One, Else(Braced(<<One>>)))>>)),
        If("IfKeyword", If("IfKeyword", One, Else(One)), Ts(<<>>)),
        Loop("WhileKeyword", Braced(<<One, Keyword("BreakKeyword")>>)), Loop("UntilKeyword", Semi),
        Cat(<<Ts(<<"ForKeyword", "OpenCurl">>), Var, Semi, Bin("LessOrEqualsOperator", Id, Num), Semi,
              Exp(Cat(<<Id, T("IncrementOperator"), N(<<"Postfix", "IncrementOperator">>)>>)), T("CloseCurl"),
              Braced(<<One>>), N("For")>>),
        Cat(<<Ts(<<"ForKeyword", "Identifier", "InKeyword">>), Bin("RangeOperator", Num, Num), Braced(<<One>>), N("ForIn")>>),
        Cat(<<Ts(<<"ForeachKeyword", "OpenCurl", "Identifier", "InKeyword">>), Id, T("CloseCurl"), One, N("ForEach")>>),
        Cat(<<T("TryKeyword"), Braced(<<One>>), Catch(Cat(<<T("Colon"), Named>>)), Catch(Ts(<<>>)), N("Try")>>),
        Cat(<<T("SwitchKeyword"), Paren(Id), T("OpenBrace"), T("CaseKeyword"), Num, T("Colon"), Braced(<<One>>), N("Case"),
              Ts(<<"CaseKeyword", "IsOperator">>), Named, T("Identifier"), N("IsPattern"), T("Colon"), One, N("Case"),
              Ts(<<"DefaultKeyword", "Colon">>), Braced(<<>>), N("Case"), T("CloseBrace"), N("Switch")>>)}

(***************************************************************************)
(* Members and compilation units.                                          *)
(***************************************************************************)
Method(body) == Cat(<<Ts(<<"FunctionKeyword", "Identifier">>), NoParams, T("ArrowOperator"), IntT, body, N("Method")>>)
ArrowBody == Cat(<<T("LambdaOperator"), Id, N("Return"), Semi>>)
Where == Cat(<<Ts(<<"WhereKeyword", "Identifier", "Colon">>), Named, N("Where")>>)
Accessor(k, body) == Cat(<<T(k), body, N("Accessor")>>)
Members ==
  {Method(Braced(<<One, Keyword("ReturnKeyword")>>)), Method(Semi), Method(ArrowBody),
   Cat(<<Ts(<<"PublicKeyword", "StaticKeyword", "AsyncKeyword">>), Method(Braced(<<>>))>>),
   Cat(<<Ts(<<"FunctionKeyword", "Identifier", "LessOperator", "Identifier", "GreaterOperator">>), Params,
         T("ArrowOperator"), IntT, Where, Semi, N("Method")>>),
   Cat(<<Ts(<<"PublicKeyword", "OperatorKeyword", "AddOperator">>), Params, T("ArrowOperator"), IntT, ArrowBody, N("Operator")>>),
   Cat(<<T("InitKeyword"), Params, Braced(<<One>>), N("Constructor")>>),
   Cat(<<Ts(<<"Identifier", "Colon">>), IntT, T("AssignOperator"), Num, Semi, N("Field")>>),
   Cat(<<Ts(<<"Identifier", "Colon">>), Nullable(Named), Semi, N("Field")>>),
   Cat(<<Ts(<<"Identifier", "Colon">>), IntT, T("ArrowOperator"), Id, Semi, N("Property")>>),
   Cat(<<Ts(<<"Identifier", "Colon">>), IntT, T("OpenBrace"), Accessor("GetKeyword", Semi),
         T("PrivateKeyword"), Accessor("SetKeyword", Braced(<<One>>)), T("CloseBrace"), N("Property")>>),
   Cat(<<Ts(<<"IndexerKeyword", "OpenSquare", "Identifier", "Colon">>), IntT, N("Parameter"), Ts(<<"CloseSquare", "Colon">>), IntT,
         T("OpenBrace"), Accessor("GetKeyword", ArrowBody), T("CloseBrace"), N("Indexator")>>),
   Cat(<<Ts(<<"DelegateKeyword", "Identifier">>), Params, T("ArrowOperator"), IntT, Semi, N("Delegate")>>),
   Cat(<<Ts(<<"EnumKeyword", "Identifier", "Colon", "Identifier flags", "OpenBrace", "Identifier", "AssignOperator">>), Num,
         N("EnumField"), Ts(<<"Comma", "Identifier">>), N("EnumField"), T("CloseBrace"), N("Enum")>>),
   Cat(<<Ts(<<"InterfaceKeyword", "Identifier", "OpenBrace", "Identifier", "Colon">>), IntT, Semi, N("Property"),
         T("CloseBrace"), N("Interface")>>),
   Cat(<<Ts(<<"OpenSquare", "Identifier", "OpenCurl", "StringLiteral", "CloseCurl", "CloseSquare">>), N("Attribute"), Method(Semi)>>)}

ClassOf(k, node, ms) == Cat(<<T("PublicKeyword"), T(k), T("Identifier"), Braced(ms), N(node)>>)
Units ==
  {Cat(<<Ts(<<"UsingKeyword", "Identifier", "Delimeter", "Identifier", "Semicolon">>), N("Using"),
         Ts(<<"NamespaceKeyword", "Identifier", "Semicolon">>), N("Namespace"), Method(Semi)>>),
   Cat(<<Ts(<<"StructKeyword", "Identifier", "LessOperator", "Identifier", "Comma", "Identifier", "GreaterOperator">>), Where,
         T("Colon"), Named, T("Comma"), Generic(IntT), Braced(<<Method(Semi), Method(ArrowBody)>>), N("Struct")>>)}

WellFormed ==
  {Method(Braced(<<s>>)) : s \in Statements} \cup {ClassOf("ClassKeyword", "Class", <<m>>) : m \in Members} \cup Units

(***************************************************************************)
(* Short sequences of tokens in a context.                                 *)
(***************************************************************************)
CONSTANT Length     \* how many tokens are put into a context

Top == {"Identifier", "Colon", "Semicolon", "OpenBrace", "CloseBrace", "OpenSquare", "UsingKeyword", "NamespaceKeyword",
        "ClassKeyword", "EnumKeyword", "FunctionKeyword", "IntegerKeyword", "NumberLiteral"}
InClass == {"Identifier", "Colon", "Semicolon", "OpenBrace", "CloseBrace", "OpenCurl", "PublicKeyword", "GetKeyword",
            "IndexerKeyword", "OperatorKeyword", "InitKeyword", "IntegerKeyword", "LambdaOperator"}
InMethod == {"Identifier", "Colon", "Semicolon", "OpenBrace", "CloseBrace", "OpenCurl", "CloseCurl", "IfKeyword",
             "ElseKeyword", "TryKeyword", "CatchKeyword", "SwitchKeyword", "CaseKeyword", "ForKeyword", "DeferKeyword"}
InExpression == {"Identifier", "NumberLiteral", "Comma", "Semicolon", "OpenCurl", "CloseCurl", "OpenSquare", "CloseSquare",
                 "Delimeter", "LessOperator", "RightShiftOperator", "RangeOperator", "LambdaKeyword", "LambdaOperator",
                 "NewKeyword", "Question", "AwaitKeyword"}
Shorts(S) == UNION {[1..n -> S] : n \in 0..Length}
MethodHead == <<"FunctionKeyword", "Identifier", "OpenCurl", "CloseCurl", "ArrowOperator", "VoidKeyword", "OpenBrace">>
Fragments ==
  Shorts(Top)
  \cup {<<"ClassKeyword", "Identifier", "OpenBrace">> \o s \o <<"CloseBrace">> : s \in Shorts(InClass)}
  \cup {MethodHead \o s \o <<"CloseBrace">> : s \in Shorts(InMethod)}
  \cup {MethodHead \o <<"ReturnKeyword">> \o s \o <<"Semicolon", "CloseBrace">> : s \in Shorts(InExpression)}

AllSources == Fragments \cup {p.t : p \in WellFormed}

(***************************************************************************)
(* Properties.                                                             *)
(***************************************************************************)
\* A program of the reference grammar is read without a diagnostic, completely,
\* and into the nodes the grammar gives it: precedence and grouping of operators,
\* dangling else, ">>" that closes two type argument lists, generic calls
\* against comparisons.
WellFormedParsed ==
  todo = <<>> => \A p \in WellFormed :
    p.t = source => ~reported /\ dropped = {} /\ pos = Len(source) + 1 /\ nodes = p.n

\* While nothing has been reported no token was skipped by error recovery; the
\* two silent gaps of the code are TryMatchIdentifier, which skips tokens in
\* front of a name, and ReadLinkedExpressionNode, which loses its node in front
\* of a token that is neither operator nor punctuation.
SkipsReported == ~reported => dropped \subseteq {"identifier", "member"}

\* The parser ends on every input: every loop of error recovery consumes a
\* token or leaves, so the guards of 10000 iterations are never what ends it.
Terminates == <>(todo = <<>>)
=============================================================================
