------------------------------- MODULE Parser -------------------------------
(***************************************************************************)
(* SourceParser as a machine with an explicit stack.  Each Read function   *)
(* of the C++ class is an operator whose value is the sequence of          *)
(* instructions its body performs: expect a token, consume one, report an  *)
(* error, test the current token, call another Read function.  A call      *)
(* puts the callee's instructions on top of todo, so one step of the       *)
(* machine is one step of the recursive descent and the loops of the code  *)
(* are calls in tail position.  Peek and the tests on earlier results are  *)
(* evaluated when the Read function is entered.                            *)
(*                                                                         *)
(* Left out: text and locations of tokens and diagnostics, the guards that *)
(* stop a loop after 10000 iterations (Terminates says that no loop spins) *)
(* and ReadTernaryExpression, which nothing calls.                         *)
(***************************************************************************)
EXTENDS Integers, Sequences, FiniteSetsExt

CONSTANTS Sources,                  \* the token sequences to parse
          MaxExpressionDepth, MaxExpressionOperators,
          MaxBlockDepth, MaxLinkedExpressionDepth

VARIABLES source,     \* the token sequence being parsed
          input,      \* the same with >> split where PutBackToken did
          pos,        \* index of the current token
          todo,       \* instructions still to perform, the next one first
          ret,        \* what the last Read function returned
          nodes,      \* the nodes built, children before parents
          reported,   \* a diagnostic was reported
          dropped,    \* why tokens were left out of the tree
          depth       \* ExpressionDepth, BlockDepth, ... of the parser

vars == <<source, input, pos, todo, ret, nodes, reported, dropped, depth>>

\* LexicalAnalyzer::Current and Peek: behind the last token is EndOfFile.
At(i) == IF i \in DOMAIN input THEN input[i] ELSE "EndOfFile"
Cur == At(pos)
Peek(n) == At(pos + 1 + n)
CanConsume == Cur # "EndOfFile"

(***************************************************************************)
(* The tables of SyntaxFacts.cpp that SourceParser decides with: classes   *)
(* of tokens and the precedence of operators.  A token is the name of its  *)
(* TokenType; words that the parser compares by their spelling ("_",       *)
(* "flags" and the name of an operator) are identifiers of their own.      *)
(***************************************************************************)
Identifiers == {"Identifier", "Identifier _", "Identifier flags", "Identifier AddOperator"}

GetOperatorPrecendence(t) ==
  CASE t = "OpenCurl" -> 12
    [] t \in {"IncrementOperator", "DecrementOperator", "AwaitKeyword"} -> 11
    [] t = "PowOperator" -> 10
    [] t \in {"MultOperator", "DivOperator", "ModOperator"} -> 9
    [] t \in {"AddOperator", "SubOperator"} -> 8
    [] t \in {"LeftShiftOperator", "RightShiftOperator", "RangeOperator", "RangeInclusiveOperator"} -> 7
    [] t \in {"LessOperator", "LessOrEqualsOperator", "GreaterOperator", "GreaterOrEqualsOperator"} -> 6
    [] t \in {"EqualsOperator", "NotEqualsOperator", "IsOperator", "AsOperator"} -> 5
    [] t = "AndOperator" -> 4
    [] t = "OrOperator" -> 3
    [] t \in {"NullCoalescingOperator", "Question"} -> 2
    [] t \in {"AssignOperator", "AddAssignOperator", "SubAssignOperator", "MultAssignOperator",
              "DivAssignOperator", "ModAssignOperator", "PowAssignOperator",
              "OrAssignOperator", "AndAssignOperator"} -> 1
    [] OTHER -> 0

BinaryArithmeticOperators ==
  {"AddOperator", "SubOperator", "MultOperator", "DivOperator", "ModOperator", "PowOperator",
   "AddAssignOperator", "SubAssignOperator", "MultAssignOperator", "DivAssignOperator",
   "ModAssignOperator", "PowAssignOperator"}

BinaryBooleanOperators ==
  {"LessOperator", "LessOrEqualsOperator", "GreaterOperator", "GreaterOrEqualsOperator",
   "EqualsOperator", "NotEqualsOperator", "AndOperator", "OrOperator"}

BinaryOperators ==
  BinaryArithmeticOperators \cup BinaryBooleanOperators
    \cup {"LeftShiftOperator", "RightShiftOperator", "NullCoalescingOperator",
          "RangeOperator", "RangeInclusiveOperator", "IsOperator", "AsOperator"}

RightUnaryOperators == {"IncrementOperator", "DecrementOperator", "NotOperator"}

LeftUnaryOperators == {"SubOperator", "AddOperator", "IncrementOperator", "DecrementOperator"}

Operators == {"AssignOperator"} \cup LeftUnaryOperators \cup RightUnaryOperators \cup BinaryOperators

PredefinedTypes ==
  {"VoidKeyword", "VarKeyword", "IntegerKeyword", "DoubleKeyword", "ByteKeyword",
   "NativeIntegerKeyword", "CharKeyword", "StringKeyword", "BooleanKeyword"}

Modifiers ==
  {"PublicKeyword", "PrivateKeyword", "ProtectedKeyword", "InternalKeyword", "StaticKeyword",
   "AsyncKeyword", "ExternKeyword", "ExportKeyword"}

TypeKeywords == {"ClassKeyword", "StructKeyword", "InterfaceKeyword", "DelegateKeyword", "EnumKeyword"}

IsMemberDeclaration(t, next) ==
  \/ t \in Modifiers \cup TypeKeywords
  \/ t \in {"IndexerKeyword", "FunctionKeyword", "InitKeyword", "OpenSquare"}
  \/ t \in Identifiers /\ next = "Colon"

Keywords ==
  {"ForKeyword", "WhileKeyword", "UntilKeyword", "DoKeyword", "ForeachKeyword",
   "IfKeyword", "UnlessKeyword", "ElseKeyword", "SwitchKeyword",
   "BreakKeyword", "ContinueKeyword", "ReturnKeyword", "ThrowKeyword", "TryKeyword",
   "CatchKeyword", "DeferKeyword"}

Punctuation ==
  {"OpenBrace", "CloseBrace", "OpenCurl", "CloseCurl", "OpenSquare", "CloseSquare",
   "Question", "Delimeter", "Comma", "Colon", "Semicolon"}

ReservedIdentifiers == {"ValueKeyword", "FieldKeyword", "WhileKeyword"}

\* The operators GetOperatorMethodName has a method name for.
OverloadableOperators ==
  BinaryArithmeticOperators \cup BinaryBooleanOperators \cup RightUnaryOperators
    \cup {"OrAssignOperator", "AndAssignOperator", "RightShiftOperator", "LeftShiftOperator",
          "Delimeter", "AsOperator"}

(***************************************************************************)
(* Instructions.                                                           *)
(***************************************************************************)
X(t) == <<"expect", t>>                            \* Expect
C == <<"consume">>                                 \* reader.Consume()
Drop == <<"drop">>                                 \* Consume of a token no node gets
SkipTo(S) == <<"skip", S>>                         \* while (Current not in S) Consume
Err == <<"error">>                                 \* Diagnostics.ReportError
Node(n) == <<"node", n>>
Ret(r) == <<"return", r>>
Lose == <<"lose">>                                 \* a node that was built is not returned
Crash == <<"crash">>                               \* a null pointer is dereferenced
Call(f) == <<"call", f, "-">>
CallWith(f, a) == <<"call", f, a>>
On(S, then, else) == <<"on", S, then, else>>       \* if (Current().Type in S)
IfNull(then, else) == <<"ifnull", then, else>>     \* if (result == nullptr)
Match(S, report, n, then, else) == <<"match", S, report, n, then, else>>
Ident(n, then, else) == <<"ident", n, then, else>>
Guard(d, over, body) == <<"guard", d, over, body>> \* the DepthGuard objects
Leave(d) == <<"leave", d>>
Count(over, body) == <<"count", over, body>>       \* ++OperatorsInExpression
Reset == <<"reset">>                               \* OperatorsInExpression = 0
When(b, items) == IF b THEN items ELSE <<>>

Eof == {"EndOfFile"}
Ok == Ret("node")
Null == Ret("null")
Expression == CallWith("Expression", <<0, TRUE>>)
Type == CallWith("Type", TRUE)
Block == Call("StatementsBlock")

(***************************************************************************)
(* Compilation units and members.                                          *)
(***************************************************************************)
CanStartCompilationUnit(t) ==
  t \in {"UsingKeyword", "NamespaceKeyword", "FunctionKeyword", "InitKeyword", "OpenSquare",
         "IndexerKeyword"} \cup Modifiers \cup TypeKeywords

SynchronizeToNextTopLevel(braces, parens) ==
  IF ~CanConsume \/ (braces = 0 /\ parens = 0 /\ CanStartCompilationUnit(Cur)) THEN <<>>
  ELSE LET step(n, open, close) == IF Cur = open THEN n + 1
                                   ELSE IF Cur = close /\ n > 0 THEN n - 1 ELSE n
       IN  <<Drop, CallWith("SynchronizeToNextTopLevel",
                            <<step(braces, "OpenBrace", "CloseBrace"),
                              step(parens, "OpenCurl", "CloseCurl")>>)>>

\* The loop of ReadCompilationUnit; the unit has a namespace, has members.
ReadCompilationUnit(hasNamespace, hasMembers) ==
  LET again(ns, mem) == CallWith("CompilationUnit", <<ns, mem>>)
  IN CASE ~CanConsume -> <<>>
       [] Cur = "UsingKeyword" ->
            When(hasNamespace \/ hasMembers, <<Err>>)
              \o <<Call("UsingDirective"), again(hasNamespace, hasMembers)>>
       [] Cur = "NamespaceKeyword" ->
            When(hasMembers, <<Err>>)
              \o (IF hasNamespace THEN <<Err, Drop, SkipTo({"Semicolon"}), Drop>>
                                  ELSE <<Call("NamespaceDeclaration")>>)
              \o <<again(TRUE, hasMembers)>>
       [] IsMemberDeclaration(Cur, Peek(0)) ->
            <<CallWith("MemberDeclaration", "CompilationUnit"),
              IfNull(<<CallWith("SynchronizeToNextTopLevel", <<0, 0>>), again(hasNamespace, hasMembers)>>,
                     <<again(hasNamespace, TRUE)>>)>>
       [] OTHER -> <<Err, Drop, again(hasNamespace, hasMembers)>>

ReadUsingDirective == <<X("UsingKeyword"), Call("UsingNames"), Node("Using")>>

UsingNames ==
  <<On(Eof, <<>>,
     <<Ident(3,
        <<C, Match({"Delimeter", "Semicolon"}, TRUE, 3,
               <<On({"Semicolon"}, <<C>>, <<C, Call("UsingNames")>>)>>, <<>>)>>,
        <<Match({"Semicolon"}, FALSE, 10, <<C>>, <<>>)>>)>>)>>

ReadNamespaceDeclaration ==
  <<X("NamespaceKeyword"), Ident(5, <<C>>, <<>>), Call("NamespaceNames"),
    X("Semicolon"), Node("Namespace")>>

NamespaceNames ==
  <<On({"Delimeter"}, <<C, Ident(5, <<C, Call("NamespaceNames")>>, <<>>)>>, <<>>)>>

ReadMemberDeclaration(parent) ==
  <<Call("AttributeList"), CallWith("MemberModifiers", <<{}, 0>>), CallWith("Declaration", parent)>>

\* ReadMemberDeclaration after the modifiers.
Declaration(parent) ==
  CASE ~CanConsume -> <<Null>>
    [] Cur = "ClassKeyword" -> <<C, Call("ClassDeclaration")>>
    [] Cur = "StructKeyword" -> <<C, Call("StructDeclaration")>>
    [] Cur = "InterfaceKeyword" -> <<C, Call("InterfaceDeclaration")>>
    [] Cur = "DelegateKeyword" -> <<C, Call("DelegateDeclaration")>>
    [] Cur = "EnumKeyword" -> <<C, Call("EnumDeclaration")>>
    [] Cur = "FunctionKeyword" ->
         <<C, Ident(3, <<C>>, <<>>), On({"LessOperator"}, <<Call("TypeParametersList")>>, <<>>),
           Call("MethodDeclaration")>>
    [] Cur = "OperatorKeyword" -> <<C, Call("OperatorDeclaration")>>
    [] Cur = "InitKeyword" -> <<C, Call("ConstructorDeclaration")>>
    [] Cur = "IndexerKeyword" -> <<C, Call("IndexatorDeclaration")>>
    [] Cur \in Identifiers ->
         <<C, On({"OpenCurl"}, <<Err, Call("MethodDeclaration")>>,
                 <<Match({"Colon"}, TRUE, 3,
                     <<C, Type, IfNull(<<Err, Null>>, <<CallWith("TypedMember", parent)>>)>>,
                     <<Null>>)>>)>>
    [] Cur \in PredefinedTypes -> <<Err, Null>>
    [] OTHER -> <<Err, Drop, Null>>

\* ReadMemberDeclaration after "name: type".
TypedMember(parent) ==
  CASE Cur = "OpenBrace" -> <<Call("PropertyDeclaration")>>
    [] Cur = "ArrowOperator" -> <<Call("ComputedPropertyDeclaration")>>
    [] Cur \in {"AssignOperator", "Semicolon"} ->
         IF parent # "Interface" THEN <<Call("FieldDeclaration")>>
         ELSE IF Cur = "AssignOperator" THEN <<Err, Null>>
         ELSE <<C, Node("Property"), Ok>>
    [] OTHER -> <<Err, Null>>

WhereClauses == <<Call("WhereClauses")>>
TypeHead == <<Ident(5, <<C>>, <<>>), On({"LessOperator"}, <<Call("TypeParametersList")>>, <<>>)>> \o WhereClauses
TypeTail(kind) ==
  <<Match({"OpenBrace", "Semicolon"}, TRUE, 5,
          <<On({"OpenBrace"}, <<X("OpenBrace"), CallWith("TypeBody", kind)>>, <<>>)>>, <<>>),
    Node(kind), Ok>>
BaseInterfaces == <<On({"Colon"}, <<C, Call("BaseInterfacesList")>>, <<>>)>>

ReadClassDeclaration == TypeHead \o BaseInterfaces \o TypeTail("Class")
ReadStructDeclaration == TypeHead \o BaseInterfaces \o TypeTail("Struct")
ReadInterfaceDeclaration == TypeHead \o TypeTail("Interface")

ReadBaseInterfacesList ==
  IF ~CanConsume THEN <<>>
  ELSE IF Cur \notin Identifiers THEN <<Err>>
  ELSE <<Type, On({"Comma"}, <<C, Call("BaseInterfacesList")>>, <<>>)>>

\* The loop of ReadTypeBody behind the opening brace.
ReadTypeBody(kind) ==
  LET again == CallWith("TypeBody", kind)
  IN CASE ~CanConsume -> <<>>
       [] Cur = "CloseBrace" -> <<C>>
       [] IsMemberDeclaration(Cur, Peek(0)) ->
            <<CallWith("MemberDeclaration", kind),
              IfNull(<<Match({"CloseBrace"}, FALSE, 10, <<again>>, <<>>)>>, <<again>>)>>
       [] OTHER -> <<Err, Match({"CloseBrace"}, FALSE, 5, <<again>>, <<Drop, again>>)>>

\* A body in braces, or "=> expr" and a semicolon.  The code looks at the
\* OpenBraceToken of the block it got, which a block nested too deeply lacks.
ReadMethodBodyAndSemicolon ==
  IF Cur = "OpenBrace" /\ depth.block < MaxBlockDepth
  THEN <<Block, Ok>>
  ELSE <<Call("ExpressionBodyOrBlock"), X("Semicolon"), Ok>>

ReturnType(arrow) == <<On({arrow}, <<C, Type>>, <<Err>>)>>
SignatureEnd(node) ==
  <<On({"Semicolon"}, <<C>>, <<Call("MethodBodyAndSemicolon")>>), Node(node), Ok>>

ReadMethodDeclaration ==
  <<Call("ParametersList")>> \o ReturnType("ArrowOperator") \o WhereClauses \o SignatureEnd("Method")

ReadOperatorDeclaration ==
  When(Cur \notin OverloadableOperators \cup {"Identifier AddOperator"}, <<Err>>)
    \o <<C, Call("ParametersList")>> \o ReturnType("ArrowOperator") \o WhereClauses
    \o SignatureEnd("Operator")

ReadConstructorDeclaration ==
  <<Call("ParametersList"),
    On({"ArrowOperator"}, <<Err, C, On({"OpenBrace", "Semicolon"}, <<>>, <<Type>>)>>, <<>>)>>
    \o SignatureEnd("Constructor")

ReadFieldDeclaration ==
  <<On({"AssignOperator"}, <<C, Expression, X("Semicolon")>>, <<X("Semicolon")>>), Node("Field"), Ok>>

ReadComputedPropertyDeclaration ==
  <<X("ArrowOperator"), Expression, X("Semicolon"), Node("Property"), Ok>>

ReadDelegateDeclaration ==
  TypeHead \o <<Call("ParametersList"), On({"ArrowOperator"}, <<C, Type>>, <<>>), X("Semicolon"),
                Node("Delegate"), Ok>>

ReadEnumDeclaration ==
  <<Ident(5, <<C>>, <<>>),
    On({"Colon"}, <<C, On({"Identifier flags", "IntegerKeyword", "LongKeyword"}, <<C>>, <<Err>>)>>, <<>>),
    Match({"OpenBrace", "Semicolon"}, TRUE, 5,
          <<On({"OpenBrace"}, <<X("OpenBrace"), Call("EnumBody")>>, <<>>)>>, <<>>),
    Node("Enum"), Ok>>

\* The loop of ReadEnumBody.
ReadEnumBody ==
  CASE ~CanConsume -> <<>>
    [] Cur = "CloseBrace" -> <<C>>
    [] OTHER ->
         (IF Cur \in Identifiers THEN <<Call("EnumFieldDeclaration")>> ELSE <<Err, Drop>>)
           \o <<On({"Comma"}, <<C, Call("EnumBody")>>,
                  <<On({"CloseBrace"}, <<C>>, <<Err>>)>>)>>

ReadEnumFieldDeclaration ==
  <<On(Identifiers, <<C>>, <<>>), On({"AssignOperator"}, <<C, Expression>>, <<>>), Node("EnumField")>>

ReadPropertyDeclaration == <<X("OpenBrace"), CallWith("Accessors", {}), Node("Property"), Ok>>

ReadIndexatorDeclaration ==
  <<Call("IndexerParametersList")>> \o ReturnType("Colon")
    \o <<X("OpenBrace"), CallWith("Accessors", {}), Node("Indexator"), Ok>>

\* The loop over the accessors, with those seen so far.
Accessors(seen) ==
  CASE ~CanConsume -> When(seen = {}, <<Err>>)
    [] Cur = "CloseBrace" -> <<C>> \o When(seen = {}, <<Err>>)
    [] Cur \in Modifiers \cup {"GetKeyword", "SetKeyword", "OpenSquare"} ->
         <<Call("AccessorDeclaration"), CallWith("AccessorRead", seen)>>
    [] OTHER -> <<Err, Match({"GetKeyword", "SetKeyword", "CloseBrace"}, FALSE, 5, <<>>, <<Drop>>),
                  CallWith("Accessors", seen)>>

AccessorRead(seen) ==
  When(ret \in seen \cup {"null"}, <<Err>>) \o <<CallWith("Accessors", (seen \cup {ret}) \ {"null"})>>

ReadAccessorDeclaration ==
  <<Call("AttributeList"),
    On(Eof, <<Err, Null>>,
       <<CallWith("MemberModifiers", <<{}, 0>>),
         Match({"SetKeyword", "GetKeyword"}, TRUE, 5,
               <<On({"GetKeyword"}, <<C, Call("AccessorBody"), Ret("get")>>,
                                    <<C, Call("AccessorBody"), Ret("set")>>)>>,
               <<Null>>)>>)>>

\* The switch tests the token read before TryMatch skipped to a usable one.
AccessorBody ==
  CASE Cur = "Semicolon" -> <<C, Node("Accessor")>>
    [] Cur = "OpenBrace" -> <<Call("ExpressionBodyOrBlock"), Node("Accessor")>>
    [] Cur = "LambdaOperator" -> <<Call("ExpressionBodyOrBlock"), X("Semicolon"), Node("Accessor")>>
    [] OTHER -> <<Match({"Semicolon", "OpenBrace", "LambdaOperator"}, TRUE, 5, <<Err, Drop>>, <<>>)>>

ModifierOrder == <<"PublicKeyword", "PrivateKeyword", "ProtectedKeyword", "InternalKeyword",
                   "ExportKeyword", "StaticKeyword", "AsyncKeyword", "ExternKeyword">>

\* The loop of ReadMemberModifiers, with the modifiers seen and the next index in order.
ReadMemberModifiers(seen, next) ==
  IF Cur \notin Modifiers THEN <<>>
  ELSE IF Cur \in seen THEN <<Err, Drop, CallWith("MemberModifiers", <<seen, next>>)>>
  ELSE LET i == CHOOSE k \in DOMAIN ModifierOrder : ModifierOrder[k] = Cur
       IN  <<C>> \o When(i < next, <<Err>>)
             \o <<CallWith("MemberModifiers", <<seen \cup {Cur}, IF i < next THEN next ELSE i + 1>>)>>

ReadAttributeList ==
  When(Cur = "OpenSquare", <<Call("Attribute"), Call("AttributeList")>>)

ReadAttribute ==
  <<X("OpenSquare"), X("Identifier"),
    On({"OpenCurl"}, <<C, Call("AttributeArguments"), X("CloseCurl")>>, <<>>),
    X("CloseSquare"), Node("Attribute")>>

AttributeArguments ==
  IF Cur \in {"CloseCurl", "EndOfFile"} THEN <<>>
  ELSE (IF Cur = "StringLiteral" THEN <<C>> ELSE <<Err, Drop>>)
         \o <<On({"Comma"}, <<C, Call("AttributeArguments")>>,
                <<On({"CloseCurl"}, <<Call("AttributeArguments")>>, <<Err>>)>>)>>

(***************************************************************************)
(* Lists.  A list is closed at once, or is read item by item; a separator  *)
(* that is neither found nor reached by skipping ends it.                  *)
(***************************************************************************)
ListOf(open, close, items) == <<X(open), On({close}, <<C>>, <<Call(items)>>)>>
Separator(sep, close, items) ==
  <<Match({sep, close}, TRUE, 3, <<On({close}, <<C>>, <<C, Call(items)>>)>>, <<>>)>>

ReadParametersList == ListOf("OpenCurl", "CloseCurl", "Parameters")
ReadIndexerParametersList == ListOf("OpenSquare", "CloseSquare", "IndexerParameters")

ParameterRest(close, items) ==
  <<X("Colon"), Type, Node("Parameter")>> \o Separator("Comma", close, items)

Parameters ==
  IF ~CanConsume THEN <<>>
  ELSE IF Cur = "ValueKeyword" THEN <<C>> \o ParameterRest("CloseCurl", "Parameters")
  ELSE <<Ident(3, <<C>> \o ParameterRest("CloseCurl", "Parameters"),
               <<On({"CloseCurl"}, <<Err, C>>, ParameterRest("CloseCurl", "Parameters"))>>)>>

IndexerParameters ==
  IF ~CanConsume THEN <<>>
  ELSE <<Ident(3, <<C>> \o ParameterRest("CloseSquare", "IndexerParameters"),
               <<On({"CloseSquare"}, <<Err, C>>, ParameterRest("CloseSquare", "IndexerParameters"))>>)>>

ReadDelegateParametersList == ListOf("OpenCurl", "CloseCurl", "DelegateParameters")
DelegateParameters ==
  When(CanConsume, <<Type, Node("Parameter")>> \o Separator("Comma", "CloseCurl", "DelegateParameters"))

ReadWhereClauses == When(Cur = "WhereKeyword", <<Call("WhereClause"), Call("WhereClauses")>>)

ReadWhereClause ==
  <<X("WhereKeyword"), X("Identifier"), X("Colon"), CallWith("Constraints", 0), Node("Where")>>

\* The loop of ReadWhereClause, with the number of constraints read (0, 1).
Constraints(n) ==
  IF Cur \in Identifiers \cup PredefinedTypes \cup {"DelegateKeyword"}
  THEN <<Type, On({"Comma"}, <<C, CallWith("Constraints", 1)>>, <<>>)>>
  ELSE When(n = 0, <<Err>>)

ReadTypeParametersList ==
  <<X("LessOperator"), On({"GreaterOperator"}, <<Err, C>>, <<Call("TypeParameters")>>)>>
TypeParameters ==
  When(CanConsume, <<X("Identifier")>> \o Separator("Comma", "GreaterOperator", "TypeParameters"))

\* ">>" closes two lists: one ">" stays behind as the current token.
ReadTypeArgumentsList ==
  <<X("LessOperator"),
    On({"GreaterOperator"}, <<Err, C>>,
       <<On({"RightShiftOperator"}, <<<<"split">>>>, <<Call("TypeArguments")>>)>>)>>
TypeArguments ==
  When(CanConsume,
       <<Type, On({"RightShiftOperator"}, <<<<"split">>>>,
                  Separator("Comma", "GreaterOperator", "TypeArguments"))>>)

(***************************************************************************)
(* Types.                                                                  *)
(***************************************************************************)
ReadType(allowArray) ==
  CASE Cur \in PredefinedTypes -> <<C, Node("Type"), CallWith("ModifiedType", allowArray)>>
    [] Cur = "DelegateKeyword" ->
         <<X("DelegateKeyword"), CallWith("Type", allowArray), Call("DelegateParametersList"),
           Node("DelegateType"), CallWith("ModifiedType", allowArray)>>
    [] Cur \in Identifiers -> <<X("Identifier"), Node("Type"), CallWith("ModifiedType", allowArray)>>
    [] OTHER -> <<Err, Null>>

ReadModifiedType(allowArray) ==
  LET again == CallWith("ModifiedType", allowArray)
  IN CASE Cur = "Question" -> <<C, Node("Nullable"), Ok>>
       [] Cur = "OpenSquare" /\ allowArray -> <<X("OpenSquare"), X("CloseSquare"), Node("ArrayType"), again>>
       [] Cur = "LessOperator" -> <<Call("TypeArgumentsList"), Node("GenericType"), again>>
       [] Cur = "Delimeter" -> <<C, X("Identifier"), Node("QualifiedName"), again>>
       [] OTHER -> <<Ok>>

(***************************************************************************)
(* Statements.                                                             *)
(***************************************************************************)
ReadStatementsBlock ==
  <<Guard("block", <<Err, SkipTo({"CloseBrace"}), Drop>>, <<Call("BlockBody")>>)>>

BlockBody ==
  CASE ~CanConsume -> <<Err>>
    [] Cur = "Semicolon" -> <<C>>
    [] Cur = "OpenBrace" -> <<C, Call("BlockStatements")>>
    [] Cur \in Keywords -> <<Call("KeywordStatement")>>
    [] OTHER -> <<Call("Statement"), IfNull(<<>>, <<X("Semicolon")>>)>>

\* The loop of ReadStatementsBlock; a block left without "}" is reported.
BlockStatements ==
  LET recover == <<Match({"CloseBrace"}, FALSE, 5, <<Call("BlockStatements")>>, <<Err>>)>>
  IN CASE ~CanConsume -> <<Err>>
       [] Cur = "CloseBrace" -> <<C>>
       [] Cur \in Keywords -> <<Call("KeywordStatement"), IfNull(recover, <<Call("BlockStatements")>>)>>
       [] OTHER -> <<Call("Statement"), IfNull(recover, <<X("Semicolon"), Call("BlockStatements")>>)>>

ReadExpressionBodyOrBlock ==
  CASE Cur = "LambdaOperator" -> <<C, Expression, Node("Return")>>
    [] Cur \in {"OpenBrace", "Semicolon"} -> <<Block>>
    [] OTHER -> <<Err>>

ReadStatement ==
  CASE Cur = "Semicolon" -> <<Node("Empty"), Ok>>
    [] Cur \in Identifiers /\ Peek(0) = "Colon" ->
         <<C, C, Type,
           IfNull(<<Err, Null>>,
                  <<On({"AssignOperator"}, <<C, Expression>>, <<Err>>), Node("Variable"), Ok>>)>>
    [] Cur \in Identifiers /\ Peek(0) = "DeclareAssignOperator" ->
         <<C, C, Expression, Node("Variable"), Ok>>
    [] Cur \in PredefinedTypes /\ Peek(0) \in Identifiers ->
         <<Err, C, C, On({"AssignOperator"}, <<C, Expression>>, <<SkipTo({"Semicolon"})>>),
           Node("Variable"), Ok>>
    [] OTHER -> <<Expression, Node("ExpressionStatement"), Ok>>

ReadKeywordStatement ==
  CASE Cur = "ForKeyword" ->
         IF \/ Peek(0) \in Identifiers /\ Peek(1) = "InKeyword"
            \/ Peek(0) = "OpenCurl" /\ Peek(1) \in Identifiers /\ Peek(2) = "InKeyword"
         THEN <<CallWith("ForInStatement", "ForIn")>> ELSE <<Call("ForStatement")>>
    [] Cur = "ForeachKeyword" -> <<CallWith("ForInStatement", "ForEach")>>
    [] Cur \in {"WhileKeyword", "UntilKeyword"} -> <<CallWith("WhileStatement", Cur)>>
    [] Cur \in {"ReturnKeyword", "ThrowKeyword"} -> <<CallWith("ReturnStatement", Cur)>>
    [] Cur \in {"BreakKeyword", "ContinueKeyword"} -> <<CallWith("BreakStatement", Cur)>>
    [] Cur \in {"IfKeyword", "UnlessKeyword"} -> <<Call("ConditionalClause")>>
    [] Cur = "TryKeyword" -> <<Call("TryStatement")>>
    [] Cur = "SwitchKeyword" -> <<Call("SwitchStatement")>>
    [] Cur = "DeferKeyword" -> <<Call("DeferStatement")>>
    [] Cur = "EndOfFile" -> <<Null>>
    [] OTHER -> <<Err, Null>>

ReadReturnStatement(keyword) ==
  <<X(keyword), On({"Semicolon"}, <<>>, <<Expression>>), X("Semicolon"), Node(keyword), Ok>>

ReadBreakStatement(keyword) == <<X(keyword), X("Semicolon"), Node(keyword), Ok>>

ReadDeferStatement ==
  <<X("DeferKeyword"),
    On({"Semicolon"}, <<Err>>, <<Call("Statement"), X("Semicolon")>>), Node("Defer"), Ok>>

\* An else that continues with if or unless is that clause.
ReadConditionalClause ==
  CASE Cur \in {"IfKeyword", "UnlessKeyword"} ->
         <<C, X("OpenCurl"), Call("Statement"), X("CloseCurl"), On({"Semicolon"}, <<Err>>, <<>>), Block,
           On({"ElseKeyword"}, <<Call("ConditionalClause")>>, <<>>), Node(Cur), Ok>>
    [] Cur = "ElseKeyword" ->
         <<C, On({"IfKeyword", "UnlessKeyword"}, <<Call("ConditionalClause")>>, <<Block, Node("Else"), Ok>>)>>
    [] ~CanConsume -> <<Null>>
    [] OTHER -> <<Err, Call("ConditionalClause")>>

ReadWhileStatement(keyword) ==
  <<X(keyword), X("OpenCurl"), Expression, X("CloseCurl"), Block, Node(keyword), Ok>>

ReadForStatement ==
  <<X("ForKeyword"), X("OpenCurl"), Call("Statement"), X("Semicolon"), Expression, X("Semicolon"),
    Call("Statement"), X("CloseCurl"), Block, Node("For"), Ok>>

ReadForInStatement(kind) ==
  LET name == <<On(Identifiers, <<C>>, <<Err>>), X("InKeyword"), Expression>>
  IN <<X(IF kind = "ForIn" THEN "ForKeyword" ELSE "ForeachKeyword"),
       On({"OpenCurl"}, <<X("OpenCurl")>> \o name \o <<X("CloseCurl")>>, name),
       Block, Node(kind), Ok>>

ReadTryStatement == <<X("TryKeyword"), Block, CallWith("CatchClauses", 0), Node("Try"), Ok>>

\* The loop over the catch clauses, with the number kept (0, 1).
CatchClauses(n) ==
  LET rest(parens, error) ==
        When(parens, <<X("CloseCurl")>>) \o <<Block>> \o When(error, <<Err>>)
          \o <<Node("Catch"), CallWith("CatchClauses", 1)>>
      declared(parens) ==
        <<Ident(3, <<C, On({"Colon"}, <<C, Type>>, <<>>)>> \o rest(parens, FALSE),
                   <<On({"Colon"}, <<C, Type, IfNull(rest(parens, TRUE), rest(parens, FALSE))>>,
                                   rest(parens, TRUE))>>)>>
  IN  IF Cur # "CatchKeyword" THEN When(n = 0, <<Err>>)
      ELSE <<X("CatchKeyword"),
             On({"OpenBrace"}, <<Err, Block, CallWith("CatchClauses", n)>>,
                <<On({"OpenCurl"}, <<C>> \o declared(TRUE), declared(FALSE))>>)>>

IsPattern == <<C, Type, On(Identifiers, <<C>>, <<>>), Node("IsPattern")>>

ReadSwitchStatement ==
  <<X("SwitchKeyword"), X("OpenCurl"), On({"CloseCurl"}, <<>>, <<Expression>>), X("CloseCurl"),
    X("OpenBrace"), Call("SwitchClauses"), X("CloseBrace"), Node("Switch"), Ok>>

\* Mutant: a token that starts no clause is reported and stays.
SwitchClausesStuck ==
  CASE Cur \in {"CloseBrace", "EndOfFile"} -> <<>>
    [] Cur \in {"DefaultKeyword", "CaseKeyword"} -> <<C, X("Colon"), Block, Call("SwitchClauses")>>
    [] OTHER -> <<Err, Call("SwitchClauses")>>

SwitchClauses ==
  LET body == <<X("Colon"), Block, Node("Case"), Call("SwitchClauses")>>
  IN CASE Cur \in {"CloseBrace", "EndOfFile"} -> <<>>
       [] Cur = "DefaultKeyword" -> <<C>> \o body
       [] Cur = "CaseKeyword" -> <<C, On({"IsOperator"}, IsPattern, <<Expression>>)>> \o body
       [] OTHER -> <<Err, Drop, Call("SwitchClauses")>>

(***************************************************************************)
(* Expressions: precedence climbing over null and left denotations.        *)
(***************************************************************************)
ReadExpression(bindingPower, resetCount) ==
  When(resetCount, <<Reset>>)
    \o <<Guard("expression", <<Err, Drop, Node("Literal"), Ok>>,
              <<Call("NullDenotation"), CallWith("LeftDenotations", bindingPower)>>)>>

\* Mutant: an operator of the same level binds to the right.
LeftDenotationsRight(bindingPower) ==
  When(GetOperatorPrecendence(Cur) > 0 /\ bindingPower <= GetOperatorPrecendence(Cur),
       <<Call("LeftDenotation"), CallWith("LeftDenotations", bindingPower)>>)

LeftDenotations(bindingPower) ==
  When(bindingPower < GetOperatorPrecendence(Cur),
       <<Count(<<Err, SkipTo({"Semicolon", "CloseBrace", "CloseCurl", "CloseSquare", "Comma"})>>,
               <<Call("LeftDenotation"), CallWith("LeftDenotations", bindingPower)>>)>>)

Literals == {"NullLiteral", "BooleanLiteral", "NumberLiteral", "DoubleLiteral", "StringLiteral", "CharLiteral"}
PrimitiveNames == {"StringKeyword", "CharKeyword", "NativeIntegerKeyword", "IntegerKeyword",
                   "BooleanKeyword", "ByteKeyword", "DoubleKeyword"}

ReadNullDenotation ==
  CASE Cur \in {"SubOperator", "AddOperator", "NotOperator", "IncrementOperator", "DecrementOperator",
                "ThrowKeyword", "AwaitKeyword"} ->
         <<C, Call("NullDenotation"), Node(<<"Unary", Cur>>), Ok>>
    [] Cur \in Literals -> <<C, Node("Literal"), Ok>>
    [] Cur = "OpenCurl" ->
         <<C, CallWith("Expression", <<0, FALSE>>), X("CloseCurl"), Call("AfterParenthesis")>>
    [] Cur = "OpenSquare" -> <<Call("CollectionExpression")>>
    [] Cur \in PrimitiveNames \cup Identifiers \cup {"FieldKeyword", "ValueKeyword"} ->
         <<CallWith("LinkedExpressionNode", "first")>>
    [] Cur = "AsyncKeyword" ->
         IF Peek(0) = "LambdaKeyword" THEN <<C, Call("LambdaExpression")>>
                                      ELSE <<Err, Drop, Node("Literal"), Ok>>
    [] Cur = "LambdaKeyword" -> <<Call("LambdaExpression")>>
    [] Cur = "NewKeyword" -> <<Call("ObjectExpression")>>
    [] Cur = "IfKeyword" -> <<Call("IfExpression")>>
    [] Cur = "SwitchKeyword" -> <<Call("SwitchExpression")>>
    [] OTHER -> <<Err, Drop, Node("Literal"), Ok>>

AfterParenthesis ==
  When(Cur = "Delimeter", <<CallWith("LinkedExpressionNode", IF ret = "linked" THEN ret ELSE "other")>>)

ReadLeftDenotation ==
  LET power == GetOperatorPrecendence(Cur)
      right == CallWith("Expression", <<power, FALSE>>)
  IN CASE ~CanConsume -> <<>>
       [] Cur = "OpenCurl" -> <<Call("ArgumentsList"), Node("Invokation"), Ret("linked")>>
       [] Cur \in {"RangeOperator", "RangeInclusiveOperator"} -> <<C, right, Node("Range"), Ret("range")>>
       [] Cur \in {"AsOperator", "IsOperator"} -> <<C, Type, Node(Cur), Ok>>
       [] Cur \in RightUnaryOperators -> <<C, Node(<<"Postfix", Cur>>), Ok>>
       [] Cur \in (BinaryOperators \cup {"AssignOperator"})
                   \ {"RangeOperator", "RangeInclusiveOperator", "AsOperator", "IsOperator"} ->
            <<C, right, Node(Cur), Ok>>
       [] OTHER -> <<Err, Drop>>

ReadObjectExpression ==
  <<X("NewKeyword"), CallWith("Type", FALSE),
    On({"OpenSquare"}, <<X("OpenSquare"), Expression, X("CloseSquare"), Node("NewArray")>>,
                       <<Call("ArgumentsList"), Node("New")>>), Ok>>

ReadCollectionExpression ==
  <<X("OpenSquare"), On({"CloseSquare"}, <<C, Node("Collection"), Ok>>, <<CallWith("Values", <<0, "node">>)>>)>>

\* The values read so far (0, 1, 2 for more) and what the first one is; a
\* single range stands for the collection, and a null pointer is not expected.
CollectionEnd(n, first) ==
  CASE n = 1 /\ first = "range" -> <<Ret("range")>>
    [] n = 1 /\ first = "null" -> <<Crash>>
    [] OTHER -> <<Node("Collection"), Ok>>

Values(n, first) ==
  IF CanConsume THEN <<Expression, CallWith("ValueRead", <<n, first>>)>> ELSE CollectionEnd(n, first)

ValueRead(n, first) ==
  LET kind == IF n = 0 THEN ret ELSE first
      count == IF n = 0 THEN 1 ELSE 2
  IN <<Match({"Comma", "CloseSquare"}, TRUE, 3,
             <<On({"CloseSquare"}, <<C>> \o CollectionEnd(count, kind),
                                   <<C, CallWith("Values", <<count, kind>>)>>)>>,
             CollectionEnd(count, kind))>>

ReadLambdaExpression ==
  <<X("LambdaKeyword"), Call("ParametersList"),
    On({"ArrowOperator"}, <<C, Type, On({"LambdaOperator", "OpenBrace"}, <<>>, <<X("LambdaOperator")>>)>>,
                          <<On({"LambdaOperator"}, <<>>, <<X("LambdaOperator")>>)>>),
    Call("ExpressionBodyOrBlock"), Node("Lambda"), Ok>>

ReadIfExpression ==
  <<X("IfKeyword"), Expression, Expression, On({"ElseKeyword"}, <<C, Expression>>, <<>>),
    Node("IfExpression"), Ok>>

ReadSwitchExpression ==
  <<X("SwitchKeyword"), Expression, X("OpenBrace"), Call("SwitchArms"), X("CloseBrace"),
    Node("SwitchExpression"), Ok>>

SwitchArms ==
  IF Cur \in {"CloseBrace", "EndOfFile"} THEN <<>>
  ELSE (CASE Cur = "Identifier _" -> <<C, Node("Literal")>>
          [] Cur = "IsOperator" -> IsPattern
          [] OTHER -> <<Expression>>)
         \o <<X("LambdaOperator"), Expression, Node("Arm"), On({"Comma"}, <<C>>, <<>>), Call("SwitchArms")>>

\* The token behind the ">" that closes the current "<"; shift says whether
\* the scan knows that ">>" closes two.
BehindClosingAngle(shift) ==
  LET weight(i) == CASE At(i) = "LessOperator" -> 1
                     [] At(i) = "GreaterOperator" -> -1
                     [] At(i) = "RightShiftOperator" /\ shift -> -2
                     [] OTHER -> 0
      closing == {k \in (pos + 1)..Len(input) :
                    weight(k) < 0 /\ 1 + MapThenSumSet(weight, (pos + 1)..k) = 0}
  IN  IF closing = {} THEN "EndOfFile" ELSE At(Min(closing) + 1)

IsGenericInvocation == BehindClosingAngle(TRUE) = "OpenCurl"
IsGenericReceiver == BehindClosingAngle(FALSE) = "Delimeter"

\* previous: "first" for the start of a chain, "linked" or "other" for the
\* node in front of the dot.
ReadLinkedExpressionNode(previous) ==
  <<Guard("linked", <<Err, IF previous = "linked" THEN Ret("linked") ELSE Null>>,
      <<On(Eof, <<Null>>,
           (IF previous = "first" THEN <<C>> ELSE <<X("Delimeter"), X("Identifier")>>)
             \o <<Call("LinkedNode")>>)>>)>>

\* ReadLinkedExpressionNode behind the identifier.  In front of a token that
\* is neither operator nor punctuation no node is made at all.
LinkedNode ==
  LET member == <<Node("MemberAccess"), Ret("linked")>>
      next == <<On({"Delimeter"}, <<CallWith("LinkedExpressionNode", "linked")>>, <<>>)>>
      invokation == <<Node("Invokation"), Ret("linked"), On({"OpenSquare"}, <<Call("IndexatorNode")>>, <<>>)>>
  IN CASE Cur = "OpenCurl" -> <<Call("ArgumentsList")>> \o invokation \o next
       [] Cur = "LessOperator" ->
            IF IsGenericInvocation
            THEN <<Call("TypeArgumentsList"), On({"OpenCurl"}, <<Call("ArgumentsList")>>, <<>>)>>
                   \o invokation \o next
            ELSE IF IsGenericReceiver
            THEN <<Call("TypeArgumentsList"), Node("GenericType"), CallWith("LinkedExpressionNode", "other")>>
            ELSE member
       [] Cur = "OpenSquare" -> <<Node("MemberAccess"), Call("IndexatorNode")>> \o next
       [] Cur = "Delimeter" -> member \o next
       [] Cur \in (Operators \cup Punctuation \cup Eof)
                   \ {"OpenCurl", "LessOperator", "OpenSquare", "Delimeter"} -> member
       [] OTHER -> <<Lose, Null>>

ReadIndexatorExpressionNode ==
  <<Call("IndexatorList"), Node("Indexator"), Ret("linked"),
    On({"OpenSquare"}, <<Call("IndexatorNode")>>, <<>>)>>

ReadArgumentsList == ListOf("OpenCurl", "CloseCurl", "Arguments")
Arguments == When(CanConsume, <<Expression>> \o Separator("Comma", "CloseCurl", "Arguments"))

ReadIndexatorList == ListOf("OpenSquare", "CloseSquare", "Indices")
Indices == When(CanConsume, <<Expression>> \o Separator("Comma", "CloseSquare", "Indices"))

\* The instructions of the Read function f.
Body(f, a) ==
  CASE f = "CompilationUnit" -> ReadCompilationUnit(a[1], a[2])
    [] f = "SynchronizeToNextTopLevel" -> SynchronizeToNextTopLevel(a[1], a[2])
    [] f = "UsingDirective" -> ReadUsingDirective
    [] f = "UsingNames" -> UsingNames
    [] f = "NamespaceDeclaration" -> ReadNamespaceDeclaration
    [] f = "NamespaceNames" -> NamespaceNames
    [] f = "MemberDeclaration" -> ReadMemberDeclaration(a)
    [] f = "Declaration" -> Declaration(a)
    [] f = "TypedMember" -> TypedMember(a)
    [] f = "ClassDeclaration" -> ReadClassDeclaration
    [] f = "StructDeclaration" -> ReadStructDeclaration
    [] f = "InterfaceDeclaration" -> ReadInterfaceDeclaration
    [] f = "BaseInterfacesList" -> ReadBaseInterfacesList
    [] f = "TypeBody" -> ReadTypeBody(a)
    [] f = "MethodBodyAndSemicolon" -> ReadMethodBodyAndSemicolon
    [] f = "MethodDeclaration" -> ReadMethodDeclaration
    [] f = "OperatorDeclaration" -> ReadOperatorDeclaration
    [] f = "ConstructorDeclaration" -> ReadConstructorDeclaration
    [] f = "FieldDeclaration" -> ReadFieldDeclaration
    [] f = "ComputedPropertyDeclaration" -> ReadComputedPropertyDeclaration
    [] f = "DelegateDeclaration" -> ReadDelegateDeclaration
    [] f = "EnumDeclaration" -> ReadEnumDeclaration
    [] f = "EnumBody" -> ReadEnumBody
    [] f = "EnumFieldDeclaration" -> ReadEnumFieldDeclaration
    [] f = "PropertyDeclaration" -> ReadPropertyDeclaration
    [] f = "IndexatorDeclaration" -> ReadIndexatorDeclaration
    [] f = "Accessors" -> Accessors(a)
    [] f = "AccessorRead" -> AccessorRead(a)
    [] f = "AccessorDeclaration" -> ReadAccessorDeclaration
    [] f = "AccessorBody" -> AccessorBody
    [] f = "MemberModifiers" -> ReadMemberModifiers(a[1], a[2])
    [] f = "AttributeList" -> ReadAttributeList
    [] f = "Attribute" -> ReadAttribute
    [] f = "AttributeArguments" -> AttributeArguments
    [] f = "ParametersList" -> ReadParametersList
    [] f = "Parameters" -> Parameters
    [] f = "IndexerParametersList" -> ReadIndexerParametersList
    [] f = "IndexerParameters" -> IndexerParameters
    [] f = "DelegateParametersList" -> ReadDelegateParametersList
    [] f = "DelegateParameters" -> DelegateParameters
    [] f = "WhereClauses" -> ReadWhereClauses
    [] f = "WhereClause" -> ReadWhereClause
    [] f = "Constraints" -> Constraints(a)
    [] f = "TypeParametersList" -> ReadTypeParametersList
    [] f = "TypeParameters" -> TypeParameters
    [] f = "TypeArgumentsList" -> ReadTypeArgumentsList
    [] f = "TypeArguments" -> TypeArguments
    [] f = "Type" -> ReadType(a)
    [] f = "ModifiedType" -> ReadModifiedType(a)
    [] f = "StatementsBlock" -> ReadStatementsBlock
    [] f = "BlockBody" -> BlockBody
    [] f = "BlockStatements" -> BlockStatements
    [] f = "ExpressionBodyOrBlock" -> ReadExpressionBodyOrBlock
    [] f = "Statement" -> ReadStatement
    [] f = "KeywordStatement" -> ReadKeywordStatement
    [] f = "ReturnStatement" -> ReadReturnStatement(a)
    [] f = "BreakStatement" -> ReadBreakStatement(a)
    [] f = "DeferStatement" -> ReadDeferStatement
    [] f = "ConditionalClause" -> ReadConditionalClause
    [] f = "WhileStatement" -> ReadWhileStatement(a)
    [] f = "ForStatement" -> ReadForStatement
    [] f = "ForInStatement" -> ReadForInStatement(a)
    [] f = "TryStatement" -> ReadTryStatement
    [] f = "CatchClauses" -> CatchClauses(a)
    [] f = "SwitchStatement" -> ReadSwitchStatement
    [] f = "SwitchClauses" -> SwitchClauses
    [] f = "Expression" -> ReadExpression(a[1], a[2])
    [] f = "LeftDenotations" -> LeftDenotations(a)
    [] f = "NullDenotation" -> ReadNullDenotation
    [] f = "AfterParenthesis" -> AfterParenthesis
    [] f = "LeftDenotation" -> ReadLeftDenotation
    [] f = "ObjectExpression" -> ReadObjectExpression
    [] f = "CollectionExpression" -> ReadCollectionExpression
    [] f = "Values" -> Values(a[1], a[2])
    [] f = "ValueRead" -> ValueRead(a[1], a[2])
    [] f = "LambdaExpression" -> ReadLambdaExpression
    [] f = "IfExpression" -> ReadIfExpression
    [] f = "SwitchExpression" -> ReadSwitchExpression
    [] f = "SwitchArms" -> SwitchArms
    [] f = "LinkedExpressionNode" -> ReadLinkedExpressionNode(a)
    [] f = "LinkedNode" -> LinkedNode
    [] f = "IndexatorNode" -> ReadIndexatorExpressionNode
    [] f = "ArgumentsList" -> ReadArgumentsList
    [] f = "Arguments" -> Arguments
    [] f = "IndexatorList" -> ReadIndexatorList
    [] f = "Indices" -> Indices

(***************************************************************************)
(* The machine.                                                            *)
(***************************************************************************)
Op == IF todo = <<>> THEN "end" ELSE todo[1][1]
Arg(i) == todo[1][i + 1]
Then(items) == todo' = items \o Tail(todo)

SynchronizationTokens ==
  {"Semicolon", "OpenBrace", "CloseBrace", "OpenCurl", "CloseCurl",
   "NamespaceKeyword", "ClassKeyword", "StructKeyword", "EndOfFile"}

\* Where TrySynchronize stops, looking for a token of expected.
TrySynchronize(expected, maxSkips) ==
  Min({pos + maxSkips} \cup {i \in pos..(pos + maxSkips) : At(i) \in expected \cup SynchronizationTokens})
Found(expected, stop, maxSkips) == stop < pos + maxSkips /\ At(stop) \in expected
Skipped(stop, why) == dropped' = dropped \cup (IF stop > pos THEN {why} ELSE {})
Variants(t) == IF t = "Identifier" THEN Identifiers ELSE {t}

Init ==
  /\ source \in Sources
  /\ input = source
  /\ pos = 1
  /\ todo = <<CallWith("CompilationUnit", <<FALSE, FALSE>>)>>
  /\ ret = "node"
  /\ nodes = <<>>
  /\ reported = FALSE
  /\ dropped = {}
  /\ depth = [expression |-> 0, block |-> 0, linked |-> 0, operators |-> 0]

CallRead ==
  /\ Op = "call"
  /\ Then(Body(Arg(1), Arg(2)))
  /\ UNCHANGED <<source, input, pos, ret, nodes, reported, dropped, depth>>

ExpectReporting(error(_)) ==
  /\ Op = "expect"
  /\ LET stop == TrySynchronize(Variants(Arg(1)), 5)
         found == Found(Variants(Arg(1)), stop, 5)
     IN  /\ pos' = IF found THEN stop + 1 ELSE stop
         /\ reported' = (reported \/ error(Cur))
         /\ Skipped(stop, "recovery")
  /\ Then(<<>>)
  /\ UNCHANGED <<source, input, ret, nodes, depth>>

\* Mutant: skips to the token it expects without a word.
ExpectSilently == ExpectReporting(LAMBDA t : FALSE)

Expect == ExpectReporting(LAMBDA t : t \notin Variants(Arg(1)))

Consume ==
  /\ Op \in {"consume", "drop"}
  /\ pos' = IF CanConsume THEN pos + 1 ELSE pos
  /\ dropped' = IF Op = "drop" /\ CanConsume THEN dropped \cup {"recovery"} ELSE dropped
  /\ Then(<<>>)
  /\ UNCHANGED <<source, input, ret, nodes, reported, depth>>

Skip ==
  /\ Op = "skip"
  /\ LET stop == Min({i \in pos..(Len(input) + 1) : At(i) \in Arg(1) \cup Eof})
     IN  pos' = stop /\ Skipped(stop, "recovery")
  /\ Then(<<>>)
  /\ UNCHANGED <<source, input, ret, nodes, reported, depth>>

ReportError ==
  /\ Op = "error"
  /\ reported' = TRUE
  /\ Then(<<>>)
  /\ UNCHANGED <<source, input, pos, ret, nodes, dropped, depth>>

BuildNode ==
  /\ Op = "node"
  /\ nodes' = Append(nodes, Arg(1))
  /\ Then(<<>>)
  /\ UNCHANGED <<source, input, pos, ret, reported, dropped, depth>>

Return ==
  /\ Op = "return"
  /\ ret' = Arg(1)
  /\ Then(<<>>)
  /\ UNCHANGED <<source, input, pos, nodes, reported, dropped, depth>>

LoseNode ==
  /\ Op = "lose"
  /\ dropped' = dropped \cup {"member"}
  /\ Then(<<>>)
  /\ UNCHANGED <<source, input, pos, ret, nodes, reported, depth>>

\* ValuesExpressions[0]->Kind with a null pointer: the process ends.
NullDereference ==
  /\ Op = "crash"
  /\ todo' = <<>>
  /\ ret' = "crash"
  /\ UNCHANGED <<source, input, pos, nodes, reported, dropped, depth>>

Branch ==
  /\ \/ Op = "on" /\ Then(IF Cur \in Arg(1) THEN Arg(2) ELSE Arg(3))
     \/ Op = "ifnull" /\ Then(IF ret = "null" THEN Arg(1) ELSE Arg(2))
  /\ UNCHANGED <<source, input, pos, ret, nodes, reported, dropped, depth>>

TryMatch ==
  /\ Op = "match"
  /\ LET stop == TrySynchronize(Arg(1), Arg(3))
     IN  /\ pos' = stop
         /\ reported' = (reported \/ (CanConsume /\ Cur \notin Arg(1) /\ Arg(2)))
         /\ Skipped(stop, "recovery")
         /\ Then(IF Found(Arg(1), stop, Arg(3)) THEN Arg(4) ELSE Arg(5))
  /\ UNCHANGED <<source, input, ret, nodes, depth>>

\* Unlike TryMatch, TryMatchIdentifier reports only reserved words.
TryMatchIdentifier ==
  /\ Op = "ident"
  /\ LET stop == IF Cur \in ReservedIdentifiers \cup Eof THEN pos ELSE TrySynchronize(Identifiers, Arg(1))
     IN  /\ pos' = stop
         /\ reported' = (reported \/ Cur \in ReservedIdentifiers)
         /\ Skipped(stop, "identifier")
         /\ Then(IF Found(Identifiers, stop, Arg(1)) THEN Arg(2) ELSE Arg(3))
  /\ UNCHANGED <<source, input, ret, nodes, depth>>

\* Consume ">>" and put ">" back.
SplitShift ==
  /\ Op = "split"
  /\ input' = [input EXCEPT ![pos] = "GreaterOperator"]
  /\ Then(<<>>)
  /\ UNCHANGED <<source, pos, ret, nodes, reported, dropped, depth>>

Limit(d) == CASE d = "expression" -> MaxExpressionDepth
              [] d = "block" -> MaxBlockDepth
              [] d = "linked" -> MaxLinkedExpressionDepth
              [] d = "operators" -> MaxExpressionOperators

EnterGuard ==
  /\ Op = "guard"
  /\ depth' = [depth EXCEPT ![Arg(1)] = @ + 1]
  /\ Then((IF depth[Arg(1)] + 1 > Limit(Arg(1)) THEN Arg(2) ELSE Arg(3)) \o <<Leave(Arg(1))>>)
  /\ UNCHANGED <<source, input, pos, ret, nodes, reported, dropped>>

LeaveGuard ==
  /\ Op = "leave"
  /\ depth' = [depth EXCEPT ![Arg(1)] = @ - 1]
  /\ Then(<<>>)
  /\ UNCHANGED <<source, input, pos, ret, nodes, reported, dropped>>

CountOperator ==
  /\ Op = "count"
  /\ depth' = [depth EXCEPT !.operators = @ + 1]
  /\ Then(IF depth.operators + 1 > Limit("operators") THEN Arg(1) ELSE Arg(2))
  /\ UNCHANGED <<source, input, pos, ret, nodes, reported, dropped>>

ResetCount ==
  /\ Op = "reset"
  /\ depth' = [depth EXCEPT !.operators = 0]
  /\ Then(<<>>)
  /\ UNCHANGED <<source, input, pos, ret, nodes, reported, dropped>>

Next ==
  \/ CallRead \/ Expect \/ Consume \/ Skip \/ ReportError \/ BuildNode \/ Return \/ LoseNode
  \/ NullDereference \/ Branch \/ TryMatch \/ TryMatchIdentifier \/ SplitShift
  \/ EnterGuard \/ LeaveGuard \/ CountOperator \/ ResetCount

\* The parser is a sequential program: it goes on while it has something to do.
Spec == Init /\ [][Next]_vars /\ WF_vars(Next)
=============================================================================
