------------------------------- MODULE Lexer --------------------------------
(***************************************************************************)
(* LexicalAnalyzer: from characters to tokens, and the two readers that    *)
(* hand tokens to the parser, LexicalAnalyzer itself and LexicalBuffer.    *)
(*                                                                         *)
(* A character of the text is a string.  Letters are abstracted: one       *)
(* letter may stand for a run of letters that spells a word of the         *)
(* language ("if"), and a word is a keyword when it is that letter alone.  *)
(* The text of a token is kept as the range of characters it was read      *)
(* from, its word as the number of characters that GetLocation counts.     *)
(***************************************************************************)
EXTENDS Integers, Sequences, FiniteSets, TLC

CONSTANT Words      \* letters that stand for words, other than keywords

(***************************************************************************)
(* Tables.                                                                 *)
(***************************************************************************)
\* IsPunctuation and IsOperator: a character, alone or with the next one.
OneCharacter ==
  "{" :> "OpenBrace" @@ "}" :> "CloseBrace" @@ "(" :> "OpenCurl" @@ ")" :> "CloseCurl"
  @@ "[" :> "OpenSquare" @@ "]" :> "CloseSquare" @@ "." :> "Delimeter" @@ "," :> "Comma"
  @@ ":" :> "Colon" @@ ";" :> "Semicolon" @@ "?" :> "Question" @@ "greek ;" :> "Semicolon"
  @@ "=" :> "AssignOperator" @@ "!" :> "NotOperator" @@ ">" :> "GreaterOperator"
  @@ "<" :> "LessOperator" @@ "+" :> "AddOperator" @@ "-" :> "SubOperator" @@ "*" :> "MultOperator"
  @@ "/" :> "DivOperator" @@ "%" :> "ModOperator" @@ "^" :> "PowOperator" @@ "&" :> "AndOperator"
  @@ "|" :> "OrOperator"

PairsOfPunctuation ==
  <<".", ".">> :> "RangeOperator" @@ <<":", "=">> :> "DeclareAssignOperator" @@ <<"?", "?">> :> "NullCoalescingOperator"
PairsOfComparison ==
  <<"=", "=">> :> "EqualsOperator" @@ <<"=", ">">> :> "LambdaOperator" @@ <<"!", "=">> :> "NotEqualsOperator"
  @@ <<">", "=">> :> "GreaterOrEqualsOperator" @@ <<">", ">">> :> "RightShiftOperator"
  @@ <<"<", "=">> :> "LessOrEqualsOperator" @@ <<"<", "<">> :> "LeftShiftOperator"
PairsOfArithmetic ==
  <<"+", "=">> :> "AddAssignOperator" @@ <<"+", "+">> :> "IncrementOperator" @@ <<"-", "=">> :> "SubAssignOperator"
  @@ <<"-", "-">> :> "DecrementOperator" @@ <<"-", ">">> :> "ArrowOperator" @@ <<"*", "=">> :> "MultAssignOperator"
  @@ <<"/", "=">> :> "DivAssignOperator" @@ <<"/", "/">> :> "Trivia"
PairsOfLogic ==
  <<"%", "=">> :> "ModAssignOperator" @@ <<"^", "=">> :> "PowAssignOperator"
  @@ <<"&", "=">> :> "AndAssignOperator" @@ <<"&", "&">> :> "AndOperator"
  @@ <<"|", "=">> :> "OrAssignOperator" @@ <<"|", "|">> :> "OrOperator"
TwoCharacters == PairsOfPunctuation @@ PairsOfComparison @@ PairsOfArithmetic @@ PairsOfLogic

\* The Is...(word, type) functions, in the order ReadNextWord asks them.
BooleanAndNull == [w \in {"true", "false"} |-> "BooleanLiteral"] @@ [w \in {"null", "nil"} |-> "NullLiteral"]
Declarations ==
  "using" :> "UsingKeyword" @@ "method" :> "MethodKeyword" @@ "class" :> "ClassKeyword"
  @@ "struct" :> "StructKeyword" @@ "interface" :> "InterfaceKeyword" @@ "enum" :> "EnumKeyword"
  @@ "namespace" :> "NamespaceKeyword"
Modifiers ==
  "public" :> "PublicKeyword" @@ "private" :> "PrivateKeyword" @@ "protected" :> "ProtectedKeyword"
  @@ "internal" :> "InternalKeyword" @@ "static" :> "StaticKeyword" @@ "async" :> "AsyncKeyword"
  @@ "extern" :> "ExternKeyword" @@ "export" :> "ExportKeyword"
WordOperators == "and" :> "AndOperator" @@ "or" :> "OrOperator" @@ "not" :> "NotOperator"
Types ==
  "void" :> "VoidKeyword" @@ "var" :> "VarKeyword" @@ "bool" :> "BooleanKeyword" @@ "string" :> "StringKeyword"
  @@ "double" :> "DoubleKeyword" @@ "int" :> "IntegerKeyword" @@ "char" :> "CharKeyword" @@ "byte" :> "ByteKeyword"
  @@ "nint" :> "NativeIntegerKeyword" @@ "lambda" :> "LambdaKeyword" @@ "delegate" :> "DelegateKeyword"
ConditionalKeywords ==
  "if" :> "IfKeyword" @@ "unless" :> "UnlessKeyword" @@ "else" :> "ElseKeyword" @@ "switch" :> "SwitchKeyword"
  @@ "case" :> "CaseKeyword" @@ "default" :> "DefaultKeyword"
FunctionalKeywords ==
  "return" :> "ReturnKeyword" @@ "continue" :> "ContinueKeyword" @@ "break" :> "BreakKeyword"
  @@ "throw" :> "ThrowKeyword" @@ "try" :> "TryKeyword" @@ "catch" :> "CatchKeyword" @@ "await" :> "AwaitKeyword"
LoopKeywords ==
  "for" :> "ForKeyword" @@ "while" :> "WhileKeyword" @@ "until" :> "UntilKeyword" @@ "do" :> "DoKeyword"
  @@ "foreach" :> "ForeachKeyword" @@ "in" :> "InKeyword"
OtherKeywords ==
  "new" :> "NewKeyword" @@ "get" :> "GetKeyword" @@ "set" :> "SetKeyword" @@ "field" :> "FieldKeyword"
  @@ "indexer" :> "IndexerKeyword" @@ "defer" :> "DeferKeyword" @@ "where" :> "WhereKeyword"
  @@ "const" :> "ConstKeyword" @@ "func" :> "FunctionKeyword" @@ "init" :> "InitKeyword"
  @@ "operator" :> "OperatorKeyword" @@ "value" :> "ValueKeyword" @@ "is" :> "IsOperator" @@ "as" :> "AsOperator"
Keywords ==
  BooleanAndNull @@ Declarations @@ Modifiers @@ WordOperators @@ Types
  @@ ConditionalKeywords @@ FunctionalKeywords @@ LoopKeywords @@ OtherKeywords

Digits == {"0", "1"}
BasePrefixLetters == {"x", "d", "b"}
\* IsNumberSymbol: hexadecimal digits, base prefixes and first letters of size suffixes.
NumberSymbols == Digits \cup BasePrefixLetters \cup {"a", "k", "T"}
Blanks == {" ", "\n", "BOM"}
\* iswalnum or '_'.
WordSymbols == Words \cup NumberSymbols \cup DOMAIN Keywords

(***************************************************************************)
(* The position in the text s: the next character to read, Line, Offset    *)
(* and HasPutbackSymbol (the symbol put back is always '.').               *)
(***************************************************************************)
Start == [at |-> 1, line |-> 1, offset |-> 0, putback |-> FALSE]
Peeked(s, p) == IF p.at \in DOMAIN s THEN s[p.at] ELSE "end"

Advance(s, p) ==
  IF s[p.at] = "\n" THEN [p EXCEPT !.at = @ + 1, !.line = @ + 1, !.offset = 0]
  ELSE [p EXCEPT !.at = @ + 1, !.offset = @ + 1]

RECURSIVE AdvanceTo(_, _, _)
AdvanceTo(s, p, at) == IF p.at >= at THEN p ELSE AdvanceTo(s, Advance(s, p), at)

RECURSIVE SkipBlanks(_, _)
SkipBlanks(s, p) == IF ~p.putback /\ Peeked(s, p) \in Blanks THEN SkipBlanks(s, Advance(s, p)) ELSE p

\* Mutant: the symbol put back is read again without counting it.
ReadNextRealUncounted(s, p) ==
  IF p.putback THEN [p EXCEPT !.putback = FALSE] ELSE Advance(s, SkipBlanks(s, p))

\* The position behind the next character that is no blank.
ReadNextReal(s, p) ==
  IF p.putback THEN [p EXCEPT !.putback = FALSE, !.offset = @ + 1] ELSE Advance(s, SkipBlanks(s, p))

\* A token: its type, the characters it was read from, the length of its word
\* and where GetLocation says it is; next is the position behind it.
GetLocation(p, length) ==
  [line |-> p.line, column |-> IF p.offset - length + 1 < 1 THEN 1 ELSE p.offset - length + 1]
Token(type, first, p, length) ==
  [type |-> type, first |-> first, last |-> p.at - 1 - (IF p.putback THEN 1 ELSE 0),
   location |-> GetLocation(p, length), next |-> p]
NoToken(p) == [type |-> "EndOfFile", next |-> p]

(***************************************************************************)
(* Literals.  p is the position behind the first character.                *)
(***************************************************************************)
\* Where a literal opened before i is closed, 0 if it is not, and the length of
\* its word: the first quote that is not escaped.  In a string only \\, \" and
\* \n end an escape; any other character is kept and the escape goes on.
RECURSIVE Quoted(_, _, _, _, _, _)
Quoted(s, i, quote, verbatim, ecran, n) ==
  LET ends == quote = "'" \/ s[i] \in {"\\", "\"", "n"}
  IN  IF i > Len(s) THEN <<0, n>>
      ELSE IF s[i] = quote /\ ~ecran THEN <<i, n>>
      ELSE IF s[i] = "\\" /\ ~verbatim /\ ~ecran THEN Quoted(s, i + 1, quote, verbatim, TRUE, n)
      ELSE Quoted(s, i + 1, quote, verbatim, ecran /\ ~ends, n + 1)

QuotedToken(s, first, p, quoted, type) ==
  IF quoted[1] = 0 THEN NoToken(AdvanceTo(s, p, Len(s) + 1))
  ELSE Token(type, first, AdvanceTo(s, p, quoted[1] + 1), quoted[2])

\* Mutant: also a verbatim string knows escapes.
ReadQuotedEscaped(s, first, p, quote, verbatim, type) ==
  QuotedToken(s, first, p, Quoted(s, p.at, quote, FALSE, FALSE, 0), type)

\* ReadStringLiteral, ReadCharLiteral: a literal that is not closed ends the text.
ReadQuoted(s, first, p, quote, verbatim, type) ==
  QuotedToken(s, first, p, Quoted(s, p.at, quote, verbatim, FALSE, 0), type)

\* The loop of ReadNumberLiteral; n counts the characters of the word.
RECURSIVE NumberRest(_, _, _, _, _)
NumberRest(s, first, p, n, real) ==
  LET c == Peeked(s, p)
      q == Advance(s, p)
      ends == Token(IF real THEN "DoubleLiteral" ELSE "NumberLiteral", first, p, n)
      dotAt(r) == \* r is the position in front of the dot
        IF real THEN Token("DoubleLiteral", first, r, n)
        ELSE IF Peeked(s, Advance(s, r)) \in NumberSymbols
        THEN NumberRest(s, first, Advance(s, Advance(s, r)), n + 2, TRUE)
        ELSE Token("NumberLiteral", first,
                   [Advance(s, r) EXCEPT !.putback = TRUE, !.offset = @ - 1], n)
  IN CASE c = "tick" /\ Peeked(s, q) = "." -> dotAt(q)
       [] c = "tick" /\ Peeked(s, q) \in NumberSymbols -> NumberRest(s, first, q, n, real)
       [] c = "tick" /\ Peeked(s, q) \notin NumberSymbols \cup {"."} -> [ends EXCEPT !.next = q, !.last = p.at]
       [] c = "." -> dotAt(p)
       [] c \in NumberSymbols -> NumberRest(s, first, q, n + 1, real)
       [] OTHER -> ends

ReadNumberLiteral(s, first, p) ==
  IF s[first] = "0" /\ Peeked(s, p) \in BasePrefixLetters
  THEN NumberRest(s, first, Advance(s, p), 2, FALSE)
  ELSE NumberRest(s, first, p, 1, FALSE)

\* ReadNextWhileAlpha and the classification of the word.
ReadWord(s, first, p) ==
  LET after == {i \in p.at..Len(s) : s[i] \notin WordSymbols}
      end == IF after = {} THEN Len(s) + 1 ELSE CHOOSE i \in after : \A j \in after : i <= j
      type == IF end = first + 1 /\ s[first] \in DOMAIN Keywords THEN Keywords[s[first]] ELSE "Identifier"
  IN  Token(type, first, AdvanceTo(s, p, end), end - first)

(***************************************************************************)
(* ReadNextWord, ReadNextToken.                                            *)
(***************************************************************************)
LineEnd(s, from) ==
  LET ends == {i \in from..Len(s) : s[i] = "\n"}
  IN  IF ends = {} THEN Len(s) ELSE CHOOSE i \in ends : \A j \in ends : i <= j

RECURSIVE ReadNextWord(_, _)
ReadNextWord(s, start) ==
  LET p == ReadNextReal(s, start)
      first == p.at - 1
      c == s[first]
      pair == <<c, Peeked(s, p)>>
      fixed(type, n) == Token(type, first, AdvanceTo(s, p, first + n), n)
  IN  IF ~start.putback /\ Peeked(s, SkipBlanks(s, start)) = "end" THEN NoToken(start)
      ELSE IF pair = <<"/", "/">> THEN ReadNextWord(s, AdvanceTo(s, p, LineEnd(s, p.at) + 1))
      ELSE IF pair = <<".", ".">> /\ Peeked(s, Advance(s, p)) = "&" THEN fixed("RangeInclusiveOperator", 3)
      ELSE IF pair \in DOMAIN TwoCharacters THEN fixed(TwoCharacters[pair], 2)
      ELSE IF c \in DOMAIN OneCharacter THEN fixed(OneCharacter[c], 1)
      ELSE IF c = "\"" THEN ReadQuoted(s, first, p, "\"", FALSE, "StringLiteral")
      ELSE IF pair = <<"@", "\"">> THEN ReadQuoted(s, first, Advance(s, p), "\"", TRUE, "StringLiteral")
      ELSE IF c = "'" THEN ReadQuoted(s, first, p, "'", FALSE, "CharLiteral")
      ELSE IF c \in Digits THEN ReadNumberLiteral(s, first, p)
      ELSE ReadWord(s, first, p)

\* All tokens of s from position p.
RECURSIVE Tokens(_, _)
Tokens(s, p) ==
  LET t == ReadNextWord(s, p)
  IN  IF t.type = "EndOfFile" THEN <<>> ELSE <<t>> \o Tokens(s, t.next)

(***************************************************************************)
(* The readers.  LexicalAnalyzer keeps the tokens it has read ahead in     *)
(* ReadBuffer and takes others from the text; LexicalBuffer holds all the  *)
(* tokens.  An operation gives a token and the reader after it.            *)
(***************************************************************************)
Analyzer(tokens) == [buffer |-> <<>>, rest |-> tokens]
Got(token, reader) == [token |-> token, reader |-> reader]

\* n more tokens in ReadBuffer, EndOfFile when the text is exhausted.
ReadMore(r, n) ==
  LET taken == IF n <= Len(r.rest) THEN n ELSE Len(r.rest)
      eofs == IF n > taken THEN <<"EndOfFile">> ELSE <<>>
  IN  [buffer |-> r.buffer \o SubSeq(r.rest, 1, taken) \o eofs,
       rest |-> SubSeq(r.rest, taken + 1, Len(r.rest))]

\* With an empty buffer Consume leaves the token it returns in the buffer.
AnalyzerConsume(r) ==
  IF r.buffer # <<>> THEN Got(Head(r.buffer), [r EXCEPT !.buffer = Tail(@)])
  ELSE Got(Head(ReadMore(r, 1).buffer), ReadMore(r, 1))

AnalyzerCurrent(r) == IF r.buffer = <<>> THEN AnalyzerConsume(r) ELSE Got(Head(r.buffer), r)

\* Mutant: Peek counts from the current token.
AnalyzerPeekCurrent(r, index) ==
  LET more == IF index + 1 > Len(r.buffer) THEN ReadMore(r, index - Len(r.buffer) + 1) ELSE r
  IN  Got(IF index + 1 <= Len(more.buffer) THEN more.buffer[index + 1] ELSE "EndOfFile", more)

AnalyzerPeek(r, index) ==
  LET more == IF index + 2 > Len(r.buffer) THEN ReadMore(r, index + 2 - Len(r.buffer)) ELSE r
  IN  Got(IF index + 2 <= Len(more.buffer) THEN more.buffer[index + 2] ELSE "EndOfFile", more)

AnalyzerPutBack(r, token) == Got(token, [r EXCEPT !.buffer = <<token>> \o @])

Buffer(tokens) == [sequence |-> tokens, index |-> 1]
BufferAt(r, i) == IF i <= Len(r.sequence) THEN r.sequence[i] ELSE "EndOfFile"
BufferCurrent(r) == Got(BufferAt(r, r.index), r)
BufferConsume(r) ==
  Got(BufferAt(r, r.index), IF r.index > Len(r.sequence) THEN r ELSE [r EXCEPT !.index = @ + 1])
BufferPeek(r, index) == Got(BufferAt(r, r.index + 1 + index), r)
BufferPutBack(r, token) ==
  Got(token, [r EXCEPT !.sequence = SubSeq(@, 1, r.index - 1) \o <<token>> \o SubSeq(@, r.index, Len(@))])
=============================================================================
