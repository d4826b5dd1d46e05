-------------------------- MODULE PrimitiveOperators --------------------------
(***************************************************************************)
(* The operators of the primitive types: the tables                        *)
(* ResolvePrimitiveOperators fills, in the order of registration, which is *)
(* the order FindOperator searches; the values PrimitiveMathModule and the *)
(* registered functions compute; and the numbers literals stand for.       *)
(***************************************************************************)
EXTENDS Integers, SequencesExt

CONSTANTS
  Platform,      \* "windows" or "linux": the wchar_t and the swprintf of the build
  IntBits,       \* std::int64_t, scaled down
  CharBits,      \* wchar_t, scaled down
  ByteBits,      \* std::uint8_t, scaled down
  VolumeBits     \* a kB is 2^10 in the code

(***************************************************************************)
(* Values.  A number is a rational <<n, d>>, a double an exact one (d = 0: *)
(* infinite or NaN); a string is the sequence of what was formatted into   *)
(* it.                                                                     *)
(***************************************************************************)
Value(t, v) == [t |-> t, v |-> v]
Zero == <<0, 1>>
Whole(n) == <<n, 1>>
NoValue == Value("none", Zero)              \* ObjectInstance()
Undefined == Value("undefined", Zero)       \* undefined behaviour
Thrown == Value("thrown", Zero)             \* a C++ exception
SameValue(x, y) == x.t = y.t /\ x.v = y.v

Signum(n) == IF n > 0 THEN 1 ELSE IF n < 0 THEN -1 ELSE 0
Abs1(n) == IF n < 0 THEN -n ELSE n
RECURSIVE Gcd(_, _)
Gcd(a, b) == IF b = 0 THEN a ELSE Gcd(b, a % b)
\* The quotient of C++: towards zero.
Quotient(a, b) == LET n == Abs1(a) \div Abs1(b) IN IF a < 0 <=> b < 0 THEN n ELSE -n
Ratio(n, d) ==
  IF d = 0 THEN <<Signum(n), 0>>
  ELSE LET g == Gcd(Abs1(n), Abs1(d)) IN <<Signum(d) * (n \div g), Abs1(d) \div g>>
Plus(p, q) == Ratio(p[1] * q[2] + q[1] * p[2], p[2] * q[2])
Minus(p, q) == Ratio(p[1] * q[2] - q[1] * p[2], p[2] * q[2])
Times(p, q) == Ratio(p[1] * q[1], p[2] * q[2])
Over(p, q) == Ratio(p[1] * q[2], p[2] * q[1])
Truncate(p) == Quotient(p[1], p[2])
Fmod(p, q) == IF q = Zero THEN <<0, 0>> ELSE Minus(p, Times(q, Whole(Truncate(Over(p, q)))))
\* std::pow for an exponent without fraction.
Power(p, n) ==
  CASE n = 0 -> Whole(1)
    [] n > 0 -> <<p[1] ^ n, p[2] ^ n>>
    [] n < 0 -> Over(Whole(1), <<p[1] ^ (-n), p[2] ^ (-n)>>)
Compares(op, p, q) ==
  LET l == p[1] * q[2]  r == q[1] * p[2]
  IN CASE op = "==" -> l = r [] op = "!=" -> l # r [] op = "<" -> l < r [] op = "<=" -> l <= r [] op = ">" -> l > r [] op = ">=" -> l >= r

\* FromInteger: a sum, product or quotient that does not fit is signed overflow.
Half == 2 ^ (IntBits - 1)
Fits(n) == -Half <= n /\ n < Half
FromInteger(n) == IF Fits(n) THEN Value("int", Whole(n)) ELSE Undefined
ToInteger(p) == IF p[2] = 0 THEN Undefined ELSE FromInteger(Truncate(p))
FromDouble(p) == Value("double", p)
FromBoolean(b) == Value("bool", Whole(IF b THEN 1 ELSE 0))
FromByte(n) == Value("byte", Whole(n % 2 ^ ByteBits))
\* wchar_t is unsigned on Windows and signed elsewhere.
FromChar(n) ==
  LET half == 2 ^ (CharBits - 1)
  IN Value("char", Whole(IF Platform = "windows" THEN n % 2 ^ CharBits ELSE ((n + half) % 2 ^ CharBits) - half))

Bit(n, i) == (n \div 2 ^ i) % 2
FromBits(bits) == MapThenSumSet(LAMBDA i : bits[i] * 2 ^ i, 0..IntBits - 2) - bits[IntBits - 1] * Half
BitsOr(a, b) == FromInteger(FromBits([i \in 0..IntBits - 1 |-> IF 1 \in {Bit(a, i), Bit(b, i)} THEN 1 ELSE 0]))
BitsAnd(a, b) == FromInteger(FromBits([i \in 0..IntBits - 1 |-> Bit(a, i) * Bit(b, i)]))
\* Since C++20 a left shift wraps; a count outside of 0..63 is undefined.
ShiftLeft(a, b) == IF b \in 0..IntBits - 1 THEN FromInteger(((a * 2 ^ b + Half) % 2 ^ IntBits) - Half) ELSE Undefined
ShiftRight(a, b) == IF b \in 0..IntBits - 1 THEN FromInteger(a \div 2 ^ b) ELSE Undefined

\* A piece of text: a character, or what a number or bool is formatted to.
Piece(as, p) == [as |-> as, of |-> p]
NulPiece == Piece("char", Zero)
\* FromString(const wchar_t*) measures the text by wcslen.
FromString(text) ==
  LET ends == {i \in DOMAIN text : text[i] = NulPiece}
  IN Value("string", IF ends = {} THEN text ELSE SubSeq(text, 1, Min(ends) - 1))
FormatString(x) ==
  CASE x.t = "string" -> x.v
    [] x.t \in {"char", "bool"} -> <<Piece(x.t, x.v)>>
    [] x.t = "double" -> <<Piece("fixed", x.v)>>
    [] OTHER -> <<Piece("number", x.v)>>
\* Whether FormatString(x, nullptr, 0) is the length: swprintf without a buffer gives it
\* on Windows and -1 with glibc.
Measured(x) == Platform = "windows" \/ x.t \in {"string", "char", "bool"}

(***************************************************************************)
(* The tables.                                                             *)
(***************************************************************************)
P(name) == [kind |-> "named", name |-> name]

RegisterOperator(type, ret, name, params) ==
  [owner |-> P(type), name |-> name, linking |-> "static", typeParameters |-> <<>>, params |-> [i \in DOMAIN params |-> P(params[i])],
   returns |-> P(ret), getter |-> TRUE, setter |-> TRUE]
Several(type, ret, names, params) == [i \in DOMAIN names |-> RegisterOperator(type, ret, names[i], params)]

IntegerOperators ==
  <<RegisterOperator("int", "int", "+", <<"int", "int">>), RegisterOperator("int", "string", "+", <<"int", "string">>),
    RegisterOperator("int", "string", "+", <<"int", "char">>)>>
  \o Several("int", "int", <<"-", "*", "/", "%", "pow", "|", "&", "<<", ">>">>, <<"int", "int">>)
  \o Several("int", "bool", <<"==", "!=", "<", "<=", ">", ">=">>, <<"int", "int">>)
  \o Several("int", "int", <<"++", "--", "-", "+">>, <<"int">>)
BooleanOperators ==
  <<RegisterOperator("bool", "string", "+", <<"bool", "string">>)>>
  \o Several("bool", "bool", <<"==", "!=", "|", "&">>, <<"bool", "bool">>)
  \o Several("bool", "bool", <<"!">>, <<"bool">>)
CharOperators ==
  [i \in 1..3 |-> RegisterOperator("char", "string", "+", <<"char", <<"char", "int", "string">>[i]>>)]
  \o <<RegisterOperator("char", "string", "*", <<"char", "int">>)>>
  \o Several("char", "bool", <<"==", "!=">>, <<"char", "char">>) \o Several("char", "char", <<"++", "--">>, <<"char">>)
StringOperators ==
  [i \in 1..4 |-> RegisterOperator("string", "string", "+", <<"string", <<"string", "int", "bool", "char">>[i]>>)]
  \o <<RegisterOperator("string", "string", "*", <<"string", "int">>)>>
  \o Several("string", "bool", <<"==", "!=">>, <<"string", "string">>)
DoubleOperators ==
  <<RegisterOperator("double", "double", "+", <<"double", "double">>), RegisterOperator("double", "string", "+", <<"double", "string">>)>>
  \o Several("double", "double", <<"-", "*", "/", "%", "pow">>, <<"double", "double">>)
  \o Several("double", "bool", <<"==", "!=", "<", "<=", ">", ">=">>, <<"double", "double">>)
  \o Several("double", "double", <<"-", "+">>, <<"double">>)
ByteOperators ==
  Several("byte", "byte", <<"+", "-", "*", "/", "%">>, <<"byte", "byte">>)
  \o Several("byte", "bool", <<"==", "!=", "<", "<=", ">", ">=">>, <<"byte", "byte">>)
  \o Several("byte", "byte", <<"++", "--">>, <<"byte">>)

ResolvePrimitiveOperators(type) ==
  CASE type = "int" -> IntegerOperators
    [] type = "bool" -> BooleanOperators
    [] type = "char" -> CharOperators
    [] type = "string" -> StringOperators
    [] type = "double" -> DoubleOperators
    [] type = "byte" -> ByteOperators
    [] OTHER -> <<>>

(***************************************************************************)
(* PrimitiveMathModule.  Its operands are not null.                        *)
(***************************************************************************)
IsNumericType(t) == t \in {"int", "double", "char", "bool", "byte", "nint"}
IsIntegralType(t) == t \in {"int", "char", "byte", "nint"}
AsInteger(x) == Truncate(x.v)
AsCharacter(x) ==
  CASE x.t \in {"char", "int", "double", "enum"} -> Truncate(x.v)
    [] x.t = "bool" -> IF x.v = Zero THEN 0 ELSE 49
    [] OTHER -> 0

Numeric(l, r) == IsNumericType(l.t) /\ IsNumericType(r.t)
Real(l, r) == "double" \in {l.t, r.t}
Calculated(l, r, Op(_, _)) ==
  IF Numeric(l, r) THEN LET exact == Op(l.v, r.v) IN IF Real(l, r) THEN FromDouble(exact) ELSE ToInteger(exact)
  ELSE NoValue

\* The length of a number that could not be measured is -1: the terminator is written
\* over the last character of the left string, or the text in front of the buffer.
Concatenation(l, r) ==
  CASE Measured(l) /\ Measured(r) -> FromString(FormatString(l) \o FormatString(r))
    [] Measured(l) /\ ~Measured(r) /\ l.v # <<>> -> FromString(Front(l.v))
    [] OTHER -> Undefined
ExecuteMathAddition(l, r) == IF "string" \in {l.t, r.t} THEN Concatenation(l, r) ELSE Calculated(l, r, Plus)
ExecuteMathSubtraction(l, r) == Calculated(l, r, Minus)
ExecuteMathMultiplication(l, r) == Calculated(l, r, Times)
ExecuteMathDivision(l, r) ==
  IF Numeric(l, r) /\ r.v = Zero THEN Thrown ELSE Calculated(l, r, LAMBDA p, q : Over(p, q))
\* INT64_MIN % -1 is undefined, as its quotient does not fit.
ExecuteMathModulo(l, r) ==
  IF Numeric(l, r) /\ r.v = Zero THEN Thrown
  ELSE IF Numeric(l, r) /\ ~Real(l, r) /\ ~Fits(Quotient(AsInteger(l), AsInteger(r))) THEN Undefined
  ELSE Calculated(l, r, Fmod)
ExecuteMathPower(l, r) == Calculated(l, r, LAMBDA p, q : Power(p, q[1]))

Integral(l, r, Op(_, _)) == IF IsIntegralType(l.t) /\ IsIntegralType(r.t) THEN Op(AsInteger(l), AsInteger(r)) ELSE NoValue
ExecuteBitwiseOr(l, r) == IF {l.t, r.t} = {"bool"} THEN FromBoolean(l.v # Zero \/ r.v # Zero) ELSE Integral(l, r, BitsOr)
ExecuteBitwiseAnd(l, r) == IF {l.t, r.t} = {"bool"} THEN FromBoolean(l.v # Zero /\ r.v # Zero) ELSE Integral(l, r, BitsAnd)
ExecuteShiftLeft(l, r) == Integral(l, r, ShiftLeft)
ExecuteShiftRight(l, r) == Integral(l, r, ShiftRight)

\* wcscmp(s, t) < 0
Wcsless(s, t) ==
  \E i \in 1..Len(t) :
    /\ i <= Len(s) + 1 /\ SubSeq(s, 1, i - 1) = SubSeq(t, 1, i - 1)
    /\ i <= Len(s) => Compares("<", s[i].of, t[i].of)
ExecuteCompareEqual(l, r) ==
  CASE {l.t, r.t} = {"string"} -> FromBoolean(l.v = r.v)
    [] {l.t, r.t} = {"enum"} \/ Numeric(l, r) -> FromBoolean(Compares("==", l.v, r.v))
    [] OTHER -> NoValue
ExecuteCompareNotEqual(l, r) ==
  LET equal == ExecuteCompareEqual(l, r) IN IF equal.t = "none" THEN equal ELSE FromBoolean(equal.v = Zero)
ExecuteCompareLess(l, r) ==
  CASE {l.t, r.t} = {"string"} -> FromBoolean(Wcsless(l.v, r.v))
    [] Numeric(l, r) -> FromBoolean(Compares("<", l.v, r.v))
    [] OTHER -> NoValue
ExecuteCompareGreater(l, r) ==
  CASE {l.t, r.t} = {"string"} -> FromBoolean(Wcsless(r.v, l.v))
    [] Numeric(l, r) -> FromBoolean(Compares(">", l.v, r.v))
    [] OTHER -> NoValue
\* Mutant: not strict as strict.
StrictOnly(strict, l, r) == strict
OrEqual(strict, l, r) == IF SameValue(strict, FromBoolean(TRUE)) THEN strict ELSE ExecuteCompareEqual(l, r)

ExecuteBinary(op, l, r) ==
  CASE op = "+" -> ExecuteMathAddition(l, r)
    [] op = "-" -> ExecuteMathSubtraction(l, r)
    [] op = "*" -> ExecuteMathMultiplication(l, r)
    [] op = "/" -> ExecuteMathDivision(l, r)
    [] op = "%" -> ExecuteMathModulo(l, r)
    [] op = "pow" -> ExecuteMathPower(l, r)
    [] op = "|" -> ExecuteBitwiseOr(l, r)
    [] op = "&" -> ExecuteBitwiseAnd(l, r)
    [] op = "<<" -> ExecuteShiftLeft(l, r)
    [] op = ">>" -> ExecuteShiftRight(l, r)
    [] op = "==" -> ExecuteCompareEqual(l, r)
    [] op = "!=" -> ExecuteCompareNotEqual(l, r)
    [] op = "<" -> ExecuteCompareLess(l, r)
    [] op = "<=" -> OrEqual(ExecuteCompareLess(l, r), l, r)
    [] op = ">" -> ExecuteCompareGreater(l, r)
    [] op = ">=" -> OrEqual(ExecuteCompareGreater(l, r), l, r)
ExecuteUnary(op, x) ==
  CASE op = "!" -> IF x.t = "bool" THEN FromBoolean(x.v = Zero) ELSE NoValue
    [] op \in {"++", "--"} \/ (op \in {"-", "+"} /\ ~IsNumericType(x.t)) -> NoValue
    [] op \in {"-", "+"} /\ IsNumericType(x.t) /\ x.t = "double" -> FromDouble(IF op = "-" THEN Minus(Zero, x.v) ELSE x.v)
    [] OTHER -> FromInteger(IF op = "-" THEN -AsInteger(x) ELSE AsInteger(x))
\* A double that no int64 holds is undefined as an integer.
ExecuteCast(target, x) ==
  CASE "string" \in {target, x.t} -> NoValue
    [] target = "double" -> FromDouble(x.v)
    [] target = "bool" -> FromBoolean(x.v # Zero)
    [] target \in {"int", "char", "byte", "nint", "enum"} /\ x.t # "string" /\ ~Fits(AsInteger(x)) -> Undefined
    [] target = "char" /\ x.t # "string" /\ Fits(AsInteger(x)) -> FromChar(AsCharacter(x))
    [] target = "byte" /\ x.t # "string" /\ Fits(AsInteger(x)) -> FromByte(AsInteger(x))
    [] OTHER -> Value(target, Whole(AsInteger(x)))

(***************************************************************************)
(* The registered functions.                                               *)
(***************************************************************************)
Integers2(op, a, b) ==
  CASE op = "+" -> FromInteger(a + b)
    [] op = "-" -> FromInteger(a - b)
    [] op = "*" -> FromInteger(a * b)
    [] op = "/" -> IF b = 0 THEN Undefined ELSE FromInteger(Quotient(a, b))
    [] op = "%" -> IF b = 0 THEN Undefined ELSE IF Fits(Quotient(a, b)) THEN FromInteger(a - b * Quotient(a, b)) ELSE Undefined
    [] op = "pow" -> ToInteger(Power(Whole(a), b))
    [] op = "|" -> BitsOr(a, b)
    [] op = "&" -> BitsAnd(a, b)
    [] op = "<<" -> ShiftLeft(a, b)
    [] op = ">>" -> ShiftRight(a, b)
    [] op \in {"==", "!="} -> FromBoolean(Compares(op, Whole(a), Whole(b)))
    [] OTHER -> FromInteger(IF Compares(op, Whole(a), Whole(b)) THEN 1 ELSE 0)
Doubles2(op, p, q) ==
  CASE op = "+" -> FromDouble(Plus(p, q))
    [] op = "-" -> FromDouble(Minus(p, q))
    [] op = "*" -> FromDouble(Times(p, q))
    [] op = "/" -> FromDouble(Over(p, q))
    [] op = "%" -> FromDouble(Fmod(p, q))
    [] op = "pow" -> FromDouble(Power(p, q[1]))
    [] op \in {"==", "!="} -> FromBoolean(Compares(op, p, q))
    [] OTHER -> FromDouble(Whole(IF Compares(op, p, q) THEN 1 ELSE 0))
Booleans2(op, a, b) ==
  FromBoolean(CASE op = "==" -> a = b [] op = "!=" -> a # b [] op = "|" -> a \/ b [] op = "&" -> a /\ b)
Bytes2(op, a, b) ==
  CASE op = "+" -> FromByte(a + b)
    [] op = "-" -> FromByte(a - b)
    [] op = "*" -> FromByte(a * b)
    [] op \in {"/", "%"} /\ b = 0 -> Undefined
    [] op = "/" /\ b # 0 -> FromByte(a \div b)
    [] op = "%" /\ b # 0 -> FromByte(a % b)
    [] OTHER -> FromBoolean(Compares(op, Whole(a), Whole(b)))
\* concatStrings: each part ends at its first NUL.
ConcatStrings(x, y) == FromString(FromString(FormatString(x)).v \o FormatString(y))
RECURSIVE Repeat(_, _)
Repeat(text, n) == IF n <= 0 THEN <<>> ELSE text \o Repeat(text, n - 1)
Chars2(op, l, r) ==
  CASE op = "+" -> IF r.t = "char" THEN FromString(FormatString(l) \o FormatString(r)) ELSE ConcatStrings(l, r)
    [] op = "*" -> IF AsInteger(r) = 1 THEN l ELSE FromString(Repeat(FormatString(l), AsInteger(r)))
    [] OTHER -> FromBoolean(Compares(op, l.v, r.v))
\* == and != compare the pointers of two instances.
Strings2(op, l, r) ==
  CASE op = "+" -> ConcatStrings(l, r)
    [] op = "*" -> FromString(Repeat(l.v, AsInteger(r)))
    [] OTHER -> FromBoolean(op = "!=")
Function2(op, l, r) ==
  CASE l.t \in {"int", "bool", "double"} /\ op = "+" /\ r.t \in {"string", "char"} -> ConcatStrings(l, r)
    [] l.t = "char" -> Chars2(op, l, r)
    [] l.t = "string" -> Strings2(op, l, r)
    [] l.t = "int" /\ r.t = "int" -> Integers2(op, AsInteger(l), AsInteger(r))
    [] l.t = "double" /\ r.t = "double" -> Doubles2(op, l.v, r.v)
    [] l.t = "bool" /\ r.t = "bool" -> Booleans2(op, l.v # Zero, r.v # Zero)
    [] l.t = "byte" -> Bytes2(op, AsInteger(l), AsInteger(r))
Function1(op, x) ==
  LET n == IF op \in {"++", "+"} THEN 1 ELSE -1
  IN CASE op = "!" -> FromBoolean(x.v = Zero)
       [] op \in {"-", "+"} -> IF x.t = "double" THEN FromDouble(Times(Whole(n), x.v)) ELSE FromInteger(n * AsInteger(x))
       [] op \in {"++", "--"} -> CASE x.t = "int" -> FromInteger(AsInteger(x) + n)
                                   [] x.t = "char" -> FromChar(AsInteger(x) + n)
                                   [] x.t = "byte" -> FromByte(AsInteger(x) + n)

\* Primitive types accept only themselves, so FindOperator compares the types.
Registered(op, operands) ==
  \E m \in ToSet(ResolvePrimitiveOperators(operands[1].t)) :
    m.name = op /\ m.params = [j \in DOMAIN operands |-> P(operands[j].t)]
\* InvokeOperatorMethod
InvokeOperator(op, operands) ==
  IF ~Registered(op, operands) THEN Thrown
  ELSE IF Len(operands) = 1 THEN Function1(op, operands[1]) ELSE Function2(op, operands[1], operands[2])

\* executeBinary, executeUnary and CASTPRIMITIVE of ProcessCode.  The test of the divisor
\* reads it with ObjectInstance::AsInteger, which refuses a char, a byte and a nint.
DivisorRefused(r) == r.t \in {"char", "byte", "nint"} \/ (r.t \in {"int", "enum"} /\ r.v = Zero)
BinaryValue(op, l, r) ==
  LET result == ExecuteBinary(op, l, r)
  IN IF op \in {"/", "%"} /\ DivisorRefused(r) THEN Thrown
     ELSE IF result.t = "none" THEN InvokeOperator(op, <<l, r>>) ELSE result
UnaryValue(op, x) == LET result == ExecuteUnary(op, x) IN IF result.t = "none" THEN InvokeOperator(op, <<x>>) ELSE result
CastValue(target, x) == LET result == ExecuteCast(target, x) IN IF result.t = "none" THEN Thrown ELSE result

(***************************************************************************)
(* Literals.  A word is the sequence of its symbols as the lexer reads it; *)
(* 2 stands for the digits from 2 to 9, e for the letters of base 16 that  *)
(* are not b or d, k and m for the first letters of suffixes.              *)
(***************************************************************************)
DigitOf(c) == CASE c = "0" -> 0 [] c = "1" -> 1 [] c = "2" -> 2 [] c = "b" -> 11 [] c = "d" -> 13 [] c = "e" -> 14
IsValidIntegerDigit(c, base) ==
  \/ c \in {"0", "1"} /\ base >= 2
  \/ c = "2" /\ base >= 10
  \/ c \in {"b", "d", "e"} /\ base >= 16
TryParseBasePrefix(word) ==
  IF Len(word) >= 2 /\ word[1] = "0" /\ word[2] \in {"x", "d", "b"}
  THEN [base |-> CASE word[2] = "x" -> 16 [] word[2] = "d" -> 10 [] word[2] = "b" -> 2, length |-> 2]
  ELSE [base |-> 10, length |-> 0]
TryParseVolumeSuffix(word) ==
  IF Len(word) >= 2 /\ Last(word) = "b" /\ word[Len(word) - 1] \in {"k", "m"}
  THEN [multiplier |-> 2 ^ (VolumeBits * (IF word[Len(word) - 1] = "k" THEN 1 ELSE 2)), length |-> 2]
  ELSE [multiplier |-> 1, length |-> 0]

NumberOf(digits, base) == FoldLeft(LAMBDA n, c : base * n + DigitOf(c), 0, digits)
\* Mutant: the test allows for one more.
ScaledPastEnd(raw, multiplier) ==
  IF multiplier > 1 /\ raw > Half \div multiplier THEN NoValue ELSE Value("int", Whole(raw * multiplier))
\* The product with the unit of the suffix is tested before it is taken.
Scaled(raw, multiplier) ==
  IF multiplier > 1 /\ raw > (Half - 1) \div multiplier THEN NoValue ELSE Value("int", Whole(raw * multiplier))
\* std::stoll throws where there is no digit or no int64 for it.
ParseIntegerLiteral(word) ==
  LET prefix == TryParseBasePrefix(word)
      rest == SubSeq(word, prefix.length + 1, Len(word))
      suffix == TryParseVolumeSuffix(rest)
      numPart == SubSeq(rest, 1, Len(rest) - suffix.length)
  IN IF \/ \E i \in DOMAIN numPart : ~IsValidIntegerDigit(numPart[i], prefix.base)
        \/ numPart = <<>>
     THEN NoValue
     ELSE LET raw == NumberOf(numPart, prefix.base) IN IF raw >= Half THEN NoValue ELSE Scaled(raw, suffix.multiplier)

\* wcstod, on a word that begins with a digit: what follows the number, and the number.
Symbol(word, i) == IF i <= Len(word) THEN word[i] ELSE ""
AfterDigits(word, from) == Min({i \in from..Len(word) + 1 : Symbol(word, i) \notin {"0", "1", "2"}})
Wcstod(word) ==
  LET dot == AfterDigits(word, 1)
      e == IF Symbol(word, dot) = "." THEN AfterDigits(word, dot + 1) ELSE dot
      end == IF Symbol(word, e) = "e" /\ Symbol(word, e + 1) \in {"0", "1", "2"} THEN AfterDigits(word, e + 1) ELSE e
      fraction == SubSeq(word, dot + 1, e - 1)
      exponent == IF end > e THEN NumberOf(SubSeq(word, e + 1, end - 1), 10) ELSE 0
  IN [end |-> end, value |-> Ratio(NumberOf(SubSeq(word, 1, dot - 1) \o fraction, 10) * 10 ^ exponent, 10 ^ Len(fraction))]
ParseDoubleLiteral(word) ==
  LET parsed == Wcstod(word)
  IN IF \/ TryParseBasePrefix(word).length > 0
        \/ TryParseVolumeSuffix(word).length > 0
        \/ parsed.end # Len(word) + 1
     THEN NoValue ELSE FromDouble(parsed.value)

\* AnalyzeNumberLiteral, AnalyzeDoubleLiteral and VisitLiteralExpression: what the code
\* of a literal pushes where a value of type expected is wanted; none, if it is reported.
LiteralValue(word, expected) ==
  LET number == ParseIntegerLiteral(word)
  IN CASE Contains(word, ".") -> ParseDoubleLiteral(word)
       [] ~Contains(word, ".") /\ number.t # "none" /\ expected \in {"byte", "nint"} -> CastValue(expected, number)
       [] OTHER -> number
=============================================================================
