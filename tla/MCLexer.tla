------------------------------ MODULE MCLexer -------------------------------
(***************************************************************************)
(* The texts the lexer is asked about, and what its tokens should be.      *)
(***************************************************************************)
EXTENDS Jobs

CONSTANTS Words, TextLength, ReaderSteps

L == INSTANCE Lexer

(***************************************************************************)
(* Lexer.                                                                  *)
(***************************************************************************)
NumberChars == {"0", "x", "k", ".", "tick", "if", " "}
QuoteChars == {"\"", "\\", "n", "@", "'", "\n"}
OperatorChars == {"=", ">", "-", "/", "&", ".", "?", ":", "\n"}

\* A backslash inside a string is only ever followed by \, " or n.
Escapes(s) == \A i \in DOMAIN s : s[i] = "\\" /\ i < Len(s) => s[i + 1] \in {"\\", "\"", "n"}
Texts == UpTo(TextLength, NumberChars) \cup {s \in UpTo(TextLength, QuoteChars) : Escapes(s)}
           \cup UpTo(TextLength, OperatorChars) \cup {<<w>> : w \in DOMAIN L!Keywords}
LexedText(s) == L!Tokens(s, L!Start)
LexText == Asked("LexText") /\ \E s \in Texts : job' = [part |-> "lexer", text |-> s]

\* The texts that are tokens.
Quote(t, open, quote, verbatim) ==
  LET escaped(i) == ~verbatim /\ \E k \in 1..i : (\A j \in k..(i - 1) : j > open /\ t[j] = "\\") /\ (i - k) % 2 = 1
                                     /\ (k - 1 <= open \/ t[k - 1] # "\\")
  IN  /\ Len(t) >= open + 1
      /\ t[Len(t)] = quote /\ ~escaped(Len(t))
      /\ \A i \in (open + 1)..(Len(t) - 1) : t[i] = quote => escaped(i)
Number(t) ==
  /\ t[1] \in L!Digits
  /\ \A i \in DOMAIN t : t[i] \in L!NumberSymbols \cup {"tick", "."}
  /\ \A i, j \in DOMAIN t : t[i] = "." /\ t[j] = "." => i = j
  /\ \A i \in DOMAIN t : t[i] = "." => i < Len(t) /\ t[i + 1] \in L!NumberSymbols
  /\ \A i \in DOMAIN t : t[i] = "tick" /\ i < Len(t) => t[i + 1] # "tick"
Fixed == {<<c>> : c \in DOMAIN L!OneCharacter} \cup (DOMAIN L!TwoCharacters \ {<<"/", "/">>}) \cup {<<".", ".", "&">>}
IsToken(t) ==
  \/ t \in Fixed \/ Number(t)
  \/ t[1] = "\"" /\ Quote(t, 1, "\"", FALSE)
  \/ t[1] = "'" /\ Quote(t, 1, "'", FALSE)
  \/ Len(t) > 1 /\ t[1] = "@" /\ t[2] = "\"" /\ Quote(t, 2, "\"", TRUE)
  \/ t[1] \notin DOMAIN L!OneCharacter \cup L!Digits \cup L!Blanks \cup {"\"", "'"}
     /\ \A i \in 2..Len(t) : t[i] \in L!WordSymbols

\* Where the next token of s at or behind i starts: blanks and comments are passed.
RECURSIVE NextFirst(_, _)
NextFirst(s, i) ==
  IF i > Len(s) THEN i
  ELSE IF s[i] \in L!Blanks THEN NextFirst(s, i + 1)
  ELSE IF i < Len(s) /\ s[i] = "/" /\ s[i + 1] = "/"
  THEN LET ends == {j \in i..Len(s) : s[j] = "\n"}
       IN  IF ends = {} THEN Len(s) + 1 ELSE NextFirst(s, Min(ends))
  ELSE i
Longest(s, i) == {j \in i..Len(s) : IsToken(SubSeq(s, i, j))}

NeverClosed(s, i, longest) ==
  IF s[i] = "@" THEN i < Len(s) /\ s[i + 1] = "\"" /\ longest = {i} ELSE longest = {}

\* Part of TokensExact: the tokens of a text are its longest matches from left to right: no
\* character is lost or read twice, also around the '.' that a number reads
\* ahead and puts back, and only a literal that is never closed ends the text early.
TokensAreLongest ==
  job.part = "lexer" =>
    \A ts \in {LexedText(job.text)} : \A k \in 1..(Len(ts) + 1) :
      \A from \in {NextFirst(job.text, IF k = 1 THEN 1 ELSE ts[k - 1].last + 1)} :
        \A longest \in {Longest(job.text, from)} :
          /\ k <= Len(ts) => ts[k].first = from /\ ts[k].last = Max(longest)
          /\ k > Len(ts) /\ from <= Len(job.text) => NeverClosed(job.text, from, longest)

\* Part of TokensExact: the location of a token whose word is its text is the place it was read from.
Located ==
  job.part = "lexer" =>
    LET s == job.text
        line(i) == 1 + Cardinality({j \in 1..(i - 1) : s[j] = "\n"})
        column(i) == i - Max({0} \cup {j \in 1..(i - 1) : s[j] = "\n"})
    IN  \A ts \in {LexedText(s)} : \A k \in DOMAIN ts :
          ts[k].type \notin {"StringLiteral", "CharLiteral"} /\ (\A i \in ts[k].first..ts[k].last : s[i] # "tick")
            => ts[k].location = [line |-> line(ts[k].first), column |-> column(ts[k].first)]

(***************************************************************************)
(* Readers.  The parser looks at a token before it consumes it, and puts   *)
(* back one token at most.                                                 *)
(***************************************************************************)
ReaderOps == {"current", "consume", "peek0", "peek1", "putback"}
Looked(ops) == \A i \in DOMAIN ops : ops[i] = "consume" => i > 1 /\ ops[i - 1] # "consume"
ReadTokens ==
  Asked("ReadTokens") /\ \E n \in 0..3, ops \in UpTo(ReaderSteps, ReaderOps) :
    Looked(ops) /\ job' = [part |-> "readers", tokens |-> SubSeq(<<"t1", "t2", "t3">>, 1, n), ops |-> ops]

Results(step(_, _), r, ops) ==
  FoldLeft(LAMBDA acc, op : LET g == step(acc.reader, op)
                            IN  [reader |-> g.reader, tokens |-> Append(acc.tokens, g.token)],
           [reader |-> r, tokens |-> <<>>], ops).tokens
AnalyzerStep(r, op) ==
  CASE op = "current" -> L!AnalyzerCurrent(r) [] op = "consume" -> L!AnalyzerConsume(r)
    [] op = "peek0" -> L!AnalyzerPeek(r, 0) [] op = "peek1" -> L!AnalyzerPeek(r, 1)
    [] op = "putback" -> L!AnalyzerPutBack(r, "put")
BufferStep(r, op) ==
  CASE op = "current" -> L!BufferCurrent(r) [] op = "consume" -> L!BufferConsume(r)
    [] op = "peek0" -> L!BufferPeek(r, 0) [] op = "peek1" -> L!BufferPeek(r, 1)
    [] op = "putback" -> L!BufferPutBack(r, "put")

\* Part of TokensExact: both readers show the parser the same tokens, whatever it reads ahead.
SeenAlike ==
  job.part = "readers" =>
    Results(AnalyzerStep, L!Analyzer(job.tokens), job.ops) = Results(BufferStep, L!Buffer(job.tokens), job.ops)

\* What the parser reads is the text: its longest matches, none lost or read twice
\* (LexicalAnalyzer), at their places, and the same through the analyzer and through the
\* buffer of tokens whatever it looks ahead and puts back (SourceProvider).
TokensExact == TokensAreLongest /\ Located /\ SeenAlike
=============================================================================
