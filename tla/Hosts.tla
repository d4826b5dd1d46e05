-------------------------------- MODULE Hosts --------------------------------
(***************************************************************************)
(* The compilation context and the interpreter around it: versions and     *)
(* version expressions (SemanticVersion.cpp), the order in which           *)
(* AddLibraries loads native libraries, the passes of a compilation        *)
(* (CompilationContext.cpp, SemanticAnalyzer.cpp), what main does with the *)
(* result, and the sessions of the interactive console.                    *)
(*                                                                         *)
(* A text is a sequence of characters, a version the sequence of its major,*)
(* minor and patch number; Nullopt is std::nullopt.  A library is a record of *)
(* its path, name, version text, dependencies (a name and a text each) and *)
(* of what the file offers: whether it can be loaded, describes itself and *)
(* exports an entry point.                                                 *)
(***************************************************************************)
EXTENDS Integers, SequencesExt, FiniteSetsExt

CONSTANT MaxLines      \* maxLines: the continuation lines of one submission to the console

Nullopt == <<>>

(***************************************************************************)
(* Versions.                                                               *)
(***************************************************************************)
Digits == <<"0", "1", "2", "3", "4", "5", "6", "7", "8", "9">>
IsDigit(c) == c \in ToSet(Digits)
DigitValue(c) == (CHOOSE i \in DOMAIN Digits : Digits[i] = c) - 1
IsSpace(c) == c = " "

Trim(text) ==
  LET kept == {i \in DOMAIN text : ~IsSpace(text[i])}
  IN IF kept = {} THEN <<>> ELSE SubSeq(text, Min(kept), Max(kept))

\* The number that starts at pos and the position behind it, pos itself without a digit.
NumberIn(digits, next) ==
  LET value[n \in 0..Len(digits)] == IF n = 0 THEN 0 ELSE value[n - 1] * 10 + DigitValue(digits[n])
  IN [value |-> value[Len(digits)], next |-> next]
RunOfDigits(text, pos) == Min({i \in pos..(Len(text) + 1) : i = Len(text) + 1 \/ ~IsDigit(text[i])} \cup {pos + Len(text)})
ParseInt(text, pos) == NumberIn(SubSeq(text, pos, RunOfDigits(text, pos) - 1), RunOfDigits(text, pos))

Holds(text, pos, c) == pos <= Len(text) /\ text[pos] = c

\* major.minor.patch, with a prerelease behind a dash that no comparison looks at.
Complete(input, major, minor, patch) ==
  IF /\ major.next > 1 /\ Holds(input, major.next, ".")
     /\ minor.next > major.next + 1 /\ Holds(input, minor.next, ".")
     /\ patch.next > minor.next + 1
     /\ patch.next > Len(input) \/ (Holds(input, patch.next, "-") /\ patch.next < Len(input))
  THEN <<major.value, minor.value, patch.value>> ELSE Nullopt
ParsePatch(input, major, minor) == Complete(input, major, minor, ParseInt(input, minor.next + 1))
ParseMinor(input, major) == ParsePatch(input, major, ParseInt(input, major.next + 1))
ParseMajor(input) == ParseMinor(input, ParseInt(input, 1))
ParseVersion(text) == ParseMajor(Trim(text))

Less(v, w) ==
  \E i \in 1..3 : v[i] < w[i] /\ \A k \in 1..(i - 1) : v[k] = w[k]

Operators == << <<"^">>, <<"~">>, <<">", "=">>, <<">">>, <<"<", "=">>, <<"<">>, <<"=">>, <<>> >>
OperatorNames == <<"Compatible", "Approximately", "GreaterOrEqual", "Greater", "LessOrEqual", "Less", "Equal", "Equal">>
ConstraintWith(i, text) ==
  [op |-> OperatorNames[i], version |-> ParseVersion(SubSeq(text, Len(Operators[i]) + 1, Len(text)))]
ParseConstraint(text) == ConstraintWith(Min({i \in DOMAIN Operators : IsPrefix(Operators[i], text)}), text)

\* The constraints of an expression, Nullopt when there is none or one cannot be read.
Pieces(text) ==
  LET Add(pieces, c) == IF IsSpace(c) \/ c = "," THEN Append(pieces, <<>>)
                        ELSE [pieces EXCEPT ![Len(pieces)] = Append(@, c)]
  IN SelectSeq(FoldLeft(Add, << <<>> >>, text), LAMBDA piece : piece # <<>>)
AllRead(constraints) == IF \E i \in DOMAIN constraints : constraints[i].version = Nullopt THEN Nullopt ELSE constraints
ReadAll(pieces) == AllRead([i \in DOMAIN pieces |-> ParseConstraint(pieces[i])])
Parse(text) == ReadAll(Pieces(text))

UpperOfCompatible(v) ==
  IF v[1] > 0 THEN <<v[1] + 1, 0, 0>> ELSE IF v[2] > 0 THEN <<v[1], v[2] + 1, 0>> ELSE <<v[1], v[2], v[3] + 1>>
UpperOfApproximate(v) == <<v[1], v[2] + 1, 0>>
Meets(version, c) ==
  CASE c.op = "Equal" -> version = c.version
    [] c.op = "Greater" -> Less(c.version, version)
    [] c.op = "GreaterOrEqual" -> ~Less(version, c.version)
    [] c.op = "Less" -> Less(version, c.version)
    [] c.op = "LessOrEqual" -> ~Less(c.version, version)
    [] c.op = "Compatible" -> ~Less(version, c.version) /\ Less(version, UpperOfCompatible(c.version))
    [] c.op = "Approximately" -> ~Less(version, c.version) /\ Less(version, UpperOfApproximate(c.version))
Satisfies(constraints, version) == \A i \in DOMAIN constraints : Meets(version, constraints[i])

(***************************************************************************)
(* Dependencies.  A dependency without an expression takes any version; a  *)
(* library without a version counts as 0.0.0.                              *)
(***************************************************************************)
Wildcard == <<"*">>
ExpressionOf(dep) == IF dep.expression = <<>> THEN Wildcard ELSE dep.expression
CandidateVersion(lib) == ParseVersion(IF lib.version = <<>> THEN <<"0", ".", "0", ".", "0">> ELSE lib.version)

Accepts(expression, constraints, version) ==
  expression = Wildcard \/ (version # Nullopt /\ Satisfies(constraints, version))

\* candidates: the libraries of the name in the order of the multimap, each the index of the
\* library and its version.
Newer(best, candidate) ==
  best = Nullopt \/ (best[2] # Nullopt /\ candidate[2] # Nullopt /\ Less(best[2], candidate[2]))
Better(best, candidate, expression, constraints) ==
  IF Accepts(expression, constraints, candidate[2]) /\ Newer(best, candidate) THEN candidate ELSE best
BestMatch(candidates, expression, constraints) ==
  LET best[n \in 0..Len(candidates)] ==
        IF n = 0 THEN Nullopt ELSE Better(best[n - 1], candidates[n], expression, constraints)
  IN IF expression # Wildcard /\ constraints = Nullopt THEN Nullopt ELSE best[Len(candidates)]

\* The edges from a dependency to its dependent, in the order they are found; a dependency
\* that is missing, whose expression is invalid or that no version meets has target 0.
Edge(source, best) == [source |-> source, target |-> IF best = Nullopt THEN 0 ELSE best[1]]
AddNamed(candidates, k, name, libraries, versions) ==
  IF libraries[k].name = name /\ name # "" THEN Append(candidates, <<k, versions[k]>>) ELSE candidates
CandidatesNamed(name, libraries, versions, order) ==
  LET named[n \in 0..Len(order)] == IF n = 0 THEN <<>> ELSE AddNamed(named[n - 1], order[n], name, libraries, versions)
  IN named[Len(order)]
EdgesOf(i, libraries, versions, order) ==
  [d \in DOMAIN libraries[i].dependencies |->
     LET dep == libraries[i].dependencies[d]
     IN Edge(i, BestMatch(CandidatesNamed(dep.name, libraries, versions, order), ExpressionOf(dep), Parse(ExpressionOf(dep))))]
ResolvedDependencies(libraries, versions, order) ==
  LET resolved[i \in 0..Len(libraries)] == IF i = 0 THEN <<>> ELSE resolved[i - 1] \o EdgesOf(i, libraries, versions, order)
  IN resolved[Len(libraries)]

ReleaseAtOnce(st, edge) ==
  [st EXCEPT !.inDegree[edge.source] = @ - 1,
             !.queue = IF edge.source \in ToSet(@) \cup ToSet(st.order) THEN @ ELSE Append(@, edge.source)]
\* One dependency of a library is in the load order; with the last one the library is queued.
Release(st, edge) ==
  LET degree == st.inDegree[edge.source] - 1
  IN [queue |-> IF degree = 0 THEN Append(st.queue, edge.source) ELSE st.queue,
      order |-> st.order, inDegree |-> [st.inDegree EXCEPT ![edge.source] = degree]]
ReleaseFor(st, edge, current) == IF edge.target = current THEN Release(st, edge) ELSE st
\* One round of Kahn's algorithm: the head of the queue is next in the load order.
Take(edges, st) ==
  LET current == Head(st.queue)
      taken == [queue |-> Tail(st.queue), order |-> Append(st.order, current), inDegree |-> st.inDegree]
      released[k \in 0..Len(edges)] == IF k = 0 THEN taken ELSE ReleaseFor(released[k - 1], edges[k], current)
  IN released[Len(edges)]
TakeAny(edges, st) == IF st.queue = <<>> THEN st ELSE Take(edges, st)
\* The libraries that depend on nothing, in their order.
QueueFree(queue, inDegree, i) == IF inDegree[i] = 0 THEN Append(queue, i) ELSE queue
Free(inDegree) ==
  LET queue[i \in 0..Len(inDegree)] == IF i = 0 THEN <<>> ELSE QueueFree(queue[i - 1], inDegree, i)
  IN queue[Len(inDegree)]
Kahn(edges, inDegree) ==
  LET after[n \in 0..Len(inDegree)] ==
        IF n = 0 THEN [queue |-> Free(inDegree), order |-> <<>>, inDegree |-> inDegree] ELSE TakeAny(edges, after[n - 1])
  IN after[Len(inDegree)].order
InDegrees(libraries, edges) == [i \in DOMAIN libraries |-> Cardinality({k \in DOMAIN edges : edges[k].source = i})]
LoadOrder(libraries, edges) == Kahn(edges, InDegrees(libraries, edges))

\* The order, and whether an error was reported instead.
OrderOrError(libraries, edges, loadOrder) ==
  IF (\E i \in DOMAIN edges : edges[i].target = 0) \/ Len(loadOrder) # Len(libraries)
  THEN [reported |-> TRUE, order |-> <<>>] ELSE [reported |-> FALSE, order |-> loadOrder]
OrderBy(libraries, edges) == OrderOrError(libraries, edges, LoadOrder(libraries, edges))
ResolveLibraryDependencies(libraries, order) ==
  OrderBy(libraries, ResolvedDependencies(libraries, [i \in DOMAIN libraries |-> CandidateVersion(libraries[i])], order))

(***************************************************************************)
(* Loading.                                                                *)
(***************************************************************************)
TryReadLibraryMetadata(lib) == lib.loads /\ lib.describes

\* AddLib throws for a library without an entry point; nothing is loaded after it.
AddLib(st, lib) ==
  IF lib.entry THEN [st EXCEPT !.loaded = Append(@, lib)] ELSE [st EXCEPT !.thrown = TRUE]
KeyOf(lib) == <<IF lib.name # "" THEN lib.name ELSE lib.path, lib.version>>
AddOnce(st, lib) ==
  IF st.thrown \/ KeyOf(lib) \in st.keys THEN st
  ELSE AddLib([st EXCEPT !.keys = @ \cup {KeyOf(lib)}], lib)

\* The libraries in the load order, added as long as none throws.
AddAll(libraries, loadOrder) ==
  LET added[n \in 0..Len(loadOrder)] ==
        IF n = 0 THEN [loaded |-> <<>>, keys |-> {}, thrown |-> FALSE] ELSE AddOnce(added[n - 1], libraries[loadOrder[n]])
  IN added[Len(loadOrder)]
AddInOrder(libraries, resolved) == [reported |-> resolved.reported, added |-> AddAll(libraries, resolved.order)]
AddReadable(libraries, order) == AddInOrder(libraries, ResolveLibraryDependencies(libraries, order))
\* order: how the multimap lists libraries of one name.
AddKnown(libraries, order) == AddReadable(libraries, SelectSeq(order, LAMBDA k : k \in DOMAIN libraries))
AddLibraries(files, order) == AddKnown(SelectSeq(files, TryReadLibraryMetadata), order)

(***************************************************************************)
(* A compilation.  c is whether any error was reported, the passes that    *)
(* ran and whether an exception ended it; request.reports are the passes   *)
(* that report an error if they run, request.throws those that throw a     *)
(* std::runtime_error, request.crashes those that throw anything else.     *)
(***************************************************************************)
Started == [errors |-> FALSE, ran |-> <<>>, thrown |-> "no"]
Pass(request, c, name) ==
  IF c.thrown # "no" THEN c
  ELSE [errors |-> c.errors \/ name \in request.reports, ran |-> Append(c.ran, name),
        thrown |-> IF name \in request.throws THEN "runtime" ELSE IF name \in request.crashes THEN "other" ELSE "no"]
Unless(request, c, name) == IF c.errors THEN c ELSE Pass(request, c, name)
ThrowIfErrors(c) == IF c.errors /\ c.thrown = "no" THEN [c EXCEPT !.thrown = "diagnostics"] ELSE c

\* The collector always runs, each other pass only if nothing was reported by then.
AnalysisPasses == <<"types", "expressions", "flow", "validate">>
Analyze(request, c) ==
  FoldLeft(LAMBDA d, name : Unless(request, d, name), Pass(request, c, "collect"), AnalysisPasses)

\* Without a source file there is nothing to analyze.
AnalyzeTree(request, c) == IF request.files THEN Analyze(request, c) ELSE c
Lower(request, c) == ThrowIfErrors(Pass(request, Pass(request, c, "lower"), "layout"))
Emit(request, c) == Pass(request, c, "emit")
SetEntryPoint(request, c) ==
  IF request.entry /\ c.thrown = "no" THEN [c EXCEPT !.errors = @ \/ request.entries # 1] ELSE c
Compile(request, c) == ThrowIfErrors(SetEntryPoint(request, Emit(request, Lower(request, AnalyzeTree(request, c)))))

(***************************************************************************)
(* main.  A request is what the command line asks for; `does` is the last  *)
(* thing main starts.                                                      *)
(***************************************************************************)
RunProgram(line) == line.files /\ ~line.lint /\ ~line.decompile /\ ~line.interactive
RunInteractive(line) == line.interactive \/ (~line.decompile /\ ~line.lint /\ ~line.files)

Sources(line) == IF line.files THEN Pass(line, Pass(line, Started, "libraries"), "parse") ELSE Pass(line, Started, "libraries")
Does(line) ==
  CASE RunInteractive(line) -> "console"
    [] ~RunInteractive(line) /\ line.decompile -> "disassemble"
    [] OTHER -> "program"
Begin(line, c) == Pass(line, c, Does(line))

\* A std::runtime_error is reported as critical, and main goes on to return 0.
ExitCode(line, c) ==
  CASE c.thrown = "diagnostics" -> 1
    [] c.thrown = "runtime" -> 0
    [] c.thrown = "other" -> 3
    [] OTHER -> IF Last(c.ran) = "program" /\ line.unhandled THEN 1 ELSE 0
Ended(line, c) == [ran |-> c.ran, errors |-> c.errors, code |-> ExitCode(line, c)]
Requested(line) == [line EXCEPT !.entry = RunProgram(line) \/ line.decompile]
Main(line) ==
  CASE ~line.flags -> [ran |-> <<>>, errors |-> FALSE, code |-> 1]
    [] line.flags /\ line.help -> [ran |-> <<"help">>, errors |-> FALSE, code |-> 0]
    [] line.flags /\ ~line.help /\ ~line.found -> [ran |-> <<>>, errors |-> FALSE, code |-> 1]
    [] line.flags /\ ~line.help /\ line.found /\ line.lint -> Ended(line, ThrowIfErrors(AnalyzeTree(line, Sources(line))))
    [] OTHER -> Ended(line, Begin(line, Compile(Requested(line), Sources(line))))

(***************************************************************************)
(* InteractiveConsole: reading a submission.  A line is a sequence of      *)
(* tokens; at the end of the input every line reads as exit.               *)
(***************************************************************************)
Brackets == << <<"{", "}">>, <<"(", ")">>, <<"[", "]">> >>
Depth(tokens, pair) ==
  Len(SelectSeq(tokens, LAMBDA t : t = pair[1])) - Len(SelectSeq(tokens, LAMBDA t : t = pair[2]))
IsStatementComplete(tokens) == \A i \in DOMAIN Brackets : Depth(tokens, Brackets[i]) = 0
IsExpressionComplete(tokens) == \A i \in {2, 3} : Depth(tokens, Brackets[i]) = 0
IsComplete(tokens, isExpression) == IF isExpression THEN IsExpressionComplete(tokens) ELSE IsStatementComplete(tokens)

ReadLine(lines, n) == IF n \in DOMAIN lines THEN lines[n] ELSE <<"exit">>
ReadNext(lines, read, n, isExpression) ==
  IF IsComplete(read.tokens, isExpression) THEN read
  ELSE [tokens |-> read.tokens \o ReadLine(lines, n), lines |-> read.lines + 1]
ReadMultilineInput(lines, tokens, isExpression) ==
  FoldLeft(LAMBDA read, n : ReadNext(lines, read, n, isExpression), [tokens |-> tokens, lines |-> 0], [n \in 1..MaxLines |-> n])

IsMemberDeclaration(tokens) == tokens[1] \in {"func", "static", "class", "["}
IsKeyword(token) == token \in {"if", "while", "return"}
Alone(tokens) == [tokens |-> tokens, lines |-> 0]
ReadSubmission(lines, tokens) ==
  CASE tokens = <<>> \/ tokens[1] \in {";", "using"} -> Alone(tokens)
    [] Len(tokens) > 1 /\ IsMemberDeclaration(tokens) -> ReadMultilineInput(lines, tokens, FALSE)
    [] tokens # <<>> /\ tokens[1] \notin {";", "using"} /\ ~(Len(tokens) > 1 /\ IsMemberDeclaration(tokens)) ->
         CASE Last(tokens) # ";" -> ReadMultilineInput(lines, tokens, TRUE)
           [] Last(tokens) = ";" /\ IsKeyword(tokens[1]) -> ReadMultilineInput(lines, tokens, FALSE)
           [] OTHER -> Alone(tokens)

(***************************************************************************)
(* A session.  A submission is [kind, parsed ("yes", "other" for a member  *)
(* that is no method, "null"), reports (the parser reports an error),      *)
(* declares (a symbol the collector must have made), fails (the pass that  *)
(* reports an error, or "no"), emits (the emitter reports one), runs       *)
(* ("ok", "fault", or "once" if only its first execution faults), reuses   *)
(* (its node lies where a deleted one lay)].                               *)
(*                                                                         *)
(* The session s: whether the unit was collected, the submissions that are *)
(* in the body of the interactive method and those that are methods of the *)
(* interactive class, the nodes that have a symbol (a deleted one keeps    *)
(* its entry), AnyError, the statements emitted, the first that is not     *)
(* known to have run (Breakpoint), those executed, and what became of each *)
(* submission.                                                             *)
(***************************************************************************)
NewSession ==
  [collected |-> FALSE, body |-> <<>>, methods |-> <<>>, known |-> {}, deleted |-> {}, errors |-> FALSE, emitted |-> <<>>,
   breakpoint |-> 1, executed |-> <<>>, symbol |-> <<>>, fate |-> <<>>, left |-> <<>>, over |-> FALSE]
EndWith(s, fate) == [s EXCEPT !.fate = Append(@, fate), !.left = Append(@, s.errors)]

\* DeclarationCollector visits the members of a unit only the first time.
CollectUnit(subs, s) ==
  IF s.collected THEN s
  ELSE [s EXCEPT !.collected = TRUE, !.known = {i \in ToSet(s.body \o s.methods) : subs[i].declares}]

\* A node finds its own symbol or the one of a deleted node of its kind at its address.
SymbolsOf(subs, s, i) ==
  IF i \in s.known THEN {i}
  ELSE IF subs[i].reuses THEN {k \in s.deleted : subs[k].kind = subs[i].kind} ELSE {}
Unknown(subs, s, i) == subs[i].declares /\ SymbolsOf(subs, s, i) = {}
\* TypeBinder throws at the first declaration without a symbol; what it reported before stays.
ReportedBefore(subs, tree, n) == \E k \in 1..n : subs[tree[k]].fails = "types"
BindTypes(subs, s, tree, unknown) ==
  IF unknown = {} THEN [s EXCEPT !.errors = @ \/ ReportedBefore(subs, tree, Len(tree))]
  ELSE EndWith([s EXCEPT !.errors = @ \/ ReportedBefore(subs, tree, Min(unknown) - 1)], "thrown")
BindExpressions(subs, s, tree) == [s EXCEPT !.errors = @ \/ \E k \in DOMAIN tree : subs[tree[k]].fails = "expressions"]
Bind(subs, s, tree) == BindTypes(subs, s, tree, {k \in DOMAIN tree : Unknown(subs, s, tree[k])})
Thrown(s, i) == Len(s.fate) = i
AfterTypes(subs, s, tree, i) == IF s.errors \/ Thrown(s, i) THEN s ELSE BindExpressions(subs, s, tree)
AnalyzeSession(subs, s, i) ==
  IF s.errors THEN s ELSE AfterTypes(subs, Bind(subs, s, s.body \o s.methods), s.body \o s.methods, i)

\* With errors they are printed and forgotten, and the submission is taken out again.
RejectKept(subs, s, i) ==
  EndWith([s EXCEPT !.errors = FALSE, !.deleted = IF i \in s.known THEN @ \cup {i} ELSE @, !.known = @ \ {i}], "rejected")
Reject(subs, s, i) ==
  EndWith([s EXCEPT !.errors = FALSE, !.deleted = IF i \in s.known THEN @ \cup {i} ELSE @, !.known = @ \ {i},
                 !.body = SelectSeq(@, LAMBDA k : k # i), !.methods = SelectSeq(@, LAMBDA k : k # i)], "rejected")

\* RunInteractive runs from the breakpoint and moves it when it reaches the end.
Faults(subs, executed, i) == subs[i].runs = "fault" \/ (subs[i].runs = "once" /\ i \notin ToSet(executed))
Execute(subs, run, i) ==
  IF run.stopped THEN run ELSE [executed |-> Append(run.executed, i), stopped |-> Faults(subs, run.executed, i)]
AfterRun(s, run) ==
  EndWith([s EXCEPT !.executed = run.executed, !.breakpoint = IF run.stopped THEN @ ELSE Len(s.emitted) + 1], "accepted")
RunFromBreakpoint(subs, s) ==
  AfterRun(s, FoldLeft(LAMBDA run, i : Execute(subs, run, i), [executed |-> s.executed, stopped |-> FALSE],
                       SubSeq(s.emitted, s.breakpoint, Len(s.emitted))))

WithSymbol(subs, s, i) ==
  [s EXCEPT !.symbol = Append(@, [at |-> i, of |-> IF subs[i].declares THEN SymbolsOf(subs, s, i) ELSE {}]), !.errors = subs[i].emits]
Accept(subs, s, i) ==
  IF subs[i].kind = "method" THEN EndWith(WithSymbol(subs, s, i), "accepted")
  ELSE RunFromBreakpoint(subs, [WithSymbol(subs, s, i) EXCEPT !.emitted = Append(@, i)])
Judge(subs, s, i) == CASE Thrown(s, i) -> s [] ~Thrown(s, i) /\ s.errors -> Reject(subs, s, i) [] OTHER -> Accept(subs, s, i)

\* The submission is put into the tree before the tree is analyzed again.
Put(subs, s, i) ==
  IF subs[i].kind = "method" THEN [s EXCEPT !.methods = Append(@, i)] ELSE [s EXCEPT !.body = Append(@, i)]
Evaluate(subs, s, i) == Judge(subs, AnalyzeSession(subs, CollectUnit(subs, Put(subs, s, i)), i), i)
\* ReadMember reports a member that is no method itself; nothing resets what the parser reported.
Submit(subs, s, i) ==
  CASE s.over -> EndWith(s, "unread")
    [] ~s.over /\ subs[i].kind = "exit" -> EndWith([s EXCEPT !.over = TRUE], "unread")
    [] ~s.over /\ subs[i].kind \in {"empty", "using"} -> EndWith(s, "skipped")
    [] ~s.over /\ subs[i].kind \in {"statement", "method"} /\ subs[i].parsed # "yes" ->
         EndWith([s EXCEPT !.errors = @ \/ subs[i].reports \/ subs[i].parsed = "other"], "skipped")
    [] OTHER -> Evaluate(subs, [s EXCEPT !.errors = @ \/ subs[i].reports], i)
Run(subs) == FoldLeft(LAMBDA s, i : Submit(subs, s, i), NewSession, [i \in DOMAIN subs |-> i])
=============================================================================
