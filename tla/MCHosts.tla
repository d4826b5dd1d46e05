----------------------------- MODULE MCHosts -----------------------------
(***************************************************************************)
(* Version expressions against versions, up to three library files that    *)
(* depend on each other, command lines, and sessions of the console.       *)
(***************************************************************************)
EXTENDS Jobs

CONSTANTS
  MaxLines,        \* the continuation lines the console reads
  LoadedFor(_),    \* what is loaded of files (LoadedOf) and what the interpreter does
  HostedFor(_)     \* (HostedOf), parameters so that TLC does not unfold them

B == INSTANCE Hosts

Text(v) ==
  LET Number(n) == IF n < 10 THEN <<B!Digits[n + 1]>> ELSE <<B!Digits[(n \div 10) + 1], B!Digits[(n % 10) + 1]>>
  IN Number(v[1]) \o <<".">> \o Number(v[2]) \o <<".">> \o Number(v[3])
Versions == [1..3 -> {0, 1}] \cup {<<0, 9, 10>>, <<9, 0, 0>>, <<10, 9, 1>>, <<1, 10, 0>>, <<1, 9, 9>>, <<2, 0, 0>>}
Signs == [Compatible |-> <<"^">>, Approximately |-> <<"~">>, GreaterOrEqual |-> <<">", "=">>, Greater |-> <<">">>,
          LessOrEqual |-> <<"<", "=">>, Less |-> <<"<">>, Equal |-> <<>>]
Constraint == [op : DOMAIN Signs, version : Versions]
Separators == {<<" ">>, <<",">>, <<",", " ">>}
Limits == {[op |-> "GreaterOrEqual", version |-> <<0, 1, 0>>], [op |-> "Less", version |-> <<1, 10, 0>>]}
Compare ==
  Asked("Compare") /\ \E c \in Constraint, d \in {<<>>} \cup {<<b>> : b \in Limits}, sep \in Separators, w \in Versions :
    job' = [part |-> "constraint", wanted |-> <<c>> \o d, sep |-> sep, version |-> w]

\* What npm's operators mean, by the components that may change.
Agree(v, w, n) == \A i \in 1..n : v[i] = w[i]
NotBelow(v, w) == v = w \/ B!Less(v, w)
Meant(c, w) ==
  CASE c.op = "Equal" -> w = c.version
    [] c.op = "GreaterOrEqual" -> NotBelow(c.version, w)
    [] c.op = "Greater" -> NotBelow(c.version, w) /\ w # c.version
    [] c.op = "LessOrEqual" -> NotBelow(w, c.version)
    [] c.op = "Less" -> NotBelow(w, c.version) /\ w # c.version
    [] c.op = "Approximately" -> NotBelow(c.version, w) /\ Agree(c.version, w, 2)
    [] c.op = "Compatible" ->
         NotBelow(c.version, w) /\ Agree(c.version, w, Min({i \in 1..3 : c.version[i] > 0} \cup {3}))

(***************************************************************************)
(* Library files: "a" in two versions and perhaps a second copy of one,    *)
(* "b" and one without a name.                                             *)
(***************************************************************************)
Dep(name, expression) == [name |-> name, expression |-> expression]
Below == <<"<">> \o Text(<<1, 1, 0>>)
Caret == <<"^">> \o Text(<<1, 0, 0>>)
OnA == {<<>>, <<Dep("a", Below), Dep("a", Caret)>>}
         \cup {<<Dep("a", e)>> : e \in {<<>>, <<"*">>, Caret, Below, <<">">> \o Text(<<1, 1, 0>>), <<"^">>}}
OnB == {<<>>, <<Dep("b", <<>>)>>}
File(path, name, version, deps) ==
  [path |-> path, name |-> name, version |-> version, dependencies |-> deps, loads |-> TRUE, describes |-> TRUE, entry |-> TRUE]
A1s == {File("a1", "a", v, d) : v \in {Text(<<1, 0, 0>>), <<>>, <<"x">>}, d \in OnB}
A2s == {File("a2", "a", v, d) : v \in {Text(<<1, 0, 0>>), Text(<<1, 1, 0>>), Text(<<1, 1, 0>>) \o <<"-", "x">>}, d \in OnB \cup {<<Dep("a", <<"=">> \o Text(<<1, 0, 0>>))>>}}
Bs == {File("b", n, Text(<<2, 0, 0>>), d) : n \in {"b", ""}, d \in OnA}
Flaws(lib) == {lib, [lib EXCEPT !.describes = FALSE], [lib EXCEPT !.entry = FALSE]}
Orders == {<<1, 2, 3>>, <<3, 2, 1>>}
Load ==
  Asked("Load") /\ \E a1 \in A1s, a2 \in A2s, b \in Bs, order \in Orders :
    \E x \in Flaws(a1) : \E files \in {<<x, a2, b>>, <<b, a2, x>>, <<a2, b, x>>} :
      job' = [part |-> "load", files |-> files, order |-> order]

(***************************************************************************)
(* Which libraries a dependency may mean, from the declarations.           *)
(***************************************************************************)
Readable(files) == {f \in ToSet(files) : f.loads /\ f.describes}
Wide(dep) == dep.expression \in {<<>>, <<"*">>}
Matching(files, dep, constraints) ==
  {f \in Readable(files) : f.name = dep.name /\
     (Wide(dep) \/ (constraints # <<>> /\ B!CandidateVersion(f) # <<>> /\ B!Satisfies(constraints, B!CandidateVersion(f))))}
Newest(set, versions) ==
  {f \in set : versions[f] = <<>> \/ \A g \in set : versions[g] # <<>> => ~B!Less(versions[f], versions[g])}

\* For files: what the code does, and for each dependency the libraries it admits and the
\* newest of them; for a version expression: whether the version satisfies its text.
LoadedFiles(files, order, versions) ==
  [got |-> B!AddLibraries(files, order),
   wants |-> [f \in Readable(files) |-> [i \in DOMAIN f.dependencies |->
     LET dep == f.dependencies[i]
         matching == Matching(files, dep, B!Parse(dep.expression))
     IN [matching |-> matching, newest |-> Newest(matching, versions)]]]]
LoadedOf(j) ==
  IF j.part = "constraint"
  THEN LET Joined(t, c) == t \o (IF t = <<>> THEN <<>> ELSE j.sep) \o Signs[c.op] \o Text(c.version)
       IN B!Satisfies(B!Parse(FoldLeft(Joined, <<>>, j.wanted)), B!ParseVersion(Text(j.version)))
  ELSE LoadedFiles(j.files, j.order, [f \in ToSet(j.files) |-> B!CandidateVersion(f)])

\* A set of libraries in which each waits for one of the set.
Waiting(wants, set) == set # {} /\ \A f \in set : \E i \in DOMAIN wants[f] : wants[f][i] \subseteq set /\ wants[f][i] # {}
Circular(wants) == \E set \in SUBSET DOMAIN wants : Waiting(wants, set)
Key(f) == <<f.name, IF f.name = "" THEN <<>> ELSE f.version>>

\* Version expressions admit the versions their operators stand for, whatever separates
\* the constraints (VersionExpression::Parse, Satisfies); and AddLibraries reports an error
\* and loads nothing when a dependency is missing, unmet, unreadable or circular, else it
\* loads each library once, behind a copy of the newest library that each of its
\* dependencies admits, up to the first without an entry point.
LoadOrderSound ==
  /\ job.part = "constraint" => LoadedFor(job) = \A i \in DOMAIN job.wanted : Meant(job.wanted[i], job.version)
  /\ job.part = "load" =>
       LET answer == LoadedFor(job)
           r == answer.got.added
           readable == DOMAIN answer.wants
           newest == [f \in readable |-> [i \in DOMAIN f.dependencies |-> answer.wants[f][i].newest]]
           unmet == \E f \in readable : {} \in Range(newest[f])
       IN /\ unmet \/ Circular(newest) => answer.got.reported
          /\ answer.got.reported =>
               /\ r.loaded = <<>>
               /\ unmet \/ \E set \in SUBSET readable \ {{}} : \A f \in set : \E wanted \in Range(newest[f]) : wanted \cap set # {}
          /\ ~answer.got.reported /\ ~r.thrown => {Key(f) : f \in ToSet(r.loaded)} = {Key(f) : f \in readable}
          /\ r.thrown => \E f \in readable : ~f.entry
          /\ \A i \in DOMAIN r.loaded :
               /\ r.loaded[i].entry /\ \A k \in 1..(i - 1) : Key(r.loaded[k]) # Key(r.loaded[i])
               /\ \A wanted \in Range(newest[r.loaded[i]]) : \E k \in 1..(i - 1) : \E f \in wanted : Key(r.loaded[k]) = Key(f)

(***************************************************************************)
(* Command lines: at most one pass reports, one throws, one crashes.       *)
(***************************************************************************)
Passes == <<"libraries", "parse", "collect", "types", "expressions", "flow", "validate", "lower", "layout", "emit">>
Endings == {"program", "console", "disassemble"}
AtMostOne(S) == {{}} \cup {{x} : x \in S}
Start ==
  Asked("Start") /\ \E flags, help, found, interactive, decompile, lint, files, unhandled \in BOOLEAN, entries \in 0..2,
                       reports \in AtMostOne(ToSet(Passes)), throws \in AtMostOne({"libraries", "types", "lower", "emit"} \cup Endings),
                       crashes \in AtMostOne({"emit", "program"}) :
    /\ ~flags \/ help \/ ~found => reports \cup throws \cup crashes = {} /\ ~unhandled /\ entries = 1
    /\ throws # {} => crashes = {}
    /\ unhandled => throws \cup crashes = {}
    /\ job' = [part |-> "start", flags |-> flags, help |-> help, found |-> found, interactive |-> interactive, decompile |-> decompile,
               lint |-> lint, files |-> files, unhandled |-> unhandled, entries |-> entries, entry |-> FALSE,
               reports |-> reports, throws |-> throws, crashes |-> crashes]

(***************************************************************************)
(* Lines typed at the console, and sessions.                               *)
(***************************************************************************)
LineTokens == {<<>>, <<"x">>, <<"x", ";">>, <<"(">>, <<")">>, <<"}">>, <<"if", "{", "x", ";">>, <<"if", "(">>, <<"func", "{">>, <<"func">>,
               <<"using", "(">>, <<";", "{">>, <<"x", "{", ";">>, <<"x", "[", "{">>, <<"]", "}">>}
Enter == Asked("Enter") /\ \E first \in LineTokens, lines \in UpTo(3, LineTokens) : job' = [part |-> "type", first |-> first, lines |-> lines]

Submission(kind, declares, fails, runs) ==
  [kind |-> kind, parsed |-> "yes", reports |-> FALSE, declares |-> declares, fails |-> fails, emits |-> FALSE, runs |-> runs, reuses |-> FALSE]
Fine == Submission("statement", FALSE, "no", "ok")
Variable == Submission("statement", TRUE, "no", "ok")
WrongVariable == Submission("statement", TRUE, "expressions", "ok")
Function == Submission("method", TRUE, "no", "ok")
Common == {Fine, Variable, WrongVariable, Function, [Variable EXCEPT !.reuses = TRUE], [Fine EXCEPT !.runs = "fault"],
           [Fine EXCEPT !.parsed = "null", !.reports = TRUE]}
Submissions ==
  Common \cup {[Fine EXCEPT !.runs = "once"], [Fine EXCEPT !.reports = TRUE], [Fine EXCEPT !.fails = "types"], [Fine EXCEPT !.emits = TRUE],
               [Fine EXCEPT !.parsed = "null"], [Fine EXCEPT !.fails = "expressions"], [Fine EXCEPT !.kind = "using"], [Fine EXCEPT !.kind = "exit"],
               [Function EXCEPT !.fails = "types"], [Function EXCEPT !.reuses = TRUE], [Function EXCEPT !.parsed = "other"]}
Converse ==
  Asked("Converse") /\ \E subs \in UpTo(3, Submissions) \cup [1..4 -> Common] \cup [1..5 -> Common \ {Function, Variable}] :
    job' = [part |-> "session", subs |-> subs]

HostedOf(j) ==
  CASE j.part = "start" -> B!Main(j)
    [] j.part = "type" -> B!ReadSubmission(j.lines, j.first)
    [] j.part = "session" -> B!Run(j.subs)

(***************************************************************************)
(* What a command line asks for, and how a session goes.                   *)
(***************************************************************************)
Asks(line) ==
  CASE ~line.flags \/ (~line.help /\ ~line.found) -> "nothing"
    [] line.flags /\ line.help -> "help"
    [] line.flags /\ ~line.help /\ line.found /\ line.lint -> "lint"
    [] line.flags /\ ~line.help /\ line.found /\ ~line.lint /\ (line.interactive \/ (~line.files /\ ~line.decompile)) -> "console"
    [] line.flags /\ ~line.help /\ line.found /\ ~line.lint /\ ~line.interactive /\ line.decompile -> "disassemble"
    [] OTHER -> "program"
\* Nothing went wrong in what ran.
Flawless(line, ran) ==
  /\ ToSet(ran) \cap (line.reports \cup line.throws \cup line.crashes) = {}
  /\ (line.decompile \/ Asks(line) = "program") /\ ~line.lint => line.entries = 1
Started(line, got) ==
  /\ Asks(line) = "nothing" => got.ran = <<>> /\ got.code = 1
  /\ Asks(line) = "help" => got.ran = <<"help">> /\ got.code = 0
  /\ Asks(line) = "lint" => ToSet(got.ran) \cap (Endings \cup {"lower", "layout", "emit"}) = {}
  /\ Asks(line) \in Endings =>
       /\ Asks(line) \in ToSet(got.ran) => Last(got.ran) = Asks(line) /\ Flawless(line, SubSeq(got.ran, 1, Len(got.ran) - 1))
       /\ ToSet(got.ran) \cap Endings \subseteq {Asks(line)}
       /\ got.errors => "emit" \notin ToSet(got.ran) \/ "emit" \in line.reports \/ line.entries # 1
  /\ \A i \in 1..(Len(got.ran) - 1) : got.ran[i] \notin line.throws \cup line.crashes
  /\ Asks(line) \notin {"nothing", "help"} =>
       /\ (got.code = 0) <=> (Last(got.ran) \in line.throws \/ (Flawless(line, got.ran) /\ ~(Asks(line) = "program" /\ line.unhandled)))
       /\ (got.code = 3) <=> Last(got.ran) \in line.crashes

\* Which brackets must be closed before a submission is complete.
MustClose(first) ==
  CASE first = <<>> \/ first[1] \in {";", "using"} -> {}
    [] Len(first) > 1 /\ first[1] = "func" -> {"{", "(", "["}
    [] OTHER -> IF Last(first) # ";" THEN {"(", "["} ELSE IF first[1] = "if" THEN {"{", "(", "["} ELSE {}
Closing == ("{" :> "}") @@ ("(" :> ")") @@ ("[" :> "]")
Closed(tokens, open) == Cardinality({i \in DOMAIN tokens : tokens[i] = open}) = Cardinality({i \in DOMAIN tokens : tokens[i] = Closing[open]})
Typed(first, lines, n) == FlattenSeq(<<first>> \o [i \in 1..n |-> IF i <= Len(lines) THEN lines[i] ELSE <<"exit">>])
ReadWhole(first, lines, got) ==
  LET whole == {n \in 0..MaxLines : \A open \in MustClose(first) : Closed(Typed(first, lines, n), open)}
      n == IF whole = {} THEN MaxLines ELSE Min(whole)
  IN got = [tokens |-> Typed(first, lines, n), lines |-> n]

With(s, fate) == {i \in DOMAIN s.fate : s.fate[i] = fate}
Sound(sub) == sub.parsed = "yes" /\ ~sub.reports /\ sub.fails = "no"
IsStatement(sub) == sub.kind = "statement"
Judged(s, i) == s.fate[i] \in {"accepted", "rejected", "thrown"}
SessionSound(subs, s) ==
  /\ ToSet(s.body) \cup ToSet(s.methods) = With(s, "accepted") \cup With(s, "thrown")
  /\ s.emitted = SelectSeq([i \in DOMAIN subs |-> i], LAMBDA i : s.fate[i] = "accepted" /\ IsStatement(subs[i]))
  /\ \A i \in With(s, "accepted") : Sound(subs[i]) /\ \A k \in With(s, "thrown") : k > i
  /\ \A i \in With(s, "rejected") : ~Sound(subs[i]) \/ (i > 1 /\ s.left[i - 1])
  /\ \A i \in With(s, "thrown") : (subs[i].declares /\ \E k \in 1..(i - 1) : Judged(s, k)) \/ \E k \in 1..(i - 1) : s.fate[k] = "thrown"
  /\ \A i \in DOMAIN subs : s.left[i] =>
       IF Judged(s, i) THEN s.fate[i] = "thrown" \/ subs[i].emits
       ELSE (i > 1 /\ s.left[i - 1]) \/ subs[i].reports \/ subs[i].parsed = "other"
  /\ \A k \in DOMAIN s.symbol : LET i == s.symbol[k].at IN
       subs[i].declares => s.symbol[k].of = {i} \/ (subs[i].reuses /\ s.symbol[k].of \subseteq With(s, "rejected"))
  /\ LET faulty == {n \in DOMAIN s.emitted : subs[s.emitted[n]].runs = "fault"}
         once == {n \in DOMAIN s.emitted : subs[s.emitted[n]].runs = "once"}
     IN /\ faulty \cup once = {} => s.executed = s.emitted
        /\ faulty # {} => ToSet(s.executed) = {s.emitted[n] : n \in 1..Min(faulty)}
        /\ \A n \in DOMAIN s.emitted \ (faulty \cup once) :
             ~(\E f \in faulty \cup once : f < n) => Cardinality({x \in DOMAIN s.executed : s.executed[x] = s.emitted[n]}) = 1

\* main starts what the command line asks for, once, and only if nothing was reported; it
\* returns 0 exactly if all went well, or if a std::runtime_error ended it (main: the catch
\* clause falls through).  The console reads the fewest lines that close the brackets of a
\* submission, at most MaxLines more (ReadMultilineInput).  In a session exactly the
\* submissions that are accepted, and those whose analysis threw, stay in the tree; only
\* faultless ones are accepted, and none behind one that threw; one is rejected only for its
\* own errors or for those of a submission before it that was not analyzed; declarations
\* throw unless they are in the first submission that is analyzed, and have their own symbol
\* unless their node lies where a rejected one lay; errors outlive a submission only if it
\* was not analyzed, threw, or the emitter reported them; statements run once, in order, as
\* long as none faults, and one that faults runs again with every later one and keeps them
\* from running (InteractiveConsole::Run, RunInteractive).
HostsSound ==
  /\ job.part = "start" => Started(job, HostedFor(job))
  /\ job.part = "type" => ReadWhole(job.first, job.lines, HostedFor(job))
  /\ job.part = "session" => SessionSound(job.subs, HostedFor(job))
=============================================================================
