------------------------------ MODULE MCAsync -------------------------------
(***************************************************************************)
(* AsyncMachine on the methods the lowering is meant for, compared with    *)
(* the executions of AsyncMachine's semantics.                             *)
(***************************************************************************)
EXTENDS AsyncMachine

\* Calls: of an ordinary method, one that may raise, a test; awaits of tasks.
Call(x)      == Node("call", x, << >>, {"T"})
Risky(x)     == Node("call", x, << >>, {"T", "A"})
Test(x)      == Node("call", x, << >>, {"T", "F"})
Of(x, args)  == Node("call", x, args, {"T"})
Await(x)     == Node("await", x, << Call("s" \o x) >>, {"T"})
Faulty(x)    == Node("await", x, << Call("s" \o x) >>, {"T", "A"})
Tested(x)    == Node("await", x, << Call("s" \o x) >>, {"T", "F"})
AwaitOn(x, e) == Node("await", x, << e >>, {"T", "F"})
Op(k, l, r)  == Node(k, "", << l, r >>, {})

Do(e)          == Statement("expr", "", << e >>, << >>)
Let(x, e)      == VariableStatement(x, e)
Return1(e)     == Statement("return", "", << e >>, << >>)
ReturnNone     == Statement("return", "", << >>, << >>)
Raise1(x)      == Statement("throw", "", << Const(x) >>, << >>)
Deferred(e)    == Statement("defer", "", << e >>, << >>)
If(c, a)       == Statement("if", "", << c >>, << a >>)
IfElse(c, a, b) == Statement("if", "", << c >>, << a, b >>)
Unless(c, a)   == Statement("unless", "", << c >>, << a >>)
While(c, a)    == Statement("while", "", << c >>, << a >>)
Until(c, a)    == Statement("until", "", << c >>, << a >>)
For(i, c, n, a) == Statement("for", "", << c >>, << a, << i >>, << n >> >>)
ForEach(x, e, a) == Statement("foreach", x, << e >>, << a >>)
Clause(x, accepts) == [var |-> x, accepts |-> accepts]
Try(a, cs, bs) == [Statement("try", "", << >>, << a >> \o bs) EXCEPT !.catches = cs]
Break          == Statement("break", "", << >>, << >>)
Continue       == Statement("continue", "", << >>, << >>)

a == Do(Call("a"))
b == Do(Call("b"))
z == Do(Call("z"))
w == Do(Await("w"))
f == Do(Faulty("f"))
d == Deferred(Call("d"))
e == Deferred(Call("e"))
v == Let("v", Tested("q"))
use(x) == Do(Of("use", << Var(x) >>))
AnyException == Clause("", {"A", "B"})
OfA == Clause("x", {"A"})

(***************************************************************************)
(* The methods the lowering keeps: every block of at most BlockLength of   *)
(* these statements in each position, unless it registers a defer and ends *)
(* with an await, and bodies that nest and combine the rest.               *)
(***************************************************************************)
CONSTANT BlockLength    \* how many statements a block has at most

Blocks ==
    LET awaits(s) == {i \in DOMAIN s : IsAwaitStatement(s[i])}
    IN  { s \in UNION {[1 .. n -> {f, d, v, use("v")}] : n \in 1 .. BlockLength} :
              /\ awaits(s) # {}
              /\ Len(s) \in awaits(s) => \A i \in DOMAIN s : s[i].k # "defer" }

Around(s) ==
    { s,
      << IfElse(Test("t"), s, << w, b >>), z >>,
      << IfElse(Test("t"), << b >>, s), z >>,
      << While(Test("t"), s), z >>,
      << For(Let("i", Test("i")), Test("t"), Do(Call("n")), s), z >>,
      << ForEach("x", Call("e"), s), z >>,
      << Try(s, << OfA >>, << << use("x"), w, b >> >>), z >>,
      << Try(<< Raise1("A") >>, << OfA >>, << s >>), z >> }

Combined ==
  { << a >>, << d, w, e, w, b >>,
    << Return1(Call("r")) >>, << d, w, Return1(Test("r")) >>, << Return1(Tested("q")) >>,
    << Do(Of("g", << Tested("q") >>)), use("v") >>,
    << Let("v", Test("t")), w, Do(Assign("v", Tested("q"))), w, use("v") >>,
    << Unless(Tested("q"), << a, w >>), z >>,
    << IfElse(Op("and", Tested("q"), Tested("p")), << a >>, << b >>), z >>,
    << IfElse(Op("or", Tested("q"), Not(Tested("p"))), << a >>, << b >>), z >>,
    << If(Node("cond", "", << Tested("q"), Test("t"), Tested("p") >>, {}), << a >>), z >>,
    << While(Tested("q"), << a >>), z >>,
    << Until(Tested("q"), << w, If(Test("t"), << Break >>), b >>), z >>,
    << While(Test("t"), << If(Test("u"), << w, Break >>), IfElse(Test("y"), << w, Continue >>, << b, w, a >>), z >>), z >>,
    << For(Let("i", Test("i")), Tested("q"), Do(Call("n")), << use("i"), If(Test("u"), << Continue >>), b >>), z >>,
    << For(Let("i", Test("i")), Test("t"), Do(Await("n")), << use("i") >>), z >>,
    << ForEach("x", Call("e"), << w, use("x"), If(Test("u"), << Break >>) >>), z >>,
    << ForEach("x", Await("k"), << use("x") >>), z >>,
    << Try(<< Do(Risky("g")), f, Do(Risky("h")) >>, << OfA >>, << << use("x"), w, use("x") >> >>), z >>,
    << Try(<< f, b >>, << Clause("", {"B"}), AnyException >>, << << a >>, << w, Raise1("B") >> >>), z >>,
    << Try(<< Try(<< f, b >>, << Clause("", {"B"}) >>, << << a >> >>), b >>, << OfA >>, << << use("x") >> >>), z >>,
    << d, Try(<< e, f, b >>, << OfA >>, << << w, a >> >>), w, z >>,
    << While(Test("t"), << d, Try(<< f, a >>, << AnyException >>, << << b >> >>), z >>), z >> }

Sound == UNION { Around(s) : s \in Blocks } \cup Combined

(***************************************************************************)
(* Methods the lowering does not keep, one for each way known.             *)
(***************************************************************************)
Deviating ==
  { \* the end of a block is not emitted for a segment that starts there
    << d, w >>,
    \* a returned await completes the task without the defers
    << d, Return1(Await("q")) >>,
    \* a loop after an await is resumed at its tail
    << w, For(Let("i", Test("i")), Test("t"), Do(Call("n")), << w, use("i") >>), z >>,
    << w, ForEach("x", Call("e"), << w, use("x") >>), z >>,
    \* a try region resumed at its end is not left
    << Try(<< f >>, << AnyException >>, << << a >> >>), Do(Risky("g")), z >>,
    \* what follows the outer of two clauses is lost
    << If(Test("t"), << If(Test("u"), << w, a >>), b >>), z >>,
    << If(Op("or", Tested("q"), Op("and", Test("t"), Tested("p"))), << a >>), z >>,
    \* a throw without expression pops an empty stack
    << Try(<< Do(Risky("g")) >>, << AnyException >>, << << Statement("throw", "", << >>, << >>), w >> >>), z >>,
    \* a return in a loop of the regular emitter settles nothing
    << w, ForEach("x", Call("e"), << Return1(Call("r")) >>), z >>,
    \* the variables are saved before the awaited expression assigns them
    << Let("v", Const("F")), Do(AwaitOn("q", Assign("v", Call("t")))), use("v") >>,
    \* a break leaves the try region open
    << While(Test("t"), << Try(<< w, Break >>, << AnyException >>, << << a >> >>) >>), Do(Risky("g")) >>,
    \* the order of evaluation: inner awaits, earlier operands, later conditions
    << Do(Of("g", << AwaitOn("q", Of("h", << Tested("p") >>)) >>)) >>,
    << Do(Of("g", << Test("t"), Tested("q") >>)) >>,
    << Statement("if", "", << Test("t"), Tested("q") >>, << << a >>, << b >> >>), z >>,
    \* the await of a condition registers later defers of its block
    << If(Tested("q"), << a >>), d, Do(Risky("g")), z >>,
    \* the code after a second try statement lands before the first one's handler
    << Try(<< f, a >>, << AnyException >>, << << a >> >>), Try(<< f, b >>, << AnyException >>, << << b >> >>), z >>,
    \* the exception of a clause is lost behind a nested try statement
    << Try(<< Do(Risky("g")) >>, << OfA >>,
           << << Try(<< Do(Risky("h")) >>, << AnyException >>, << << a >> >>), w, use("x") >> >>), z >>,
    \* the initializer of a for loop that awaits is not emitted
    << For(Let("i", Tested("i")), Test("t"), Do(Call("n")), << w, use("i") >>), z >> }

AllBodies == Sound \cup Deviating

-----------------------------------------------------------------------------
(* Properties                                                              *)

Traces == [m \in Sound |-> Executions(m)]

\* Part of LoweringExact: what a method awaits, calls and passes, in which order, and how its task is
\* settled is one of the executions of its source, whether its awaiters are
\* completed at once or suspend it: no statement is lost, repeated or run with
\* a stale variable, no defer or handler is missing after a resumption.
RunsAsWritten ==
    (phase \in {"done", "cut", "fault"} /\ method \in Sound) =>
        /\ phase # "fault"
        /\ [log |-> log, task |-> task] \in Traces[method]

\* Part of LoweringExact: a task is settled at most once, whatever the segments of a method do: by
\* the return, by the normal exit or by the guard around MoveNext.
SettledOnce == Len(task) <= 1

\* The state machine of an async method (AsyncHoistingPass, AsyncEmissionPass) does what
\* the source of the method says and settles its task once.
LoweringExact == RunsAsWritten /\ SettledOnce
=============================================================================
