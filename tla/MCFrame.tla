------------------------------- MODULE MCFrame -------------------------------
(***************************************************************************)
(* FrameMachine on methods compiled by StatementEmitter, compared with the *)
(* executions of StructuredSemantics.                                      *)
(***************************************************************************)
EXTENDS FrameMachine, StatementEmitter, StructuredSemantics

CONSTANT Methods    \* bodies of the methods to execute

MCProgs           == 1 .. Len(Methods)
MCCode(p)         == VisitMethodDeclaration(Methods[p])
MCReturnsValue(p) == p % 2 = 0
MCObjects         == {"E1", "E2", "v"}

\* Calls: one that cannot raise, and ones that may.
a == CallS("a", {"E1"})
b == CallS("b", {})
x == ExprS("v", "x", {"E1"})
h == CallS("h", {})
d1 == DeferS(CallS("d1", {}))
d2 == DeferS(CallS("d2", {"E2"}))

\* All concatenations of a block of A and a block of B, as a sequence.
Product(A, B) ==
    [i \in 1 .. Len(A) * Len(B) |-> A[((i - 1) \div Len(B)) + 1] \o B[((i - 1) % Len(B)) + 1]]

\* All try statements with a body of A and clauses of B, one to a block.
Tries(A, B) ==
    [i \in 1 .. Len(A) * Len(B) |->
        << TryS(A[((i - 1) \div Len(B)) + 1], B[((i - 1) % Len(B)) + 1]) >>]

Clauses == << << CatchC({"E1"}, << h >>) >>,
              << CatchC({"E2"}, << h >>), CatchAnyC(<< b, RethrowS >>) >>,
              << CatchAnyC(<< d2, h >>) >>,
              << CatchC({"E2"}, << a, RethrowS >>), CatchC({"E1"}, << ThrowS("E2") >>) >> >>

TryBodies == << << x, b >>, << d1, d2, a >>, << d2, ThrowS("E1") >>,
                << WhileS(<< d2, a >>) >>,
                << d1, TryS(<< d2, a >>, << CatchC({"E1"}, << a >>) >>), d2 >>,
                << TryS(<< d2, ThrowS("E1") >>, << CatchC({"E1"}, << RethrowS >>) >>) >> >>

\* Methods on which the emitter and the machine agree with the semantics: no
\* exit statement below a defer it does not end, no jump out of a try block,
\* and nothing but calls in deferred statements.
PlainMethods ==
    Product(Product(<< << >>, << d2 >>, << d1, d2 >> >>, Tries(TryBodies, Clauses)),
            << << >>, << a, ReturnS >>, << d2, a >> >>)
    \o << << WhileS(<< d2, a >>), b >>,
          << UntilS(<< d1, TryS(<< a >>, Clauses[1]) >>), b >>,
          << ForS(<< d1, a >>, b), h >>,
          << d1, ForInS(<< TryS(<< d2, a >>, Clauses[2]) >>), a >>,
          << IfS(<< a, ReturnS >>, << >>), d2, b >>,
          << UnlessS(<< d2, a >>, << b >>), d1, UnlessS(<< h >>, << >>), a >>,
          << d1, IfS(<< d2, a >>, << TryS(<< a >>, Clauses[1]) >>), b >>,
          << WhileS(<< a, IfS(<< BreakS >>, << >>), IfS(<< ContinueS >>, << b >>), h >>), b >>,
          << SwitchS(<< CaseC(<< d2, a >>), CaseC(<< b, BreakS >>), DefaultC(<< h >>) >>), b >>,
          << TryS(<< d1, a, ReturnS >>, Clauses[1]) >>,
          << TryS(<< a >>, << >>), b >> >>

\* Methods that use every instruction in every situation the emitter allows:
\* try and return statements inside deferred statements, exit statements
\* below pending defers, jumps out of try blocks.
tryD == DeferS(TryS(<< ThrowS("E1") >>, << CatchAnyC(<< h >>) >>))
UnrulyMethods ==
    << << d1, tryD, b >>,
       << tryD, b >>,
       << tryD, x, d2 >>,
       << d1, tryD, ThrowS("E2") >>,
       << TryS(<< d1, tryD, a >>, << CatchC({"E2"}, << b >>) >>), b >>,
       << d1, DeferS(IfS(<< ReturnS >>, << ReturnS >>)), b >>,
       << d1, DeferS(IfS(<< ReturnS >>, << ReturnS >>)), b >>,
       << d1, d1, DeferS(IfS(<< ReturnS >>, << >>)), a >>,
       << TryS(<< a >>, << CatchAnyC(<< TryS(<< a >>, << CatchAnyC(<< h >>) >>), RethrowS >>) >>) >>,
       << d2, d1, IfS(<< ReturnS >>, << >>), a >>,
       << d1, WhileS(<< d2, TryS(<< a, BreakS >>, << CatchAnyC(<< ContinueS >>) >>) >>), a >>,
       << UntilS(<< TryS(<< d2, IfS(<< ContinueS >>, << >>), a >>, Clauses[1]) >>), a >>,
       << ForS(<< d1, IfS(<< ContinueS >>, << >>), a >>, b) >>,
       << d1, ForInS(<< d2, IfS(<< BreakS >>, << >>), a >>), b >>,
       << d1, WhileS(<< SwitchS(<< CaseC(<< d2, BreakS >>), CaseC(<< ContinueS >>) >>), a >>) >>,
       << d2, TryS(<< d1, a, ReturnS >>, Clauses[1]), b >>,
       << DeferS(WhileS(<< a >>)), DeferS(ThrowS("E2")), a >>,
       << d1, TryS(<< ThrowS("E1") >>, << CatchAnyC(<< RethrowS >>) >>) >> >>

AllMethods == PlainMethods \o UnrulyMethods

\* One method for each disagreement with what the code says of itself.
ConditionalReturn == << << d1, IfS(<< ReturnS >>, << >>), b >> >>
BreakInTry        == << << WhileS(<< TryS(<< b, BreakS >>, << CatchAnyC(<< h >>) >>) >>), a >> >>

-----------------------------------------------------------------------------
(* Properties                                                              *)

\* Part of Conforms: a plain method that ends does so after the calls, in their order, of one of
\* its structured executions, deferred calls included, and with the exception
\* of that execution when it leaves with one (InvokeMethodInternal).
EndsAsWritten ==
    (prog \in DOMAIN PlainMethods /\ outcome \in {"returned", "unhandled"}) =>
        \E r \in ExecMethod(Methods[prog]) :
            /\ r.log = log
            /\ (r.end = "raise") <=> (outcome = "unhandled")
            /\ outcome = "unhandled" => r.exc = exc

\* In the main loop the handlers on ExceptionHandlers are those of the try
\* blocks around the next instruction: no try block is left with its handler
\* in place and none is entered without it (ENTER_TRY, LEAVE_TRY).
HandlersMatchScope ==
    (outcome = "running" /\ InMainLoop /\ reason = "None" /\ ~IsEOF) =>
        [i \in DOMAIN handlers |-> handlers[i].try] = Cur.tries

\* On the plain methods that is so: the break_in_try run shows a method on
\* which it is not.
PlainHandlersMatch == prog \in DOMAIN PlainMethods => HandlersMatchScope

\* Emitted code does what its source says: it makes the calls of a structured execution
\* in their order, it runs under the handlers of the try blocks around it, and it
\* enters a handler with nothing below the exception (HandleExceptionInFrame).
Conforms == EndsAsWritten /\ PlainHandlersMatch /\ HandlerDepthOne

\* A method that returns has run all its defers: readme.md promises "`defer`
\* statements for deterministic cleanup".  EmitAllDefers and
\* EmitDefersUntilLoop clear the counts of scopes that are not left yet.
ReturnedDrained == outcome = "returned" => defers = << >>
=============================================================================
