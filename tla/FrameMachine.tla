---------------------------- MODULE FrameMachine ----------------------------
(***************************************************************************)
(* One frame of the virtual machine executing the bytecode of one method:  *)
(* the interpreter loop of VirtualMachine::InvokeMethodInternal, the       *)
(* control opcodes of ProcessCode, HandleExceptionInFrame, DrainDefersTo   *)
(* and ExecuteDeferExpression.                                             *)
(*                                                                         *)
(* The interpreter is re-entrant inside one frame: DEFER_DRAIN and the     *)
(* exception dispatch run deferred code by calling ProcessCode from inside *)
(* ProcessCode, on the same decoder and the same frame.  The C++ stack of  *)
(* those nested loops is explicit here: "drains" holds one entry for every *)
(* DEFER_DRAIN in progress and "unwind" the exception dispatch below them. *)
(*                                                                         *)
(* Calls are one instruction.  Whatever the callee is, all the frame sees  *)
(* is that it returned, that it left ExceptionRaised in this frame, or     *)
(* that a C++ exception went through ProcessCode.                          *)
(***************************************************************************)
EXTENDS Integers, SequencesExt

CONSTANTS
    Progs,          \* the methods to execute
    Code(_),        \* Code(p): the ExecutableByteCode of p
    ReturnsValue(_),\* ReturnsValue(p): the ReturnType of p is not void
    Objects,        \* objects: exceptions and operands
    NoExc,          \* the null ObjectInstance
    MaxEntered      \* how many conditional blocks one execution may enter

OpCode == { "CALL", "JUMP", "JUMP_FALSE", "JUMP_TRUE", "ISINSTANCE", "POP",
            "RETURN", "LOAD", "THROW", "RETHROW",
            "ENTER_TRY", "LEAVE_TRY", "END_CATCH",
            "DEFER", "DEFER_BREAK", "DEFER_DRAIN" }

\* An instruction.  "arg" is a code offset or a count.  "objs" holds the
\* exceptions a CALL may raise, the object a LOAD pushes, or the ones the type
\* test of a catch clause accepts.  "tag" names a call in the log and "tries"
\* the try blocks around the instruction: both are only observed.
\* The emitter writes no DEFER_DRAIN of zero defers.
Offset == Nat \ {0}
Instr  == [op : OpCode, arg : Offset, objs : SUBSET Objects, tag : STRING, tries : Seq(Nat)]

ASSUME CodeAssumption ==
    /\ \A p \in Progs : Code(p) \in Seq(Instr)
    /\ \A p \in Progs : ReturnsValue(p) \in BOOLEAN
    /\ NoExc \notin Objects
    /\ MaxEntered \in Nat

VARIABLES
    prog,       \* the method of the frame
    code,       \* its instructions, which the ByteCodeDecoder reads
    ip,         \* cursor of the ByteCodeDecoder
    eval,       \* eval stack above the locals
    handlers,   \* ExceptionHandlers
    defers,     \* DeferStack
    depth,      \* DeferDrainDepth
    reason,     \* InterruptionReason
    exc,        \* CurrentException
    drains,     \* DEFER_DRAINs in progress, innermost last
    unwind,     \* exception dispatch in progress
    abort,      \* AbortFlag
    outcome,    \* how the method ended
    entered,    \* number of conditional blocks entered so far
    log         \* tags of the calls made so far

vars == << prog, code, ip, eval, handlers, defers, depth, reason, exc, drains,
           unwind, abort, outcome, entered, log >>

Reasons  == { "None", "EndOfInstructions", "ValueReturned", "ExceptionRaised" }
Outcomes == { "running", "returned", "unhandled", "fault" }

\* A try region, a DEFER_DRAIN in progress, an exception dispatch.
Handler  == [offset : Offset, base : Nat, try : Nat]
Drain    == [left : Nat, ret : Offset]
Dispatch == [on : BOOLEAN, busy : BOOLEAN, base : Nat, caught : BOOLEAN,
             target : Offset, exc : Objects \cup {NoExc}, ret : Offset]

NoUnwind == [ on |-> FALSE, busy |-> FALSE, base |-> 0, caught |-> FALSE,
              target |-> 1, exc |-> NoExc, ret |-> 1 ]

TypeOK ==
    /\ prog \in Progs
    /\ code \in Seq(Instr)
    /\ ip \in Offset
    /\ eval \in Seq(Objects)
    /\ handlers \in Seq(Handler)
    /\ defers \in Seq(Offset)
    /\ depth \in Nat
    /\ reason \in Reasons
    /\ exc \in Objects \cup {NoExc}
    /\ drains \in Seq(Drain)
    /\ unwind \in Dispatch
    /\ abort \in BOOLEAN
    /\ outcome \in Outcomes
    /\ entered \in 0 .. MaxEntered
    /\ log \in Seq(STRING)

Init ==
    /\ prog \in Progs
    /\ code = Code(prog)
    /\ ip = 1
    /\ eval = << >>
    /\ handlers = << >>
    /\ defers = << >>
    /\ depth = 0
    /\ reason = "None"
    /\ exc = NoExc
    /\ drains = << >>
    /\ unwind = NoUnwind
    /\ abort = FALSE
    /\ outcome = "running"
    /\ entered = 0
    /\ log = << >>

-----------------------------------------------------------------------------
(* The nested interpreter loops                                            *)

CodeSize == Len(code)
IsEOF    == ip > CodeSize
Cur      == code[ip]

\* Deferred code is running: the innermost loop is ExecuteDeferExpression.
InDefer == drains # << >> \/ unwind.busy

\* The innermost loop is the one of InvokeMethodInternal.
InMainLoop == drains = << >> /\ ~unwind.on

\* Number of drain levels whose C++ activation is on the stack.
ActiveDrains == Len(drains) + (IF unwind.busy THEN 1 ELSE 0)

\* The next instruction is fetched.  Only the main loop looks at AbortFlag
\* and at a raised exception before it does.
Fetch(op) ==
    /\ outcome = "running"
    /\ ~IsEOF
    /\ \/ InDefer
       \/ InMainLoop /\ ~abort /\ reason # "ExceptionRaised"
    /\ Cur.op = op

\* Mutants of Interrupt: it gives back a level nobody opened, or leaves the
\* exception dispatch below the deferred code in progress.
InterruptLeavesLevel(r, e) ==
    /\ reason' = r /\ exc' = e /\ drains' = << >> /\ unwind' = NoUnwind
    /\ depth' = depth - 1
InterruptKeepsDispatch(r, e) ==
    /\ reason' = r /\ exc' = e /\ drains' = << >> /\ UNCHANGED << unwind, depth >>

\* The instruction leaves the frame interrupted.  Every ExecuteDeferExpression
\* on the stack returns: DrainDefersTo gives its level of DeferDrainDepth
\* back, DEFER_DRAIN returns without doing so.
Interrupt(r, e) ==
    /\ reason' = r
    /\ exc' = e
    /\ drains' = << >>
    /\ unwind' = NoUnwind
    /\ depth' = IF unwind.busy THEN depth - 1 ELSE depth

\* A C++ exception leaves ProcessCode: the handlers around the nested loops
\* give their levels back and it goes on through InvokeMethodInternal.
Fault ==
    /\ outcome' = "fault"
    /\ depth' = depth - ActiveDrains
    /\ drains' = << >>
    /\ unwind' = NoUnwind
    /\ UNCHANGED << prog, code, ip, eval, handlers, defers, reason, exc, abort, entered, log >>

\* Mutant of RunTopDefer: the defers are a queue.
RunFirstDefer ==
    /\ ip' = Head(defers)
    /\ defers' = Tail(defers)

\* ExecuteDeferExpression on the most recent registration.
RunTopDefer ==
    /\ ip' = Last(defers)
    /\ defers' = Front(defers)

-----------------------------------------------------------------------------
(* Straight-line instructions                                              *)

\* CALLMETHODSYMBOL returns: normally, or with an exception of an external
\* callee copied into this frame.
Call ==
    /\ Fetch("CALL")
    /\ ~abort
    /\ log' = Append(log, Cur.tag)
    /\ ip' = ip + 1
    /\ \/ UNCHANGED << depth, reason, exc, drains, unwind >>
       \/ \E e \in Cur.objs : Interrupt("ExceptionRaised", e)
    /\ UNCHANGED << prog, code, eval, handlers, defers, abort, outcome, entered >>

\* A C++ exception: InvokeMethodInternal finds AbortFlag set, or the callee
\* or the argument handling throws.
CallFault ==
    /\ Fetch("CALL")
    /\ Fault

Jump ==
    /\ Fetch("JUMP")
    /\ ip' = Cur.arg
    /\ UNCHANGED << prog, code, eval, handlers, defers, depth, reason, exc, drains,
                    unwind, abort, outcome, entered, log >>

\* JUMP_FALSE and JUMP_TRUE pop a condition the model does not compute: they
\* jump over the conditional block or enter it.
Branch(op) ==
    /\ Fetch(op)
    /\ \/ ip' = Cur.arg /\ UNCHANGED entered
       \/ entered < MaxEntered /\ ip' = ip + 1 /\ entered' = entered + 1
    /\ UNCHANGED << prog, code, eval, handlers, defers, depth, reason, exc, drains,
                    unwind, abort, outcome, log >>

JumpFalse == Branch("JUMP_FALSE")
JumpTrue  == Branch("JUMP_TRUE")

\* The type test at the head of a catch clause: DUP, ISINSTANCE, JUMP_FALSE.
IsInstance ==
    /\ Fetch("ISINSTANCE")
    /\ eval # << >>
    /\ ip' = IF Last(eval) \in Cur.objs THEN ip + 1 ELSE Cur.arg
    /\ UNCHANGED << prog, code, eval, handlers, defers, depth, reason, exc, drains,
                    unwind, abort, outcome, entered, log >>

\* An instruction that pushes an operand, or a new exception.
Load ==
    /\ Fetch("LOAD")
    /\ \E o \in Cur.objs : eval' = Append(eval, o)
    /\ ip' = ip + 1
    /\ UNCHANGED << prog, code, handlers, defers, depth, reason, exc, drains,
                    unwind, abort, outcome, entered, log >>

\* POP, or the STORE_LOCAL of the catch variable.
PopStack ==
    /\ Fetch("POP")
    /\ eval # << >>
    /\ eval' = Front(eval)
    /\ ip' = ip + 1
    /\ UNCHANGED << prog, code, handlers, defers, depth, reason, exc, drains,
                    unwind, abort, outcome, entered, log >>

\* RETURN places the value, which interrupts the frame, and moves the cursor
\* to the end; without a value only the cursor moves.
Return ==
    /\ Fetch("RETURN")
    /\ ip' = CodeSize + 1
    /\ IF ReturnsValue(prog)
       THEN Interrupt("ValueReturned", exc)
       ELSE UNCHANGED << depth, reason, exc, drains, unwind >>
    /\ UNCHANGED << prog, code, eval, handlers, defers, abort, outcome, entered, log >>

-----------------------------------------------------------------------------
(* Exceptions                                                              *)

\* THROW on what is on the stack: of a throw statement, or as the fallback of
\* a try statement none of whose clauses accepted the exception.
Throw ==
    /\ Fetch("THROW")
    /\ eval # << >>
    /\ ip' = ip + 1
    /\ eval' = Front(eval)
    /\ Interrupt("ExceptionRaised", Last(eval))
    /\ UNCHANGED << prog, code, handlers, defers, abort, outcome, entered, log >>

\* "Cannot throw null exception": operands carry no null in the model, so the
\* error may happen on any THROW.
ThrowFault ==
    /\ Fetch("THROW")
    /\ eval # << >>
    /\ Fault

\* Mutant of Rethrow: no check of CurrentException.
RethrowUnchecked ==
    /\ Fetch("RETHROW")
    /\ ip' = ip + 1
    /\ Interrupt("ExceptionRaised", exc)
    /\ UNCHANGED << prog, code, eval, handlers, defers, abort, outcome, entered, log >>

Rethrow ==
    /\ Fetch("RETHROW")
    /\ exc # NoExc
    /\ ip' = ip + 1
    /\ Interrupt("ExceptionRaised", exc)
    /\ UNCHANGED << prog, code, eval, handlers, defers, abort, outcome, entered, log >>

\* "Cannot rethrow outside of catch block"
RethrowFault ==
    /\ Fetch("RETHROW")
    /\ exc = NoExc
    /\ Fault

EnterTry ==
    /\ Fetch("ENTER_TRY")
    /\ handlers' = Append(handlers, [offset |-> Cur.arg, base |-> Len(defers), try |-> ip])
    /\ ip' = ip + 1
    /\ UNCHANGED << prog, code, eval, defers, depth, reason, exc, drains, unwind,
                    abort, outcome, entered, log >>

\* Mutant of LeaveTry: the handler stays.
LeaveTryKeepsHandler ==
    /\ Fetch("LEAVE_TRY")
    /\ ip' = ip + 1
    /\ UNCHANGED << prog, code, eval, handlers, defers, depth, reason, exc, drains, unwind,
                    abort, outcome, entered, log >>

LeaveTry ==
    /\ Fetch("LEAVE_TRY")
    /\ handlers' = IF handlers = << >> THEN handlers ELSE Front(handlers)
    /\ ip' = ip + 1
    /\ UNCHANGED << prog, code, eval, defers, depth, reason, exc, drains, unwind,
                    abort, outcome, entered, log >>

EndCatch ==
    /\ Fetch("END_CATCH")
    /\ exc' = NoExc
    /\ ip' = ip + 1
    /\ UNCHANGED << prog, code, eval, handlers, defers, depth, reason, drains, unwind,
                    abort, outcome, entered, log >>

\* Mutants of the dispatch: the defers run only when there is a handler, the
\* operands stay on the eval stack, the handler stays registered.
UnwindingCaughtOnly(e, caught, base, target) ==
    [ on |-> TRUE, busy |-> FALSE, base |-> IF caught THEN base ELSE Len(defers),
      caught |-> caught, target |-> target, exc |-> e, ret |-> 1 ]
KeepEvalStack == UNCHANGED eval
KeepHandler   == UNCHANGED handlers

\* DrainDefersTo(base) is about to start; then the handler, if there is one.
Unwinding(e, caught, base, target) ==
    [ on |-> TRUE, busy |-> FALSE, base |-> base, caught |-> caught,
      target |-> target, exc |-> e, ret |-> 1 ]

DrainEvalStack == eval' = << >>
PopHandler     == handlers' = Front(handlers)

\* HandleExceptionInFrame up to the first defer: the eval stack is drained,
\* the innermost handler popped, and DrainDefersTo called with its base.
HandleException ==
    /\ outcome = "running"
    /\ InMainLoop
    /\ ~abort
    /\ reason = "ExceptionRaised"
    /\ exc # NoExc
    /\ DrainEvalStack
    /\ reason' = "None"
    /\ exc' = NoExc
    /\ IF handlers # << >>
       THEN /\ unwind' = Unwinding(exc, TRUE, Last(handlers).base, Last(handlers).offset)
            /\ PopHandler
       ELSE /\ unwind' = Unwinding(exc, FALSE, 0, 1)
            /\ UNCHANGED handlers
    /\ UNCHANGED << prog, code, ip, defers, depth, drains, abort, outcome, entered, log >>

\* Mutant of UnwindDefer: the level is not counted.
UnwindDeferUncounted ==
    /\ outcome = "running"
    /\ unwind.on /\ ~unwind.busy
    /\ Len(defers) > unwind.base
    /\ RunTopDefer
    /\ unwind' = [ unwind EXCEPT !.busy = TRUE, !.ret = ip ]
    /\ UNCHANGED << prog, code, eval, handlers, depth, reason, exc, drains, abort, outcome,
                    entered, log >>

\* One round of the loop of DrainDefersTo.
UnwindDefer ==
    /\ outcome = "running"
    /\ unwind.on /\ ~unwind.busy
    /\ Len(defers) > unwind.base
    /\ RunTopDefer
    /\ depth' = depth + 1
    /\ unwind' = [ unwind EXCEPT !.busy = TRUE, !.ret = ip ]
    /\ UNCHANGED << prog, code, eval, handlers, reason, exc, drains, abort, outcome,
                    entered, log >>

\* All defers above the handler's base have run: the handler starts with the
\* exception on the eval stack.
EnterHandler ==
    /\ outcome = "running"
    /\ unwind.on /\ ~unwind.busy /\ unwind.caught
    /\ Len(defers) <= unwind.base
    /\ ip' = unwind.target
    /\ eval' = Append(eval, unwind.exc)
    /\ exc' = unwind.exc
    /\ reason' = "None"
    /\ unwind' = NoUnwind
    /\ UNCHANGED << prog, code, handlers, defers, depth, drains, abort, outcome,
                    entered, log >>

\* There is no handler and all defers have run: the loop ends with
\* ExceptionRaised, which InvokeMethodInternal then overwrites.
LeaveUnhandled ==
    /\ outcome = "running"
    /\ unwind.on /\ ~unwind.busy /\ ~unwind.caught
    /\ Len(defers) <= unwind.base
    /\ exc' = unwind.exc
    /\ reason' = "EndOfInstructions"
    /\ outcome' = "unhandled"
    /\ unwind' = NoUnwind
    /\ UNCHANGED << prog, code, ip, eval, handlers, defers, depth, drains, abort,
                    entered, log >>

-----------------------------------------------------------------------------
(* Defers                                                                  *)

Defer ==
    /\ Fetch("DEFER")
    /\ defers' = Append(defers, Cur.arg)
    /\ ip' = ip + 1
    /\ UNCHANGED << prog, code, eval, handlers, depth, reason, exc, drains, unwind,
                    abort, outcome, entered, log >>

\* DEFER_DRAIN starts with the first of "arg" defers.
DeferDrain ==
    /\ Fetch("DEFER_DRAIN")
    /\ defers # << >>
    /\ RunTopDefer
    /\ depth' = depth + 1
    /\ drains' = Append(drains, [left |-> Cur.arg - 1, ret |-> ip + 1])
    /\ UNCHANGED << prog, code, eval, handlers, reason, exc, unwind, abort, outcome,
                    entered, log >>

\* "DEFER_DRAIN: not enough registered defers", on the first defer.
DeferDrainFault ==
    /\ Fetch("DEFER_DRAIN")
    /\ defers = << >>
    /\ Fault

\* DEFER_BREAK ends the deferred expression.  The cursor goes back, and the
\* loop that started it runs its next defer or ends.
DeferBreak ==
    /\ Fetch("DEFER_BREAK")
    /\ InDefer
    /\ \/ /\ drains # << >>
          /\ Last(drains).left > 0
          /\ defers # << >>
          /\ RunTopDefer
          /\ drains' = Append(Front(drains), [Last(drains) EXCEPT !.left = @ - 1])
          /\ UNCHANGED << depth, unwind >>
       \/ /\ drains # << >>
          /\ Last(drains).left = 0
          /\ ip' = Last(drains).ret
          /\ drains' = Front(drains)
          /\ depth' = depth - 1
          /\ UNCHANGED << defers, unwind >>
       \/ /\ drains = << >>
          /\ ip' = unwind.ret
          /\ unwind' = [ unwind EXCEPT !.busy = FALSE ]
          /\ depth' = depth - 1
          /\ UNCHANGED << defers, drains >>
    /\ UNCHANGED << prog, code, eval, handlers, reason, exc, abort, outcome,
                    entered, log >>

\* DEFER_BREAK in the main loop: an error unless DeferDrainDepth hides it.
DeferBreakOutside ==
    /\ Fetch("DEFER_BREAK")
    /\ ~InDefer
    /\ \/ depth = 0 /\ Fault
       \/ /\ depth > 0
          /\ ip' = ip + 1
          /\ UNCHANGED << prog, code, eval, handlers, defers, depth, reason, exc, drains,
                          unwind, abort, outcome, entered, log >>

\* The two runtime errors of the drain loops: too few defers after the first
\* one, and deferred code that runs past the end of the bytecode.
DrainFault ==
    /\ outcome = "running"
    /\ InDefer
    /\ \/ IsEOF
       \/ /\ ~IsEOF
          /\ Cur.op = "DEFER_BREAK"
          /\ drains # << >>
          /\ Last(drains).left > 0
          /\ defers = << >>
    /\ Fault

-----------------------------------------------------------------------------
(* The end of the method                                                   *)

LeaveAtEOF ==
    /\ outcome = "running"
    /\ InMainLoop
    /\ ~abort
    /\ reason # "ExceptionRaised"
    /\ IsEOF
    /\ reason' = "EndOfInstructions"
    /\ outcome' = "returned"
    /\ UNCHANGED << prog, code, ip, eval, handlers, defers, depth, exc, drains, unwind,
                    abort, entered, log >>

\* VirtualMachine::Abort, called by the host.
Abort ==
    /\ outcome = "running"
    /\ ~abort
    /\ abort' = TRUE
    /\ UNCHANGED << prog, code, ip, eval, handlers, defers, depth, reason, exc, drains,
                    unwind, outcome, entered, log >>

\* The main loop notices AbortFlag; a call notices it too, see CallFault.
AbortFault ==
    /\ outcome = "running"
    /\ InMainLoop
    /\ abort
    /\ Fault

Next ==
    \/ Call \/ CallFault \/ Jump \/ JumpFalse \/ JumpTrue \/ IsInstance \/ PopStack
    \/ Load \/ Return \/ Throw \/ ThrowFault \/ Rethrow \/ RethrowFault
    \/ EnterTry \/ LeaveTry \/ EndCatch
    \/ HandleException \/ UnwindDefer \/ EnterHandler \/ LeaveUnhandled
    \/ Defer \/ DeferDrain \/ DeferDrainFault \/ DeferBreak \/ DeferBreakOutside \/ DrainFault
    \/ LeaveAtEOF \/ Abort \/ AbortFault

Spec == Init /\ [][Next]_vars

\* The interpreter keeps running; nothing makes the host call Abort.
Step == Next /\ abort' = abort
FairSpec == Spec /\ WF_vars(Step)

-----------------------------------------------------------------------------
(* Properties                                                              *)

\* DeferDrainDepth, an unsigned counter, is at least the number of drains in
\* progress: it is never decremented below zero, and a DEFER_BREAK that ends
\* a deferred expression is never taken for one outside of a drain.
DepthCoversDrains == depth >= ActiveDrains

\* ExceptionRaised is never set without an exception object: the check at the
\* head of HandleExceptionInFrame cannot fail, and what a handler or the
\* caller gets is an exception.
RaisedHasException ==
    /\ reason = "ExceptionRaised" => exc # NoExc
    /\ unwind.on => unwind.exc # NoExc
    /\ outcome = "unhandled" => exc # NoExc

\* An exception leaves the frame only after every deferred expression that
\* was registered has been started, those a deferred expression or a handler
\* registered on the way included (DrainDefersTo with size 0).
UnhandledDrained == outcome = "unhandled" => defers = << >>

\* The dispatch of an exception and the code it interrupts do not mix: while
\* defers run for it no other exception is pending, and without a handler it
\* is to run them all (HandleExceptionInFrame).
DispatchConsistent ==
    /\ unwind.busy => unwind.on
    /\ unwind.on /\ ~unwind.caught => unwind.base = 0
    /\ InDefer \/ unwind.on => reason # "ExceptionRaised"

\* A handler starts with the eval stack cut back to the exception alone, as
\* the emitter's depth tracking assumes (VisitTryStatement): the operands of
\* the interrupted expression are gone and no deferred expression left any.
HandlerDepthOne == unwind.on /\ ~unwind.busy => eval = << >>

\* A method that enters finitely many conditional blocks ends: exception
\* dispatch, drains and the replay of code by a stale handler do not go on
\* forever.
Terminates == <>(outcome # "running")
=============================================================================
