------------------------- MODULE FrameMachine_proofs -------------------------
(***************************************************************************)
(* What holds of FrameMachine for every bytecode, whether the emitter can  *)
(* produce it or not.                                                      *)
(***************************************************************************)
EXTENDS FrameMachine, SequenceFacts, TLAPS

\* The inductive invariant: types, the drain counter, the exception object and
\* the shape of the dispatch support each other.
FrameInv ==
    /\ TypeOK
    /\ DepthCoversDrains
    /\ RaisedHasException
    /\ UnhandledDrained
    /\ DispatchConsistent

\* The absent dispatch.
LEMMA NoUnwindType == NoUnwind \in Dispatch /\ ~NoUnwind.on /\ ~NoUnwind.busy
BY DEF NoUnwind, Dispatch, Offset

\* What the fetch of an instruction gives (InvokeMethodInternal, ExecuteDeferExpression).
LEMMA FetchFacts ==
    ASSUME FrameInv, NEW op, Fetch(op)
    PROVE  /\ outcome = "running"
           /\ reason # "ExceptionRaised"
           /\ Cur \in Instr
           /\ Cur.arg \in Offset
           /\ Cur.objs \in SUBSET Objects
           /\ Cur.tag \in STRING
           /\ ip + 1 \in Offset
           /\ CodeSize + 1 \in Offset
<1>1. ip \in 1 .. Len(code) /\ Len(code) \in Nat
  BY DEF FrameInv, TypeOK, Fetch, IsEOF, CodeSize, Offset
<1>2. Cur \in Instr
  BY <1>1 DEF Cur, FrameInv, TypeOK
<1>3. Cur.arg \in Offset /\ Cur.objs \in SUBSET Objects /\ Cur.tag \in STRING
  BY <1>2 DEF Instr
<1>4. reason # "ExceptionRaised"
  BY DEF FrameInv, DispatchConsistent, Fetch
<1> QED
  BY <1>1, <1>2, <1>3, <1>4 DEF Fetch, CodeSize, Offset

\* Leaving the frame interrupted keeps the invariant.
LEMMA InterruptKeeps ==
    ASSUME FrameInv, outcome = "running",
           NEW r \in Reasons, NEW e \in Objects \cup {NoExc},
           r = "ExceptionRaised" => e # NoExc,
           Interrupt(r, e),
           UNCHANGED << prog, code, handlers, defers, abort, outcome, entered >>,
           ip' \in Offset, eval' \in Seq(Objects), log' \in Seq(STRING)
    PROVE  FrameInv'
<1>1. depth' \in Nat
  BY DEF FrameInv, TypeOK, DepthCoversDrains, ActiveDrains, Interrupt
<1>2. TypeOK'
  BY <1>1, NoUnwindType, EmptySeq DEF FrameInv, TypeOK, Interrupt
<1>3. DepthCoversDrains'
  BY <1>1 DEF Interrupt, DepthCoversDrains, ActiveDrains, NoUnwind
<1>4. RaisedHasException' /\ UnhandledDrained'
  BY DEF Interrupt, RaisedHasException, UnhandledDrained, NoUnwind
<1>5. DispatchConsistent'
  BY DEF Interrupt, DispatchConsistent, InDefer, NoUnwind
<1> QED
  BY <1>2, <1>3, <1>4, <1>5 DEF FrameInv

\* A C++ exception keeps it.
LEMMA FaultKeeps ==
    ASSUME FrameInv, outcome = "running", Fault
    PROVE  FrameInv'
<1>1. depth' \in Nat
  BY DEF FrameInv, TypeOK, DepthCoversDrains, ActiveDrains, Fault
<1>2. TypeOK'
  BY <1>1, NoUnwindType, EmptySeq DEF FrameInv, TypeOK, Fault, Outcomes
<1>3. DepthCoversDrains'
  BY <1>1 DEF Fault, DepthCoversDrains, ActiveDrains, NoUnwind
<1>4. RaisedHasException' /\ UnhandledDrained'
  BY DEF Fault, RaisedHasException, UnhandledDrained, NoUnwind, FrameInv
<1>5. DispatchConsistent'
  BY DEF Fault, DispatchConsistent, InDefer, NoUnwind
<1> QED
  BY <1>2, <1>3, <1>4, <1>5 DEF FrameInv

\* An instruction that touches neither the interruption state nor the drains.
LEMMA PlainStepKeeps ==
    ASSUME FrameInv, outcome = "running", reason # "ExceptionRaised",
           UNCHANGED << prog, code, depth, reason, drains, unwind, outcome >>,
           ip' \in Offset, eval' \in Seq(Objects),
           handlers' \in Seq(Handler),
           defers' \in Seq(Offset), exc' \in Objects \cup {NoExc},
           abort' \in BOOLEAN, entered' \in 0 .. MaxEntered, log' \in Seq(STRING)
    PROVE  FrameInv'
<1>1. TypeOK'
  BY DEF FrameInv, TypeOK
<1>2. DepthCoversDrains' /\ DispatchConsistent'
  BY DEF FrameInv, DepthCoversDrains, ActiveDrains, DispatchConsistent, InDefer
<1>3. RaisedHasException' /\ UnhandledDrained'
  BY DEF FrameInv, RaisedHasException, UnhandledDrained
<1> QED
  BY <1>1, <1>2, <1>3 DEF FrameInv

-----------------------------------------------------------------------------
(* One lemma for each group of actions.                                    *)

USE DEF Offset

\* Calls, jumps, the type test, pushes, pops and RETURN keep the invariant.
LEMMA StraightLineKeeps ==
    ASSUME FrameInv,
           \/ Call \/ CallFault \/ Jump \/ JumpFalse \/ JumpTrue
           \/ IsInstance \/ Load \/ PopStack \/ Return
    PROVE  FrameInv'
<1> USE DEF FrameInv
<1>1. CASE Call
  <2>1. log' \in Seq(STRING) /\ ip' \in Offset /\ outcome = "running"
    BY <1>1, FetchFacts DEF Call, TypeOK
  <2>2. CASE UNCHANGED << depth, reason, exc, drains, unwind >>
    BY <1>1, <2>1, <2>2, FetchFacts, PlainStepKeeps DEF Call, TypeOK
  <2>3. CASE \E e \in Cur.objs : Interrupt("ExceptionRaised", e)
    <3>1. PICK e \in Cur.objs : Interrupt("ExceptionRaised", e)
      BY <2>3
    <3>2. e \in Objects /\ e # NoExc
      BY <1>1, FetchFacts, CodeAssumption DEF Call
    <3> QED
      BY <1>1, <2>1, <3>1, <3>2, InterruptKeeps DEF Call, TypeOK, Reasons
  <2> QED
    BY <1>1, <2>2, <2>3 DEF Call
<1>2. CASE CallFault
  BY <1>2, FetchFacts, FaultKeeps DEF CallFault
<1>3. CASE Jump
  BY <1>3, FetchFacts, PlainStepKeeps DEF Jump, TypeOK
<1>4. CASE JumpFalse \/ JumpTrue
  <2>1. PICK op \in {"JUMP_FALSE", "JUMP_TRUE"} : Branch(op)
    BY <1>4 DEF JumpFalse, JumpTrue
  <2>2. /\ Cur.arg \in Offset /\ ip + 1 \in Offset
        /\ entered \in 0 .. MaxEntered /\ MaxEntered \in Nat
    BY <2>1, FetchFacts, CodeAssumption DEF Branch, TypeOK
  <2>3. ip' \in Offset /\ entered' \in 0 .. MaxEntered
    BY <2>1, <2>2 DEF Branch
  <2> QED
    BY <2>1, <2>3, FetchFacts, PlainStepKeeps DEF Branch, TypeOK
<1>5. CASE IsInstance
  BY <1>5, FetchFacts, PlainStepKeeps DEF IsInstance, TypeOK
<1>6. CASE Load
  <2>1. PICK o \in Cur.objs : eval' = Append(eval, o)
    BY <1>6 DEF Load
  <2>2. o \in Objects
    BY <1>6, FetchFacts DEF Load
  <2>3. eval' \in Seq(Objects)
    BY <2>1, <2>2, AppendProperties DEF TypeOK
  <2> QED
    BY <1>6, <2>3, FetchFacts, PlainStepKeeps DEF Load, TypeOK
<1>7. CASE PopStack
  <2>1. eval' \in Seq(Objects)
    BY <1>7, FrontLast DEF PopStack, TypeOK
  <2> QED
    BY <1>7, <2>1, FetchFacts, PlainStepKeeps DEF PopStack, TypeOK
<1>8. CASE Return
  <2>1. CASE ReturnsValue(prog)
    BY <1>8, <2>1, FetchFacts, InterruptKeeps DEF Return, TypeOK, Reasons
  <2>2. CASE ~ReturnsValue(prog)
    BY <1>8, <2>2, FetchFacts, PlainStepKeeps DEF Return, TypeOK
  <2> QED
    BY <2>1, <2>2
<1> QED
  BY <1>1, <1>2, <1>3, <1>4, <1>5, <1>6, <1>7, <1>8

\* The exception opcodes of ProcessCode keep it.
LEMMA ExceptionKeeps ==
    ASSUME FrameInv,
           \/ Throw \/ ThrowFault \/ Rethrow \/ RethrowFault \/ EnterTry \/ LeaveTry \/ EndCatch
    PROVE  FrameInv'
<1> USE DEF FrameInv
<1>1. CASE Throw
  <2>1. eval \in Seq(Objects) /\ eval # << >>
    BY <1>1 DEF Throw, TypeOK
  <2>2. Last(eval) \in Objects /\ Front(eval) \in Seq(Objects)
    BY <2>1, FrontLast
  <2>3. Last(eval) # NoExc
    BY <2>2, CodeAssumption
  <2> QED
    BY <1>1, <2>2, <2>3, FetchFacts, InterruptKeeps DEF Throw, TypeOK, Reasons
<1>2. CASE Rethrow
  BY <1>2, FetchFacts, InterruptKeeps DEF Rethrow, TypeOK, Reasons
<1>3. CASE ThrowFault \/ RethrowFault
  BY <1>3, FetchFacts, FaultKeeps DEF ThrowFault, RethrowFault
<1>4. CASE EnterTry
  <2>1. handlers' \in Seq(Handler)
    <3>1. [offset |-> Cur.arg, base |-> Len(defers), try |-> ip] \in Handler
      BY <1>4, FetchFacts, LenProperties DEF EnterTry, TypeOK, Handler
    <3> QED
      BY <1>4, <3>1, AppendProperties DEF EnterTry, TypeOK
  <2> QED
    BY <1>4, <2>1, FetchFacts, PlainStepKeeps DEF EnterTry, TypeOK
<1>5. CASE LeaveTry
  <2>1. handlers' \in Seq(Handler)
    BY <1>5, FrontLast DEF LeaveTry, TypeOK
  <2> QED
    BY <1>5, <2>1, FetchFacts, PlainStepKeeps DEF LeaveTry, TypeOK
<1>6. CASE EndCatch
  BY <1>6, FetchFacts, PlainStepKeeps DEF EndCatch, TypeOK
<1> QED
  BY <1>1, <1>2, <1>3, <1>4, <1>5, <1>6

\* HandleExceptionInFrame keeps it: the handler's record gives the dispatch its
\* base, and DrainDefersTo counts the level it opens.
LEMMA DispatchKeeps ==
    ASSUME FrameInv, HandleException \/ UnwindDefer \/ EnterHandler \/ LeaveUnhandled
    PROVE  FrameInv'
<1> USE DEF FrameInv
<1>1. CASE HandleException
  <2>1. handlers # << >> => /\ Last(handlers).base \in Nat
                            /\ Last(handlers).offset \in Offset
                            /\ Front(handlers) \in Seq(Handler)
    <3>1. handlers \in Seq(Handler)
      BY DEF TypeOK
    <3>2. handlers # << >> => Last(handlers) \in Handler /\ Front(handlers) \in Seq(Handler)
      BY <3>1, FrontLast
    <3> QED
      BY <3>2 DEF Handler
  <2>2. /\ unwind' \in Dispatch
        /\ unwind'.busy = FALSE
        /\ handlers' \in Seq(Handler)
    <3>1. CASE handlers # << >>
      <4>1. /\ unwind' = Unwinding(exc, TRUE, Last(handlers).base, Last(handlers).offset)
            /\ handlers' = Front(handlers)
        BY <1>1, <3>1 DEF HandleException, DrainEvalStack, PopHandler
      <4>2. exc \in Objects \cup {NoExc}
        BY DEF TypeOK
      <4> QED
        BY <4>1, <4>2, <2>1, <3>1 DEF Unwinding, Dispatch, Offset
    <3>2. CASE handlers = << >>
      <4>1. unwind' = Unwinding(exc, FALSE, 0, 1) /\ handlers' = handlers
        BY <1>1, <3>2 DEF HandleException, DrainEvalStack, PopHandler
      <4>2. exc \in Objects \cup {NoExc} /\ handlers \in Seq(Handler)
        BY DEF TypeOK
      <4> QED
        BY <4>1, <4>2 DEF Unwinding, Dispatch, Offset
    <3> QED
      BY <3>1, <3>2
  <2>3. TypeOK' /\ DepthCoversDrains'
    <3>1. TypeOK'
      BY <1>1, <2>2, EmptySeq DEF HandleException, DrainEvalStack, PopHandler, TypeOK, Reasons
    <3>2. drains' = << >> /\ depth' = depth
      BY <1>1 DEF HandleException, DrainEvalStack, PopHandler, InMainLoop
    <3>3. DepthCoversDrains'
      BY <3>2, <2>2 DEF DepthCoversDrains, ActiveDrains, TypeOK
    <3> QED
      BY <3>1, <3>3
  <2>4. RaisedHasException' /\ UnhandledDrained'
    BY <1>1 DEF HandleException, DrainEvalStack, PopHandler, RaisedHasException, UnhandledDrained, Unwinding
  <2>5. DispatchConsistent'
    BY <1>1 DEF HandleException, DrainEvalStack, PopHandler, DispatchConsistent, Unwinding, InDefer, InMainLoop
  <2> QED
    BY <2>3, <2>4, <2>5
<1>2. CASE UnwindDefer
  <2>1. Last(defers) \in Offset /\ Front(defers) \in Seq(Offset)
    <3>1. Len(defers) > unwind.base /\ unwind \in Dispatch /\ defers \in Seq(Offset)
      BY <1>2 DEF UnwindDefer, TypeOK
    <3>2. Len(defers) # 0
      BY <3>1 DEF Dispatch
    <3>3. defers # << >>
      BY <3>2
    <3> QED
      BY <3>1, <3>3, FrontLast
  <2>2. TypeOK'
    <3>1. /\ unwind' = [ unwind EXCEPT !.busy = TRUE, !.ret = ip ]
          /\ unwind \in Dispatch /\ ip \in Offset
          /\ depth' = depth + 1 /\ depth \in Nat
      BY <1>2 DEF UnwindDefer, TypeOK
    <3>2. unwind' \in Dispatch /\ depth' \in Nat
      <4>1. [ unwind EXCEPT !.busy = TRUE ] \in Dispatch
        BY <3>1 DEF Dispatch
      <4>2. [ [ unwind EXCEPT !.busy = TRUE ] EXCEPT !.ret = ip ] \in Dispatch
        BY <4>1, <3>1 DEF Dispatch
      <4> QED
        BY <4>2, <3>1
    <3> QED
      BY <1>2, <2>1, <3>2 DEF UnwindDefer, RunTopDefer, TypeOK
  <2>3. DepthCoversDrains'
    <3>1. unwind'.busy = TRUE /\ unwind.busy = FALSE /\ drains' = drains /\ depth' = depth + 1
      BY <1>2 DEF UnwindDefer, TypeOK, Dispatch
    <3> QED
      BY <3>1 DEF DepthCoversDrains, ActiveDrains, TypeOK
  <2>4. RaisedHasException' /\ UnhandledDrained'
    BY <1>2 DEF UnwindDefer, RaisedHasException, UnhandledDrained, TypeOK
  <2>5. DispatchConsistent'
    BY <1>2 DEF UnwindDefer, DispatchConsistent, InDefer, TypeOK
  <2> QED
    BY <2>2, <2>3, <2>4, <2>5
<1>3. CASE EnterHandler
  <2>1. unwind.exc \in Objects /\ unwind.target \in Offset
    BY <1>3 DEF EnterHandler, TypeOK, RaisedHasException, Dispatch
  <2>2. TypeOK'
    BY <1>3, <2>1, NoUnwindType, AppendProperties DEF EnterHandler, TypeOK, Reasons
  <2>3. DepthCoversDrains' /\ DispatchConsistent'
    BY <1>3 DEF EnterHandler, DepthCoversDrains, DispatchConsistent, InDefer, ActiveDrains, NoUnwind
  <2>4. RaisedHasException' /\ UnhandledDrained'
    BY <1>3 DEF EnterHandler, RaisedHasException, UnhandledDrained, NoUnwind
  <2> QED
    BY <2>2, <2>3, <2>4
<1>4. CASE LeaveUnhandled
  <2>1. defers = << >>
    <3>1. Len(defers) = 0
      BY <1>4 DEF LeaveUnhandled, DispatchConsistent, TypeOK
    <3> QED
      BY <3>1, EmptySeq DEF TypeOK
  <2>2. unwind.exc \in Objects \cup {NoExc}
    BY DEF TypeOK, Dispatch
  <2>3. TypeOK'
    BY <1>4, <2>2, NoUnwindType DEF LeaveUnhandled, TypeOK, Reasons, Outcomes
  <2>4. DepthCoversDrains' /\ DispatchConsistent'
    BY <1>4 DEF LeaveUnhandled, DepthCoversDrains, DispatchConsistent, InDefer, ActiveDrains, NoUnwind
  <2>5. RaisedHasException' /\ UnhandledDrained'
    BY <1>4, <2>1 DEF LeaveUnhandled, RaisedHasException, UnhandledDrained, NoUnwind
  <2> QED
    BY <2>3, <2>4, <2>5
<1> QED
  BY <1>1, <1>2, <1>3, <1>4

\* The defer opcodes keep it: DEFER_DRAIN opens one level of DeferDrainDepth
\* for each entry of "drains", and DEFER_BREAK closes the innermost.
LEMMA DefersKeep ==
    ASSUME FrameInv,
           \/ Defer \/ DeferDrain \/ DeferDrainFault
           \/ DeferBreak \/ DeferBreakOutside \/ DrainFault
    PROVE  FrameInv'
<1> USE DEF FrameInv
<1>1. CASE Defer
  <2>1. defers' \in Seq(Offset)
    BY <1>1, FetchFacts, AppendProperties DEF Defer, TypeOK
  <2> QED
    BY <1>1, <2>1, FetchFacts, PlainStepKeeps DEF Defer, TypeOK
<1>2. CASE DeferDrain
  <2>1. Last(defers) \in Offset /\ Front(defers) \in Seq(Offset)
    BY <1>2, FrontLast DEF DeferDrain, TypeOK
  <2>2. [left |-> Cur.arg - 1, ret |-> ip + 1] \in Drain
    BY <1>2, FetchFacts DEF DeferDrain, Drain, Offset
  <2>3. drains' \in Seq(Drain) /\ Len(drains') = Len(drains) + 1
    BY <1>2, <2>2, AppendProperties DEF DeferDrain, TypeOK
  <2>4. TypeOK'
    BY <1>2, <2>1, <2>3 DEF DeferDrain, RunTopDefer, TypeOK
  <2>5. DepthCoversDrains'
    BY <1>2, <2>3 DEF DeferDrain, DepthCoversDrains, ActiveDrains, TypeOK
  <2>6. RaisedHasException' /\ UnhandledDrained' /\ DispatchConsistent'
    BY <1>2, FetchFacts DEF DeferDrain, RaisedHasException, UnhandledDrained,
                            DispatchConsistent, InDefer
  <2> QED
    BY <2>4, <2>5, <2>6
<1>3. CASE DeferDrainFault
  BY <1>3, FetchFacts, FaultKeeps DEF DeferDrainFault
<1>4. CASE DeferBreak
  <2>1. outcome = "running" /\ reason # "ExceptionRaised"
    BY <1>4, FetchFacts DEF DeferBreak
  <2>2. drains # << >> => /\ Last(drains) \in Drain
                          /\ Front(drains) \in Seq(Drain)
                          /\ Len(drains) > 0
                          /\ Len(Front(drains)) = Len(drains) - 1
    BY FrontLast DEF TypeOK
  <2>3. CASE drains # << >> /\ Last(drains).left > 0
    <3>1. /\ defers # << >> /\ RunTopDefer
          /\ drains' = Append(Front(drains), [Last(drains) EXCEPT !.left = @ - 1])
          /\ UNCHANGED << depth, unwind >>
      BY <1>4, <2>3 DEF DeferBreak
    <3>2. Last(defers) \in Offset /\ Front(defers) \in Seq(Offset)
      BY <3>1, FrontLast DEF TypeOK
    <3>3. [Last(drains) EXCEPT !.left = @ - 1] \in Drain
      BY <2>2, <2>3 DEF Drain
    <3>4. drains' \in Seq(Drain) /\ Len(drains') = Len(drains)
      BY <3>1, <3>3, <2>2, <2>3, AppendProperties, LenProperties DEF TypeOK
    <3>5. TypeOK'
      BY <1>4, <3>1, <3>2, <3>4 DEF DeferBreak, RunTopDefer, TypeOK
    <3>6. DepthCoversDrains'
      BY <3>1, <3>4 DEF DepthCoversDrains, ActiveDrains
    <3>7. RaisedHasException' /\ UnhandledDrained' /\ DispatchConsistent'
      BY <1>4, <2>1, <3>1 DEF DeferBreak, RaisedHasException, UnhandledDrained,
                              DispatchConsistent, InDefer
    <3> QED
      BY <3>5, <3>6, <3>7
  <2>4. CASE drains # << >> /\ Last(drains).left = 0
    <3>1. /\ ip' = Last(drains).ret /\ drains' = Front(drains) /\ depth' = depth - 1
          /\ UNCHANGED << defers, unwind >>
      BY <1>4, <2>4 DEF DeferBreak
    <3>2. depth - 1 \in Nat /\ Len(drains') = Len(drains) - 1
      <4>1. depth >= Len(drains) /\ depth \in Nat /\ Len(drains) \in Nat
        BY DEF DepthCoversDrains, ActiveDrains, TypeOK
      <4> QED
        BY <4>1, <2>2, <2>4, <3>1
    <3>3. Last(drains).ret \in Offset
      BY <2>2, <2>4 DEF Drain
    <3>4. TypeOK'
      BY <1>4, <2>2, <2>4, <3>1, <3>2, <3>3 DEF DeferBreak, TypeOK
    <3>5. DepthCoversDrains'
      BY <3>1, <3>2, LenProperties DEF DepthCoversDrains, ActiveDrains, TypeOK
    <3>6. RaisedHasException' /\ UnhandledDrained' /\ DispatchConsistent'
      BY <1>4, <2>1, <3>1 DEF DeferBreak, RaisedHasException, UnhandledDrained,
                              DispatchConsistent, InDefer
    <3> QED
      BY <3>4, <3>5, <3>6
  <2>5. CASE drains = << >>
    <3>1. /\ ip' = unwind.ret /\ unwind' = [unwind EXCEPT !.busy = FALSE]
          /\ depth' = depth - 1 /\ UNCHANGED << defers, drains >> /\ unwind.busy
      BY <1>4, <2>5 DEF DeferBreak, InDefer
    <3>2. depth - 1 \in Nat
      BY <2>5, <3>1 DEF DepthCoversDrains, ActiveDrains, TypeOK
    <3>3. unwind.ret \in Offset /\ unwind' \in Dispatch
      BY <3>1 DEF TypeOK, Dispatch
    <3>4. TypeOK'
      BY <1>4, <3>1, <3>2, <3>3 DEF DeferBreak, TypeOK
    <3>5. DepthCoversDrains'
      BY <2>5, <3>1, <3>2 DEF DepthCoversDrains, ActiveDrains, TypeOK
    <3>6. RaisedHasException' /\ UnhandledDrained'
      BY <1>4, <2>1, <3>1 DEF DeferBreak, RaisedHasException, UnhandledDrained, TypeOK
    <3>7. DispatchConsistent'
      BY <1>4, <2>1, <3>1 DEF DeferBreak, DispatchConsistent, InDefer, TypeOK
    <3> QED
      BY <3>4, <3>5, <3>6, <3>7
  <2>6. drains # << >> => Last(drains).left > 0 \/ Last(drains).left = 0
    BY <2>2 DEF Drain
  <2> QED
    BY <2>3, <2>4, <2>5, <2>6
<1>5. CASE DeferBreakOutside
  <2>1. CASE depth = 0 /\ Fault
    BY <1>5, <2>1, FetchFacts, FaultKeeps DEF DeferBreakOutside
  <2>2. CASE ~(depth = 0 /\ Fault)
    BY <1>5, <2>2, FetchFacts, PlainStepKeeps DEF DeferBreakOutside, TypeOK
  <2> QED
    BY <2>1, <2>2
<1>6. CASE DrainFault
  BY <1>6, FaultKeeps DEF DrainFault
<1> QED
  BY <1>1, <1>2, <1>3, <1>4, <1>5, <1>6

\* The ends of the method and VirtualMachine::Abort keep it.
LEMMA EndKeeps ==
    ASSUME FrameInv, LeaveAtEOF \/ Abort \/ AbortFault
    PROVE  FrameInv'
<1> USE DEF FrameInv
<1>1. CASE LeaveAtEOF
  <2>1. TypeOK'
    BY <1>1 DEF LeaveAtEOF, TypeOK, Reasons, Outcomes
  <2>2. DepthCoversDrains' /\ DispatchConsistent'
    BY <1>1 DEF LeaveAtEOF, DepthCoversDrains, ActiveDrains, DispatchConsistent, InDefer
  <2>3. RaisedHasException' /\ UnhandledDrained'
    BY <1>1 DEF LeaveAtEOF, RaisedHasException, UnhandledDrained
  <2> QED
    BY <2>1, <2>2, <2>3
<1>2. CASE Abort
  <2>1. TypeOK'
    BY <1>2 DEF Abort, TypeOK
  <2>2. DepthCoversDrains' /\ DispatchConsistent'
    BY <1>2 DEF Abort, DepthCoversDrains, ActiveDrains, DispatchConsistent, InDefer
  <2>3. RaisedHasException' /\ UnhandledDrained'
    BY <1>2 DEF Abort, RaisedHasException, UnhandledDrained
  <2> QED
    BY <2>1, <2>2, <2>3
<1>3. CASE AbortFault
  BY <1>3, FaultKeeps DEF AbortFault
<1> QED
  BY <1>1, <1>2, <1>3

-----------------------------------------------------------------------------
(* The theorems                                                            *)

\* Every execution of a frame, whatever its bytecode and wherever calls fail,
\* keeps the inductive invariant.
THEOREM FrameInvariant == Spec => []FrameInv
<1>1. Init => FrameInv
  <2> SUFFICES ASSUME Init PROVE FrameInv
    OBVIOUS
  <2>1. TypeOK
    <3>1. /\ prog \in Progs /\ code \in Seq(Instr) /\ ip \in Offset
          /\ entered \in 0 .. MaxEntered /\ unwind \in Dispatch
      BY CodeAssumption, NoUnwindType DEF Init, Offset
    <3> QED
      BY <3>1, EmptySeq DEF Init, TypeOK, Reasons, Outcomes
  <2>2. DepthCoversDrains /\ DispatchConsistent
    BY DEF Init, DepthCoversDrains, ActiveDrains, DispatchConsistent, InDefer, NoUnwind
  <2>3. RaisedHasException /\ UnhandledDrained
    BY DEF Init, RaisedHasException, UnhandledDrained, NoUnwind
  <2> QED
    BY <2>1, <2>2, <2>3 DEF FrameInv
<1>2. FrameInv /\ [Next]_vars => FrameInv'
  <2> SUFFICES ASSUME FrameInv, [Next]_vars PROVE FrameInv'
    OBVIOUS
  <2>1. CASE Next
    BY <2>1, StraightLineKeeps, ExceptionKeeps, DispatchKeeps, DefersKeep, EndKeeps DEF Next
  <2>2. CASE UNCHANGED vars
    BY <2>2 DEF vars, FrameInv, TypeOK, DepthCoversDrains, ActiveDrains, RaisedHasException,
                UnhandledDrained, DispatchConsistent, InDefer
  <2> QED
    BY <2>1, <2>2
<1> QED
  BY <1>1, <1>2, PTL DEF Spec

\* The state of a frame keeps its types: offsets stay positive and
\* DeferDrainDepth, an unsigned field, never goes below zero.
THEOREM FrameTypes == Spec => []TypeOK
<1>1. FrameInv => TypeOK
  BY DEF FrameInv
<1> QED
  BY <1>1, FrameInvariant, PTL

\* DeferDrainDepth covers the drains in progress: the DEFER_BREAK that ends a
\* deferred expression is never refused as one outside of a drain.
THEOREM DepthCovers == Spec => []DepthCoversDrains
<1>1. FrameInv => DepthCoversDrains
  BY DEF FrameInv
<1> QED
  BY <1>1, FrameInvariant, PTL

\* ExceptionRaised always comes with an exception object, so the precondition
\* of HandleExceptionInFrame holds wherever it is called.
THEOREM RaisedIsReal == Spec => []RaisedHasException
<1>1. FrameInv => RaisedHasException
  BY DEF FrameInv
<1> QED
  BY <1>1, FrameInvariant, PTL

\* An exception leaves a frame only when no deferred expression is left, even
\* where the emitter's own drains on return and break are missing.
THEOREM UnhandledRunsDefers == Spec => []UnhandledDrained
<1>1. FrameInv => UnhandledDrained
  BY DEF FrameInv
<1> QED
  BY <1>1, FrameInvariant, PTL

\* The dispatch of an exception and the code it interrupts do not mix: while
\* HandleExceptionInFrame runs deferred expressions no other exception is
\* pending in the frame, and without a handler it is to run them all.
THEOREM DispatchAgrees == Spec => []DispatchConsistent
<1>1. FrameInv => DispatchConsistent
  BY DEF FrameInv
<1> QED
  BY <1>1, FrameInvariant, PTL
=============================================================================
