------------------------------ MODULE CallStack ------------------------------
(***************************************************************************)
(* The call stack of the virtual machine: frames, the C++ activations that *)
(* run them, and the two kinds of exceptions.  A script exception is a     *)
(* field of a frame; a C++ exception unwinds activations until the catch   *)
(* of an external method, or the host, stops it.  The catch builds a       *)
(* script exception, which runs a constructor and may throw again.         *)
(*                                                                         *)
(* VirtualMachine::CallStack ("stack") and the C++ stack ("active") are    *)
(* separate: InvokeMethod pops its frame when it returns and leaves it     *)
(* behind when a C++ exception passes through it.  What a body does        *)
(* between two calls is FrameMachine; here it calls, throws, catches or    *)
(* ends.                                                                   *)
(***************************************************************************)
EXTENDS Integers, SequencesExt

CONSTANTS
    Exceptions,     \* exception objects
    NoExc,          \* the null ObjectInstance
    MaxFrames       \* frames that calls create in one behaviour; catches create more

ASSUME CallStackAssumption ==
    /\ NoExc \notin Exceptions
    /\ MaxFrames \in Nat

VARIABLES
    frames,     \* every CallStackFrame created so far; its index is its identity
    stack,      \* CallStack: the frames the virtual machine keeps alive
    active,     \* activations of InvokeMethodInternal, innermost last
    flying,     \* a C++ exception is unwinding the activations
    catching,   \* frames of external methods whose catch builds the script exception
    abort,      \* AbortFlag
    host,       \* what VirtualMachine::Run does
    unhandled,  \* UnhandledException
    escaped,    \* the exception that left the entry point
    lost        \* number of frames left behind by C++ exceptions

vars == << frames, stack, active, flying, catching, abort, host, unhandled, escaped, lost >>

Kinds   == { "body", "external" }
Reasons == { "None", "EndOfInstructions", "ExceptionRaised" }

\* The C++ function an activation returns to.
Callers == { "Run", "InvokeMethod", "TryInvokeMethod" }

NoFrame == 0

Frame      == [kind : Kinds, prev : Nat, reason : Reasons, exc : Exceptions \cup {NoExc}]
Activation == [frame : Nat, via : Callers]

TypeOK ==
    /\ frames \in Seq(Frame)
    /\ stack \in Seq(1 .. Len(frames))
    /\ active \in Seq(Activation)
    /\ flying \in BOOLEAN
    /\ catching \subseteq Nat
    /\ abort \in BOOLEAN
    /\ host \in { "idle", "running", "ended", "failed" }
    /\ unhandled \in Exceptions \cup {NoExc}
    /\ escaped \in Exceptions \cup {NoExc}
    /\ lost \in Nat

Init ==
    /\ frames = << >>
    /\ stack = << >>
    /\ active = << >>
    /\ flying = FALSE
    /\ catching = {}
    /\ abort = FALSE
    /\ host = "idle"
    /\ unhandled = NoExc
    /\ escaped = NoExc
    /\ lost = 0

-----------------------------------------------------------------------------

\* CurrentFrame() is the top of the stack, whoever is running.
CurrentFrame == IF stack = << >> THEN NoFrame ELSE Last(stack)

\* The frame the innermost activation works on.
Running == Last(active).frame

\* An activation of that kind executes; an external one is not in its catch.
Executes(kind) ==
    /\ active # << >>
    /\ ~flying
    /\ frames[Running].kind = kind
    /\ Running \notin catching

\* Mutant of LoopHead: AbortFlag is not looked at.
LoopHeadNoAbort(reason) ==
    /\ Executes("body")
    /\ frames[Running].reason = reason

\* The loop of a script method at its head: AbortFlag, then the reason.
LoopHead(reason) ==
    /\ Executes("body")
    /\ ~abort
    /\ frames[Running].reason = reason

\* PushFrame
NewFrame(kind) == [kind |-> kind, prev |-> CurrentFrame, reason |-> "None", exc |-> NoExc]

\* Mutants of Popped: InvokeMethodInternal pops too, nobody does, the wrong end.
PoppedTwice  == SubSeq(stack, 1, Len(stack) - 2)
PoppedNever  == stack
PoppedBottom == IF stack = << >> THEN stack ELSE Tail(stack)

\* PopFrame, of whatever is on top.
Popped == IF stack = << >> THEN stack ELSE Front(stack)

\* InterruptionReason and CurrentException of a frame are assigned.
SetReason(fs, f, r, e) ==
    [fs EXCEPT ![f] = [kind |-> fs[f].kind, prev |-> fs[f].prev, reason |-> r, exc |-> e]]

Raise(fs, f, e) == IF f = NoFrame THEN fs ELSE SetReason(fs, f, "ExceptionRaised", e)

Clear(fs, f) ==
    IF f = NoFrame \/ fs[f].reason # "ExceptionRaised" THEN fs
    ELSE SetReason(fs, f, "None", NoExc)

\* The method is over; CurrentException stays.
Ended(fs, f) == SetReason(fs, f, "EndOfInstructions", fs[f].exc)

\* InvokeMethodInternal leaves its frame in state fs and returns to its caller:
\* InvokeMethod pops a frame; TryInvokeMethodImpl first clears an exception the
\* callee left in the calling frame; Run reports what the entry frame holds.
LeaveTo(fs) ==
    LET f   == Running
        via == Last(active).via
    IN  /\ active' = Front(active)
        /\ stack' = Popped
        /\ frames' = IF via = "TryInvokeMethod" THEN Clear(fs, fs[f].prev) ELSE fs
        /\ host' = IF via = "Run" THEN "ended" ELSE host
        /\ unhandled' = IF via = "Run" /\ fs[f].reason = "ExceptionRaised" THEN fs[f].exc ELSE unhandled
        /\ catching' = catching \ {f}

-----------------------------------------------------------------------------
(* The host                                                                *)

\* Run: AbortFlag and the unhandled exception are reset, the frames an earlier
\* run left behind are not.
Run ==
    /\ host # "running"
    /\ Len(frames) < MaxFrames
    /\ frames' = Append(frames, NewFrame("body"))
    /\ stack' = Append(stack, Len(frames) + 1)
    /\ active' = << [frame |-> Len(frames) + 1, via |-> "Run"] >>
    /\ abort' = FALSE
    /\ host' = "running"
    /\ unhandled' = NoExc
    /\ escaped' = NoExc
    /\ UNCHANGED << flying, catching, lost >>

\* Abort, from the host or from the global method Halt.
Abort ==
    /\ host = "running"
    /\ ~abort
    /\ abort' = TRUE
    /\ UNCHANGED << frames, stack, active, flying, catching, host, unhandled, escaped, lost >>

-----------------------------------------------------------------------------
(* Calls                                                                   *)

\* PushFrame and InvokeMethodInternal, for a caller that pops the frame afterwards.
Invoke(kind, via) ==
    /\ ~abort
    /\ frames' = Append(frames, NewFrame(kind))
    /\ stack' = Append(stack, Len(frames) + 1)
    /\ active' = Append(active, [frame |-> Len(frames) + 1, via |-> via])
    /\ flying' = FALSE
    /\ UNCHANGED << abort, host, unhandled, escaped, lost >>

\* The same with AbortFlag set: InvokeMethodInternal throws at once, and the
\* frame its caller has pushed stays behind.
Refuse(kind) ==
    /\ abort
    /\ frames' = Append(frames, NewFrame(kind))
    /\ stack' = Append(stack, Len(frames) + 1)
    /\ lost' = lost + 1
    /\ flying' = TRUE
    /\ UNCHANGED << active, abort, host, unhandled, escaped >>

\* Of TryInvokeMethodImpl, whose catch pops it.
RefuseTry(kind) ==
    /\ abort
    /\ frames' = Append(frames, NewFrame(kind))
    /\ flying' = TRUE
    /\ UNCHANGED << stack, active, abort, host, unhandled, escaped, lost >>

MayCall == Len(frames) < MaxFrames

\* A call instruction, or the creation of an object.
BodyCall ==
    /\ LoopHead("None")
    /\ MayCall
    /\ \E k \in Kinds : Invoke(k, "InvokeMethod")
    /\ UNCHANGED catching

\* Abort came between the head of the loop and the call.
BodyCallAborted ==
    /\ Executes("body")
    /\ frames[Running].reason = "None"
    /\ MayCall
    /\ \E k \in Kinds : Refuse(k)
    /\ UNCHANGED catching

\* A native method calls back: a delegate, ToString, MoveNext.
Callback ==
    /\ Executes("external")
    /\ MayCall
    /\ \E v \in Callers \ {"Run"} : Invoke("body", v)
    /\ UNCHANGED catching

CallbackAborted ==
    /\ Executes("external")
    /\ MayCall
    /\ Refuse("body") \/ RefuseTry("body")
    /\ UNCHANGED catching

-----------------------------------------------------------------------------
(* Script methods                                                          *)

BodyThrow ==
    /\ LoopHead("None")
    /\ \E e \in Exceptions : frames' = Raise(frames, Running, e)
    /\ UNCHANGED << stack, active, flying, catching, abort, host, unhandled, escaped, lost >>

\* An exception of its own, or left by a callee: HandleExceptionInFrame finds
\* a handler, which handles it.
BodyCatch ==
    /\ LoopHead("ExceptionRaised")
    /\ frames' = Clear(frames, Running)
    /\ UNCHANGED << stack, active, flying, catching, abort, host, unhandled, escaped, lost >>

\* It finds none: the loop ends, and the reason is overwritten.
BodyEscape ==
    /\ LoopHead("ExceptionRaised")
    /\ LeaveTo(Ended(frames, Running))
    /\ escaped' = IF Last(active).via = "Run" THEN frames[Running].exc ELSE escaped
    /\ UNCHANGED << flying, abort, lost >>

BodyReturn ==
    /\ LoopHead("None")
    /\ LeaveTo(Ended(frames, Running))
    /\ UNCHANGED << flying, abort, escaped, lost >>

\* A C++ exception in ProcessCode, or AbortFlag at the head of the loop.
BodyFault ==
    /\ Executes("body")
    /\ flying' = TRUE
    /\ UNCHANGED << frames, stack, active, catching, abort, host, unhandled, escaped, lost >>

\* The C++ exception leaves an activation: of a script method, or of an external
\* one whose catch has thrown.  TryInvokeMethodImpl pops the top of CallStack,
\* which may be a frame that was left behind above the one it pushed.
Unwind ==
    /\ flying
    /\ frames[Running].kind = "body" \/ Running \in catching
    /\ active' = Front(active)
    /\ catching' = catching \ {Running}
    /\ IF Last(active).via = "TryInvokeMethod"
       THEN stack' = Popped /\ UNCHANGED lost
       ELSE lost' = lost + 1 /\ UNCHANGED stack
    /\ IF Last(active).via = "Run"
       THEN host' = "failed" /\ flying' = FALSE
       ELSE UNCHANGED << host, flying >>
    /\ UNCHANGED << frames, abort, unhandled, escaped >>

-----------------------------------------------------------------------------
(* External methods                                                        *)

\* The function returns.  An exception in its own frame, put there by a callee
\* of InvokeMethod or by Propagate, is overwritten.
ExternalReturn ==
    /\ Executes("external")
    /\ LeaveTo(Ended(frames, Running))
    /\ UNCHANGED << flying, abort, escaped, lost >>

\* CallState::Propagate: the exception goes into the frame of the function.
Propagate ==
    /\ Executes("external")
    /\ \E e \in Exceptions : frames' = Raise(frames, Running, e)
    /\ UNCHANGED << stack, active, flying, catching, abort, host, unhandled, escaped, lost >>

\* Task.Wait on a faulted task: the exception goes into the calling frame.
RaiseInCaller ==
    /\ Executes("external")
    /\ \E e \in Exceptions : frames' = Raise(frames, frames[Running].prev, e)
    /\ UNCHANGED << stack, active, flying, catching, abort, host, unhandled, escaped, lost >>

\* A C++ exception, thrown by the function or by what it called, reaches the
\* catch around the function.
Caught ==
    /\ active # << >>
    /\ frames[Running].kind = "external"
    /\ Running \notin catching
    /\ catching' = catching \cup {Running}

\* CreateRuntimeException invokes the constructor of the exception class, a
\* script method or a native one.
ExternalCatch ==
    /\ Caught
    /\ \E k \in Kinds : (k = "external" => MayCall) /\ Invoke(k, "InvokeMethod")

\* It refuses to, with AbortFlag set.
ExternalCatchAborted ==
    /\ Caught
    /\ \E k \in Kinds : Refuse(k)

\* It finds no exception class or no constructor without parameters.
ExternalCatchFails ==
    /\ Caught
    /\ flying' = TRUE
    /\ UNCHANGED << frames, stack, active, abort, host, unhandled, escaped, lost >>

\* The constructor has returned: the script exception goes into the frame of the
\* function and the calling frame.
ExternalCaught ==
    /\ active # << >>
    /\ ~flying
    /\ Running \in catching
    /\ \E e \in Exceptions :
         LeaveTo(Raise(Raise(frames, Running, e), frames[Running].prev, e))
    /\ UNCHANGED << flying, abort, escaped, lost >>

\* What the thread of the virtual machine does by itself.
Step ==
    \/ BodyCall \/ BodyCallAborted \/ Callback \/ CallbackAborted
    \/ BodyThrow \/ BodyCatch \/ BodyEscape \/ BodyReturn \/ BodyFault \/ Unwind
    \/ ExternalReturn \/ Propagate \/ RaiseInCaller
    \/ ExternalCatch \/ ExternalCatchAborted \/ ExternalCatchFails \/ ExternalCaught

Next == Run \/ Abort \/ Step

Spec == Init /\ [][Next]_vars

\* The thread keeps running, and native functions end.
FairSpec == Spec /\ WF_vars(Step)

-----------------------------------------------------------------------------
(* Properties                                                              *)

\* The frame of every activation is alive: InvokeMethodInternal and its callers
\* hold raw pointers to frames that only CallStack owns, and PopFrame releases
\* the top frame whoever it belongs to.  The frame below each, PreviousFrame,
\* is alive too.
ActiveFramesAlive ==
    \A i \in DOMAIN active :
        LET f == active[i].frame
        IN  f \in Range(stack) /\ (frames[f].prev # NoFrame => frames[f].prev \in Range(stack))

\* CallStack holds one frame for each activation and one for each that a C++
\* exception left behind, no more and no fewer: what TryInvokeMethodImpl pops in
\* its catch makes up for its own frame, whichever frame it is, and PopFrame
\* never meets an empty stack.
FramesAccounted == Len(stack) = Len(active) + lost

\* As long as no frame was left behind, CallStack is exactly the activations:
\* CurrentFrame() is the frame that is running.
StackMatchesActivations == lost = 0 => stack = [i \in DOMAIN active |-> active[i].frame]

\* After Abort the run ends: the loops of script methods throw, nothing is
\* invoked any more, and the catch of an external method throws again, since it
\* cannot construct its exception.  A catch that had constructed it before ends
\* in a script exception, but the loop below it looks at AbortFlag before it
\* looks for a handler.
AbortEnds == abort ~> host # "running"

\* An exception no handler caught is reported as unhandled when Run returns:
\* the emitter counts on a frame that "returns with an unhandled exception"
\* (VisitThrowStatement), and run_tests.py on test_throw_simple.shard failing.
EscapedReported == host = "ended" /\ escaped # NoExc => unhandled = escaped
=============================================================================
