---------------------------- MODULE AsyncMachine ----------------------------
(***************************************************************************)
(* A lowered async method while it runs: frames of MoveNext on one state   *)
(* machine object, the first started by the factory and each later one by  *)
(* the event loop, when the awaiter the previous one suspended on calls    *)
(* its continuation.  Frame, handlers and defers follow FrameMachine; an   *)
(* expression without an await is one step, as the regular emitter's code  *)
(* for it does not leave the frame.                                        *)
(***************************************************************************)
EXTENDS AsyncLowering

CONSTANTS
    Bodies,         \* the bodies of the methods
    Compile(_),     \* the lowering: Lower of AsyncLowering
    MaxEvents       \* calls and results of tasks in an execution

-----------------------------------------------------------------------------
(* What an async method means: its statements one after the other, an      *)
(* await being the result of the awaited task, wherever it stands.  The    *)
(* executions of a body are the results it may have: the calls made with   *)
(* their arguments and outcomes, the variables, and how it ended.          *)
(* Whatever a call or a task gives is one of the outcomes its node allows; *)
(* an execution is cut when it has made MaxEvents of them.                 *)


Exceptions == {"A", "B"}
Get(env, x)    == IF x \in DOMAIN env THEN env[x] ELSE "F"
Put(env, x, v) == (x :> v) @@ env
Truth(b)       == IF b THEN "T" ELSE "F"

Start == [log |-> << >>, env |-> << >>, end |-> "ok", v |-> "F"]

\* A call, or the result of a task.
Event(r, id, args, outs) ==
    IF Len(r.log) = MaxEvents THEN {[r EXCEPT !.end = "cut"]}
    ELSE { [r EXCEPT !.log = Append(@, << id, args, o >>), !.v = o,
                     !.end = IF o \in Exceptions THEN "raise" ELSE "ok"] : o \in outs }

\* The executions of e after r.  With "awaits" an await gives the result of
\* the task; the regular emitter has no code for one.
RECURSIVE Evals(_, _, _)
RECURSIVE EvalAll(_, _, _, _)
EvalAll(es, r, vs, awaits) ==
    IF r.end # "ok" \/ es = << >> THEN {[r |-> r, vs |-> vs]}
    ELSE UNION { EvalAll(Tail(es), x, Append(vs, x.v), awaits) : x \in Evals(Head(es), r, awaits) }

Evals(e, r, awaits) ==
    LET then(x, more) == IF x.end # "ok" THEN {x} ELSE more
    IN  CASE e.k = "var"    -> {[r EXCEPT !.v = Get(r.env, e.id)]}
          [] e.k = "const"  -> {[r EXCEPT !.v = e.id]}
          [] e.k = "assign" -> UNION { then(x, {[x EXCEPT !.env = Put(@, e.id, x.v)]}) : x \in Evals(e.of[1], r, awaits) }
          [] e.k = "not"    -> UNION { then(x, {[x EXCEPT !.v = Truth(@ = "F")]}) : x \in Evals(e.of[1], r, awaits) }
          [] e.k \in {"and", "or"} ->
                UNION { then(x, IF (x.v = "T") = (e.k = "and") THEN Evals(e.of[2], x, awaits) ELSE {x}) :
                            x \in Evals(e.of[1], r, awaits) }
          [] e.k = "cond" ->
                UNION { then(x, Evals(e.of[IF x.v = "T" THEN 2 ELSE 3], x, awaits)) : x \in Evals(e.of[1], r, awaits) }
          [] e.k = "call" ->
                UNION { then(a.r, Event(a.r, e.id, a.vs, e.outs)) : a \in EvalAll(e.of, r, << >>, awaits) }
          [] e.k = "await" /\ awaits ->
                UNION { then(x, Event(x, e.id, << >>, e.outs)) : x \in Evals(e.of[1], r, awaits) }
          [] e.k = "await" /\ ~awaits -> {[r EXCEPT !.end = "fault"]}

RECURSIVE Exec(_, _, _)
RECURSIVE ExecBlock(_, _, _, _)
RECURSIVE ExecLoop(_, _, _)
RECURSIVE LeaveBlock(_, _, _)

\* The deferred calls of a block, the last first, however the block is left.
LeaveBlock(pending, r, awaits) ==
    IF pending = << >> \/ r.end = "cut" THEN {r}
    ELSE UNION { LeaveBlock(Front(pending),
                     IF d.end = "ok" THEN [r EXCEPT !.log = d.log, !.env = d.env] ELSE d, awaits) :
                 d \in Evals(Last(pending), [r EXCEPT !.end = "ok"], awaits) }

ExecBlock(stmts, pending, r, awaits) ==
    IF r.end # "ok" \/ stmts = << >> THEN LeaveBlock(pending, r, awaits)
    ELSE IF Head(stmts).k = "defer" THEN ExecBlock(Tail(stmts), Append(pending, Head(stmts).es[1]), r, awaits)
    ELSE UNION { ExecBlock(Tail(stmts), pending, x, awaits) : x \in Exec(Head(stmts), r, awaits) }

Block(stmts, r, awaits) == ExecBlock(stmts, << >>, r, awaits)

\* The rounds of a loop: its test, its body, its repeated statement.
ExecLoop(s, r, awaits) ==
    LET tests == CASE s.k = "foreach" -> { [x EXCEPT !.env = IF x.v = "T" THEN Put(@, s.name, "T") ELSE @] :
                                               x \in Event(r, s.name, << >>, {"T", "F"}) }
                   [] s.k # "foreach" /\ s.es = << >> -> {[r EXCEPT !.v = "T"]}
                   [] OTHER -> Evals(s.es[1], r, awaits)
        again(x) == CASE x.end = "break" -> {[x EXCEPT !.end = "ok"]}
                      [] x.end \in {"ok", "continue"} ->
                            UNION { IF y.end = "ok" THEN ExecLoop(s, y, awaits) ELSE {y} :
                                    y \in IF s.k = "for" THEN Block(s.blocks[3], [x EXCEPT !.end = "ok"], awaits)
                                          ELSE {[x EXCEPT !.end = "ok"]} }
                      [] OTHER -> {x}
        round(t) == IF t.end # "ok" \/ (t.v = "T") = (s.k = "until") THEN {t}
                    ELSE UNION { again(x) : x \in Block(s.blocks[1], t, awaits) }
    IN  UNION { round(t) : t \in tests }

ExecClauses(s, i, r, awaits) ==
    LET RECURSIVE clause(_, _)
        clause(n, x) ==
            IF x.end # "ok" THEN {x}
            ELSE IF n > Len(s.es)
            THEN (IF n > Len(s.blocks) THEN {x} ELSE Block(s.blocks[n], x, awaits))
            ELSE UNION { IF y.end # "ok" THEN {y}
                         ELSE IF (y.v = "T") = ~(s.k = "unless" /\ n = 1) THEN Block(s.blocks[n], y, awaits)
                         ELSE clause(n + 1, y) : y \in Evals(s.es[n], x, awaits) }
    IN  clause(i, r)

ExecTry(s, r, awaits) ==
    LET fits(x) == {i \in DOMAIN s.catches : x.v \in s.catches[i].accepts}
        caught(x, i) == Block(s.blocks[i + 1],
                              [x EXCEPT !.end = "ok",
                                        !.env = IF s.catches[i].var = "" THEN @ ELSE Put(@, s.catches[i].var, x.v)], awaits)
    IN  UNION { IF x.end = "raise" /\ fits(x) # {} THEN caught(x, Min(fits(x))) ELSE {x} :
                x \in Block(s.blocks[1], r, awaits) }

Exec(s, r, awaits) ==
    LET one == IF s.es = << >> THEN {r} ELSE Evals(s.es[1], r, awaits)
    IN  CASE s.k = "expr"   -> one
          [] s.k = "var"    -> { IF x.end = "ok" THEN [x EXCEPT !.env = Put(@, s.name, x.v)] ELSE x : x \in one }
          [] s.k = "return" -> { IF x.end = "ok" THEN [x EXCEPT !.end = "return", !.v = IF s.es = << >> THEN "F" ELSE @]
                                 ELSE x : x \in one }
          [] s.k = "throw"  -> { IF x.end = "ok" THEN [x EXCEPT !.end = "raise"] ELSE x : x \in one }
          [] s.k \in {"break", "continue"} -> {[r EXCEPT !.end = s.k]}
          [] s.k \in {"if", "unless"} -> ExecClauses(s, 1, r, awaits)
          [] s.k = "try"    -> ExecTry(s, r, awaits)
          [] s.k = "foreach" -> UNION { IF x.end = "ok" THEN ExecLoop(s, x, awaits) ELSE {x} : x \in one }
          [] s.k \in {"while", "until"} -> ExecLoop(s, r, awaits)
          [] s.k = "for"    -> UNION { IF x.end = "ok" THEN ExecLoop(s, x, awaits) ELSE {x} :
                                       x \in Block(s.blocks[2], r, awaits) }

\* How the executions of an async method end for the one who awaits it: the
\* calls made and the result or the exception of its task.
Ending(r) ==
    [log  |-> r.log,
     task |-> CASE r.end = "cut"    -> << >>
                [] r.end = "raise"  -> << << "exception", r.v >> >>
                [] r.end = "return" -> << << "result", r.v >> >>
                [] OTHER            -> << << "result", "F" >> >>]
Executions(body) == { Ending(r) : r \in Block(body, Start, TRUE) }

-----------------------------------------------------------------------------
(* The machine                                                             *)

None == ""

VARIABLES
    method,     \* the method called
    machine,    \* what it was lowered to
    object,     \* the state machine: _state, _currentException, the lifted locals
    frame,      \* the frame of MoveNext
    phase,      \* running, suspended, done, cut, fault
    task,       \* the settlements of the task, in their order
    log         \* the calls made and their outcomes

vars == << method, machine, object, frame, phase, task, log >>

Code == machine.code
Cur  == Code[frame.ip]

NewFrame ==
    [ ip |-> 1, env |-> << >>, stack |-> << >>, handlers |-> << >>, defers |-> << >>,
      exc |-> None, drain |-> 0, raised |-> None, unwind |-> << >> ]

\* The factory: the state machine and its task are made, and MoveNext called.
Init ==
    /\ method \in Bodies
    /\ machine = Compile(method)
    /\ machine.ok
    /\ object = [state |-> 0, exc |-> None, fields |-> << >>]
    /\ frame = NewFrame
    /\ phase = "running"
    /\ task = << >>
    /\ log = << >>

-----------------------------------------------------------------------------
(* Steps of the interpreter                                                *)

Fetch(op) ==
    /\ phase = "running"
    /\ frame.raised = None
    /\ frame.drain = 0
    /\ Cur.op = op

Go(f)     == frame' = [f EXCEPT !.ip = @ + 1]
GoTo(f, t) == frame' = [f EXCEPT !.ip = t]

\* An expression or statement has been executed with result r: it goes on
\* with f, or the exception is raised in it, or the execution ends.
Finish(r, f) ==
    /\ log' = r.log
    /\ phase' = IF r.end \in {"cut", "fault"} THEN r.end ELSE IF r.end = "return" THEN "done" ELSE "running"
    /\ frame' = CASE r.end = "ok"    -> f
                  [] r.end = "raise" -> [f EXCEPT !.raised = r.v, !.env = r.env, !.drain = 0, !.unwind = << >>]
                  [] OTHER           -> frame

Now == [Start EXCEPT !.log = log, !.env = frame.env]
Stepped(r) == [frame EXCEPT !.env = r.env, !.ip = @ + 1]

EnterTry ==
    /\ Fetch("ENTER_TRY")
    /\ Go([frame EXCEPT !.handlers = Append(@, [target |-> Cur.arg, base |-> Len(frame.defers)])])
    /\ UNCHANGED << method, machine, object, phase, task, log >>

LeaveTry ==
    /\ Fetch("LEAVE_TRY")
    /\ Go([frame EXCEPT !.handlers = IF @ = << >> THEN @ ELSE Front(@)])
    /\ UNCHANGED << method, machine, object, phase, task, log >>

EndCatch ==
    /\ Fetch("END_CATCH")
    /\ Go([frame EXCEPT !.exc = None])
    /\ UNCHANGED << method, machine, object, phase, task, log >>

Jump ==
    /\ Fetch("JUMP")
    /\ GoTo(frame, Cur.arg)
    /\ UNCHANGED << method, machine, object, phase, task, log >>

Branch ==
    /\ Fetch("JUMP_TRUE") \/ Fetch("JUMP_FALSE")
    /\ \E r \in Evals(Cur.x, Now, FALSE) :
          Finish(r, IF (r.v = "T") = (Cur.op = "JUMP_TRUE") THEN [Stepped(r) EXCEPT !.ip = Cur.arg] ELSE Stepped(r))
    /\ UNCHANGED << method, machine, object, task >>

Execute ==
    /\ Fetch("EXEC")
    /\ \E r \in Exec(Cur.x, Now, FALSE) : Finish(r, Stepped(r))
    /\ UNCHANGED << method, machine, object, task >>

Eval ==
    /\ Fetch("EVAL")
    /\ \E r \in Evals(Cur.x, Now, FALSE) : Finish(r, [Stepped(r) EXCEPT !.stack = Append(@, r.v)])
    /\ UNCHANGED << method, machine, object, task >>

Enumerate ==
    /\ Fetch("ENUMERATE")
    /\ \E r \in Evals(Cur.x.es[1], Now, FALSE) : Finish(r, Stepped(r))
    /\ UNCHANGED << method, machine, object, task >>

MoveNextOfEnumerator ==
    /\ Fetch("MOVE_NEXT")
    /\ \E r \in Event(Now, Cur.x.name, << >>, {"T", "F"}) :
          Finish(r, IF r.v = "T" THEN [Stepped(r) EXCEPT !.env = Put(@, Cur.x.name, "T")]
                    ELSE [Stepped(r) EXCEPT !.ip = Cur.arg])
    /\ UNCHANGED << method, machine, object, task >>

\* Popping an empty stack: the layout of the frame is broken.
PopFault ==
    /\ Fetch("THROW") \/ Fetch("CATCH") \/ Fetch("SET_EXCEPTION")
    /\ frame.stack = << >>
    /\ phase' = "fault"
    /\ UNCHANGED << method, machine, object, frame, task, log >>

Throw ==
    /\ Fetch("THROW")
    /\ frame.stack # << >>
    /\ frame' = [frame EXCEPT !.raised = Last(frame.stack), !.stack = Front(@), !.unwind = << >>]
    /\ UNCHANGED << method, machine, object, phase, task, log >>

\* The type test of a clause, and the store into its variable.
Catch ==
    /\ Fetch("CATCH")
    /\ frame.stack # << >>
    /\ IF Last(frame.stack) \in Cur.x.accepts
       THEN Go([frame EXCEPT !.stack = Front(@),
                             !.env = IF Cur.x.var = "" THEN @ ELSE Put(@, Cur.x.var, Last(frame.stack))])
       ELSE GoTo(frame, Cur.arg)
    /\ UNCHANGED << method, machine, object, phase, task, log >>

-----------------------------------------------------------------------------
(* Defers and the dispatch of exceptions                                   *)

Defer ==
    /\ Fetch("DEFER")
    /\ Go([frame EXCEPT !.defers = Append(@, Cur.x)])
    /\ UNCHANGED << method, machine, object, phase, task, log >>

DeferDrain ==
    /\ Fetch("DRAIN")
    /\ Go([frame EXCEPT !.drain = Cur.arg])
    /\ UNCHANGED << method, machine, object, phase, task, log >>

RunTopDefer(f) ==
    \E r \in Evals(Last(frame.defers), [Now EXCEPT !.env = frame.env], FALSE) :
        Finish(r, [f EXCEPT !.defers = Front(@), !.env = r.env])

DrainOne ==
    /\ phase = "running" /\ frame.drain > 0
    /\ IF frame.defers # << >> THEN RunTopDefer([frame EXCEPT !.drain = @ - 1])
       ELSE phase' = "fault" /\ UNCHANGED << frame, log >>
    /\ UNCHANGED << method, machine, object, task >>

\* HandleExceptionInFrame: the innermost handler is popped.
HandleException ==
    /\ phase = "running" /\ frame.raised # None /\ frame.unwind = << >>
    /\ frame' = [frame EXCEPT
                    !.stack = << >>,
                    !.unwind = << IF frame.handlers = << >> THEN [target |-> 0, base |-> 0] ELSE Last(frame.handlers) >>,
                    !.handlers = IF @ = << >> THEN @ ELSE Front(@)]
    /\ UNCHANGED << method, machine, object, phase, task, log >>

UnwindDefer ==
    /\ phase = "running" /\ frame.unwind # << >>
    /\ Len(frame.defers) > frame.unwind[1].base
    /\ RunTopDefer(frame)
    /\ UNCHANGED << method, machine, object, task >>

EnterHandler ==
    /\ phase = "running" /\ frame.unwind # << >>
    /\ Len(frame.defers) <= frame.unwind[1].base
    /\ LET t == frame.unwind[1].target IN
       IF t = 0 THEN phase' = "done" /\ UNCHANGED frame
       ELSE /\ frame' = [frame EXCEPT !.ip = t, !.stack = << frame.raised >>, !.exc = frame.raised,
                                      !.raised = None, !.unwind = << >>]
            /\ UNCHANGED phase
    /\ UNCHANGED << method, machine, object, task, log >>

-----------------------------------------------------------------------------
(* The state machine                                                       *)

Dispatch ==
    /\ Fetch("DISPATCH")
    /\ GoTo(frame, Cur.x[object.state + 1])
    /\ UNCHANGED << method, machine, object, phase, task, log >>

Restore ==
    /\ Fetch("RESTORE")
    /\ Go([frame EXCEPT !.env = object.fields @@ @])
    /\ UNCHANGED << method, machine, object, phase, task, log >>

Save ==
    /\ Fetch("SAVE")
    /\ object' = [object EXCEPT !.fields = [x \in machine.lifted |-> Get(frame.env, x)]]
    /\ Go(frame)
    /\ UNCHANGED << method, machine, phase, task, log >>

SiteOf(i)  == machine.sites[i]
AwaitOf(i) == StatementAt(machine.body, SiteOf(i).path).es[1]

\* _state, and the exception being handled, before the frame returns.
SuspendedAt(i) ==
    [object EXCEPT !.state = i, !.exc = IF SiteOf(i).catch = NoPath THEN @ ELSE frame.exc]

\* The awaited expression: its awaiter may be completed, or is given the
\* state machine as its continuation.
AwaitCompleted ==
    /\ Fetch("AWAIT")
    /\ \E r \in Evals(AwaitOf(Cur.x).of[1], Now, FALSE) : Finish(r, Stepped(r))
    /\ UNCHANGED << method, machine, object, task >>

AwaitSuspends ==
    /\ Fetch("AWAIT")
    /\ \E r \in Evals(AwaitOf(Cur.x).of[1], Now, FALSE) :
          /\ r.end = "ok"
          /\ log' = r.log
    /\ object' = SuspendedAt(Cur.x)
    /\ phase' = "suspended"
    /\ frame' = NewFrame
    /\ UNCHANGED << method, machine, task >>

\* The continuation of the awaiter calls MoveNext; Tasks models the loop that
\* gets there.
Resume ==
    /\ phase = "suspended"
    /\ phase' = "running"
    /\ UNCHANGED << method, machine, object, frame, task, log >>

\* GetResult of the awaiter, and what the statement does with it.
Consume ==
    /\ Fetch("CONSUME")
    /\ \E r \in Event(Now, AwaitOf(Cur.x).id, << >>, AwaitOf(Cur.x).outs) :
          LET s == StatementAt(machine.body, SiteOf(Cur.x).path)
              f == [frame EXCEPT !.ip = @ + 1, !.env = IF s.k = "var" THEN Put(@, s.name, r.v) ELSE @]
          IN  IF s.k = "return" /\ r.end = "ok"
              THEN /\ task' = Append(task, << "result", r.v >>)
                   /\ Finish([r EXCEPT !.end = "return"], f)
              ELSE Finish(r, f) /\ UNCHANGED task
    /\ UNCHANGED << method, machine, object >>

RestoreException ==
    /\ Fetch("RESTORE_EXCEPTION")
    /\ Go([frame EXCEPT !.exc = object.exc,
                        !.env = IF Cur.x.var = "" THEN @ ELSE Put(@, Cur.x.var, object.exc)])
    /\ UNCHANGED << method, machine, object, phase, task, log >>

Complete ==
    /\ Fetch("COMPLETE")
    /\ task' = Append(task, << "result", IF Cur.x = "value" THEN Last(frame.stack) ELSE "F" >>)
    /\ Go(IF Cur.x = "value" THEN [frame EXCEPT !.stack = Front(@)] ELSE frame)
    /\ UNCHANGED << method, machine, object, phase, log >>

SetException ==
    /\ Fetch("SET_EXCEPTION")
    /\ frame.stack # << >>
    /\ task' = Append(task, << "exception", Last(frame.stack) >>)
    /\ Go([frame EXCEPT !.stack = Front(@)])
    /\ UNCHANGED << method, machine, object, phase, log >>

Return ==
    /\ Fetch("RETURN")
    /\ phase' = "done"
    /\ UNCHANGED << method, machine, object, frame, task, log >>

Next ==
    \/ EnterTry \/ LeaveTry \/ EndCatch \/ Jump \/ Branch \/ Execute \/ Eval
    \/ Enumerate \/ MoveNextOfEnumerator \/ PopFault \/ Throw \/ Catch
    \/ Defer \/ DeferDrain \/ DrainOne \/ HandleException \/ UnwindDefer \/ EnterHandler
    \/ Dispatch \/ Restore \/ Save \/ AwaitCompleted \/ AwaitSuspends \/ Resume \/ Consume
    \/ RestoreException \/ Complete \/ SetException \/ Return

Spec == Init /\ [][Next]_vars
=============================================================================
