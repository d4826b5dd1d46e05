-------------------------------- MODULE Tasks --------------------------------
(***************************************************************************)
(* The async runtime: async.Task and ValueTask objects, the event loop and *)
(* its roots, the scopes of native asynchronous operations (NativeAsync),  *)
(* their timers, worker threads and libuv handles, and the frames that own *)
(* pending tasks.                                                          *)
(*                                                                         *)
(* A scope task stands for a native operation: a timer (Task.Delay) or     *)
(* work on a thread.  A script task is created and settled by script code. *)
(* Task and ValueTask run the same code on fields of their own and are one *)
(* here; so are the ways to settle with a result and without.              *)
(***************************************************************************)
EXTENDS Integers, FiniteSets, Sequences

CONSTANTS
    TimerTasks,     \* tasks of Task.Delay
    ThreadTasks,    \* tasks of RunOnThreadPool
    ScriptTasks,    \* tasks created by script code
    ScriptSettled,  \* tasks that script code settles, by Complete or SetException
    Continuations,  \* state machines that can await a task
    MaxFrames,      \* frames pushed in a behaviour
    None            \* no continuation, no frame, no task

Tasks      == TimerTasks \cup ThreadTasks \cup ScriptTasks
ScopeTasks == TimerTasks \cup ThreadTasks

ASSUME TasksAssumption ==
    /\ MaxFrames \in Nat \ {0}
    /\ TimerTasks \cap ThreadTasks = {} /\ ScopeTasks \cap ScriptTasks = {}
    /\ ScriptSettled \subseteq Tasks
    /\ IsFiniteSet(Tasks) /\ IsFiniteSet(Continuations)
    /\ None \notin Tasks \cup Continuations \cup 0 .. MaxFrames

VARIABLES
    task,      \* the task objects with their scope and their entry of asyncTable
    worker,    \* the threads of RunOnThreadPool
    frame,     \* frames: PendingTaskCount and PreviousFrame
    stack,     \* CallStack
    vm,        \* what the script thread is doing
    waitingOn, \* the argument of the Task.Wait in progress
    awaiting,  \* the task each continuation was handed to
    hit        \* a worker has sent to a handle that was deleted

vars == << task, worker, frame, stack, vm, waitingOn, awaiting, hit >>

Frames == 1 .. MaxFrames

\* threw: ResumeContinuation left by an exception.  handle: the uv_handle_t.
Task == [ st     : {"none", "pending", "completed", "faulted"},
          cont   : Continuations \cup {None},
          done   : BOOLEAN,
          roots  : Nat,
          forget : BOOLEAN,
          owner  : Frames \cup {None},
          handle : {"none", "open", "closing", "deleted"},
          threw  : BOOLEAN ]

NoTask == [ st |-> "none", cont |-> None, done |-> FALSE, roots |-> 0, forget |-> FALSE,
            owner |-> None, handle |-> "none", threw |-> FALSE ]

\* A frame is on CallStack, kept by the tasks it owns, or gone.
FrameRec == [ pushed : BOOLEAN, pending : Nat, prev : Frames \cup {None} ]

Init ==
    /\ task = [t \in Tasks |-> NoTask]
    /\ worker = [t \in ThreadTasks |-> "none"]
    /\ frame = [f \in Frames |-> [pushed |-> f = 1, pending |-> 0, prev |-> None]]
    /\ stack = << 1 >>
    /\ vm = "script"
    /\ waitingOn = None
    /\ awaiting = [k \in Continuations |-> None]
    /\ hit = FALSE

-----------------------------------------------------------------------------
(* A world is the part of the state that the calls below change.           *)

World == [task |-> task, frame |-> frame, awaiting |-> awaiting]

\* Mutant: the owner is forgotten and the frame keeps its count.
ReleaseOwnerOnly(w, t) == [w EXCEPT !.task[t].owner = None]

ReleaseFrameOwner(w, t) ==
    LET f == w.task[t].owner
    IN  IF f = None THEN w
        ELSE [w EXCEPT !.frame[f].pending = IF @ > 0 THEN @ - 1 ELSE 0, !.task[t].owner = None]

\* BindTaskToFrame and BindToFrame, when an external method returns a task.
BindTaskToFrame(w, t, f) ==
    IF w.task[t].owner = f THEN w
    ELSE LET r == ReleaseFrameOwner(w, t)
         IN  IF r.task[t].st # "pending" THEN r
             ELSE [r EXCEPT !.task[t].owner = f, !.frame[f].pending = @ + 1]

\* The first entry of m_rootedTasks that is the task.
UnrootTask(w, t) == [w EXCEPT !.task[t].roots = IF @ > 0 THEN @ - 1 ELSE 0]

\* The number of arguments of IAsyncState.MoveNext, an instance method, and
\* the number that ResumeContinuation passes to InvokeMethod.
MoveNextArguments == 1
ResumeArguments   == 0

\* ResumeContinuation.  InvokeMethod throws when the counts differ; the field
\* has been cleared by then.
ResumeContinuation(w, t) ==
    LET k == w.task[t].cont
        cleared == [w EXCEPT !.task[t].cont = None]
    IN  IF k = None THEN w
        ELSE IF ResumeArguments # MoveNextArguments THEN [cleared EXCEPT !.task[t].threw = TRUE]
        ELSE [cleared EXCEPT !.awaiting[k] = None]

Threw(w, t) == w.task[t].threw /\ ~task[t].threw

\* Mutant: a task that is settled keeps its root.
SettleKeepsRoot(w, t, s) == ResumeContinuation(ReleaseFrameOwner([w EXCEPT !.task[t].st = s], t), t)

\* The common part of CompleteTask, FailTask, SetValueTaskResult and
\* FailValueTask, and of Complete, SetResult and SetException in AsyncTypes:
\* an exception of ResumeContinuation leaves the task rooted.
Settle(w, t, s) ==
    LET settled == ReleaseFrameOwner([w EXCEPT !.task[t].st = s], t)
        resumed == ResumeContinuation(settled, t)
    IN  IF Threw(resumed, t) THEN resumed ELSE UnrootTask(resumed, t)

\* Mutant: the flag is set and the task left as it is.
SettleFlagOnly(w, t, s) == [w EXCEPT !.task[t].done = TRUE]

\* AsyncScope::Complete and Fail.
SettleScope(w, t, s) ==
    IF w.task[t].done THEN w ELSE Settle([w EXCEPT !.task[t].done = TRUE], t, s)

\* Mutant: the handle is closed and the task stays pending.
HaltHandleOnly(w, t) ==
    IF w.task[t].done THEN w
    ELSE [w EXCEPT !.task[t].done = TRUE, !.task[t].handle = IF @ = "open" THEN "closing" ELSE @]

\* Mutant: the handle is deleted at once instead of closed.
HaltDeletes(w, t) ==
    IF w.task[t].done THEN w
    ELSE [w EXCEPT !.task[t].done = TRUE, !.task[t].st = "faulted", !.task[t].roots = 0,
                   !.task[t].handle = IF @ = "open" THEN "deleted" ELSE @]

\* AsyncScopeState::Halt: nobody is resumed.
Halt(w, t) ==
    IF w.task[t].done THEN w
    ELSE UnrootTask(ReleaseFrameOwner(
            [w EXCEPT !.task[t].done = TRUE, !.task[t].st = "faulted",
                      !.task[t].handle = IF @ = "open" THEN "closing" ELSE @], t), t)

\* HaltTaskObject and UnrootTask, for a task without a native state.
HaltTaskObject(w, t) ==
    UnrootTask(ReleaseFrameOwner([w EXCEPT !.task[t].st = "faulted"], t), t)

-----------------------------------------------------------------------------
(* The script thread                                                       *)

Top == stack[Len(stack)]

Script == vm = "script"

Becomes(w) == task' = w.task /\ frame' = w.frame /\ awaiting' = w.awaiting

\* DoAsync: CreateAsyncScopeState.
Created(t) == [World EXCEPT !.task[t] = [NoTask EXCEPT !.st = "pending", !.roots = 1]]

\* Task.Delay.  Without a delay onComplete runs at once.
Delay(t, now) ==
    /\ Script /\ task[t].st = "none"
    /\ LET started == IF now THEN SettleScope(Created(t), t, "completed")
                      ELSE [Created(t) EXCEPT !.task[t].handle = "open"]
       IN  Becomes(BindTaskToFrame(started, t, Top))
    /\ UNCHANGED << worker, stack, vm, waitingOn, hit >>

\* A native operation that uses RunOnThreadPool.
RunOnThreadPool(t) ==
    /\ Script /\ task[t].st = "none"
    /\ Becomes(BindTaskToFrame([Created(t) EXCEPT !.task[t].handle = "open"], t, Top))
    /\ worker' = [worker EXCEPT ![t] = "working"]
    /\ UNCHANGED << stack, vm, waitingOn, hit >>

\* An async method starts: its task is allocated and InternalRoot called.  The
\* state field is null, which GetTaskState reads as PENDING.
InternalRoot(t) ==
    /\ Script /\ task[t].st = "none"
    /\ Becomes(Created(t))
    /\ UNCHANGED << worker, stack, vm, waitingOn, hit >>

\* Complete, SetResult and SetException are noexcept: an exception of the
\* continuation ends the process.
SetResult(t, s) ==
    /\ Script /\ task[t].st # "none"
    /\ LET w == Settle(World, t, s)
       IN  Becomes(w) /\ vm' = IF Threw(w, t) THEN "terminated" ELSE "script"
    /\ UNCHANGED << worker, stack, waitingOn, hit >>

\* OnCompleted replaces the continuation, and resumes it when the task is
\* settled; it is noexcept too.
OnCompleted(t, k) ==
    /\ Script /\ task[t].st # "none" /\ awaiting[k] = None
    /\ LET stored == [World EXCEPT !.task[t].cont = k, !.awaiting[k] = t]
           w == IF task[t].st = "pending" THEN stored ELSE ResumeContinuation(stored, t)
       IN  Becomes(w) /\ vm' = IF Threw(w, t) THEN "terminated" ELSE "script"
    /\ UNCHANGED << worker, stack, waitingOn, hit >>

\* GetAwaiter returns the task itself, to the frame that called.
GetAwaiter(t) ==
    /\ Script /\ task[t].st # "none"
    /\ Becomes(BindTaskToFrame(World, t, Top))
    /\ UNCHANGED << worker, stack, vm, waitingOn, hit >>

Shoot(t) ==
    /\ Script /\ task[t].st # "none"
    /\ Becomes(ReleaseFrameOwner([World EXCEPT !.task[t].forget = TRUE], t))
    /\ UNCHANGED << worker, stack, vm, waitingOn, hit >>

\* PushFrame and PopFrame of a script method.
PushFrame ==
    /\ Script
    /\ \E f \in Frames :
        /\ ~frame[f].pushed
        /\ \A g \in Frames : ~frame[g].pushed => f <= g
        /\ frame' = [frame EXCEPT ![f] = [pushed |-> TRUE, pending |-> 0, prev |-> Top]]
        /\ stack' = Append(stack, f)
    /\ UNCHANGED << task, worker, vm, waitingOn, awaiting, hit >>

PopFrame ==
    /\ Script /\ Len(stack) > 1
    /\ stack' = SubSeq(stack, 1, Len(stack) - 1)
    /\ frame' = [frame EXCEPT ![Top].prev = IF frame[Top].pending > 0 THEN None ELSE @]
    /\ UNCHANGED << task, worker, vm, waitingOn, awaiting, hit >>

\* Task.Wait: RunOnce until the task is settled.
Wait(t) ==
    /\ Script /\ task[t].st # "none"
    /\ vm' = "waiting" /\ waitingOn' = t
    /\ UNCHANGED << task, worker, frame, stack, awaiting, hit >>

\* Mutant: Wait runs the loop once and returns.
WaitReturnsEarly ==
    /\ vm = "waiting"
    /\ vm' = "script" /\ waitingOn' = None
    /\ UNCHANGED << task, worker, frame, stack, awaiting, hit >>

\* A faulted task raises its exception in the caller.
WaitReturns ==
    /\ vm = "waiting" /\ task[waitingOn].st # "pending"
    /\ vm' = "script" /\ waitingOn' = None
    /\ UNCHANGED << task, worker, frame, stack, awaiting, hit >>

\* Run after the entry point: HaltFireAndForgetTasks.  Every root is visited.
HaltFireAndForgetTasks(w) ==
    LET halted == {t \in Tasks : w.task[t].forget /\ w.task[t].roots > 0}
        After(t) == IF t \in ScopeTasks THEN Halt(w, t) ELSE HaltTaskObject(w, t)
        Released(f) == Cardinality({t \in halted : w.task[t].owner = f
                                                   /\ After(t).task[t].owner = None})
    IN  [ task  |-> [t \in Tasks |-> IF t \in halted THEN After(t).task[t] ELSE w.task[t]],
          frame |-> [f \in Frames |-> [w.frame[f] EXCEPT !.pending = @ - Released(f)]],
          awaiting |-> w.awaiting ]

EndRun ==
    /\ Script /\ Len(stack) = 1
    /\ LET w == HaltFireAndForgetTasks(World)
       IN  /\ task' = w.task
           /\ frame' = [w.frame EXCEPT ![1].prev = None]
    /\ stack' = << >>
    /\ vm' = "ended"
    /\ UNCHANGED << worker, waitingOn, awaiting, hit >>

-----------------------------------------------------------------------------
(* The event loop, inside RunOnce, and the threads                         *)

\* The handle is closed after the callback returned.
Fired(w, t) == IF Threw(w, t) THEN w ELSE [w EXCEPT !.task[t].handle = "closing"]

\* The exception of a continuation leaves uv_run and Task.Wait; the handle is
\* not closed.
Callback(w, t) ==
    /\ Becomes(Fired(w, t))
    /\ IF Threw(w, t) THEN vm' = "script" /\ waitingOn' = None ELSE UNCHANGED << vm, waitingOn >>
    /\ UNCHANGED << stack, hit >>

\* The callback of uv_timer_start when the delay has elapsed.
TimerFires(t) ==
    /\ vm = "waiting" /\ task[t].handle = "open" /\ ~task[t].done
    /\ Callback(SettleScope(World, t, "completed"), t)
    /\ UNCHANGED worker

\* The callback of uv_async_init: onComplete completes or fails the scope.
AsyncFires(t, s) ==
    /\ vm = "waiting" /\ task[t].handle = "open" /\ worker[t] = "sent"
    /\ worker' = [worker EXCEPT ![t] = "none"]
    /\ Callback(SettleScope(World, t, s), t)

CloseCallback(t) ==
    /\ vm = "waiting" /\ task[t].handle = "closing"
    /\ task' = [task EXCEPT ![t].handle = "deleted"]
    /\ UNCHANGED << worker, frame, stack, vm, waitingOn, awaiting, hit >>

\* The end of work() and uv_async_send.  The process is there until all is
\* torn down.
WorkerSends(t) ==
    /\ worker[t] = "working" /\ vm # "terminated"
    /\ worker' = [worker EXCEPT ![t] = "sent"]
    /\ hit' = (hit \/ task[t].handle = "deleted")
    /\ UNCHANGED << task, frame, stack, vm, waitingOn, awaiting >>

Next ==
    \/ \E t \in TimerTasks, now \in BOOLEAN : Delay(t, now)
    \/ \E t \in ThreadTasks : RunOnThreadPool(t)
    \/ \E t \in ScriptTasks : InternalRoot(t)
    \/ \E t \in ScriptSettled, s \in {"completed", "faulted"} : SetResult(t, s)
    \/ \E t \in Tasks, k \in Continuations : OnCompleted(t, k)
    \/ \E t \in Tasks : GetAwaiter(t)
    \/ \E t \in Tasks : Shoot(t)
    \/ \E t \in Tasks : Wait(t)
    \/ WaitReturns
    \/ PushFrame
    \/ PopFrame
    \/ EndRun
    \/ \E t \in TimerTasks : TimerFires(t)
    \/ \E t \in ThreadTasks, s \in {"completed", "faulted"} : AsyncFires(t, s)
    \/ \E t \in ScopeTasks : CloseCallback(t)
    \/ \E t \in ThreadTasks : WorkerSends(t)

\* Task.Wait goes on running the loop, which runs the callbacks that are due;
\* threads get to run.
Fairness ==
    /\ WF_vars(WaitReturns)
    /\ \A t \in TimerTasks : WF_vars(TimerFires(t))
    /\ \A t \in ThreadTasks : WF_vars(\E s \in {"completed", "faulted"} : AsyncFires(t, s))
    /\ \A t \in ThreadTasks : WF_vars(WorkerSends(t))

Spec == Init /\ [][Next]_vars /\ Fairness

-----------------------------------------------------------------------------
(* Properties                                                              *)

TypeOK ==
    /\ task \in [Tasks -> Task]
    /\ worker \in [ThreadTasks -> {"none", "working", "sent"}]
    /\ frame \in [Frames -> FrameRec]
    /\ stack \in Seq(Frames)
    /\ vm \in {"script", "waiting", "ended", "terminated"}
    /\ waitingOn \in Tasks \cup {None}
    /\ awaiting \in [Continuations -> Tasks \cup {None}]
    /\ hit \in BOOLEAN

\* m_rootedTasks keeps a task exactly as long as it is pending (CreateAsync-
\* ScopeState, InternalRoot; CompleteTask to Halt, SetResult, SetException): it
\* is not collected before and not kept after, unless its continuation threw.
RootedWhilePending ==
    \A t \in Tasks : ~task[t].threw => task[t].roots = IF task[t].st = "pending" THEN 1 ELSE 0

\* PendingTaskCount of a frame is the number of tasks it owns, all pending
\* (BindToFrame, ReleaseFrameOwner), so that PopFrame detaches a frame from its
\* caller exactly when some task will keep it.
FrameOwnersExact ==
    /\ \A f \in Frames : frame[f].pending = Cardinality({t \in Tasks : task[t].owner = f})
    /\ \A t \in Tasks : task[t].owner # None =>
        /\ task[t].st = "pending"
        /\ frame[task[t].owner].prev # None =>
            \E i \in 1 .. Len(stack) : stack[i] = task[t].owner

\* A native operation that is pending has what will settle it: a timer that is
\* running, or an open handle and a thread that has sent or will.
PendingHasSource ==
    \A t \in ScopeTasks : task[t].st = "pending" =>
        /\ task[t].handle = "open" /\ ~task[t].done
        /\ t \in ThreadTasks => worker[t] # "none"

\* While a script runs, no thread sends to a handle that was deleted: Halt
\* closes one whose thread still works, and the loop that would delete it does
\* not run after that (RunOnThreadPool, AsyncScopeState::Halt).
SendsHitLiveHandle == ~hit

\* Task.Wait on a native operation ends.
WaitEnds == \A t \in ScopeTasks : (vm = "waiting" /\ waitingOn = t) ~> (vm # "waiting")

\* The native operations that only the runtime settles.
Operations == ScopeTasks \ ScriptSettled

Abstract == INSTANCE Promise
                WITH Promises <- Operations, NoPromise <- None,
                     state <- [t \in Operations |-> task[t].st],
                     waitingOn <- IF waitingOn \in Operations THEN waitingOn ELSE None

\* The native operations are promises (Promise): they settle once, and Task.Wait
\* returns when they have.
ScopesArePromises == Abstract!Spec

\* "Mark the underlying Task as completed and resume awaiters"
\* (NativeAsync.hpp:71): until the program ends, no continuation is left with
\* a settled task.
AwaitersResumed ==
    vm # "ended" => \A k \in Continuations : awaiting[k] # None => task[awaiting[k]].st = "pending"
=============================================================================
