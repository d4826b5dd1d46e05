# ShardScript: a TLA+ model of the compiler, the virtual machine and their hosts

ShardScript is a statically typed scripting language in C++20: lexer and parser,
semantic analysis, emission of bytecode, a stack machine with reference counting,
a libuv event loop for asynchronous methods, a console and a language server. This
directory holds TLA+ modules that model it, TLC runs that check them on small
instances, and TLAPS proofs for every value of the constants. Paths below are relative
to `src/ShardScript/src/` unless they start with `src/`; line numbers are those of
`PROJECT.json`, which maps every definition to the code it models.

## The system

| Part | State | Operations | Talks to |
|---|---|---|---|
| Lexer, parser (`lexical`, `parsing`) | a lookahead, the token at hand, the syntax tree | read, peek, parse a declaration / statement / expression, recover | diagnostics |
| Semantic analysis (`semantic`) | symbol table, scopes, types, flow state of a method | collect declarations, bind types and expressions, analyse flow, validate | syntax tree, diagnostics |
| Emission (`compilation/AbstractEmiter.cpp`, `ByteCodeEncoder.cpp`) | the bytecode so far, `DeferScopes`, `Loops`, `EvalTracker` | one visitor per statement and expression, backpatching of jumps | decoder and disassembler, through the bytes |
| Async lowering (`compilation/Async*Pass.cpp`) | suspension points, hoisted locals, a state field | rewrite an async method to `MoveNext` | event loop, tasks |
| Interpreter of a frame (`runtime/VirtualMachine.cpp`) | cursor, eval stack, `ExceptionHandlers`, `DeferStack`, `DeferDrainDepth`, `InterruptionReason`, `CurrentException` | one case of `ProcessCode` per opcode, `HandleExceptionInFrame`, `DrainDefersTo`, `ExecuteDeferExpression` | itself, re-entrantly; callees |
| Call stack (`VirtualMachine.cpp`, `MethodCallState.cpp`) | `CallStack`, `AbortFlag`, `UnhandledException` | `PushFrame`, `PopFrame`, `InvokeMethod`, `TryInvokeMethod`, `Run`, `Abort` | native functions, which call back |
| Heap (`GarbageCollector.cpp`, `ObjectInstance.cpp`, `CallStackFrame.cpp`) | reference counts, static fields, interned strings | allocate, copy, increment, destroy, collect, terminate | locals, fields, elements, eval entries |
| Async runtime (`EventLoop.cpp`, `NativeAsync.cpp`, `AsyncTypes.cpp`) | task states, continuations, roots, libuv handles, frame owners | complete, fail, resume, wait, delay, run on a thread, halt | interpreter, worker threads |
| Type shapes and layout (`TypeShapeCache.cpp`, `LayoutGenerator.cpp`, `TypeLayout.cpp`) | a cache of shapes | offsets, sizes, generic instances | heap, frames |
| Pipeline (`CompilationContext.cpp`, `SemanticAnalyzer.cpp`) | trees, symbols, diagnostics, libraries, the program image | load libraries, analyse, emit | all of the above |
| Hosts (`src/ShardScript.Interpreter`, `src/ShardScript.LspServer`) | a session and its cursor; documents, connections, pools | run, evaluate a submission; open, change, hover | pipeline, virtual machine |
| Framework, vendored libraries | operating system objects | bindings | - |

What is hard in this code:

1. **Re-entrance inside one frame.** `DEFER_DRAIN` and the dispatch of an exception run
   deferred code by calling `ProcessCode` from `ProcessCode`, over the same cursor,
   eval stack and handlers.
2. **Agreement of passes that never meet.** How many defers to run, which handlers are in
   place, where a jump lands, where a field or a variable lies and how deep the stack gets is
   decided when a program is compiled, and relied on when it runs.
3. **Two kinds of exceptions over two stacks.** A script exception is a field of a
   frame; a C++ exception unwinds the C++ stack and skips `PopFrame`. Native functions
   translate one to the other, and `Abort` arrives from another thread.
4. **Reference counts by hand**: what owns a count differs between locals, fields,
   statics, elements, eval entries and the table of interned strings.
5. **Completion of tasks**: by script, by a timer, by a worker thread, by `Halt`, at
   most once, with a continuation that must be resumed, into the middle of a method that was
   rewritten so that it can be.
6. **Shared state of the language server** over one thread per connection and a pool
   for each of them.
7. **What an error leaves behind**: in the parser's recovery, in a console session, in a
   list of libraries that is loaded halfway.

The hazards, line by line, are under `hazards` in `PROJECT.json`, with the properties
that cover them.

## Modules

State machines:

| Module | Models | Checked by | Proofs |
|---|---|---|---|
| `FrameMachine` | one frame executing bytecode: the loop, the control opcodes, exception dispatch, defers | `MCFrame` | `FrameMachine_proofs` |
| `CallStack` | frames, activations, script and C++ exceptions, native callbacks, abort | itself, `MCCallStack.cfg` | `CallStack_proofs` |
| `Heap` | reference counts of objects through the data instructions, calls, constructors, exceptions | itself, `MCHeap.cfg` | `Heap_proofs` |
| `Tasks` | tasks, roots, timers, threads, handles, continuations, frames that own tasks | itself, `MCTasks.cfg` | `Tasks_proofs` |
| `Promise` | what a native operation promises: the abstract specification `Tasks` implements | through `Tasks` | `Tasks_proofs` |
| `Parser` | recursive descent as a machine with an explicit stack | `MCParser` | - |
| `AsyncMachine` | frames of `MoveNext` on one state machine object | `MCAsync` | - |
| `LanguageServer` | readers, documents, compiler mutex, pools, clients | `MCLanguageServer` | `LanguageServer_proofs` |

Passes and pure parts, as operators:

| Module | Models | Checked by |
|---|---|---|
| `StatementEmitter` | the statement visitors of `AbstractEmiter` | `MCFrame`, with `StructuredSemantics` as the reference |
| `AsyncLowering` | the three lowering passes | `MCAsync`, with the semantics at the end of `AsyncMachine` as the reference |
| `Lexer` | `LexicalAnalyzer`, `LexicalBuffer` | `MCLexer` |
| `FlowAnalyzer` | `FlowAnalyzer` | `MCFlow`, with `StructuredSemantics` |
| `Types`, `MethodResolution` | type symbols, assignability, substitution; choice and inference of methods | `MCDeclarations` |
| `PrimitiveOperators` (with the values of primitive types), `ExpressionBinder`, `ExpressionEmitter`, `ExpressionMachine` | types and members of expressions and bodies; their code and its stack depth; its execution on runtime types | `MCExpressions` |
| `Implementations`, `Declarations` | interface implementations; slots, names and closures of a method | `MCDeclarations` |
| `Members`, `Names` | symbols and rules of members; what type names stand for | `MCNames` |
| `ByteCode`, `Layouts` | instructions as bytes and their readers; the two layouts of types | `MCCode` |
| `Hosts` | versions, libraries, the pipeline, `main`, console sessions | `MCHosts`; proofs in `Hosts_proofs` |

`SequenceFacts` has what several proofs use: `Front`, `Last` and `Tail` of a sequence, induction
over a set of numbers, and functions on numbers that are defined by recursion.

**Jobs.** A pure part has no steps of its own. `Jobs` has one variable, the input that is
asked about; every action of an MC module of the second table picks an input of its part, and
the invariant compares what the modelled code computes with a reference. `MCFrontEnd`
is the union of these parts. What the code computes is passed through an operator
constant (`LaidFor <- LaidOf` in `MCFrontEnd.cfg`): the value is the project's own
definition and nothing is replaced; without the indirection TLC's coverage statistics
unfold every pass at every use.

### FrameMachine, StatementEmitter, StructuredSemantics

Variables are the fields of `CallStackFrame` and of `ByteCodeDecoder`, under short
names (`handlers` is `ExceptionHandlers`, `defers` is `DeferStack`, `depth` is
`DeferDrainDepth`, `reason` is `InterruptionReason`, `exc` is `CurrentException`). The
C++ stack of nested loops is explicit: `drains` has one entry per `DEFER_DRAIN` in
progress, with what its locals hold, and `unwind` is the `HandleExceptionInFrame` at the
bottom of them, if there is one. There is never more than one: only the main loop
dispatches. One action is one instruction or one round of a C++ loop. `Interrupt` is what
happens to the nested loops when an instruction leaves the frame interrupted: all of them
return, `DrainDefersTo` gives its level of `DeferDrainDepth` back and `DEFER_DRAIN` does
not. `Fault` is a C++ exception going through them: all levels are given back.

Conditions are not computed, a branch is taken or not, and `MaxEntered` bounds how many
conditional blocks an execution enters. A call returns, raises an exception of its set, or
throws a C++ exception. `DUP, ISINSTANCE, JUMP_FALSE` at the head of a catch clause is one
instruction. An instruction that pops an empty eval stack is not enabled; `Terminates`
would show a machine stuck on one.

`StatementEmitter` follows the visitors: blocks push and pop `DeferScopes`, loops push
and pop `Loops`, jumps are emitted with operand 0 and pasted later. It keeps that
`EmitAllDefers` and `EmitDefersUntilLoop` clear the counts of scopes that go on, that
`continue` drains nothing and jumps behind the after statement of a `for`, that for-in
bodies and switch clauses are no loop scopes, and that the `continue` jumps of a switch
scope are never pasted. `StructuredSemantics` is independent of both: a block runs its
defers, last first, in whatever way it is left. One choice follows the machine:
`HandleExceptionInFrame` pops a handler before it runs the defers below it, so an
exception raised by one of these passes that handler by.

### CallStack

`frames` is every frame created, `stack` the frames `CallStack` owns, `active` the C++
activations of `InvokeMethodInternal` with the function each returns to. `InvokeMethod`
pops when it returns and not when a C++ exception passes; `TryInvokeMethodImpl` pops in
both cases, and always the top of the stack. The catch around an external method
(`VirtualMachine.cpp:1352`) first builds a script exception, and that invokes the constructor
of its class: `ExternalCatch` pushes a frame and an activation for it, and `catching` holds the
frame of the external method until the constructor has returned (`ExternalCaught`: the exception
goes into the calling frame). While `AbortFlag` is set `InvokeMethodInternal` refuses the
constructor (`ExternalCatchAborted`): its frame stays on the stack and the C++ exception
leaves the external method too (`Unwind`), as it does when the constructor is aborted midway or
cannot be found (`ExternalCatchFails`). If that external method was called by
`TryInvokeMethodImpl`, the frame popped is the constructor's, not its own.
`lost` counts the frames left behind and `escaped` remembers what left the entry
point; neither influences a step. `ResumeContinuation` is not an action of its own: as
`awaiters_resumed` shows its call is refused before it pushes a frame, and it pops its
synthetic root again, which for the stack is a native function that throws (where that is
`noexcept`, the process ends).

### Heap

A *place* owns a count of what it refers to: a local, the reference field or element of
an object, a static field, `CurrentException`. Eval entries and the table of interned
strings borrow. The account `spare` says by how much the counter of an object and its owners
may differ: counts nobody owns (`PlaceReturned` gives one too many; an overwritten field,
`THROW` and `END_CATCH` leave some), or, negative, owners without a count. With it the
model says exactly where the code leaks and where it may free too early:
`CopyArgumentPayloads` moves arguments of a constructor without counting them, and
`DrainEvalReferences` takes a count from entries that had none; `OwnedAlive` names these
two (`short`). Where the code touches a freed object (a variable assigned to itself,
a literal popped and loaded again) the model stops with a fault.

### Tasks and Promise

`task` holds the object, its scope, its libuv handle and its entry of the task table;
`worker` the threads; `frame`/`stack` the frames with `PendingTaskCount`; `vm` whether the
script runs, waits in `Task.Wait` (only then does the loop run callbacks), has ended or is torn
down. The resumption of a continuation is as written: `InvokeMethod` without arguments
refuses `MoveNext`, so an awaiter is never resumed (`awaiters_resumed`), a timer whose callback
threw is never closed, and `threw` marks the task. `Promise` says that an operation settles
once and that a wait ends after that; `ScopesArePromises` is the refinement, for the
operations that no script settles itself: `SetResult` has no test for a settled task.

### Parser

Every `Read` function is an operator whose value is the sequence of instructions of its
body (expect, consume, report, test, call); a call puts the callee's instructions on
`todo`. Well-formed programs come from a reference grammar in `MCParser` that gives the
tokens and the nodes; fragments are all short token sequences in four contexts. Losses
without a diagnostic that exist (`TryMatchIdentifier`, `ReadLinkedExpressionNode`) are
named in `SkipsReported`. Seen while modelling: an indexer argument list like `[x 5]`
dereferences a null node (`SourceParser.cpp:2893`), a ternary expression is always
rejected, `a = b = c` groups to the left.

### Async lowering

`AsyncLowering` rewrites a body until each await is a statement, finds the suspension
points and emits `MoveNext` with the continuation of a statement copied for every place it
may end at, `AsyncMachine` runs the code over several frames and says, independently of
that, what the source means. Bodies are all blocks of up to `BlockLength` statements
(awaits that may fault, defers, variables) in eight surroundings, and larger combinations.
On the bodies of `Deviating` the lowering does not keep the source, and each is named
there: defers of a block that ends with an await, `return await` with defers, loops after an
await, an await at the end of a try block, code behind the outer of two nested clauses, `throw;`, a
return in a loop without awaits, variables assigned by the awaited expression, a break
out of a try, the order of operands and conditions, a condition with an await before a
defer, two try statements in a row, the exception of a clause behind a nested try, a for initializer
that awaits. They are executed too and must settle their task at most once.

### The front end

- `Lexer`: letters are abstracted, one letter may stand for a keyword. Unsupported
  escapes are left out; an unclosed literal ends the text.
- `FlowAnalyzer`: an exception type is the set of exceptions that are instances of
  it. Definite assignment is left out: the scope it looks into holds no locals.
- `Types`, `MethodResolution`: assignability is only required to be sound, it is not
  transitive through constructed interfaces; the predicate of the member lookup keeps the receiver
  of its first use, and generic instance methods never infer.
- Expressions: bound, emitted and executed with every runtime type their operands may
  have. Exceptions that `MCExpressions` names are mostly about wide values in slots of type
  `any` or an interface (`CallStackFrame.cpp:360`), switch expressions typed by their first
  arm, compound assignments that emit only the right side, and assignments to static fields that never emit it.
- Values: `PrimitiveOperators` computes with integers of four bits, characters of three,
  bytes of two, and doubles as rationals; a string is a sequence of pieces of text. `ValuesExact`
  compares every operator, cast and literal with its meaning, at the ends of the ranges too. It
  names what the code does otherwise: the test of a divisor (`VirtualMachine.cpp:197`) refuses every
  char, byte and nint; the registered orderings give a number and the registered equality of strings
  compares pointers (`PrimitiveMathModule` is asked first and hides both); a literal is cut off to
  a byte; a byte or nint becomes the character NUL. `swprintf` without a buffer gives no
  length with glibc, so text joined with a number is cut there; `On("linux")` is that build.
- Bodies: the type of every `let`, `return`, `foreach`, `using`, `throw` and accessor. Left
  out because the binder does not test it: a returned `any` before another type, a call
  without a value where a type is inferred, results that are type parameters.
- `Declarations`: lambdas inside lambdas and async lambdas read a wrong frame, and a variable in
  a lambda or accessor body throws; the property is about the rest. `Implementations`: a
  class that implements an interface for two types is always rejected.
- `Members`: every pass declares members again, so a struct's fields are listed three times, and
  laid out from that list. `Names`: lookups, usings, qualified and generic names in three
  units; constraints and exception types depend on the order of declarations. Members of a
  namespace come out of unordered sets of pointers (`HashOrder`), so which of two declarations of a name an import or a
  qualified name takes is open, and `NamesResolved` allows each. It also allows any of
  the symbols that several imported namespaces have for a name, or a report: `ImportNamespace` collects these names
  for an 'Ambiguous reference' (`TypeBinder.cpp:1091`), but the report asks for a name that
  `Lookup` does not find, and an ambiguous one is always found; the model never makes it.
- `Layouts`: both layouts agree except on structs that hold a constructed struct by
  value and on arrays of narrow elements. `ByteCode`: the disassembler lacks four opcodes
  and does not end on one trailing byte.
- `Hosts`: after the first analyzed submission of a session a new variable or method throws,
  and the submission stays in the tree, so every later one throws too; errors of a submission that was not
  analyzed reject the next one; a statement that faults is executed again. These are part
  of what `HostsSound` states exactly. Libraries: unreadable ones are skipped silently,
  prereleases are not compared, a library without entry point stops the loading midway.

### LanguageServer

A message is taken from its client when the reader reads it. Edits are applied by
position (`ApplyContentChange`), diagnostics are computed and written under the mutex, hovers are queued to the connection's pool, whose threads are started on
demand. A client may go away or send something unreadable at any time. Diagnostics go only to
the connection that triggered the analysis, so `DiagnosticsCurrent` is about documents
only one connection has edited.

## Runs

| Run | Result | What it shows |
|---|---|---|
| `frame` | pass | 227 plain methods, compiled and executed with every call raising or not, make the calls of a structured execution and have the right handlers in place (`Conforms`); with 18 that jump, return, throw and catch inside and across deferred code the machine keeps its invariants and ends |
| `call_stack` | pass | frames stay alive while an activation uses them, `PopFrame` never releases one too many, an abort ends the run, also when it meets a catch that is constructing its exception |
| `heap_counts` | pass | counters are exactly what owners and the account add up to; what is owned is alive, but for the two operations named |
| `tasks` | pass | roots, frame owners, handles and threads are consistent; waits for native operations end; native operations implement `Promise` |
| `parser` | pass | well-formed programs get the tree of the grammar, skipped tokens are reported, recovery ends |
| `async` | pass | a lowered method does what its source says; its task is settled once |
| `language_server` | pass | requests are answered once, diagnostics belong to the text shown, connections end |
| `front_end` | pass | thirteen properties of the pure parts, see above and the comments in the MC modules |
| `returned_drained` | violation | `{ defer d1(); if (..) return; b(); }` on the other branch returns without running `d1` |
| `break_in_try` | violation | a `break` out of a try block leaves the handler registered behind the loop |
| `escaped_reported` | violation | an exception that leaves the entry point is not reported by `Run` |
| `awaiters_resumed` | violation | a completed operation does not resume its awaiter |

The four violations are findings: each states what a comment, the readme or a test says,
and TLC shows an execution of the code that does not do it. Deviations no line of the
repository speaks about are kept in the models and named in the property that would
otherwise be false, or in the set of inputs it is about.

**Bounds.** `frame`: `MaxEntered = MaxRounds = 3` conditional blocks per execution, two
rounds of a loop and a branch in them, enough for a handler or a defer of one round to be seen
by the next; programs are every combination of a prefix, a try body, clauses and a suffix,
and a list for the other statements. `call_stack`: `MaxFrames = 5`, an entry point, a
native function, a callback that calls another native function and its callback, or
three runs in a row with a frame left behind each; the constructors of caught exceptions come on top of it, unless they are native. `heap_counts`: two objects, two locals, one static,
one literal, two frames, nine instructions: a cycle, an object shared by caller and
callee, and a second use of what was freed all fit. `tasks`: one timer, one thread, one
script task, one continuation, two frames: every pair of completions can race. `parser`: fragments of three tokens, depth 3 to 5:
recovery loops decide on one token and its neighbours. `async`: blocks of four statements, seven events.
`language_server`: two connections and documents, pools of two threads, three
messages (or two and one), one client that does more than edit. `front_end`:
texts of four characters, four reader operations, three loop rounds, a wide character of two
units, two continuation lines (100 in the code), integers of four bits and literals of five symbols, expressions with two levels of operators, three members,
units and library files, sessions of a few submissions.

**Fairness.** `FrameMachine` and `CallStack` have weak fairness on `Step`: the thread of
the virtual machine keeps executing, and a native function ends; there is none on `Abort`. `Tasks` has weak
fairness on the return of `Wait`, on due timers and callbacks of the loop, and on worker
threads; there is none on scripts. `Parser` runs. `LanguageServer` has it for every
thread, each on its own, and none for clients, who may fall silent. The mutex is weakly
fair there because no thread takes it again without a message from a client. Deadlock is not checked: programs, sessions and
connections may end.

## Proofs

`CodeAssumption`: every program is a sequence of instructions with positive operands,
and the null instance is no object. `CallStackAssumption`: the null instance is no
exception, `MaxFrames` is a natural number. No proof depends on the emitter: the theorems about
a frame hold for **every** bytecode, also what the emitter would never write.

- `FrameInvariant`: `FrameInv` is inductive. It adds to `TypeOK` and the properties below
  what makes them inductive: `depth` is at least the number of drains on the C++ stack (without
  it, giving a level back could make the unsigned counter wrap), and the dispatch record and
  `reason` agree, so that an exception is never pending while another one is being
  dispatched. Corollaries: `FrameTypes` (`TypeOK`), `DepthCovers` (`DepthCoversDrains`),
  `RaisedIsReal` (`RaisedHasException`), `UnhandledRunsDefers` (`UnhandledDrained`),
  `DispatchAgrees` (`DispatchConsistent`).
- `CallStackInvariant`: `CallInv` is inductive. `ActiveFramesAlive` alone is not: that the
  frame on top is not needed by a lower activation takes the order of the stack.
  `StackInv` says that frames are stacked in the order of their creation, each on its
  `PreviousFrame`; `ActiveInv` that activations are nested in the same order on frames of
  the stack, with `Run` at the bottom; `HostInv` that there are activations exactly while
  `Run` is executing, and one to unwind while a C++ exception is in flight. With
  `FramesAccounted` the top frame is then the innermost activation's or a frame left
  behind above it, also when the catch of an external method pushes its constructor's
  frame on one left behind, and `PopFrame` is safe. Corollaries: `FramesStayAlive`, `NoFrameUnaccounted`,
  `StackIsActivations`.

- `TasksInvariant`: `TasksInv` is inductive, from `TasksAssumption`: the tasks, timers, threads and
  frames are finite and disjoint kinds. None of the four properties a run checks is
  inductive alone. `RootedWhilePending` takes that a callback only settles an operation whose
  scope is open (`OpenPending`, `SettledDone`), or a settled task would be settled and its root removed
  again; `FrameOwnersExact` takes that a frame that is pushed afresh owns nothing
  (`OwnersPushed`) and is one of those on the stack (`ControlInv`); `SendsHitLiveHandle` and
  `PendingHasSource` take that a working thread has a handle that only the end of the program closes
  (`ThreadsInv`). What the code changes through nested calls (settle, release the
  owner, unroot, resume) is a function on worlds in `Tasks`; `Touches` says what every such call
  leaves alone, and is proved of each of them once. Corollaries: `TasksTypeCorrect`, `TasksRooted`,
  `OwnersCounted`, `PendingSourced`, `HandlesLive`.
- `ScopesImplementPromises`: under `TasksInv` every action maps to a step of `Promise` or to a
  stutter, with the state of an operation as its `Outcome` and the argument of `Task.Wait` as `Awaited`.
  The hypothesis `ScriptSettled \cap ScopeTasks = {}`, no script settles a native
  operation itself, is needed: TLC refutes the refinement without it, since `SetResult` settles a
  settled task again.
- `HeapInvariant`: `HeapInv` is inductive, from `HeapAssumption`, for any number of objects, locals, statics
  and frames. Between instructions the books balance: `Good(heap, Zero)` says that the counter
  of an object is the number of places that hold it plus the account. In the middle of one they do
  not, so `Good` takes what the counters are ahead by (`d`); an increment, a decrement
  and a write each move `d`, the number of holders (`WriteMoves`) and the counter together,
  and an instruction is a sequence of such moves that ends at `Zero`. `Known` adds that no
  place, eval entry or literal refers to an object that was never allocated, `Beyond` that frames not
  entered own nothing, so that `PushFrame` finds its locals empty; after `Terminate` nothing owns and nothing is live. `DestroyInstance`
  releases what the object refers to, and so on; the model walks the chain in rounds. In each
  round one more object dies (`Dies`), so `MaxObjects + 1` of them reach the end
  (`RoundsEnd`), whatever the references are, cycles included. Corollaries: `CountsExact`,
  `OwnedNotFreed`, `HeapTypeCorrect`.
- `ServerInvariant`: `ServerInv` is inductive, from `BudgetAssumption` and `KindsAssumption`, for any
  number of connections, documents, messages and pool threads. It says where each request is: not reached yet, among
  the answers the reader collects, in the queue, with a thread, or answered, and never in
  two of these (`Once`); whoever has it may still answer it (`Granted`), and a hover whose document its client had
  opened finds it there (`Matches`, `Queued`, `Worked`), because a reader handles
  the `didOpen` before the hover and no document is ever closed (`Pending`, `Grows`). The invariant is a
  conjunction over connections that share only the documents, so one lemma (`Frame`) covers the others in every step.
  Corollary: `AnswersAreSound` (`AnswersSound`).
- `TextsInvariant`: `TextsInv` is inductive together with `ServerInv`, from `TextAssumption` (texts are sequences
  of characters) and `PositionAssumption` (lines and characters are natural numbers, whether the text has
  them or not). `DiagnosticsCurrent` speaks of a reader that is idle; `Fits` says what holds in between,
  of a document that one connection wrote: applied to the server's text, the change its reader still has to make
  gives the client's text (`Agreed`), and what the client shows was computed from the server's
  text, unless it is about to be written (`Seen`). At most one message of a batch changes a document
  (`OneUpdate`). That the change leads to the client's text is `EditsAgree`, which rests on
  `OffsetsAgree`: the character-by-character walk of `offsetFromPosition` ends at the offset that the client means by the
  position, the character of that line or the end of a line that is shorter, for every text. Its
  induction says where the walk is after `n` characters (`Walk`). Corollary: `DiagnosticsAreCurrent`
  (`DiagnosticsCurrent`).

- `Hosts_proofs` is about what the code computes, for any number of libraries, candidates and
  dependencies, and is not bounded by the files of `MCHosts`. It needs no assumption on a constant; the
  hypotheses are the types: `libraries` describe themselves (`LibrarySet`), `order` lists positions of
  libraries, numbers of versions are unbounded naturals. `VersionOrder`: `Less` is a strict total order.
  `CaretMeans` and `TildeMeans` say what `^` and `~` admit without their upper bounds.
  `VersionRead`: any text is read as a version or not at all. `BestMatchIsNewest`: induction over the
  candidates. `KahnOrder` rests on `Counts`: the counter of a library is the number of its edges
  whose target is not in the load order, and it is in the queue or in the order, once, exactly when that
  is 0. One dependent is counted down at a time, so within a round the books are kept for the
  edges looked at so far (`ReleaseStep`, `TakeStep`). After `N` rounds the queue is empty or all
  libraries are in the order (`Advanced`). `OrderIsComplete` follows: what is left over is a
  set of libraries that wait for each other, and no such set ever enters the order.
  `DependencyResolved` and `ReadableLibrariesLoad` put the parts together from the
  texts to what is loaded. They are the statement of `LoadOrderSound` for one list of readable libraries;
  it is not stated as that invariant, which speaks of the reference `MCHosts` computes.

Recursion over numbers can be reasoned about when it is a function: `SequenceFacts` proves that such
a definition has a solution and that a set closed under successor holds all numbers, in first-order form
(`Recursion`, `FiniteRecursion`, `NatSet`). The rounds of `DestroyInstance` and
`Delivered`, the responses of a batch written one after the other, are handled that way, and so are the changes
of a message and the characters of a text in `LanguageServer` and the loops of `Hosts`. Folds and recursive operators over syntax are not.

Only model-checked: `Conforms`, `LoweringExact` and the properties of `front_end` (they
evaluate passes over syntax, recursive operators that need induction over data, or compare
with a reference on the inputs of an MC module); in `Hosts`, the splitting of an expression into
constraints, the passes, `main` and the console;
the parser's properties;
and the liveness properties `Terminates`, `AbortEnds`, `WaitEnds`, `RequestsAnswered` and
`ConnectionsEnd`, which are out of the prover's reach.

## Plan

The models are complete to the extent listed below. Left is one theorem: the part of
`SkipsReported` that is about the machine's own steps and not about the grammar.

## Not modelled

- The rounding of doubles: they are exact rationals in `PrimitiveOperators`.
- Structs stored inline and C++ exceptions in the heap; the bytes of objects besides
  their layout.
- `AbortFlag` and a second `Run` in the async runtime, `AsyncScope::Await`, script code that settles
  native tasks as seen by `Promise`; `TerminateCallStack`.
- Invocations qualified by a namespace, the shorthand for enum members, expressions the emitter
  has no visitor for.
- The wording and places of diagnostics, printing, colours, command-line parsing.
- `SymbolBuilder` and `SyntaxVisitor`, which decide nothing; the framework bindings,
  which are input and output.
- Third-party code: httplib, subprocess, flag, whereami, glob, libuv, mimalloc, raylib,
  SQLite, and of the lsp library everything but the message handler, the connection and the
  thread pool (json, serialization, uri, processes, sockets, the generator).
