---------------------------- MODULE Tasks_proofs ----------------------------
(***************************************************************************)
(* Roots, frame owners, handles and threads of tasks stay consistent for   *)
(* any number of tasks and frames, whoever settles a task and in whichever *)
(* order; and native operations implement Promise.                         *)
(***************************************************************************)
EXTENDS Tasks, FiniteSetTheorems, SequenceTheorems, TLAPS

\* The tasks a frame owns, and PendingTaskCount as their number.
Owned(ts, f) == {t \in Tasks : ts[t].owner = f}

Counted(ts, fs) == \A f \in Frames : fs[f].pending = Cardinality(Owned(ts, f))

\* While the script runs or waits it has a frame, of which the first is the one
\* of the entry point; it waits exactly while Task.Wait has an argument.
ControlInv ==
    /\ vm \in {"script", "waiting"} => stack # << >>
    /\ stack # << >> => stack[1] = 1
    /\ \A i \in 1 .. Len(stack) : frame[stack[i]].pushed
    /\ vm = "waiting" <=> waitingOn # None

\* PushFrame takes a frame that owns nothing.
OwnersPushed == \A t \in Tasks : task[t].owner # None => frame[task[t].owner].pushed

\* A thread that works has a handle, which only the end of the program closes.
ThreadsInv ==
    \A t \in ThreadTasks : worker[t] = "working" =>
        \/ task[t].handle = "open"
        \/ task[t].handle = "closing" /\ vm = "ended"

\* An operation whose callback will find the scope open has not been settled.
OpenPending ==
    \A t \in Operations : task[t].handle = "open" /\ ~task[t].done => task[t].st = "pending"

Outcomes == {"completed", "faulted"}

\* The scope of an operation is done as soon as its task is settled, and a
\* continuation throws when its task is settled or after that.
SettledDone ==
    /\ \A t \in Operations : task[t].done <=> task[t].st \in Outcomes
    /\ \A t \in Tasks : task[t].threw => task[t].st \in Outcomes

\* The inductive invariant.
TasksInv ==
    /\ TypeOK
    /\ RootedWhilePending
    /\ FrameOwnersExact
    /\ PendingHasSource
    /\ SendsHitLiveHandle
    /\ ControlInv
    /\ OwnersPushed
    /\ ThreadsInv
    /\ OpenPending
    /\ SettledDone

-----------------------------------------------------------------------------
(* Worlds                                                                  *)

Worlds == [ task     : [Tasks -> Task],
            frame    : [Frames -> FrameRec],
            awaiting : [Continuations -> Tasks \cup {None}] ]

\* r is w after calls that are about the task t.
Touches(w, r, t) ==
    /\ r \in Worlds
    /\ \A u \in Tasks : u # t => r.task[u] = w.task[u]
    /\ \A f \in Frames : r.frame[f].pushed = w.frame[f].pushed /\ r.frame[f].prev = w.frame[f].prev
    /\ Counted(w.task, w.frame) => Counted(r.task, r.frame)

\* A task loses its owner, or gains one.
LEMMA OwnedChanges ==
    ASSUME NEW ts \in [Tasks -> Task], NEW t \in Tasks, NEW us \in [Tasks -> Task],
           \A u \in Tasks : u # t => us[u] = ts[u]
    PROVE  \A f \in Frames :
             /\ Cardinality(Owned(ts, f)) \in Nat
             /\ ts[t].owner = us[t].owner => Owned(us, f) = Owned(ts, f)
             /\ ts[t].owner = f /\ us[t].owner # f =>
                    Cardinality(Owned(us, f)) = Cardinality(Owned(ts, f)) - 1
             /\ ts[t].owner # f /\ us[t].owner = f =>
                    Cardinality(Owned(us, f)) = Cardinality(Owned(ts, f)) + 1
             /\ ts[t].owner # f /\ us[t].owner # f => Owned(us, f) = Owned(ts, f)
<1> TAKE f \in Frames
<1>1. IsFiniteSet(Owned(ts, f)) /\ IsFiniteSet(Owned(us, f))
  BY FS_Subset, TasksAssumption DEF Owned
<1>2. ts[t].owner = us[t].owner => Owned(us, f) = Owned(ts, f)
  BY DEF Owned
<1>3. ts[t].owner = f /\ us[t].owner # f => Owned(us, f) = Owned(ts, f) \ {t} /\ t \in Owned(ts, f)
  BY DEF Owned
<1>4. ts[t].owner # f /\ us[t].owner = f => Owned(us, f) = Owned(ts, f) \cup {t} /\ t \notin Owned(ts, f)
  BY DEF Owned
<1>5. ts[t].owner # f /\ us[t].owner # f => Owned(us, f) = Owned(ts, f)
  BY DEF Owned
<1> QED
  BY <1>1, <1>2, <1>3, <1>4, <1>5, FS_CardinalityType, FS_AddElement, FS_RemoveElement

\* A change of the task that keeps its owner.
LEMMA TouchTask ==
    ASSUME NEW w \in Worlds, NEW t \in Tasks, NEW r \in Worlds,
           \A u \in Tasks : u # t => r.task[u] = w.task[u],
           r.task[t].owner = w.task[t].owner,
           r.frame = w.frame
    PROVE  Touches(w, r, t)
<1>1. w.task \in [Tasks -> Task] /\ r.task \in [Tasks -> Task]
  BY DEF Worlds
<1>2. \A f \in Frames : Owned(r.task, f) = Owned(w.task, f)
  BY <1>1 DEF Owned
<1> QED
  BY <1>2 DEF Touches, Counted

\* Calls about the same task, one after the other.
LEMMA TouchesTransitive ==
    ASSUME NEW w, NEW r, NEW q, NEW t, Touches(w, r, t), Touches(r, q, t)
    PROVE  Touches(w, q, t)
BY DEF Touches

\* ReleaseFrameOwner counts the frame down.
LEMMA ReleaseFacts ==
    ASSUME NEW w \in Worlds, NEW t \in Tasks
    PROVE  LET r == ReleaseFrameOwner(w, t)
           IN  /\ Touches(w, r, t)
               /\ r.task[t] = [w.task[t] EXCEPT !.owner = None]
               /\ r.awaiting = w.awaiting
<1> DEFINE r == ReleaseFrameOwner(w, t)
           f == w.task[t].owner
<1>0. w.task \in [Tasks -> Task] /\ w.task[t] \in Task /\ w.frame \in [Frames -> FrameRec]
  BY DEF Worlds
<1>1. CASE f = None
  <2>1. r = w
    BY <1>1 DEF ReleaseFrameOwner
  <2>2. w.task[t] = [w.task[t] EXCEPT !.owner = None]
    BY <1>0, <1>1 DEF Task
  <2> QED
    BY <2>1, <2>2 DEF Touches
<1>2. CASE f # None
  <2>1. f \in Frames
    BY <1>0, <1>2 DEF Task
  <2> DEFINE p == w.frame[f].pending
  <2>2. r = [w EXCEPT !.frame[f].pending = IF @ > 0 THEN @ - 1 ELSE 0, !.task[t].owner = None]
    BY <1>2 DEF ReleaseFrameOwner
  <2>3. /\ r.task = [w.task EXCEPT ![t].owner = None]
        /\ r.frame = [w.frame EXCEPT ![f].pending = IF p > 0 THEN p - 1 ELSE 0]
        /\ r.awaiting = w.awaiting
        /\ r = [task |-> r.task, frame |-> r.frame, awaiting |-> r.awaiting]
    BY <2>2 DEF Worlds
  <2>4. r.task \in [Tasks -> Task] /\ r.task[t] = [w.task[t] EXCEPT !.owner = None]
    BY <2>3, <1>0 DEF Task
  <2> DEFINE q == IF p > 0 THEN p - 1 ELSE 0
  <2>p. p \in Nat /\ q \in Nat
    BY <1>0, <2>1 DEF FrameRec
  <2>q. r.frame = [w.frame EXCEPT ![f].pending = q]
    BY <2>3
  <2> HIDE DEF r, q
  <2>5. /\ r.frame \in [Frames -> FrameRec]
        /\ \A g \in Frames : r.frame[g].pushed = w.frame[g].pushed /\ r.frame[g].prev = w.frame[g].prev
        /\ \A g \in Frames : r.frame[g].pending = IF g = f THEN q ELSE w.frame[g].pending
    BY <2>p, <2>q, <1>0, <2>1 DEF FrameRec
  <2>6. r \in Worlds
    BY <2>3, <2>4, <2>5 DEF Worlds
  <2>7. \A u \in Tasks : u # t => r.task[u] = w.task[u]
    BY <2>3, <1>0
  <2>8. ASSUME Counted(w.task, w.frame) PROVE Counted(r.task, r.frame)
    <3> DEFINE ts == w.task  us == r.task
    <3>1. /\ ts \in [Tasks -> Task] /\ us \in [Tasks -> Task]
          /\ \A u \in Tasks : u # t => us[u] = ts[u]
          /\ ts[t].owner = f
          /\ us[t].owner = None /\ \A g \in Frames : g # None
      BY <2>4, <2>7, <1>0, TasksAssumption DEF Task, Frames
    <3>2. r.frame[f].pending = q /\ p = Cardinality(Owned(ts, f))
      BY <2>8, <2>1, <2>5 DEF Counted
    <3> HIDE DEF ts, us, f, p
    <3>3. /\ Cardinality(Owned(us, f)) = Cardinality(Owned(ts, f)) - 1
          /\ \A g \in Frames : g # f => Owned(us, g) = Owned(ts, g)
      BY <2>1, <3>1, OwnedChanges
    <3>4. Cardinality(Owned(us, f)) \in Nat
      BY <2>1, <3>1, OwnedChanges
    <3>5. q = Cardinality(Owned(us, f))
      BY <3>2, <3>3, <3>4, <2>p DEF q
    <3> QED
      BY <2>8, <2>1, <2>5, <3>2, <3>3, <3>5 DEF Counted, ts, us
  <2>9. Touches(w, r, t)
    BY <2>5, <2>6, <2>7, <2>8 DEF Touches
  <2> QED
    BY <2>3, <2>4, <2>9 DEF r
<1> QED
  BY <1>1, <1>2 DEF r

\* UnrootTask takes one root away.
LEMMA UnrootFacts ==
    ASSUME NEW w \in Worlds, NEW t \in Tasks
    PROVE  LET r == UnrootTask(w, t)
               n == w.task[t].roots
           IN  /\ Touches(w, r, t)
               /\ r.task[t] = [w.task[t] EXCEPT !.roots = IF n > 0 THEN n - 1 ELSE 0]
               /\ r.awaiting = w.awaiting
<1> DEFINE r == UnrootTask(w, t)
           n == w.task[t].roots
           m == IF n > 0 THEN n - 1 ELSE 0
<1>0. w.task \in [Tasks -> Task] /\ w.task[t] \in Task
  BY DEF Worlds
<1>1. m \in Nat
  BY <1>0 DEF Task
<1>2. r = [w EXCEPT !.task[t].roots = m]
  BY DEF UnrootTask
<1> HIDE DEF r, m
<1>3. r.task = [w.task EXCEPT ![t].roots = m] /\ r.frame = w.frame /\ r.awaiting = w.awaiting
  BY <1>2 DEF Worlds
<1>4. r.task \in [Tasks -> Task] /\ r.task[t] = [w.task[t] EXCEPT !.roots = m]
  BY <1>0, <1>1, <1>3 DEF Task
<1>5. r \in Worlds
  BY <1>2, <1>3, <1>4 DEF Worlds
<1>6. r.task[t].owner = w.task[t].owner /\ \A u \in Tasks : u # t => r.task[u] = w.task[u]
  BY <1>0, <1>3, <1>4 DEF Task
<1>7. Touches(w, r, t)
  BY <1>3, <1>5, <1>6, TouchTask
<1> QED
  BY <1>3, <1>4, <1>7 DEF r, m

\* ResumeContinuation forgets the continuation and leaves the rest of the task
\* alone, but for the mark of an exception.
LEMMA ResumeFacts ==
    ASSUME NEW w \in Worlds, NEW t \in Tasks
    PROVE  LET r == ResumeContinuation(w, t)
           IN  /\ Touches(w, r, t)
               /\ \E b \in BOOLEAN : /\ r.task[t] = [w.task[t] EXCEPT !.cont = None, !.threw = b]
                                     /\ w.task[t].threw => b
<1> DEFINE r == ResumeContinuation(w, t)
           k == w.task[t].cont
           x == [w.task[t] EXCEPT !.cont = None, !.threw = TRUE]
<1>0. w.task \in [Tasks -> Task] /\ w.task[t] \in Task
  BY DEF Worlds
<1>1. CASE k = None
  <2>1. r = w
    BY <1>1 DEF ResumeContinuation
  <2>2. Touches(w, w, t) /\ w.task[t] = [w.task[t] EXCEPT !.cont = None, !.threw = w.task[t].threw]
        /\ w.task[t].threw \in BOOLEAN
    BY <1>0, <1>1 DEF Task, Touches
  <2> QED
    BY <2>1, <2>2
<1>2. CASE k # None
  <2>1. r = [w EXCEPT !.task[t].cont = None, !.task[t].threw = TRUE]
    BY <1>2 DEF ResumeContinuation, ResumeArguments, MoveNextArguments, Worlds
  <2>2. r.task = [w.task EXCEPT ![t] = x] /\ r.frame = w.frame /\ r.awaiting = w.awaiting
        /\ r = [task |-> r.task, frame |-> r.frame, awaiting |-> r.awaiting]
    BY <2>1, <1>0 DEF Worlds
  <2>3. x \in Task /\ x.owner = w.task[t].owner
    BY <1>0 DEF Task
  <2> HIDE DEF r, x
  <2>4. r.task \in [Tasks -> Task] /\ r.task[t] = x
    BY <2>2, <2>3, <1>0
  <2>5. r \in Worlds
    BY <2>2, <2>4 DEF Worlds
  <2>6. Touches(w, r, t)
    BY <2>2, <2>3, <2>4, <2>5, <1>0, TouchTask
  <2> QED
    BY <2>4, <2>6 DEF r, x
<1> QED
  BY <1>1, <1>2

\* A new record for a task, with the owner it had.
LEMMA SetTask ==
    ASSUME NEW w \in Worlds, NEW t \in Tasks, NEW x \in Task, x.owner = w.task[t].owner
    PROVE  LET r == [w EXCEPT !.task[t] = x]
           IN  Touches(w, r, t) /\ r.task[t] = x /\ r.frame = w.frame /\ r.awaiting = w.awaiting
<1> DEFINE r == [w EXCEPT !.task[t] = x]
<1>0. w.task \in [Tasks -> Task]
  BY DEF Worlds
<1>1. r.task = [w.task EXCEPT ![t] = x] /\ r.frame = w.frame /\ r.awaiting = w.awaiting
      /\ r = [task |-> r.task, frame |-> r.frame, awaiting |-> r.awaiting]
  BY DEF Worlds
<1> HIDE DEF r
<1>2. r.task \in [Tasks -> Task] /\ r.task[t] = x /\ \A u \in Tasks : u # t => r.task[u] = w.task[u]
  BY <1>0, <1>1
<1>3. r \in Worlds
  BY <1>1, <1>2 DEF Worlds
<1>4. Touches(w, r, t)
  BY <1>1, <1>2, <1>3, TouchTask
<1> QED
  BY <1>1, <1>2, <1>4 DEF r

Predecessor(n) == IF n > 0 THEN n - 1 ELSE 0

\* What Settle does to the task; an exception of the continuation keeps the root.
LEMMA SettleFacts ==
    ASSUME NEW w \in Worlds, NEW t \in Tasks, NEW s \in {"completed", "faulted"}
    PROVE  LET r == Settle(w, t, s)
               x == w.task[t]
               y == r.task[t]
           IN  /\ Touches(w, r, t)
               /\ y.st = s /\ y.owner = None
               /\ y.done = x.done /\ y.handle = x.handle /\ y.forget = x.forget
               /\ ~y.threw => ~x.threw /\ y.roots = Predecessor(x.roots)
<1> DEFINE x == w.task[t]
           set == [w EXCEPT !.task[t].st = s]
           settled == ReleaseFrameOwner(set, t)
           resumed == ResumeContinuation(settled, t)
           unrooted == UnrootTask(resumed, t)
           r == Settle(w, t, s)
<1>0. w.task \in [Tasks -> Task] /\ x \in Task
  BY DEF Worlds
<1>1. Touches(w, set, t) /\ set.task[t] = [x EXCEPT !.st = s]
  <2>1. [x EXCEPT !.st = s] \in Task /\ [x EXCEPT !.st = s].owner = x.owner
    BY <1>0 DEF Task
  <2>2. set = [w EXCEPT !.task[t] = [x EXCEPT !.st = s]]
    BY DEF Worlds
  <2> QED
    BY <2>1, <2>2, SetTask
<1> HIDE DEF set
<1>2. Touches(set, settled, t) /\ settled.task[t] = [x EXCEPT !.st = s, !.owner = None]
  <2>1. set \in Worlds
    BY <1>1 DEF Touches
  <2>2. Touches(set, settled, t) /\ settled.task[t] = [set.task[t] EXCEPT !.owner = None]
    BY <2>1, ReleaseFacts
  <2> QED
    BY <1>0, <1>1, <2>2 DEF Task
<1> HIDE DEF settled
<1>3. PICK b \in BOOLEAN :
        /\ Touches(settled, resumed, t)
        /\ resumed.task[t] = [x EXCEPT !.st = s, !.owner = None, !.cont = None, !.threw = b]
        /\ x.threw => b
  <2>1. settled \in Worlds
    BY <1>2 DEF Touches
  <2>2. settled.task[t].threw = x.threw
    BY <1>0, <1>2 DEF Task
  <2>3. /\ Touches(settled, resumed, t)
        /\ \E b \in BOOLEAN : /\ resumed.task[t] = [settled.task[t] EXCEPT !.cont = None, !.threw = b]
                              /\ settled.task[t].threw => b
    BY <2>1, ResumeFacts
  <2> QED
    BY <2>2, <2>3, <1>0, <1>2 DEF Task
<1> HIDE DEF resumed
<1>4. /\ Touches(resumed, unrooted, t)
      /\ unrooted.task[t] = [x EXCEPT !.st = s, !.owner = None, !.cont = None, !.threw = b, !.roots = Predecessor(x.roots)]
  <2>1. resumed \in Worlds /\ resumed.task[t].roots = x.roots
    BY <1>0, <1>3 DEF Touches, Task
  <2>2. /\ Touches(resumed, unrooted, t)
        /\ unrooted.task[t] = [resumed.task[t] EXCEPT !.roots = Predecessor(resumed.task[t].roots)]
    BY <2>1, UnrootFacts DEF Predecessor
  <2> QED
    BY <1>0, <1>3, <2>1, <2>2 DEF Task
<1> HIDE DEF unrooted
<1>5. r = IF Threw(resumed, t) THEN resumed ELSE unrooted
  BY DEF Settle, set, settled, resumed, unrooted
<1>6. Touches(w, resumed, t) /\ Touches(w, unrooted, t)
  BY <1>1, <1>2, <1>3, <1>4, TouchesTransitive
<1>7. Threw(resumed, t) => b
  BY <1>0, <1>3 DEF Threw, Task
<1> DEFINE Settled(y) == /\ y.st = s /\ y.owner = None
                         /\ y.done = x.done /\ y.handle = x.handle /\ y.forget = x.forget
                         /\ y.threw = b
<1>a. Settled(resumed.task[t]) /\ Settled(unrooted.task[t])
  <2>1. Settled(resumed.task[t])
    BY <1>0, <1>3 DEF Task
  <2>2. Settled(unrooted.task[t])
    BY <1>0, <1>4 DEF Task
  <2> QED
    BY <2>1, <2>2
<1>b. unrooted.task[t].roots = Predecessor(x.roots)
  BY <1>0, <1>4 DEF Task
<1> HIDE DEF r, x
<1>8. CASE Threw(resumed, t)
  BY <1>5, <1>6, <1>7, <1>8, <1>a DEF r, x
<1>9. CASE ~Threw(resumed, t)
  BY <1>3, <1>5, <1>6, <1>9, <1>a, <1>b DEF r, x
<1> QED
  BY <1>8, <1>9

\* SettleScope: nothing when the scope is done already.
LEMMA SettleScopeFacts ==
    ASSUME NEW w \in Worlds, NEW t \in Tasks, NEW s \in {"completed", "faulted"}
    PROVE  LET r == SettleScope(w, t, s)
               x == w.task[t]
               y == r.task[t]
           IN  /\ Touches(w, r, t)
               /\ x.done => r = w
               /\ ~x.done => /\ y.st = s /\ y.owner = None /\ y.done
                             /\ y.handle = x.handle /\ y.forget = x.forget
                             /\ ~y.threw => ~x.threw /\ y.roots = Predecessor(x.roots)
<1> DEFINE x == w.task[t]
           z == [x EXCEPT !.done = TRUE]
           set == [w EXCEPT !.task[t].done = TRUE]
           r == SettleScope(w, t, s)
<1>0. w.task \in [Tasks -> Task] /\ x \in Task
  BY DEF Worlds
<1>1. CASE x.done
  <2>1. r = w /\ Touches(w, w, t)
    BY <1>1 DEF SettleScope, Touches
  <2> QED
    BY <1>1, <2>1
<1>2. CASE ~x.done
  <2>1. r = Settle(set, t, s)
    BY <1>2 DEF SettleScope
  <2>2. z \in Task /\ z.owner = x.owner /\ z.done /\ z.handle = x.handle /\ z.forget = x.forget
        /\ z.threw = x.threw /\ z.roots = x.roots
    BY <1>0 DEF Task
  <2>3. set = [w EXCEPT !.task[t] = z]
    BY DEF Worlds
  <2> HIDE DEF set, z
  <2>4. Touches(w, set, t) /\ set.task[t] = z
    BY <2>2, <2>3, SetTask
  <2>4a. set \in Worlds
    BY <2>4 DEF Touches
  <2>5. /\ Touches(set, r, t)
        /\ r.task[t].st = s /\ r.task[t].owner = None
        /\ r.task[t].done = z.done /\ r.task[t].handle = z.handle /\ r.task[t].forget = z.forget
        /\ ~r.task[t].threw => ~z.threw /\ r.task[t].roots = Predecessor(z.roots)
    BY <2>1, <2>4, <2>4a, SettleFacts
  <2>6. Touches(w, r, t)
    BY <2>4, <2>5, TouchesTransitive
  <2> QED
    BY <1>2, <2>2, <2>5, <2>6
<1> QED
  BY <1>1, <1>2

\* What both ways to halt a task do to it, after they have marked it.
LEMMA ReleasedUnrooted ==
    ASSUME NEW w, NEW t \in Tasks, NEW set, Touches(w, set, t)
    PROVE  LET r == UnrootTask(ReleaseFrameOwner(set, t), t)
               x == set.task[t]
           IN  /\ Touches(w, r, t)
               /\ r.task[t] = [x EXCEPT !.owner = None, !.roots = Predecessor(x.roots)]
<1> DEFINE x == set.task[t]
           released == ReleaseFrameOwner(set, t)
           r == UnrootTask(released, t)
<1>0. set \in Worlds /\ set.task \in [Tasks -> Task] /\ x \in Task
  BY DEF Touches, Worlds
<1>2. Touches(set, released, t) /\ released.task[t] = [x EXCEPT !.owner = None]
  BY <1>0, ReleaseFacts
<1> HIDE DEF released
<1>3. /\ Touches(released, r, t)
      /\ r.task[t] = [released.task[t] EXCEPT !.roots = Predecessor(released.task[t].roots)]
  <2>1. released \in Worlds
    BY <1>2 DEF Touches
  <2> QED
    BY <2>1, UnrootFacts DEF Predecessor
<1> HIDE DEF r
<1>4. r.task[t] = [x EXCEPT !.owner = None, !.roots = Predecessor(x.roots)]
  BY <1>0, <1>2, <1>3 DEF Task
<1>5. Touches(w, r, t)
  BY <1>2, <1>3, TouchesTransitive
<1> QED
  BY <1>4, <1>5 DEF r, released

\* A halted task is faulted, owned by no frame and not rooted.
LEMMA HaltFacts ==
    ASSUME NEW w \in Worlds, NEW t \in Tasks
    PROVE  LET x == w.task[t]
               y == Halt(w, t).task[t]
               z == HaltTaskObject(w, t).task[t]
           IN  /\ x.done => y = x
               /\ ~x.done => /\ y \in Task /\ y.st = "faulted" /\ y.done /\ y.owner = None
                             /\ y.roots = Predecessor(x.roots) /\ y.threw = x.threw
                             /\ y.handle = IF x.handle = "open" THEN "closing" ELSE x.handle
               /\ z \in Task /\ z.st = "faulted" /\ z.done = x.done /\ z.owner = None
               /\ z.roots = Predecessor(x.roots) /\ z.threw = x.threw /\ z.handle = x.handle
<1> DEFINE x == w.task[t]
           a == [x EXCEPT !.done = TRUE, !.st = "faulted", !.handle = IF x.handle = "open" THEN "closing" ELSE x.handle]
           b == [x EXCEPT !.st = "faulted"]
           y == Halt(w, t).task[t]
           z == HaltTaskObject(w, t).task[t]
<1>0. w.task \in [Tasks -> Task] /\ x \in Task /\ Predecessor(x.roots) \in Nat
  BY DEF Worlds, Task, Predecessor
<1>1. a \in Task /\ a.owner = x.owner /\ b \in Task /\ b.owner = x.owner
  BY <1>0 DEF Task
<1>2. x.done => y = x
  BY DEF Halt
<1>3. ~x.done => y = [a EXCEPT !.owner = None, !.roots = Predecessor(a.roots)]
  <2>1. [w EXCEPT !.task[t].done = TRUE, !.task[t].st = "faulted",
                  !.task[t].handle = IF @ = "open" THEN "closing" ELSE @] = [w EXCEPT !.task[t] = a]
    BY DEF Worlds
  <2>2. ~x.done => Halt(w, t) = UnrootTask(ReleaseFrameOwner([w EXCEPT !.task[t] = a], t), t)
    BY <2>1 DEF Halt
  <2> DEFINE set == [w EXCEPT !.task[t] = a]
             halted == UnrootTask(ReleaseFrameOwner(set, t), t)
  <2> HIDE DEF a
  <2>3. Touches(w, set, t) /\ set.task[t] = a
    BY <1>1, SetTask
  <2> HIDE DEF set
  <2>4. halted.task[t] = [set.task[t] EXCEPT !.owner = None, !.roots = Predecessor(set.task[t].roots)]
    BY <2>3, ReleasedUnrooted
  <2>5. ~x.done => Halt(w, t) = halted
    BY <2>2 DEF set
  <2> HIDE DEF halted
  <2> QED
    BY <2>3, <2>4, <2>5
<1>4. z = [b EXCEPT !.owner = None, !.roots = Predecessor(b.roots)]
  <2>1. [w EXCEPT !.task[t].st = "faulted"] = [w EXCEPT !.task[t] = b]
    BY DEF Worlds
  <2>2. HaltTaskObject(w, t) = UnrootTask(ReleaseFrameOwner([w EXCEPT !.task[t] = b], t), t)
    BY <2>1 DEF HaltTaskObject
  <2> DEFINE set == [w EXCEPT !.task[t] = b]
             halted == UnrootTask(ReleaseFrameOwner(set, t), t)
  <2> HIDE DEF b
  <2>3. Touches(w, set, t) /\ set.task[t] = b
    BY <1>1, SetTask
  <2> HIDE DEF set
  <2>4. halted.task[t] = [set.task[t] EXCEPT !.owner = None, !.roots = Predecessor(set.task[t].roots)]
    BY <2>3, ReleasedUnrooted
  <2>5. HaltTaskObject(w, t) = halted
    BY <2>2 DEF set
  <2> HIDE DEF halted
  <2> QED
    BY <2>3, <2>4, <2>5
<1> HIDE DEF y, z
<1>5. z \in Task /\ z.st = "faulted" /\ z.done = x.done /\ z.owner = None
      /\ z.roots = Predecessor(x.roots) /\ z.threw = x.threw /\ z.handle = x.handle
  BY <1>0, <1>4 DEF Task
<1>6. ~x.done => /\ y \in Task /\ y.st = "faulted" /\ y.done /\ y.owner = None
                 /\ y.roots = Predecessor(x.roots) /\ y.threw = x.threw
                 /\ y.handle = IF x.handle = "open" THEN "closing" ELSE x.handle
  BY <1>0, <1>3 DEF Task
<1> QED
  BY <1>2, <1>5, <1>6 DEF y, z

\* BindTaskToFrame only gives a pending task the frame, and counts it there.
LEMMA BindFacts ==
    ASSUME NEW w \in Worlds, NEW t \in Tasks, NEW f \in Frames
    PROVE  LET r == BindTaskToFrame(w, t, f)
               x == w.task[t]
               y == r.task[t]
           IN  /\ Touches(w, r, t)
               /\ y = [x EXCEPT !.owner = y.owner]
               /\ y.owner \in {x.owner, None} \/ (y.owner = f /\ x.st = "pending")
<1> DEFINE r == BindTaskToFrame(w, t, f)
           x == w.task[t]
           rel == ReleaseFrameOwner(w, t)
<1>0. w.task \in [Tasks -> Task] /\ x \in Task
  BY DEF Worlds
<1>1. CASE x.owner = f
  <2>1. r = w
    BY <1>1 DEF BindTaskToFrame
  <2>2. Touches(w, w, t) /\ x = [x EXCEPT !.owner = x.owner]
    BY <1>0 DEF Touches, Task
  <2> QED
    BY <2>1, <2>2
<1>2. CASE x.owner # f
  <2>1. Touches(w, rel, t) /\ rel.task[t] = [x EXCEPT !.owner = None]
    BY ReleaseFacts
  <2>2. r = IF rel.task[t].st # "pending" THEN rel
            ELSE [rel EXCEPT !.task[t].owner = f, !.frame[f].pending = @ + 1]
    BY <1>2 DEF BindTaskToFrame
  <2>3. rel \in Worlds /\ rel.task \in [Tasks -> Task] /\ rel.frame \in [Frames -> FrameRec]
    BY <2>1 DEF Touches, Worlds
  <2>4. rel.task[t].st = x.st /\ rel.task[t].owner = None /\ None \notin Frames
    BY <1>0, <2>1, TasksAssumption DEF Task, Frames
  <2> HIDE DEF r, rel
  <2>5. CASE x.st # "pending"
    <3>1. r = rel
      BY <2>2, <2>4, <2>5
    <3>2. rel.task[t] = [x EXCEPT !.owner = rel.task[t].owner]
      BY <2>1, <2>4
    <3> QED
      BY <2>1, <2>4, <3>1, <3>2 DEF r
  <2>6. CASE x.st = "pending"
    <3> DEFINE p == rel.frame[f].pending
    <3>1. /\ r.task = [rel.task EXCEPT ![t].owner = f]
          /\ r.frame = [rel.frame EXCEPT ![f].pending = p + 1]
          /\ r.awaiting = rel.awaiting
          /\ r = [task |-> r.task, frame |-> r.frame, awaiting |-> r.awaiting]
      BY <2>2, <2>3, <2>4, <2>6 DEF Worlds
    <3>2. r.task \in [Tasks -> Task] /\ r.task[t].owner = f
          /\ \A u \in Tasks : u # t => r.task[u] = rel.task[u]
      BY <2>3, <3>1 DEF Task
    <3>3. r.task[t] = [x EXCEPT !.owner = f]
      <4>1. r.task[t] = [rel.task[t] EXCEPT !.owner = f]
        BY <2>3, <3>1
      <4>2. [rel.task[t] EXCEPT !.owner = f] = [x EXCEPT !.owner = f]
        BY <2>1
      <4> QED
        BY <4>1, <4>2
    <3>4. /\ r.frame \in [Frames -> FrameRec]
          /\ \A g \in Frames : /\ r.frame[g].pushed = rel.frame[g].pushed /\ r.frame[g].prev = rel.frame[g].prev
                               /\ r.frame[g].pending = IF g = f THEN p + 1 ELSE rel.frame[g].pending
      BY <2>3, <3>1 DEF FrameRec
    <3>5. r \in Worlds
      BY <2>3, <3>1, <3>2, <3>4 DEF Worlds
    <3>6. ASSUME Counted(rel.task, rel.frame) PROVE Counted(r.task, r.frame)
      <4> DEFINE ts == rel.task  us == r.task
      <4>1. /\ ts \in [Tasks -> Task] /\ us \in [Tasks -> Task]
            /\ \A u \in Tasks : u # t => us[u] = ts[u]
            /\ us[t].owner = f /\ ts[t].owner = None /\ \A g \in Frames : g # None
        BY <2>3, <2>4, <3>2
      <4> HIDE DEF ts, us
      <4>2. /\ Cardinality(Owned(us, f)) = Cardinality(Owned(ts, f)) + 1
            /\ \A g \in Frames : g # f => Owned(us, g) = Owned(ts, g)
        BY <4>1, OwnedChanges
      <4> QED
        BY <3>4, <3>6, <4>2 DEF Counted, ts, us
    <3>7. Touches(rel, r, t)
      BY <3>2, <3>4, <3>5, <3>6 DEF Touches
    <3>8. Touches(w, r, t)
      BY <2>1, <3>7, TouchesTransitive
    <3> QED
      BY <2>6, <3>2, <3>3, <3>8 DEF r
  <2> QED
    BY <2>5, <2>6
<1> QED
  BY <1>1, <1>2

-----------------------------------------------------------------------------
(* The steps                                                               *)

\* What the invariant says of one task.
TaskSound(t) ==
    /\ ~task[t].threw => task[t].roots = IF task[t].st = "pending" THEN 1 ELSE 0
    /\ t \in ScopeTasks /\ task[t].st = "pending" =>
        /\ task[t].handle = "open" /\ ~task[t].done
        /\ t \in ThreadTasks => worker[t] # "none"
    /\ t \in ThreadTasks /\ worker[t] = "working" =>
        \/ task[t].handle = "open"
        \/ task[t].handle = "closing" /\ vm = "ended"
    /\ t \in Operations /\ task[t].handle = "open" /\ ~task[t].done => task[t].st = "pending"
    /\ t \in Operations => (task[t].done <=> task[t].st \in Outcomes)
    /\ task[t].threw => task[t].st \in Outcomes

AllSound == \A t \in Tasks : TaskSound(t)

\* The tasks are sound one by one.
LEMMA SoundTasks == RootedWhilePending /\ PendingHasSource /\ ThreadsInv /\ OpenPending /\ SettledDone <=> AllSound
BY DEF RootedWhilePending, PendingHasSource, ThreadsInv, OpenPending, SettledDone, AllSound, TaskSound, Tasks, ScopeTasks, Operations

\* The same after a step.
LEMMA SoundTasksNext == (RootedWhilePending /\ PendingHasSource /\ ThreadsInv /\ OpenPending /\ SettledDone)' <=> AllSound'
BY DEF RootedWhilePending, PendingHasSource, ThreadsInv, OpenPending, SettledDone, AllSound, TaskSound, Tasks, ScopeTasks, Operations

\* Of all tasks only t changes, and its new state is one of S.
Moves(t, S) ==
    /\ \A u \in Tasks : u # t => task'[u] = task[u]
    /\ task'[t].st \in S

\* The state is a world.
LEMMA WorldType == TypeOK => World \in Worlds
BY DEF TypeOK, World, Worlds

\* A step of the script or of a callback that changes one task keeps the
\* invariant if it leaves that task sound, and owned by a frame of the stack or
\* by the frame it had.
LEMMA OneTask ==
    ASSUME TasksInv, NEW t \in Tasks, NEW r, Touches(World, r, t), Becomes(r),
           stack' = stack, hit' = hit,
           worker' \in [ThreadTasks -> {"none", "working", "sent"}],
           \A u \in ThreadTasks : u # t => worker'[u] = worker[u],
           vm \in {"script", "waiting"}, vm' \in {"script", "waiting", "terminated"},
           waitingOn' \in Tasks \cup {None},
           vm' = "waiting" <=> waitingOn' # None,
           TaskSound(t)',
           r.task[t].owner # None =>
               r.task[t].st = "pending" /\ r.task[t].owner \in {task[t].owner, Top}
    PROVE  TasksInv' /\ Moves(t, {r.task[t].st})
<1>1. /\ task' = r.task /\ frame' = r.frame /\ awaiting' = r.awaiting
      /\ r \in Worlds
      /\ \A u \in Tasks : u # t => task'[u] = task[u]
      /\ \A f \in Frames : frame'[f].pushed = frame[f].pushed /\ frame'[f].prev = frame[f].prev
      /\ Counted(task, frame) => Counted(task', frame')
  BY DEF Touches, Becomes, World
<1>2. TypeOK'
  BY <1>1 DEF TasksInv, TypeOK, Worlds
<1>3. AllSound'
  <2> SUFFICES ASSUME NEW u \in Tasks, u # t PROVE TaskSound(u)'
    BY DEF AllSound
  <2>1. TaskSound(u)
    BY SoundTasks DEF TasksInv, AllSound
  <2>2. task'[u] = task[u] /\ (u \in ThreadTasks => worker'[u] = worker[u]) /\ vm # "ended"
    BY <1>1
  <2> QED
    BY <2>1, <2>2 DEF TaskSound
<1>4. Counted(task', frame')
  BY <1>1 DEF TasksInv, FrameOwnersExact, Counted, Owned
<1>5. stack \in Seq(Frames) /\ stack # << >> /\ Len(stack) \in 1 .. Len(stack)
  BY DEF TasksInv, TypeOK, ControlInv
<1>6. \A i \in 1 .. Len(stack) : stack[i] \in Frames /\ frame'[stack[i]].pushed
  BY <1>1, <1>5 DEF TasksInv, ControlInv
<1>7. ASSUME NEW u \in Tasks, task'[u].owner # None
      PROVE  /\ task'[u].st = "pending"
             /\ frame'[task'[u].owner].pushed
             /\ frame'[task'[u].owner].prev # None => \E i \in 1 .. Len(stack') : stack'[i] = task'[u].owner
  <2> DEFINE f == task'[u].owner
  <2>1. f \in Frames
    BY <1>2, <1>7 DEF TypeOK, Task
  <2>2. CASE f = task[u].owner
    <3>1. task'[u].st = "pending"
      BY <1>1, <1>7, <2>2 DEF TasksInv, FrameOwnersExact
    <3>2. frame[f].pushed /\ (frame[f].prev # None => \E i \in 1 .. Len(stack) : stack[i] = f)
      BY <1>7, <2>2 DEF TasksInv, FrameOwnersExact, OwnersPushed
    <3> QED
      BY <1>1, <2>1, <3>1, <3>2
  <2>3. CASE f # task[u].owner
    <3>1. u = t /\ f = stack[Len(stack)] /\ task'[u].st = "pending"
      BY <1>1, <1>7, <2>3 DEF Top
    <3> QED
      BY <1>5, <1>6, <3>1
  <2> QED
    BY <2>2, <2>3
<1>8. FrameOwnersExact' /\ OwnersPushed'
  BY <1>4, <1>7 DEF FrameOwnersExact, OwnersPushed, Counted, Owned
<1>9. ControlInv'
  BY <1>1, <1>6 DEF TasksInv, ControlInv
<1> QED
  BY <1>1, <1>2, <1>3, <1>8, <1>9, SoundTasksNext DEF TasksInv, SendsHitLiveHandle, Moves

\* What a step of the script finds.
LEMMA ScriptFacts ==
    ASSUME TasksInv
    PROVE  /\ World \in Worlds /\ World.task = task /\ World.frame = frame /\ World.awaiting = awaiting
           /\ task \in [Tasks -> Task]
           /\ worker \in [ThreadTasks -> {"none", "working", "sent"}]
           /\ vm = "script" => Top \in Frames /\ waitingOn = None
           /\ None \notin Tasks
           /\ \A t \in Tasks : TaskSound(t) /\ (task[t].owner # None => task[t].st = "pending")
<1>1. World \in Worlds /\ World.task = task /\ World.frame = frame /\ World.awaiting = awaiting
  BY WorldType DEF TasksInv, World
<1>2. vm = "script" => Top \in Frames /\ waitingOn = None
  <2> SUFFICES ASSUME vm = "script" PROVE Top \in Frames /\ waitingOn = None
    OBVIOUS
  <2>1. stack \in Seq(Frames) /\ stack # << >>
    BY DEF TasksInv, TypeOK, ControlInv
  <2>2. waitingOn = None
    BY DEF TasksInv, ControlInv
  <2> QED
    BY <2>1, <2>2 DEF Top
<1>3. \A t \in Tasks : TaskSound(t) /\ (task[t].owner # None => task[t].st = "pending")
  BY SoundTasks DEF TasksInv, AllSound, FrameOwnersExact
<1> QED
  BY <1>1, <1>2, <1>3, TasksAssumption DEF TasksInv, TypeOK

\* A task that DoAsync or an async method has just made.
LEMMA CreatedFacts ==
    ASSUME TasksInv, NEW t \in Tasks, task[t].st = "none"
    PROVE  /\ Touches(World, Created(t), t)
           /\ Created(t).task[t] = [NoTask EXCEPT !.st = "pending", !.roots = 1]
<1> DEFINE x == [NoTask EXCEPT !.st = "pending", !.roots = 1]
<1>1. x \in Task /\ x.owner = World.task[t].owner
  BY ScriptFacts DEF NoTask, Task
<1>2. Created(t) = [World EXCEPT !.task[t] = x]
  BY DEF Created
<1> HIDE DEF x
<1>3. Touches(World, Created(t), t) /\ Created(t).task[t] = x
  BY <1>1, <1>2, ScriptFacts, SetTask
<1> QED
  BY <1>3 DEF x

\* GetAwaiter hands the task to the frame on top.
LEMMA GetAwaiterKeeps ==
    ASSUME TasksInv, NEW t \in Tasks, GetAwaiter(t)
    PROVE  TasksInv' /\ Moves(t, {task[t].st})
<1> DEFINE r == BindTaskToFrame(World, t, Top)
<1>1. /\ Touches(World, r, t)
      /\ r.task[t] = [task[t] EXCEPT !.owner = r.task[t].owner]
      /\ r.task[t].owner \in {task[t].owner, None} \/ (r.task[t].owner = Top /\ task[t].st = "pending")
  BY ScriptFacts, BindFacts DEF GetAwaiter, Script
<1>2. Becomes(r) /\ Script /\ UNCHANGED << worker, stack, vm, waitingOn, hit >>
  BY DEF GetAwaiter
<1> HIDE DEF r
<1>3. task'[t] = r.task[t] /\ r.task[t].st = task[t].st /\ r.task[t].threw = task[t].threw
      /\ r.task[t].roots = task[t].roots /\ r.task[t].handle = task[t].handle /\ r.task[t].done = task[t].done
  BY <1>1, <1>2, ScriptFacts DEF Becomes, Task
<1>4. TaskSound(t)'
  BY <1>2, <1>3, ScriptFacts DEF TaskSound
<1>5. r.task[t].owner # None => r.task[t].st = "pending" /\ r.task[t].owner \in {task[t].owner, Top}
  BY <1>1, <1>3, ScriptFacts
<1>6. waitingOn \in Tasks \cup {None}
  BY DEF TasksInv, TypeOK
<1>7. TasksInv' /\ Moves(t, {r.task[t].st})
  BY <1>1, <1>2, <1>4, <1>5, <1>6, ScriptFacts, OneTask DEF Script
<1> QED
  BY <1>3, <1>7

\* Shoot marks the task and takes it from its frame.
LEMMA ShootKeeps ==
    ASSUME TasksInv, NEW t \in Tasks, Shoot(t)
    PROVE  TasksInv' /\ Moves(t, {task[t].st})
<1> DEFINE x == [task[t] EXCEPT !.forget = TRUE]
           set == [World EXCEPT !.task[t].forget = TRUE]
           r == ReleaseFrameOwner(set, t)
<1>1. x \in Task /\ x.owner = task[t].owner
  BY ScriptFacts DEF Task
<1>2. set = [World EXCEPT !.task[t] = x]
  BY DEF World
<1> HIDE DEF set, x
<1>3. Touches(World, set, t) /\ set.task[t] = x
  BY <1>1, <1>2, ScriptFacts, SetTask
<1>4. Touches(set, r, t) /\ r.task[t] = [set.task[t] EXCEPT !.owner = None]
  <2>1. set \in Worlds
    BY <1>3 DEF Touches
  <2> QED
    BY <2>1, ReleaseFacts
<1>5. Becomes(r) /\ Script /\ UNCHANGED << worker, stack, vm, waitingOn, hit >>
  BY DEF Shoot, set
<1> HIDE DEF r
<1>6. Touches(World, r, t)
  BY <1>3, <1>4, TouchesTransitive
<1>7. r.task[t] = [x EXCEPT !.owner = None]
  BY <1>3, <1>4
<1>8. task'[t] = r.task[t] /\ r.task[t].st = task[t].st /\ r.task[t].threw = task[t].threw
      /\ r.task[t].roots = task[t].roots /\ r.task[t].handle = task[t].handle /\ r.task[t].done = task[t].done
      /\ r.task[t].owner = None
  BY <1>5, <1>7, ScriptFacts DEF Becomes, Task, x
<1>9. TaskSound(t)'
  BY <1>5, <1>8, ScriptFacts DEF TaskSound
<1>10. waitingOn \in Tasks \cup {None}
  BY DEF TasksInv, TypeOK
<1> QED
  BY <1>5, <1>6, <1>8, <1>9, <1>10, ScriptFacts, OneTask DEF Script

\* A task of an async method starts pending, with its root.
LEMMA InternalRootKeeps ==
    ASSUME TasksInv, NEW t \in ScriptTasks, InternalRoot(t)
    PROVE  TasksInv' /\ Moves(t, {"pending"})
<1>1. t \in Tasks /\ t \notin ScopeTasks /\ t \notin ThreadTasks /\ t \notin Operations
  BY TasksAssumption DEF Tasks, ScopeTasks, Operations
<1> DEFINE r == Created(t)
<1>2. Touches(World, r, t) /\ r.task[t] = [NoTask EXCEPT !.st = "pending", !.roots = 1]
  BY <1>1, CreatedFacts DEF InternalRoot
<1>3. Becomes(r) /\ Script /\ UNCHANGED << worker, stack, vm, waitingOn, hit >>
  BY DEF InternalRoot
<1> HIDE DEF r
<1>4. task'[t] = r.task[t] /\ r.task[t].st = "pending" /\ r.task[t].roots = 1 /\ r.task[t].owner = None /\ ~r.task[t].threw
  BY <1>2, <1>3 DEF Becomes, NoTask
<1>5. TaskSound(t)'
  BY <1>1, <1>4 DEF TaskSound
<1>6. waitingOn \in Tasks \cup {None}
  BY DEF TasksInv, TypeOK
<1> QED
  BY <1>1, <1>2, <1>3, <1>4, <1>5, <1>6, ScriptFacts, OneTask DEF Script

\* An operation that starts and is bound to the frame of the caller.
LEMMA StartedKeeps ==
    ASSUME TasksInv, NEW t \in ScopeTasks, NEW w, Touches(World, w, t), Script,
           Becomes(BindTaskToFrame(w, t, Top)), UNCHANGED << stack, vm, waitingOn, hit >>,
           worker' \in [ThreadTasks -> {"none", "working", "sent"}],
           \A u \in ThreadTasks : u # t => worker'[u] = worker[u],
           t \in ThreadTasks => worker'[t] = "working",
           LET x == w.task[t]
           IN  /\ x.owner = None
               /\ ~x.threw => x.roots = IF x.st = "pending" THEN 1 ELSE 0
               /\ x.st = "pending" => x.handle = "open" /\ ~x.done
               /\ t \in ThreadTasks => x.handle = "open"
               /\ IF x.done THEN x.st \in Outcomes ELSE x.st = "pending" /\ ~x.threw
    PROVE  TasksInv' /\ Moves(t, {w.task[t].st})
<1> DEFINE r == BindTaskToFrame(w, t, Top)
           x == w.task[t]
<1>0. t \in Tasks /\ w \in Worlds /\ x \in Task
  BY DEF Tasks, ScopeTasks, Touches, Worlds
<1>1. /\ Touches(w, r, t)
      /\ r.task[t] = [x EXCEPT !.owner = r.task[t].owner]
      /\ r.task[t].owner \in {x.owner, None} \/ (r.task[t].owner = Top /\ x.st = "pending")
  BY <1>0, ScriptFacts, BindFacts DEF Script
<1>2. Becomes(r)
  OBVIOUS
<1> HIDE DEF r
<1>3. Touches(World, r, t)
  BY <1>1, TouchesTransitive
<1>4. task'[t] = r.task[t] /\ r.task[t].st = x.st /\ r.task[t].threw = x.threw
      /\ r.task[t].roots = x.roots /\ r.task[t].handle = x.handle /\ r.task[t].done = x.done
  BY <1>0, <1>1, <1>2 DEF Becomes, Task
<1>5. TaskSound(t)'
  BY <1>4 DEF TaskSound, Outcomes
<1>6. r.task[t].owner # None => r.task[t].st = "pending" /\ r.task[t].owner \in {task[t].owner, Top}
  BY <1>1, <1>4
<1>7. waitingOn \in Tasks \cup {None}
  BY DEF TasksInv, TypeOK
<1>8. TasksInv' /\ Moves(t, {r.task[t].st})
  BY <1>0, <1>2, <1>3, <1>5, <1>6, <1>7, ScriptFacts, OneTask DEF Script
<1> QED
  BY <1>4, <1>8

\* The handle of a task that has just been made.
LEMMA OpenedFacts ==
    ASSUME TasksInv, NEW t \in Tasks, task[t].st = "none"
    PROVE  LET w == [Created(t) EXCEPT !.task[t].handle = "open"]
           IN  /\ Touches(World, w, t)
               /\ w.task[t] = [NoTask EXCEPT !.st = "pending", !.roots = 1, !.handle = "open"]
<1> DEFINE c == Created(t)
           x == [NoTask EXCEPT !.st = "pending", !.roots = 1, !.handle = "open"]
           w == [c EXCEPT !.task[t].handle = "open"]
<1>1. Touches(World, c, t) /\ c.task[t] = [NoTask EXCEPT !.st = "pending", !.roots = 1]
  BY CreatedFacts
<1> HIDE DEF c
<1>2. c \in Worlds /\ [c.task[t] EXCEPT !.handle = "open"] = x
  BY <1>1 DEF Touches
<1>3. w = [c EXCEPT !.task[t] = x]
  <2>1. w = [c EXCEPT !.task[t] = [c.task[t] EXCEPT !.handle = "open"]]
    BY <1>2 DEF Worlds
  <2> QED
    BY <1>2, <2>1
<1>4. x \in Task /\ x.owner = c.task[t].owner
  BY <1>1 DEF NoTask, Task
<1> HIDE DEF x, w
<1>5. Touches(c, w, t) /\ w.task[t] = x
  BY <1>2, <1>3, <1>4, SetTask
<1> QED
  BY <1>1, <1>5, TouchesTransitive DEF w, x, c

\* An operation on a thread starts with an open handle.
LEMMA RunOnThreadPoolKeeps ==
    ASSUME TasksInv, NEW t \in ThreadTasks, RunOnThreadPool(t)
    PROVE  TasksInv' /\ Moves(t, {"pending"})
<1> DEFINE w == [Created(t) EXCEPT !.task[t].handle = "open"]
<1>0. t \in Tasks /\ t \in ScopeTasks
  BY DEF Tasks, ScopeTasks
<1>1. /\ Touches(World, w, t)
      /\ w.task[t] = [NoTask EXCEPT !.st = "pending", !.roots = 1, !.handle = "open"]
  BY <1>0, OpenedFacts DEF RunOnThreadPool
<1>2. /\ Script /\ Becomes(BindTaskToFrame(w, t, Top)) /\ UNCHANGED << stack, vm, waitingOn, hit >>
      /\ worker' = [worker EXCEPT ![t] = "working"]
  BY DEF RunOnThreadPool
<1> HIDE DEF w
<1>3. /\ worker' \in [ThreadTasks -> {"none", "working", "sent"}]
      /\ \A u \in ThreadTasks : u # t => worker'[u] = worker[u]
      /\ worker'[t] = "working"
  BY <1>2, ScriptFacts
<1>4. w.task[t].owner = None /\ w.task[t].roots = 1 /\ w.task[t].st = "pending" /\ w.task[t].handle = "open"
      /\ ~w.task[t].done /\ ~w.task[t].threw
  BY <1>1 DEF NoTask
<1> QED
  BY <1>0, <1>1, <1>2, <1>3, <1>4, StartedKeeps

\* A delay starts a timer, or is settled already.
LEMMA DelayKeeps ==
    ASSUME TasksInv, NEW t \in TimerTasks, NEW now \in BOOLEAN, Delay(t, now)
    PROVE  TasksInv' /\ Moves(t, {"pending", "completed"})
<1> DEFINE c == Created(t)
           w == IF now THEN SettleScope(c, t, "completed") ELSE [c EXCEPT !.task[t].handle = "open"]
<1>0. t \in Tasks /\ t \in ScopeTasks /\ t \notin ThreadTasks /\ task[t].st = "none"
  BY TasksAssumption DEF Tasks, ScopeTasks, Delay
<1>1. /\ Script /\ Becomes(BindTaskToFrame(w, t, Top)) /\ UNCHANGED << stack, vm, waitingOn, hit >>
      /\ worker' = worker
  BY DEF Delay
<1>2. /\ Touches(World, w, t)
      /\ w.task[t].owner = None
      /\ ~w.task[t].threw => w.task[t].roots = IF w.task[t].st = "pending" THEN 1 ELSE 0
      /\ w.task[t].st = "pending" => w.task[t].handle = "open" /\ ~w.task[t].done
      /\ IF w.task[t].done THEN w.task[t].st \in Outcomes ELSE w.task[t].st = "pending" /\ ~w.task[t].threw
      /\ w.task[t].st \in {"pending", "completed"}
  <2>1. CASE now
    <3>1. Touches(World, c, t) /\ c.task[t] = [NoTask EXCEPT !.st = "pending", !.roots = 1]
      BY <1>0, CreatedFacts
    <3>2. c \in Worlds /\ ~c.task[t].done /\ c.task[t].roots = 1
      BY <3>1 DEF Touches, NoTask
    <3> HIDE DEF c
    <3> DEFINE q == SettleScope(c, t, "completed")
    <3>3. /\ Touches(c, q, t)
          /\ q.task[t].st = "completed" /\ q.task[t].owner = None /\ q.task[t].done
          /\ ~q.task[t].threw => q.task[t].roots = Predecessor(c.task[t].roots)
      BY <1>0, <3>2, SettleScopeFacts
    <3>4. w = q
      BY <2>1
    <3> HIDE DEF q, w
    <3>5. Touches(World, q, t)
      BY <3>1, <3>3, TouchesTransitive
    <3> QED
      BY <3>2, <3>3, <3>4, <3>5 DEF Predecessor, Outcomes
  <2>2. CASE ~now
    <3> DEFINE q == [c EXCEPT !.task[t].handle = "open"]
    <3>1. /\ Touches(World, q, t)
          /\ q.task[t] = [NoTask EXCEPT !.st = "pending", !.roots = 1, !.handle = "open"]
      BY <1>0, OpenedFacts
    <3>2. w = q
      BY <2>2
    <3> HIDE DEF q, w
    <3> QED
      BY <3>1, <3>2 DEF NoTask
  <2> QED
    BY <2>1, <2>2
<1> HIDE DEF w
<1>3. worker' \in [ThreadTasks -> {"none", "working", "sent"}] /\ \A u \in ThreadTasks : worker'[u] = worker[u]
  BY <1>1, ScriptFacts
<1>4. TasksInv' /\ Moves(t, {w.task[t].st})
  BY <1>0, <1>1, <1>2, <1>3, StartedKeeps
<1> QED
  BY <1>2, <1>4 DEF Moves

\* A script settles a task: its root goes, unless the continuation throws.
LEMMA SetResultKeeps ==
    ASSUME TasksInv, NEW t \in ScriptSettled, NEW s \in {"completed", "faulted"}, SetResult(t, s)
    PROVE  TasksInv' /\ Moves(t, {s})
<1> DEFINE w == Settle(World, t, s)
           x == task[t]
           y == w.task[t]
<1>0. t \in Tasks /\ t \notin Operations
  BY TasksAssumption DEF Operations
<1>1. /\ Touches(World, w, t)
      /\ y.st = s /\ y.owner = None
      /\ y.done = x.done /\ y.handle = x.handle
      /\ ~y.threw => ~x.threw /\ y.roots = Predecessor(x.roots)
  BY <1>0, ScriptFacts, SettleFacts
<1>2. /\ Becomes(w) /\ Script /\ UNCHANGED << worker, stack, waitingOn, hit >>
      /\ vm' \in {"script", "terminated"}
  BY DEF SetResult
<1> HIDE DEF w
<1>3. task'[t] = y
  BY <1>2 DEF Becomes
<1>4. TaskSound(t)'
  <2>1. TaskSound(t)
    BY <1>0, ScriptFacts
  <2> QED
    BY <1>0, <1>1, <1>2, <1>3, <2>1 DEF TaskSound, Outcomes, Predecessor, Script
<1>5. waitingOn' = None
  BY <1>2, ScriptFacts DEF Script
<1> QED
  BY <1>0, <1>1, <1>2, <1>4, <1>5, ScriptFacts, OneTask DEF Script

\* The continuation is stored, or runs and perhaps throws.
LEMMA OnCompletedKeeps ==
    ASSUME TasksInv, NEW t \in Tasks, NEW k \in Continuations, OnCompleted(t, k)
    PROVE  TasksInv' /\ Moves(t, {task[t].st})
<1> DEFINE x == task[t]
           stored == [World EXCEPT !.task[t].cont = k, !.awaiting[k] = t]
           w == IF x.st = "pending" THEN stored ELSE ResumeContinuation(stored, t)
           y == w.task[t]
           ts == [task EXCEPT ![t].cont = k]
           as == [awaiting EXCEPT ![k] = t]
<1>1. stored = [World EXCEPT !.task = ts, !.awaiting = as]
  BY DEF World
<1>2. /\ ts \in [Tasks -> Task]
      /\ ts[t] = [x EXCEPT !.cont = k]
      /\ \A u \in Tasks : u # t => ts[u] = task[u]
  BY ScriptFacts DEF Task
<1>3. as \in [Continuations -> Tasks \cup {None}] /\ World \in Worlds
  BY ScriptFacts DEF TasksInv, TypeOK
<1> HIDE DEF stored, ts, as
<1>4. stored \in Worlds /\ stored.task = ts /\ stored.frame = frame
  <2>1. stored \in Worlds /\ stored.task = ts /\ stored.frame = World.frame
    BY <1>1, <1>2, <1>3 DEF Worlds
  <2> QED
    BY <2>1, ScriptFacts
<1>5. /\ stored.task[t].owner = x.owner /\ stored.task[t].st = x.st /\ stored.task[t].roots = x.roots
      /\ stored.task[t].threw = x.threw /\ stored.task[t].done = x.done /\ stored.task[t].handle = x.handle
  BY <1>2, <1>4, ScriptFacts DEF Task
<1>6. Touches(World, stored, t)
  BY <1>2, <1>4, <1>5, ScriptFacts, TouchTask
<1>7. /\ Touches(World, w, t)
      /\ y.owner = x.owner /\ y.st = x.st /\ y.roots = x.roots /\ y.done = x.done /\ y.handle = x.handle
      /\ x.threw => y.threw
      /\ x.st = "pending" => y.threw = x.threw
  <2>1. CASE x.st = "pending"
    <3>1. w = stored
      BY <2>1
    <3> QED
      BY <1>5, <1>6, <3>1
  <2>2. CASE x.st # "pending"
    <3> DEFINE q == ResumeContinuation(stored, t)
    <3>1. w = q
      BY <2>2
    <3>2. PICK b \in BOOLEAN : /\ Touches(stored, q, t)
                               /\ q.task[t] = [stored.task[t] EXCEPT !.cont = None, !.threw = b]
                               /\ stored.task[t].threw => b
      BY <1>4, ResumeFacts
    <3> HIDE DEF q, w
    <3>3. Touches(World, q, t)
      BY <1>6, <3>2, TouchesTransitive
    <3>4. stored.task[t] \in Task
      BY <1>2, <1>4
    <3> QED
      BY <1>5, <2>2, <3>1, <3>2, <3>3, <3>4 DEF Task
  <2> QED
    BY <2>1, <2>2
<1>8. /\ Becomes(w) /\ Script /\ UNCHANGED << worker, stack, waitingOn, hit >>
      /\ vm' \in {"script", "terminated"} /\ x.st # "none"
  BY DEF OnCompleted, stored
<1> HIDE DEF w
<1>9. task'[t] = y
  BY <1>8 DEF Becomes
<1>10. TaskSound(t)'
  <2>1. TaskSound(t)
    BY ScriptFacts
  <2>2. x.st \in {"pending"} \cup Outcomes
    BY <1>8, ScriptFacts DEF Task, Outcomes
  <2> QED
    BY <1>7, <1>8, <1>9, <2>1, <2>2 DEF TaskSound, Script, Outcomes
<1>11. waitingOn' = None
  BY <1>8, ScriptFacts DEF Script
<1>12. y.owner # None => y.st = "pending" /\ y.owner \in {task[t].owner, Top}
  BY <1>7, ScriptFacts
<1> QED
  BY <1>7, <1>8, <1>10, <1>11, <1>12, ScriptFacts, OneTask DEF Script

\* A callback of the loop that leaves its task settled.
LEMMA CallbackKeeps ==
    ASSUME TasksInv, NEW t \in ScopeTasks, NEW w, Touches(World, w, t), Callback(w, t),
           vm = "waiting",
           worker' \in [ThreadTasks -> {"none", "working", "sent"}],
           \A u \in ThreadTasks : u # t => worker'[u] = worker[u],
           t \in ThreadTasks => worker'[t] = "none",
           LET x == w.task[t]
           IN  /\ x.owner = None /\ x.st # "pending" /\ x.done
               /\ ~x.threw => x.roots = 0
               /\ x.threw \/ t \in Operations => x.st \in Outcomes
    PROVE  TasksInv' /\ Moves(t, {w.task[t].st})
<1> DEFINE x == w.task[t]
           closing == [x EXCEPT !.handle = "closing"]
           closed == [w EXCEPT !.task[t] = closing]
           r == Fired(w, t)
           y == r.task[t]
<1>0. t \in Tasks /\ w \in Worlds /\ x \in Task
  BY DEF Tasks, ScopeTasks, Touches, Worlds
<1>1. closing \in Task /\ closing.owner = x.owner /\ closing.st = x.st /\ closing.done = x.done
      /\ closing.threw = x.threw /\ closing.roots = x.roots
  BY <1>0 DEF Task
<1>2. r = IF Threw(w, t) THEN w ELSE closed
  BY <1>0 DEF Fired, Worlds
<1>3. Becomes(r) /\ UNCHANGED << stack, hit >>
      /\ \/ vm' = "script" /\ waitingOn' = None
         \/ vm' = vm /\ waitingOn' = waitingOn
  BY DEF Callback
<1> HIDE DEF closing
<1>4. Touches(w, closed, t) /\ closed.task[t] = closing
  BY <1>0, <1>1, SetTask
<1> HIDE DEF r, closed
<1>5. Touches(World, closed, t)
  BY <1>4, TouchesTransitive
<1>6. Touches(World, r, t) /\ y.owner = None /\ y.st # "pending" /\ y.done /\ (~y.threw => y.roots = 0)
      /\ y.st = x.st /\ (y.threw \/ t \in Operations => y.st \in Outcomes)
  <2>1. CASE Threw(w, t)
    BY <1>2, <2>1
  <2>2. CASE ~Threw(w, t)
    BY <1>1, <1>2, <1>4, <1>5, <2>2
  <2> QED
    BY <2>1, <2>2
<1>7. task'[t] = y
  BY <1>3 DEF Becomes
<1>8. TaskSound(t)'
  BY <1>6, <1>7 DEF TaskSound
<1>9. waitingOn \in Tasks \cup {None} /\ (vm = "waiting" <=> waitingOn # None)
  BY DEF TasksInv, TypeOK, ControlInv
<1> QED
  BY <1>0, <1>3, <1>6, <1>8, <1>9, OneTask DEF Moves

\* A timer completes its operation.
LEMMA TimerFiresKeeps ==
    ASSUME TasksInv, NEW t \in TimerTasks, TimerFires(t)
    PROVE  TasksInv' /\ Moves(t, {"completed"})
<1> DEFINE w == SettleScope(World, t, "completed")
           x == task[t]
           y == w.task[t]
<1>0. t \in Tasks /\ t \in ScopeTasks /\ t \notin ThreadTasks
  BY TasksAssumption DEF Tasks, ScopeTasks
<1>1. Callback(w, t) /\ vm = "waiting" /\ worker' = worker /\ ~x.done
  BY DEF TimerFires
<1>2. /\ Touches(World, w, t)
      /\ y.st = "completed" /\ y.owner = None /\ y.done
      /\ ~y.threw => ~x.threw /\ y.roots = Predecessor(x.roots)
  BY <1>0, <1>1, ScriptFacts, SettleScopeFacts
<1> HIDE DEF w
<1>3. ~y.threw => y.roots = 0
  <2>1. TaskSound(t)
    BY <1>0, ScriptFacts
  <2> QED
    BY <1>2, <2>1 DEF TaskSound, Predecessor
<1> QED
  BY <1>0, <1>1, <1>2, <1>3, ScriptFacts, CallbackKeeps DEF Outcomes

\* The callback of a thread settles its operation unless Halt did.
LEMMA AsyncFiresKeeps ==
    ASSUME TasksInv, NEW t \in ThreadTasks, NEW s \in {"completed", "faulted"}, AsyncFires(t, s)
    PROVE  /\ TasksInv'
           /\ task[t].done => Moves(t, {task[t].st}) /\ waitingOn' = waitingOn
           /\ ~task[t].done => Moves(t, {s})
<1> DEFINE w == SettleScope(World, t, s)
           x == task[t]
           y == w.task[t]
<1>0. t \in Tasks /\ t \in ScopeTasks
  BY DEF Tasks, ScopeTasks
<1>1. Callback(w, t) /\ vm = "waiting" /\ worker' = [worker EXCEPT ![t] = "none"]
  BY DEF AsyncFires
<1>2. /\ Touches(World, w, t)
      /\ x.done => w = World
      /\ ~x.done => /\ y.st = s /\ y.owner = None /\ y.done
                    /\ ~y.threw => ~x.threw /\ y.roots = Predecessor(x.roots)
  BY <1>0, <1>1, ScriptFacts, SettleScopeFacts
<1> HIDE DEF w
<1>3. y.owner = None /\ y.st # "pending" /\ y.done /\ (~y.threw => y.roots = 0)
      /\ (y.threw \/ t \in Operations => y.st \in Outcomes)
      /\ y.st = IF x.done THEN x.st ELSE s
  <2>1. TaskSound(t) /\ (x.owner # None => x.st = "pending")
    BY <1>0, ScriptFacts
  <2>2. CASE x.done
    <3>1. y = x
      BY <1>2, <2>2, ScriptFacts
    <3> QED
      BY <1>0, <2>1, <2>2, <3>1 DEF TaskSound
  <2>3. CASE ~x.done
    BY <1>2, <2>1, <2>3 DEF TaskSound, Predecessor, Outcomes
  <2> QED
    BY <2>2, <2>3
<1>4. /\ worker' \in [ThreadTasks -> {"none", "working", "sent"}]
      /\ \A u \in ThreadTasks : u # t => worker'[u] = worker[u]
      /\ worker'[t] = "none"
  BY <1>1, ScriptFacts
<1>5. TasksInv' /\ Moves(t, {y.st})
  BY <1>0, <1>1, <1>2, <1>3, <1>4, CallbackKeeps
<1>6. x.done => waitingOn' = waitingOn
  BY <1>1, <1>2, ScriptFacts DEF Callback, Threw
<1> QED
  BY <1>3, <1>5, <1>6 DEF Moves

\* libuv deletes a closed handle, whose thread has sent.
LEMMA CloseCallbackKeeps ==
    ASSUME TasksInv, NEW t \in ScopeTasks, CloseCallback(t)
    PROVE  TasksInv' /\ Moves(t, {task[t].st})
<1> DEFINE x == [task[t] EXCEPT !.handle = "deleted"]
           r == [World EXCEPT !.task[t] = x]
<1>0. t \in Tasks /\ task[t].handle = "closing" /\ vm = "waiting"
  BY DEF Tasks, ScopeTasks, CloseCallback
<1>1. x \in Task /\ x.owner = task[t].owner /\ x.st = task[t].st /\ x.roots = task[t].roots
      /\ x.threw = task[t].threw /\ x.done = task[t].done /\ x.handle = "deleted"
  BY <1>0, ScriptFacts DEF Task
<1>2. task' = [task EXCEPT ![t] = x] /\ UNCHANGED << worker, frame, stack, vm, waitingOn, awaiting, hit >>
  BY DEF CloseCallback
<1> HIDE DEF x
<1>3. Touches(World, r, t) /\ r.task[t] = x /\ r.frame = frame /\ r.awaiting = awaiting
  BY <1>0, <1>1, ScriptFacts, SetTask
<1>4. r.task = [task EXCEPT ![t] = x]
  BY DEF World
<1> HIDE DEF r
<1>5. Becomes(r)
  BY <1>2, <1>3, <1>4 DEF Becomes
<1>6. TaskSound(t)'
  <2>1. TaskSound(t) /\ task'[t] = x
    BY <1>0, <1>2, ScriptFacts
  <2> QED
    BY <1>0, <1>1, <1>2, <2>1 DEF TaskSound
<1>7. x.owner # None => x.st = "pending"
  BY <1>0, <1>1, ScriptFacts
<1>8. waitingOn \in Tasks \cup {None} /\ (vm = "waiting" <=> waitingOn # None)
  BY DEF TasksInv, TypeOK, ControlInv
<1> QED
  BY <1>0, <1>1, <1>2, <1>3, <1>5, <1>6, <1>7, <1>8, ScriptFacts, OneTask

\* Steps that leave the tasks as they are: the thread of script code waits and
\* goes on, a thread of an operation sends, frames are pushed and popped.
LEMMA WaitKeeps ==
    ASSUME TasksInv, \/ \E t \in Tasks : Wait(t)
                     \/ WaitReturns
    PROVE  TasksInv'
<1>1. /\ UNCHANGED << task, worker, frame, stack, awaiting, hit >>
      /\ vm \in {"script", "waiting"}
      /\ \/ vm' = "waiting" /\ waitingOn' \in Tasks
         \/ vm' = "script" /\ waitingOn' = None
  BY DEF Wait, WaitReturns, Script
<1>2. TypeOK' /\ FrameOwnersExact' /\ OwnersPushed'
  BY <1>1 DEF TasksInv, TypeOK, FrameOwnersExact, OwnersPushed
<1>3. AllSound'
  BY <1>1, SoundTasks DEF TasksInv, AllSound, TaskSound
<1>4. ControlInv'
  BY <1>1, ScriptFacts DEF TasksInv, ControlInv
<1> QED
  BY <1>1, <1>2, <1>3, <1>4, SoundTasksNext DEF TasksInv, SendsHitLiveHandle

\* A thread sends while the handle is there.
LEMMA WorkerSendsKeeps ==
    ASSUME TasksInv, NEW t \in ThreadTasks, WorkerSends(t)
    PROVE  TasksInv'
<1>1. /\ UNCHANGED << task, frame, stack, vm, waitingOn, awaiting >>
      /\ worker[t] = "working" /\ worker' = [worker EXCEPT ![t] = "sent"]
      /\ hit' = (hit \/ task[t].handle = "deleted")
  BY DEF WorkerSends
<1>2. ~hit' /\ hit' \in BOOLEAN
  <2>1. TaskSound(t) /\ ~hit
    BY ScriptFacts DEF TasksInv, SendsHitLiveHandle, Tasks
  <2> QED
    BY <1>1, <2>1 DEF TaskSound
<1>3. TypeOK'
  BY <1>1, <1>2 DEF TasksInv, TypeOK
<1>4. AllSound'
  <2> SUFFICES ASSUME NEW u \in Tasks PROVE TaskSound(u)'
    BY DEF AllSound
  <2>1. TaskSound(u)
    BY ScriptFacts
  <2>2. u \in ThreadTasks => worker'[u] = worker[u] \/ worker'[u] = "sent"
    BY <1>1, ScriptFacts
  <2> QED
    BY <1>1, <2>1, <2>2 DEF TaskSound
<1>5. FrameOwnersExact' /\ OwnersPushed' /\ ControlInv'
  BY <1>1 DEF TasksInv, FrameOwnersExact, OwnersPushed, ControlInv
<1> QED
  BY <1>2, <1>3, <1>4, <1>5, SoundTasksNext DEF TasksInv, SendsHitLiveHandle

\* A pushed frame is a free one: nothing is owned by it.
LEMMA PushFrameKeeps ==
    ASSUME TasksInv, PushFrame
    PROVE  TasksInv'
<1>1. PICK f \in Frames :
        /\ Script /\ ~frame[f].pushed
        /\ frame' = [frame EXCEPT ![f] = [pushed |-> TRUE, pending |-> 0, prev |-> Top]]
        /\ stack' = Append(stack, f)
        /\ UNCHANGED << task, worker, vm, waitingOn, awaiting, hit >>
  BY DEF PushFrame
<1>2. Top \in Frames /\ waitingOn = None /\ task \in [Tasks -> Task] /\ stack \in Seq(Frames) /\ stack # << >>
      /\ frame \in [Frames -> FrameRec]
  BY <1>1, ScriptFacts DEF Script, TasksInv, TypeOK, ControlInv
<1> DEFINE x == [pushed |-> TRUE, pending |-> 0, prev |-> Top]
<1>3. x \in FrameRec
  BY <1>2 DEF FrameRec
<1>4. /\ Len(stack') = Len(stack) + 1 /\ stack' \in Seq(Frames) /\ stack' # << >>
      /\ stack'[Len(stack) + 1] = f
      /\ \A i \in 1 .. Len(stack) : stack'[i] = stack[i]
      /\ Len(stack) \in Nat \ {0}
  BY <1>1, <1>2
<1> HIDE DEF x
<1>5. /\ frame' \in [Frames -> FrameRec] /\ frame'[f] = x
      /\ \A g \in Frames : g # f => frame'[g] = frame[g]
  BY <1>1, <1>2, <1>3 DEF x
<1>6. TypeOK'
  BY <1>1, <1>4, <1>5 DEF TasksInv, TypeOK
<1>7. \A t \in Tasks : task[t].owner # f
  BY <1>1, TasksAssumption DEF TasksInv, OwnersPushed, Frames
<1>8. Counted(task, frame')
  <2> SUFFICES ASSUME NEW g \in Frames PROVE frame'[g].pending = Cardinality(Owned(task, g))
    BY DEF Counted
  <2>1. CASE g = f
    <3>1. Owned(task, f) = {}
      BY <1>7 DEF Owned
    <3> QED
      BY <1>5, <2>1, <3>1, FS_EmptySet DEF x
  <2>2. CASE g # f
    BY <1>5, <2>2 DEF TasksInv, FrameOwnersExact, Owned
  <2> QED
    BY <2>1, <2>2
<1>9. ASSUME NEW t \in Tasks, task[t].owner # None
      PROVE  /\ task[t].st = "pending"
             /\ frame'[task[t].owner].pushed
             /\ frame'[task[t].owner].prev # None => \E i \in 1 .. Len(stack') : stack'[i] = task[t].owner
  <2> DEFINE g == task[t].owner
  <2>1. g \in Frames /\ frame'[g] = frame[g]
    BY <1>2, <1>5, <1>7, <1>9 DEF Task
  <2>2. task[t].st = "pending" /\ frame[g].pushed
    BY <1>9 DEF TasksInv, FrameOwnersExact, OwnersPushed
  <2>3. frame[g].prev # None => \E i \in 1 .. Len(stack) : stack[i] = g
    BY <1>9 DEF TasksInv, FrameOwnersExact
  <2>4. \A i \in 1 .. Len(stack) : i \in 1 .. Len(stack')
    BY <1>4
  <2> QED
    BY <1>4, <2>1, <2>2, <2>3, <2>4
<1>10. FrameOwnersExact' /\ OwnersPushed'
  BY <1>1, <1>8, <1>9 DEF FrameOwnersExact, OwnersPushed, Counted, Owned
<1>11. ControlInv'
  <2>1. stack'[1] = 1
    BY <1>2, <1>4 DEF TasksInv, ControlInv
  <2>2. \A i \in 1 .. Len(stack') : frame'[stack'[i]].pushed
    <3> SUFFICES ASSUME NEW i \in 1 .. Len(stack') PROVE frame'[stack'[i]].pushed
      OBVIOUS
    <3>1. CASE i = Len(stack) + 1
      BY <1>4, <1>5, <3>1 DEF x
    <3>2. CASE i # Len(stack) + 1
      <4>1. i \in 1 .. Len(stack) /\ stack'[i] = stack[i] /\ stack[i] \in Frames
        BY <1>2, <1>4, <3>2
      <4>2. frame[stack[i]].pushed
        BY <4>1 DEF TasksInv, ControlInv
      <4> QED
        BY <1>1, <1>5, <4>1, <4>2
    <3> QED
      BY <3>1, <3>2
  <2> QED
    BY <1>1, <1>2, <1>4, <2>1, <2>2 DEF ControlInv, Script
<1>12. AllSound'
  BY <1>1, SoundTasks DEF TasksInv, AllSound, TaskSound
<1> QED
  BY <1>1, <1>6, <1>10, <1>11, <1>12, SoundTasksNext DEF TasksInv, SendsHitLiveHandle

\* A popped frame that owns a task loses its caller, one that does not is owned by nobody.
LEMMA PopFrameKeeps ==
    ASSUME TasksInv, PopFrame
    PROVE  TasksInv'
<1> DEFINE n == Len(stack)
           q == IF frame[Top].pending > 0 THEN None ELSE frame[Top].prev
<1>1. /\ Script /\ n > 1
      /\ stack' = SubSeq(stack, 1, n - 1)
      /\ frame' = [frame EXCEPT ![Top].prev = q]
      /\ UNCHANGED << task, worker, vm, waitingOn, awaiting, hit >>
  BY DEF PopFrame
<1>2. Top \in Frames /\ waitingOn = None /\ task \in [Tasks -> Task] /\ stack \in Seq(Frames) /\ n \in Nat
      /\ frame \in [Frames -> FrameRec] /\ Top = stack[n]
  BY <1>1, ScriptFacts DEF Script, TasksInv, TypeOK, Top
<1>3. q \in Frames \cup {None}
  BY <1>2 DEF FrameRec
<1>4. /\ Len(stack') = n - 1 /\ stack' \in Seq(Frames) /\ stack' # << >>
      /\ \A i \in 1 .. n - 1 : stack'[i] = stack[i]
  <2>1. \A i \in 1 .. n - 1 : stack[i] \in Frames
    BY <1>2
  <2>2. /\ SubSeq(stack, 1, n - 1) \in Seq(Frames)
        /\ Len(SubSeq(stack, 1, n - 1)) = n - 1
        /\ \A i \in 1 .. n - 1 : SubSeq(stack, 1, n - 1)[i] = stack[i]
    BY <1>1, <1>2, <2>1, SubSeqProperties
  <2>3. Len(stack') = n - 1 /\ stack' \in Seq(Frames) /\ \A i \in 1 .. n - 1 : stack'[i] = stack[i]
    BY <1>1, <2>2
  <2>4. stack' # << >>
    <3>1. n - 1 > 0
      BY <1>1, <1>2
    <3> HIDE DEF n
    <3> QED
      BY <2>3, <3>1
  <2> QED
    BY <2>3, <2>4
<1> HIDE DEF q
<1>5. /\ frame' \in [Frames -> FrameRec]
      /\ \A g \in Frames : /\ frame'[g].pushed = frame[g].pushed /\ frame'[g].pending = frame[g].pending
                           /\ frame'[g].prev = IF g = Top THEN q ELSE frame[g].prev
  BY <1>1, <1>2, <1>3 DEF FrameRec
<1>6. TypeOK'
  BY <1>1, <1>4, <1>5 DEF TasksInv, TypeOK
<1>7. Counted(task, frame')
  BY <1>5 DEF TasksInv, FrameOwnersExact, Owned, Counted
<1>8. ASSUME NEW t \in Tasks, task[t].owner # None
      PROVE  /\ task[t].st = "pending"
             /\ frame'[task[t].owner].pushed
             /\ frame'[task[t].owner].prev # None => \E i \in 1 .. Len(stack') : stack'[i] = task[t].owner
  <2> DEFINE g == task[t].owner
  <2>1. g \in Frames
    BY <1>2, <1>8 DEF Task
  <2>2. task[t].st = "pending" /\ frame[g].pushed
    BY <1>8 DEF TasksInv, FrameOwnersExact, OwnersPushed
  <2>3. CASE g = Top
    <3>1. frame[g].pending = Cardinality(Owned(task, g)) /\ t \in Owned(task, g)
      BY <2>1 DEF TasksInv, FrameOwnersExact, Owned
    <3>2. IsFiniteSet(Owned(task, g))
      BY FS_Subset, TasksAssumption DEF Owned
    <3>3. frame[g].pending > 0
      BY <3>1, <3>2, FS_EmptySet, FS_CardinalityType
    <3>4. frame'[g].prev = None
      BY <1>5, <2>1, <2>3, <3>3 DEF q
    <3> QED
      BY <1>5, <2>1, <2>2, <3>4
  <2>4. CASE g # Top
    <3>1. frame'[g].prev = frame[g].prev
      BY <1>5, <2>1, <2>4
    <3>2. ASSUME frame[g].prev # None PROVE \E i \in 1 .. Len(stack') : stack'[i] = g
      <4>1. PICK i \in 1 .. n : stack[i] = g
        BY <1>8, <3>2 DEF TasksInv, FrameOwnersExact
      <4>2. i \in 1 .. n - 1
        BY <1>2, <2>4, <4>1
      <4> QED
        BY <1>4, <4>1, <4>2
    <3> QED
      BY <1>5, <2>1, <2>2, <3>1, <3>2
  <2> QED
    BY <2>3, <2>4
<1>9. FrameOwnersExact' /\ OwnersPushed'
  BY <1>1, <1>7, <1>8 DEF FrameOwnersExact, OwnersPushed, Counted, Owned
<1>10. ControlInv'
  <2>1. stack'[1] = 1
    BY <1>1, <1>2, <1>4 DEF TasksInv, ControlInv
  <2>2. \A i \in 1 .. Len(stack') : frame'[stack'[i]].pushed
    BY <1>1, <1>2, <1>4, <1>5 DEF TasksInv, ControlInv
  <2> QED
    BY <1>1, <1>2, <1>4, <2>1, <2>2 DEF ControlInv, Script
<1>11. AllSound'
  BY <1>1, SoundTasks DEF TasksInv, AllSound, TaskSound
<1> QED
  BY <1>1, <1>6, <1>9, <1>10, <1>11, SoundTasksNext DEF TasksInv, SendsHitLiveHandle

\* The end of the program halts every task that was not awaited, whose frames
\* count them down, and leaves no frame on the stack.
LEMMA EndRunKeeps ==
    ASSUME TasksInv, EndRun
    PROVE  /\ TasksInv'
           /\ \A t \in Operations : task'[t].st # task[t].st => task[t].st = "pending" /\ task'[t].st = "faulted"
<1> DEFINE halted == {t \in Tasks : World.task[t].forget /\ World.task[t].roots > 0}
           After(t) == IF t \in ScopeTasks THEN Halt(World, t) ELSE HaltTaskObject(World, t)
           freed(f) == {t \in halted : World.task[t].owner = f /\ After(t).task[t].owner = None}
           w == HaltFireAndForgetTasks(World)
<1>1. /\ Script /\ Len(stack) = 1
      /\ task' = w.task /\ frame' = [w.frame EXCEPT ![1].prev = None]
      /\ stack' = << >> /\ vm' = "ended"
      /\ UNCHANGED << worker, waitingOn, awaiting, hit >>
  BY DEF EndRun
<1>2. /\ w.task = [t \in Tasks |-> IF t \in halted THEN After(t).task[t] ELSE World.task[t]]
      /\ w.frame = [f \in Frames |-> [World.frame[f] EXCEPT !.pending = @ - Cardinality(freed(f))]]
  BY DEF HaltFireAndForgetTasks
<1>3. /\ World \in Worlds /\ World.task = task /\ World.frame = frame
      /\ task \in [Tasks -> Task] /\ frame \in [Frames -> FrameRec] /\ stack \in Seq(Frames)
      /\ waitingOn = None /\ 1 \in Frames
  BY <1>1, ScriptFacts, TasksAssumption DEF Script, TasksInv, TypeOK, Frames
<1> DEFINE y(t) == After(t).task[t]
\* What becomes of one task.
<1>4. ASSUME NEW t \in Tasks
      PROVE  \/ task'[t] = task[t] /\ (t \in halted => y(t) = task[t] /\ task[t].owner = None)
             \/ /\ t \in halted /\ task'[t] = y(t)
                /\ task'[t] \in Task /\ task'[t].st = "faulted" /\ task'[t].owner = None
                /\ task'[t].roots = Predecessor(task[t].roots) /\ task'[t].threw = task[t].threw
                /\ t \in ScopeTasks => task'[t].done
                /\ t \in ScopeTasks => task'[t].handle = IF task[t].handle = "open" THEN "closing" ELSE task[t].handle
  <2>1. task'[t] = IF t \in halted THEN y(t) ELSE task[t]
    BY <1>1, <1>2, <1>3
  <2>2. CASE t \notin halted
    BY <2>1, <2>2
  <2>3. CASE t \in halted /\ t \in ScopeTasks /\ task[t].done
    <3>1. y(t) = task[t]
      BY <1>3, <2>3, HaltFacts
    <3>2. task[t].owner = None
      BY <2>3, ScriptFacts DEF TaskSound
    <3> HIDE DEF y, halted
    <3> QED
      BY <2>1, <2>3, <3>1, <3>2
  <2>4. CASE t \in halted /\ t \in ScopeTasks /\ ~task[t].done
    <3>1. /\ y(t) \in Task /\ y(t).st = "faulted" /\ y(t).owner = None /\ y(t).done
          /\ y(t).roots = Predecessor(task[t].roots) /\ y(t).threw = task[t].threw
          /\ y(t).handle = IF task[t].handle = "open" THEN "closing" ELSE task[t].handle
      BY <1>3, <2>4, HaltFacts
    <3> HIDE DEF y, halted
    <3> QED
      BY <2>1, <2>4, <3>1
  <2>5. CASE t \in halted /\ t \notin ScopeTasks
    <3>1. /\ y(t) \in Task /\ y(t).st = "faulted" /\ y(t).owner = None
          /\ y(t).roots = Predecessor(task[t].roots) /\ y(t).threw = task[t].threw
      BY <1>3, <2>5, HaltFacts
    <3> HIDE DEF y, halted
    <3> QED
      BY <2>1, <2>5, <3>1
  <2> QED
    BY <2>2, <2>3, <2>4, <2>5
<1>d. \A t \in Operations : task[t].done => task'[t] = task[t]
  <2> SUFFICES ASSUME NEW t \in Operations, task[t].done PROVE task'[t] = task[t]
    OBVIOUS
  <2>1. t \in Tasks /\ t \in ScopeTasks
    BY DEF Operations, ScopeTasks, Tasks
  <2>2. y(t) = task[t]
    BY <1>3, <2>1, HaltFacts
  <2>3. task'[t] = IF t \in halted THEN y(t) ELSE task[t]
    BY <1>1, <1>2, <1>3, <2>1
  <2> HIDE DEF y
  <2> QED
    BY <2>2, <2>3
<1>5. task' \in [Tasks -> Task]
  <2>1. \A t \in Tasks : task'[t] \in Task
    BY <1>3, <1>4
  <2> QED
    BY <1>1, <1>2, <2>1
\* The frames count the halted tasks down.
<1>6. ASSUME NEW f \in Frames
      PROVE  /\ freed(f) \in SUBSET Owned(task, f)
             /\ Owned(task', f) = Owned(task, f) \ freed(f)
  <2>1. ASSUME NEW t \in Tasks PROVE t \in Owned(task', f) <=> t \in Owned(task, f) /\ t \notin freed(f)
    <3>1. f # None
      BY TasksAssumption DEF Frames
    <3>2. t \in freed(f) <=> t \in halted /\ task[t].owner = f /\ y(t).owner = None
      BY <1>3
    <3>3. t \notin halted => task'[t] = task[t]
      BY <1>1, <1>2, <1>3
    <3> HIDE DEF halted, y, freed
    <3> QED
      BY <1>4, <3>1, <3>2, <3>3 DEF Owned
  <2>2. freed(f) \in SUBSET Owned(task, f)
    BY <1>3 DEF Owned
  <2> HIDE DEF freed
  <2> QED
    BY <2>1, <2>2 DEF Owned
<1>7. \A f \in Frames : /\ Cardinality(Owned(task', f)) = frame[f].pending - Cardinality(freed(f))
                        /\ Cardinality(Owned(task', f)) \in Nat
  <2> SUFFICES ASSUME NEW f \in Frames
               PROVE  /\ Cardinality(Owned(task', f)) = frame[f].pending - Cardinality(freed(f))
                      /\ Cardinality(Owned(task', f)) \in Nat
    OBVIOUS
  <2>1. IsFiniteSet(Owned(task, f)) /\ frame[f].pending = Cardinality(Owned(task, f))
    BY FS_Subset, TasksAssumption DEF Owned, TasksInv, FrameOwnersExact
  <2>2. Owned(task, f) \cap freed(f) = freed(f) /\ Owned(task', f) = Owned(task, f) \ freed(f)
    BY <1>6
  <2> HIDE DEF freed
  <2>3. /\ IsFiniteSet(Owned(task', f))
        /\ Cardinality(Owned(task', f)) = Cardinality(Owned(task, f)) - Cardinality(freed(f))
    BY <2>1, <2>2, FS_Difference
  <2> QED
    BY <2>1, <2>3, FS_CardinalityType
<1>8. \A f \in Frames : /\ frame'[f] \in FrameRec
                        /\ frame'[f].pushed = frame[f].pushed
                        /\ frame'[f].pending = Cardinality(Owned(task', f))
                        /\ frame'[f].prev = IF f = 1 THEN None ELSE frame[f].prev
  <2> SUFFICES ASSUME NEW f \in Frames
               PROVE  /\ frame'[f] \in FrameRec
                      /\ frame'[f].pushed = frame[f].pushed
                      /\ frame'[f].pending = Cardinality(Owned(task', f))
                      /\ frame'[f].prev = IF f = 1 THEN None ELSE frame[f].prev
    OBVIOUS
  <2> DEFINE n == frame[f].pending - Cardinality(freed(f))
  <2>1. w.frame[f] = [frame[f] EXCEPT !.pending = n]
    BY <1>2, <1>3
  <2>2. n = Cardinality(Owned(task', f)) /\ n \in Nat
    BY <1>7
  <2>3. DOMAIN w.frame = Frames
    BY <1>2
  <2> HIDE DEF n, w
  <2>4. frame'[f] = IF f = 1 THEN [w.frame[f] EXCEPT !.prev = None] ELSE w.frame[f]
    BY <1>1, <2>3
  <2>5. /\ w.frame[f] \in FrameRec /\ w.frame[f].pending = n
        /\ w.frame[f].pushed = frame[f].pushed /\ w.frame[f].prev = frame[f].prev
    BY <1>3, <2>1, <2>2 DEF FrameRec
  <2> HIDE DEF freed
  <2> QED
    BY <2>2, <2>4, <2>5 DEF FrameRec
<1>9. frame' \in [Frames -> FrameRec]
  <2>1. frame' = [f \in Frames |-> frame'[f]]
    BY <1>1, <1>2
  <2> QED
    BY <1>8, <2>1
<1> HIDE DEF w, y, halted
<1>10. TypeOK'
  BY <1>1, <1>5, <1>9 DEF TasksInv, TypeOK
<1>11. ASSUME NEW t \in Tasks, task'[t].owner # None
       PROVE  /\ task'[t].st = "pending" /\ frame'[task'[t].owner].pushed
              /\ frame'[task'[t].owner].prev = None
  <2> DEFINE f == task[t].owner
  <2>1. task'[t] = task[t]
    BY <1>4, <1>11
  <2>2. f \in Frames /\ task[t].st = "pending" /\ frame[f].pushed
    BY <1>3, <1>11, <2>1 DEF TasksInv, FrameOwnersExact, OwnersPushed, Task
  <2>3. frame[f].prev # None => f = 1
    <3>1. frame[f].prev # None => \E i \in 1 .. Len(stack) : stack[i] = f
      BY <1>11, <2>1 DEF TasksInv, FrameOwnersExact
    <3>2. stack[1] = 1
      BY <1>1 DEF TasksInv, ControlInv, Script
    <3> QED
      BY <1>1, <3>1, <3>2
  <2> QED
    BY <1>8, <2>1, <2>2, <2>3
<1>12. FrameOwnersExact' /\ OwnersPushed'
  BY <1>8, <1>11 DEF FrameOwnersExact, OwnersPushed, Owned
<1>13. AllSound'
  <2> SUFFICES ASSUME NEW t \in Tasks PROVE TaskSound(t)'
    BY DEF AllSound
  <2>1. TaskSound(t) /\ vm = "script" /\ task[t] \in Task
    BY <1>1, <1>3, ScriptFacts DEF Script
  <2>2. CASE task'[t] = task[t]
    BY <1>1, <2>1, <2>2 DEF TaskSound
  <2>3. CASE task'[t] # task[t]
    <3>1. t \in ThreadTasks \cup Operations => t \in ScopeTasks
      BY DEF ScopeTasks, Operations
    <3>2. /\ task'[t].st = "faulted"
          /\ task'[t].roots = Predecessor(task[t].roots) /\ task'[t].threw = task[t].threw
          /\ t \in ScopeTasks => task'[t].done
          /\ t \in ScopeTasks => task'[t].handle = IF task[t].handle = "open" THEN "closing" ELSE task[t].handle
      BY <1>4, <2>3
    <3> QED
      BY <1>1, <2>1, <3>1, <3>2 DEF TaskSound, Predecessor, Outcomes
  <2> QED
    BY <2>2, <2>3
<1>14. ControlInv'
  BY <1>1, <1>3 DEF ControlInv
<1>15. ASSUME NEW t \in Operations, task'[t].st # task[t].st
       PROVE  task[t].st = "pending" /\ task'[t].st = "faulted"
  <2>0. t \in Tasks
    BY DEF Operations, ScopeTasks, Tasks
  <2>1. task'[t].st = "faulted" /\ t \in halted
    BY <1>4, <1>15, <2>0
  <2>2. task[t].roots > 0
    BY <1>3, <2>1 DEF halted
  <2>3. TaskSound(t)
    BY <2>0, ScriptFacts
  <2>4. task[t].st \in Outcomes => FALSE
    <3>1. task[t].st \in Outcomes => task[t].done
      BY <2>3 DEF TaskSound
    <3>2. task[t].done => task'[t] = task[t]
      BY <1>3, <1>d, <2>0, <2>1
    <3> QED
      BY <1>15, <3>1, <3>2
  <2> QED
    BY <2>1, <2>2, <2>3, <2>4 DEF TaskSound
<1> QED
  BY <1>1, <1>10, <1>12, <1>13, <1>14, <1>15, SoundTasksNext DEF TasksInv, SendsHitLiveHandle

-----------------------------------------------------------------------------
(* The invariant                                                           *)

\* No task exists yet; the frame of the entry point is on the stack.
LEMMA InitTasksInv == Init => TasksInv
<1> SUFFICES ASSUME Init PROVE TasksInv
  OBVIOUS
<1>1. NoTask \in Task
  BY DEF NoTask, Task
<1>2. 1 \in Frames /\ None \notin Frames
  BY TasksAssumption DEF Frames
<1>3. /\ task \in [Tasks -> Task] /\ \A t \in Tasks : task[t] = NoTask
      /\ worker \in [ThreadTasks -> {"none", "working", "sent"}] /\ \A t \in ThreadTasks : worker[t] = "none"
  BY <1>1 DEF Init
<1>4. /\ frame \in [Frames -> FrameRec]
      /\ \A f \in Frames : frame[f].pending = 0 /\ (frame[f].pushed <=> f = 1) /\ frame[f].prev = None
  BY <1>2 DEF Init, FrameRec
<1>5. stack = << 1 >> /\ stack \in Seq(Frames) /\ Len(stack) = 1 /\ stack[1] = 1
  BY <1>2 DEF Init
<1>6. TypeOK
  BY <1>3, <1>4, <1>5 DEF Init, TypeOK
<1>7. FrameOwnersExact /\ OwnersPushed
  <2>1. \A t \in Tasks : task[t].owner = None
    BY <1>3 DEF NoTask
  <2>2. \A f \in Frames : {t \in Tasks : task[t].owner = f} = {}
    BY <1>2, <2>1
  <2> QED
    BY <1>4, <2>1, <2>2, FS_EmptySet DEF FrameOwnersExact, OwnersPushed
<1>8. ControlInv
  BY <1>4, <1>5, <1>2 DEF Init, ControlInv
<1>9. AllSound
  BY <1>3 DEF AllSound, TaskSound, NoTask, Tasks, Outcomes
<1> QED
  BY <1>6, <1>7, <1>8, <1>9, SoundTasks DEF Init, TasksInv, SendsHitLiveHandle

\* Every step keeps the invariant.
LEMMA NextTasksInv == TasksInv /\ [Next]_vars => TasksInv'
<1> SUFFICES ASSUME TasksInv, [Next]_vars PROVE TasksInv'
  OBVIOUS
<1>1. CASE UNCHANGED vars
  BY <1>1 DEF vars, TasksInv, TypeOK, RootedWhilePending, FrameOwnersExact, PendingHasSource, SendsHitLiveHandle,
              ControlInv, OwnersPushed, ThreadsInv, OpenPending, SettledDone, Outcomes
<1>2. CASE \E t \in TimerTasks, now \in BOOLEAN : Delay(t, now)
  BY <1>2, DelayKeeps
<1>3. CASE \E t \in ThreadTasks : RunOnThreadPool(t)
  BY <1>3, RunOnThreadPoolKeeps
<1>4. CASE \E t \in ScriptTasks : InternalRoot(t)
  BY <1>4, InternalRootKeeps
<1>5. CASE \E t \in ScriptSettled, s \in {"completed", "faulted"} : SetResult(t, s)
  BY <1>5, SetResultKeeps
<1>6. CASE \E t \in Tasks, k \in Continuations : OnCompleted(t, k)
  BY <1>6, OnCompletedKeeps
<1>7. CASE \E t \in Tasks : GetAwaiter(t)
  BY <1>7, GetAwaiterKeeps
<1>8. CASE \E t \in Tasks : Shoot(t)
  BY <1>8, ShootKeeps
<1>9. CASE (\E t \in Tasks : Wait(t)) \/ WaitReturns
  BY <1>9, WaitKeeps
<1>10. CASE PushFrame
  BY <1>10, PushFrameKeeps
<1>11. CASE PopFrame
  BY <1>11, PopFrameKeeps
<1>12. CASE EndRun
  BY <1>12, EndRunKeeps
<1>13. CASE \E t \in TimerTasks : TimerFires(t)
  BY <1>13, TimerFiresKeeps
<1>14. CASE \E t \in ThreadTasks, s \in {"completed", "faulted"} : AsyncFires(t, s)
  BY <1>14, AsyncFiresKeeps
<1>15. CASE \E t \in ScopeTasks : CloseCallback(t)
  BY <1>15, CloseCallbackKeeps
<1>16. CASE \E t \in ThreadTasks : WorkerSends(t)
  BY <1>16, WorkerSendsKeeps
<1> QED
  BY <1>1, <1>2, <1>3, <1>4, <1>5, <1>6, <1>7, <1>8, <1>9, <1>10, <1>11, <1>12, <1>13, <1>14, <1>15, <1>16 DEF Next

\* The invariant holds in every behaviour.
THEOREM TasksInvariant == Spec => []TasksInv
BY InitTasksInv, NextTasksInv, PTL DEF Spec

\* The objects of the async runtime keep their types.
THEOREM TasksTypeCorrect == Spec => []TypeOK
<1>1. TasksInv => TypeOK
  BY DEF TasksInv
<1> QED
  BY <1>1, TasksInvariant, PTL

\* m_rootedTasks keeps each task exactly as long as it is pending.
THEOREM TasksRooted == Spec => []RootedWhilePending
<1>1. TasksInv => RootedWhilePending
  BY DEF TasksInv
<1> QED
  BY <1>1, TasksInvariant, PTL

\* PendingTaskCount is the number of tasks a frame owns, all of them pending.
THEOREM OwnersCounted == Spec => []FrameOwnersExact
<1>1. TasksInv => FrameOwnersExact
  BY DEF TasksInv
<1> QED
  BY <1>1, TasksInvariant, PTL

\* A pending native operation has a timer, or a thread, that will settle it.
THEOREM PendingSourced == Spec => []PendingHasSource
<1>1. TasksInv => PendingHasSource
  BY DEF TasksInv
<1> QED
  BY <1>1, TasksInvariant, PTL

\* No thread sends to a handle that libuv has deleted.
THEOREM HandlesLive == Spec => []SendsHitLiveHandle
<1>1. TasksInv => SendsHitLiveHandle
  BY DEF TasksInv
<1> QED
  BY <1>1, TasksInvariant, PTL

-----------------------------------------------------------------------------
(* The native operations are promises                                      *)

\* What Promise sees.
Outcome == [t \in Operations |-> task[t].st]
Awaited == IF waitingOn \in Operations THEN waitingOn ELSE None

\* Operations are native tasks, and None is not one.
LEMMA OperationsFacts == Operations \subseteq Tasks /\ Operations \subseteq ScopeTasks /\ None \notin Operations
BY TasksAssumption DEF Operations, ScopeTasks, Tasks

\* A step that settles no operation and waits for the same one is a stutter.
LEMMA Stutters ==
    ASSUME \A t \in Operations : task'[t].st = task[t].st, waitingOn' = waitingOn
    PROVE  UNCHANGED << Outcome, Awaited >>
BY DEF Outcome, Awaited

\* A step about one task whose state changes to s, seen from Promise.
LEMMA MovesOutcome ==
    ASSUME NEW t \in Tasks, NEW s, Moves(t, {s})
    PROVE  /\ t \in Operations => Outcome' = [Outcome EXCEPT ![t] = s]
           /\ t \notin Operations => Outcome' = Outcome
           /\ s = task[t].st => \A u \in Operations : task'[u].st = task[u].st
<1>1. \A u \in Operations : u \in Tasks
  BY OperationsFacts
<1>2. \A u \in Operations : task'[u].st = IF u = t THEN s ELSE task[u].st
  BY <1>1 DEF Moves
<1> QED
  BY <1>2 DEF Outcome

\* The operation that a timer or a thread completes settles, and the wait goes on
\* or is interrupted.
LEMMA SettleMaps ==
    ASSUME NEW t \in Operations, NEW s \in {"completed", "faulted"}, Moves(t, {s}),
           task[t].st = "pending", waitingOn' \in {waitingOn, None}
    PROVE  Abstract!Settle(t, s)
<1>1. t \in Tasks /\ None \notin Operations
  BY OperationsFacts
<1>2. Outcome' = [Outcome EXCEPT ![t] = s] /\ Outcome[t] = "pending"
  BY <1>1, MovesOutcome DEF Outcome
<1>3. Awaited' \in {Awaited, None}
  BY <1>1 DEF Awaited
<1> QED
  BY <1>2, <1>3 DEF Abstract!Settle, Outcome, Awaited

\* An operation that starts, when the script does not wait.
LEMMA StartMaps ==
    ASSUME NEW t \in Operations, NEW s \in {"pending", "completed"}, Moves(t, {s}),
           task[t].st = "none", waitingOn = None, waitingOn' = waitingOn
    PROVE  Abstract!Start(t, s)
<1>1. t \in Tasks /\ None \notin Operations
  BY OperationsFacts
<1>2. Outcome' = [Outcome EXCEPT ![t] = s] /\ Outcome[t] = "none"
  BY <1>1, MovesOutcome DEF Outcome
<1>3. Awaited = None /\ Awaited' = Awaited
  BY <1>1 DEF Awaited
<1> QED
  BY <1>2, <1>3 DEF Abstract!Start, Outcome, Awaited

\* Each step is a step of Promise or a stutter.
LEMMA NextMaps ==
    ASSUME TasksInv, [Next]_vars, ScriptSettled \cap ScopeTasks = {}
    PROVE  [Abstract!Next]_<< Outcome, Awaited >>
<1> DEFINE Goal == [Abstract!Next]_<< Outcome, Awaited >>
<1>0. /\ Operations = ScopeTasks /\ Operations \subseteq Tasks /\ None \notin Operations
      /\ TimerTasks \subseteq Operations /\ ThreadTasks \subseteq Operations
  BY OperationsFacts DEF Operations, ScopeTasks
<1>s. (\A t \in Operations : task'[t].st = task[t].st) /\ waitingOn' = waitingOn => Goal
  BY Stutters
<1>m. ASSUME NEW t \in Tasks, Moves(t, {task[t].st}), waitingOn' = waitingOn PROVE Goal
  BY <1>m, <1>s, MovesOutcome
<1>1. CASE UNCHANGED vars
  BY <1>1, <1>s DEF vars
<1>2. ASSUME NEW t \in TimerTasks, NEW now \in BOOLEAN, Delay(t, now) PROVE Goal
  <2>1. PICK s \in {"pending", "completed"} : Moves(t, {s})
    BY <1>2, DelayKeeps DEF Moves
  <2>2. Abstract!Start(t, s)
    BY <1>0, <1>2, <2>1, ScriptFacts, StartMaps DEF Delay, Script
  <2> QED
    BY <1>0, <2>2 DEF Abstract!Next
<1>3. ASSUME NEW t \in ThreadTasks, RunOnThreadPool(t) PROVE Goal
  <2>1. Abstract!Start(t, "pending")
    BY <1>0, <1>3, RunOnThreadPoolKeeps, ScriptFacts, StartMaps DEF RunOnThreadPool, Script
  <2> QED
    BY <1>0, <2>1 DEF Abstract!Next
<1>4. ASSUME NEW t \in ScriptTasks, InternalRoot(t) PROVE Goal
  <2>1. t \in Tasks /\ t \notin Operations /\ Moves(t, {"pending"}) /\ waitingOn' = waitingOn
    BY <1>0, <1>4, InternalRootKeeps, TasksAssumption DEF InternalRoot, Tasks
  <2> QED
    BY <2>1, MovesOutcome DEF Awaited
<1>5. ASSUME NEW t \in ScriptSettled, NEW s \in {"completed", "faulted"}, SetResult(t, s) PROVE Goal
  <2>1. t \in Tasks /\ t \notin Operations /\ Moves(t, {s}) /\ waitingOn' = waitingOn
    BY <1>0, <1>5, SetResultKeeps, TasksAssumption DEF SetResult
  <2> QED
    BY <2>1, MovesOutcome DEF Awaited
<1>6. ASSUME NEW t \in Tasks, NEW k \in Continuations, OnCompleted(t, k) PROVE Goal
  BY <1>6, <1>m, OnCompletedKeeps DEF OnCompleted
<1>7. ASSUME NEW t \in Tasks, GetAwaiter(t) PROVE Goal
  BY <1>7, <1>m, GetAwaiterKeeps DEF GetAwaiter
<1>8. ASSUME NEW t \in Tasks, Shoot(t) PROVE Goal
  BY <1>8, <1>m, ShootKeeps DEF Shoot
<1>9. ASSUME NEW t \in Tasks, Wait(t) PROVE Goal
  <2>1. waitingOn = None /\ task' = task /\ waitingOn' = t /\ task[t].st # "none"
    BY <1>9, ScriptFacts DEF Wait, Script
  <2>2. Outcome' = Outcome /\ Awaited = None
    BY <1>0, <2>1 DEF Outcome, Awaited
  <2>3. CASE t \in Operations
    <3>1. Awaited' = t /\ Outcome[t] # "none"
      BY <2>1, <2>3 DEF Outcome, Awaited
    <3>2. Abstract!Wait(t)
      BY <2>2, <3>1 DEF Abstract!Wait, Outcome, Awaited
    <3> QED
      BY <2>3, <3>2 DEF Abstract!Next
  <2>4. CASE t \notin Operations
    BY <2>1, <2>2, <2>4 DEF Awaited
  <2> QED
    BY <2>3, <2>4
<1>10. CASE WaitReturns
  <2>1. task[waitingOn].st # "pending" /\ task' = task /\ waitingOn' = None
    BY <1>10 DEF WaitReturns
  <2>2. Outcome' = Outcome /\ Awaited' = None
    BY <1>0, <2>1 DEF Outcome, Awaited
  <2>3. CASE waitingOn \in Operations
    <3>1. Awaited = waitingOn /\ Awaited # None /\ Outcome[Awaited] # "pending"
      BY <1>0, <2>1, <2>3 DEF Outcome, Awaited
    <3>2. Abstract!Return
      BY <2>2, <3>1 DEF Abstract!Return, Outcome, Awaited
    <3> QED
      BY <3>2 DEF Abstract!Next
  <2>4. CASE waitingOn \notin Operations
    BY <2>2, <2>4 DEF Awaited
  <2> QED
    BY <2>3, <2>4
<1>11. CASE PushFrame \/ PopFrame
  BY <1>11, <1>s DEF PushFrame, PopFrame
<1>12. CASE EndRun
  <2> DEFINE gone == {t \in Operations : task'[t].st # task[t].st}
  <2>1. waitingOn = None /\ waitingOn' = waitingOn
    BY <1>12, ScriptFacts DEF EndRun, Script
  <2>2. \A t \in gone : task[t].st = "pending" /\ task'[t].st = "faulted"
    BY <1>12, EndRunKeeps
  <2>3. gone \in SUBSET {t \in Operations : Outcome[t] = "pending"}
    BY <2>2 DEF Outcome
  <2>4. Outcome' = [t \in Operations |-> IF t \in gone THEN "faulted" ELSE Outcome[t]]
    BY <2>2 DEF Outcome
  <2>5. Awaited = None /\ Awaited' = Awaited
    BY <1>0, <2>1 DEF Awaited
  <2> HIDE DEF gone
  <2>6. Abstract!GiveUp
    BY <2>3, <2>4, <2>5 DEF Abstract!GiveUp, Outcome, Awaited
  <2> QED
    BY <2>6 DEF Abstract!Next
<1>13. ASSUME NEW t \in TimerTasks, TimerFires(t) PROVE Goal
  <2>1. t \in Operations /\ task[t].st = "pending"
    BY <1>0, <1>13 DEF TimerFires, TasksInv, OpenPending
  <2>2. waitingOn' \in {waitingOn, None}
    BY <1>13 DEF TimerFires, Callback
  <2>3. Abstract!Settle(t, "completed")
    BY <1>13, <2>1, <2>2, TimerFiresKeeps, SettleMaps
  <2> QED
    BY <2>1, <2>3 DEF Abstract!Next
<1>14. ASSUME NEW t \in ThreadTasks, NEW s \in {"completed", "faulted"}, AsyncFires(t, s) PROVE Goal
  <2>1. t \in Operations /\ t \in Tasks /\ task[t].handle = "open"
    BY <1>0, <1>14 DEF AsyncFires
  <2>2. CASE task[t].done
    BY <1>14, <1>m, <2>1, <2>2, AsyncFiresKeeps
  <2>3. CASE ~task[t].done
    <3>1. task[t].st = "pending" /\ waitingOn' \in {waitingOn, None}
      BY <1>14, <2>1, <2>3 DEF AsyncFires, Callback, TasksInv, OpenPending
    <3>2. Abstract!Settle(t, s)
      BY <1>14, <2>1, <2>3, <3>1, AsyncFiresKeeps, SettleMaps
    <3> QED
      BY <2>1, <3>2 DEF Abstract!Next
  <2> QED
    BY <2>2, <2>3
<1>15. ASSUME NEW t \in ScopeTasks, CloseCallback(t) PROVE Goal
  BY <1>0, <1>15, <1>m, CloseCallbackKeeps DEF CloseCallback
<1>16. ASSUME NEW t \in ThreadTasks, WorkerSends(t) PROVE Goal
  BY <1>16, <1>s DEF WorkerSends
<1> QED
  BY <1>1, <1>2, <1>3, <1>4, <1>5, <1>6, <1>7, <1>8, <1>9, <1>10, <1>11, <1>12, <1>13, <1>14, <1>15, <1>16 DEF Next

\* No operation has started and the script does not wait.
LEMMA InitMaps == Init => Abstract!Init
<1> SUFFICES ASSUME Init PROVE Abstract!Init
  OBVIOUS
<1>1. Outcome = [t \in Operations |-> "none"] /\ Awaited = None
  BY OperationsFacts DEF Init, Outcome, Awaited, NoTask
<1> QED
  BY <1>1 DEF Abstract!Init, Outcome, Awaited

\* In a program whose scripts do not settle native tasks themselves, the native
\* operations are promises: each settles once, with one outcome, and Task.Wait on
\* one returns when it has settled or is interrupted by a settling.
THEOREM ScopesImplementPromises ==
    ASSUME ScriptSettled \cap ScopeTasks = {}
    PROVE  Spec => ScopesArePromises
<1>1. TasksInv /\ [Next]_vars => [Abstract!Next]_<< Outcome, Awaited >>
  BY NextMaps
<1>2. TasksInv /\ [Next]_vars => [Abstract!Next]_<< [t \in Operations |-> task[t].st],
                                     IF waitingOn \in Operations THEN waitingOn ELSE None >>
  BY <1>1 DEF Outcome, Awaited
<1> QED
  BY <1>2, InitMaps, TasksInvariant, PTL DEF Spec, ScopesArePromises, Abstract!Spec
=============================================================================
