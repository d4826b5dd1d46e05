--------------------------------- MODULE Heap ---------------------------------
(***************************************************************************)
(* Reference counting by hand: GarbageCollector, ObjectInstance and the    *)
(* data instructions of VirtualMachine::ProcessCode on heap objects.       *)
(*                                                                         *)
(* A place is a slot that owns a count of what it refers to: a local of a  *)
(* frame, the reference field (or element) of an object, a static field,   *)
(* CurrentException of a frame.  An entry of an eval stack and the table   *)
(* of interned strings borrow: they refer to an object and own nothing.    *)
(* Some instructions give a count to nobody, or let a borrowed reference   *)
(* become a place without giving it one; "spare" keeps the account, and is *)
(* negative for an object that something owns without a count.             *)
(*                                                                         *)
(* What a method does besides is FrameMachine; C++ exceptions are          *)
(* CallStack.  Values stored inline (numbers, structures) are left out.    *)
(***************************************************************************)
EXTENDS Integers, FiniteSets, SequencesExt

CONSTANTS
    MaxObjects,   \* objects allocated in a behaviour
    MaxLocal,     \* the last local slot of a frame; the arguments are first
    Statics,      \* static fields
    Literals,     \* string literals
    MaxFrames,    \* depth of the call stack
    MaxEval,      \* entries of an eval stack
    MaxSteps      \* instructions executed in a behaviour

ASSUME HeapAssumption ==
    /\ MaxObjects \in Nat /\ MaxFrames \in Nat \ {0} /\ MaxEval \in Nat
    /\ MaxSteps \in Nat
    /\ MaxLocal \in Nat \ {0}
    /\ IsFiniteSet(Statics) /\ IsFiniteSet(Literals)

VARIABLES
    heap,     \* the cells, the places, and the account of the counts
    frames,   \* CallStack: the eval stack and the state of each frame
    interned, \* internedStrings: literal -> object
    steps     \* instructions executed

vars == << heap, frames, interned, steps >>

Objects == 1 .. MaxObjects
Locals  == 0 .. MaxLocal
Null    == 0     \* a null pointer with a type shape
NoShape == -1    \* ObjectInstance(): null without a shape, a null literal

Value == Objects \cup {Null}
Entry == Value \cup {NoShape}

LocalP(f, i) == << "local", f, i >>
ExcP(f)      == << "exc", f, 0 >>
FieldP(o)    == << "field", o, 0 >>
StaticP(s)   == << "static", s, 0 >>

Places == {LocalP(f, i) : f \in 1 .. MaxFrames, i \in Locals}
          \cup {ExcP(f) : f \in 1 .. MaxFrames}
          \cup {FieldP(o) : o \in Objects}
          \cup {StaticP(s) : s \in Statics}

Kinds == { "object", "array" }

\* fault: what undefined behaviour ended the program, "none" while it runs.
Heap == [ st    : [Objects -> {"unused", "live", "freed"}],
          kind  : [Objects -> Kinds],
          count : [Objects -> Nat],
          own   : [Places -> Entry],
          spare : [Objects -> Int],
          short : SUBSET Objects,
          fault : {"none", "use_after_free", "null_shape"} ]

\* ctor: the object whose constructor the frame runs, Null for a method.
Frame == [ eval : Seq(Entry), raised : BOOLEAN, ctor : Value ]

NoFrame == [eval |-> << >>, raised |-> FALSE, ctor |-> Null]

Init ==
    /\ heap = [ st    |-> [o \in Objects |-> "unused"],
                kind  |-> [o \in Objects |-> "object"],
                count |-> [o \in Objects |-> 0],
                own   |-> [p \in Places |-> Null],
                spare |-> [o \in Objects |-> 0],
                short |-> {},
                fault |-> "none" ]
    /\ frames = << NoFrame >>
    /\ interned = [l \in Literals |-> Null]
    /\ steps = 0

-----------------------------------------------------------------------------
(* Counters                                                                *)

IsObject(v) == v \in Objects

\* A header that is read or written after FreeBytes.
Touch(h, v) == IF IsObject(v) /\ h.st[v] = "freed" THEN [h EXCEPT !.fault = "use_after_free"] ELSE h

\* The account: n more counts of v that no place owns.
Account(h, v, n) == IF IsObject(v) THEN [h EXCEPT !.spare[v] = @ + n] ELSE h

\* A count of v is used by something that was not given one.  "short" are the
\* objects for which none was to spare.
Overdraw(h, v) ==
    IF IsObject(v) /\ h.spare[v] <= 0
    THEN [Account(h, v, -1) EXCEPT !.short = @ \cup {v}] ELSE Account(h, v, -1)

\* The same for a count that is taken away; from an object that nothing counts
\* there is none to take.
Take(h, v) == IF IsObject(v) /\ h.count[v] = 0 THEN Account(h, v, -1) ELSE Overdraw(h, v)

IncrementReference(h, v) ==
    IF ~IsObject(v) THEN h ELSE [Touch(h, v) EXCEPT !.count[v] = @ + 1]

\* The counter does not go below zero.
DecrementReference(h, v) ==
    IF ~IsObject(v) THEN h
    ELSE IF h.count[v] > 0 THEN [Touch(h, v) EXCEPT !.count[v] = @ - 1]
    ELSE Account(Touch(h, v), v, 1)

\* One call of DestroyInstance and TerminateInstance: "next" is the reference to
\* be released (Null: none), "dying" the objects with Terminated set.  The
\* element of an array is read without a shape, and TerminateInstance of it
\* reads the type of that.
ReleaseNext(w) ==
    LET v == w.next
        h == DecrementReference(w.h, v)
    IN  IF ~IsObject(v) \/ v \in w.dying THEN w
        ELSE IF h.fault # "none" \/ h.count[v] > 0 THEN [w EXCEPT !.h = h, !.next = Null]
        ELSE IF w.noShape THEN [w EXCEPT !.h = [h EXCEPT !.fault = "null_shape"], !.next = Null]
        ELSE [ h |-> [h EXCEPT !.own[FieldP(v)] = Null], next |-> h.own[FieldP(v)],
               dying |-> w.dying \cup {v}, noShape |-> h.kind[v] = "array" ]

\* Every call but the last has one more object dying.
Released(w) ==
    LET after[n \in Nat] == IF n = 0 THEN w ELSE ReleaseNext(after[n - 1])
    IN  after[MaxObjects + 1]

Freed(h, dying) == [h EXCEPT !.st = [o \in Objects |-> IF o \in dying THEN "freed" ELSE @[o]]]

DestroyInstance(h, v) ==
    LET w == Released([h |-> h, next |-> v, dying |-> {}, noShape |-> FALSE])
    IN  Freed(w.h, w.dying)

TerminateInstance(h, v) ==
    LET w == Released([h |-> [h EXCEPT !.own[FieldP(v)] = Null], next |-> h.own[FieldP(v)],
                       dying |-> {v}, noShape |-> h.kind[v] = "array"])
    IN  Freed(w.h, w.dying)

\* Frees what nobody counts, takes no count away.
CollectInstance(h, v) ==
    IF ~IsObject(v) THEN h
    ELSE LET t == Touch(h, v)
         IN  IF t.fault # "none" \/ t.count[v] > 0 THEN t ELSE TerminateInstance(t, v)

\* The type of the value is read first.
DiscardValue(h, v) ==
    IF v = NoShape THEN [h EXCEPT !.fault = "null_shape"] ELSE CollectInstance(h, v)
ReleaseValue(h, v) ==
    IF v = NoShape THEN [h EXCEPT !.fault = "null_shape"] ELSE DestroyInstance(h, v)

Write(h, p, v) == [h EXCEPT !.own[p] = v]

AllocateInstance(h, kind) ==
    LET o == Min({x \in Objects : h.st[x] = "unused"})
    IN  [o |-> o, h |-> [h EXCEPT !.st[o] = "live", !.kind[o] = kind]]

CanAllocate == \E o \in Objects : heap.st[o] = "unused"

-----------------------------------------------------------------------------
(* Places                                                                  *)

\* Mutant: a store that does not count the new value.
SetLocalUncounted(h, p, v) == Write(DestroyInstance(h, h.own[p]), p, IF v = NoShape THEN Null ELSE v)

\* CallStackFrame::SetLocal: the old value is destroyed, then the new one
\* counted and stored.
SetLocal(h, p, v) ==
    LET released == DestroyInstance(h, h.own[p])
    IN  Write(IncrementReference(released, v), p, IF v = NoShape THEN Null ELSE v)

\* Mutant: the old value of a field keeps its count.
SetFieldKeepsOld(h, o, v) ==
    Write(IncrementReference(h, v), FieldP(o), IF v = NoShape THEN Null ELSE v)

\* ObjectInstance::SetField and SetElement: the old value loses a count and
\* stays, even when it was the last one.
SetField(h, o, v) ==
    Write(IncrementReference(DecrementReference(h, h.own[FieldP(o)]), v), FieldP(o),
          IF v = NoShape THEN Null ELSE v)

\* GarbageCollector::SetStaticField: CopyInstance of an object counts it, and
\* it is counted again.
SetStaticField(h, s, v) ==
    LET released == DestroyInstance(h, h.own[StaticP(s)])
        copied   == IncrementReference(IncrementReference(released, v), v)
    IN  Write(Account(copied, v, 1), StaticP(s), v)

\* CurrentException is overwritten; what it referred to keeps its count.
SetException(h, f, v) == Write(Account(h, h.own[ExcP(f)], 1), ExcP(f), v)

\* DrainEvalReferences: every entry, from the top, is released as if it owned a
\* count.
DrainEval(h, eval) ==
    LET after[n \in 0 .. Len(eval)] ==
            IF n = 0 THEN h
            ELSE LET g == after[n - 1]
                     v == eval[Len(eval) + 1 - n]
                 IN  IF g.fault # "none" THEN g ELSE ReleaseValue(Take(g, v), v)
    IN  after[Len(eval)]

\* DrainLocalReferences.  The frame is given up, its slots with it.
DrainLocals(h, f) ==
    LET after[n \in 0 .. MaxLocal + 1] ==
            IF n = 0 THEN h
            ELSE LET g == after[n - 1]
                     p == LocalP(f, n - 1)
                 IN  IF g.fault # "none" THEN g ELSE DestroyInstance(Write(g, p, Null), g.own[p])
    IN  after[MaxLocal + 1]

-----------------------------------------------------------------------------
(* Instructions                                                            *)

Depth   == Len(frames)
Top     == frames[Depth]
Eval    == Top.eval
Running == heap.fault = "none" /\ Depth > 0 /\ ~Top.raised

\* PopStack of k entries; Arg(1) is the last one pushed.
Arg(k) == Eval[Len(Eval) + 1 - k]

\* k entries are replaced by the sequence "pushed"; "h" is the heap after.
Step(h, k, pushed) ==
    /\ Running
    /\ Len(Eval) >= k /\ Len(Eval) - k + Len(pushed) <= MaxEval
    /\ heap' = h
    /\ frames' = [frames EXCEPT ![Depth].eval = SubSeq(@, 1, Len(@) - k) \o pushed]

LoadConstNull == Step(heap, 0, << NoShape >>) /\ UNCHANGED interned

\* InternString: the table refers to the string and owns nothing.
LoadConstString(l) ==
    \/ /\ interned[l] # Null
       /\ Step(heap, 0, << interned[l] >>)
       /\ UNCHANGED interned
    \/ /\ interned[l] = Null /\ CanAllocate
       /\ LET a == AllocateInstance(heap, "object")
          IN  Step(a.h, 0, << a.o >>) /\ interned' = [interned EXCEPT ![l] = a.o]

LoadLocal(i)  == Step(heap, 0, << heap.own[LocalP(Depth, i)] >>) /\ UNCHANGED interned
StoreLocal(i) == /\ Eval # << >>
                 /\ Step(SetLocal(heap, LocalP(Depth, i), Arg(1)), 1, << >>)
                 /\ UNCHANGED interned

\* POP, and the discard of the operand of every test.
Pop == Eval # << >> /\ Step(DiscardValue(heap, Arg(1)), 1, << >>) /\ UNCHANGED interned
Dup == Eval # << >> /\ Step(heap, 0, << Arg(1) >>) /\ UNCHANGED interned

\* VerifyInstanceNotNull throws a C++ exception otherwise.
LoadField ==
    /\ Eval # << >> /\ IsObject(Arg(1))
    /\ heap.kind[Arg(1)] = "object"
    /\ LET touched == Touch(heap, Arg(1))
       IN  Step(DiscardValue(touched, Arg(1)), 1, << heap.own[FieldP(Arg(1))] >>)
    /\ UNCHANGED interned

StoreField ==
    /\ Len(Eval) >= 2 /\ IsObject(Arg(2))
    /\ heap.kind[Arg(2)] = "object"
    /\ LET stored == SetField(Touch(heap, Arg(2)), Arg(2), Arg(1))
           first  == DiscardValue(stored, Arg(1))
       IN  Step(IF first.fault # "none" THEN first ELSE DiscardValue(first, Arg(2)), 2, << >>)
    /\ UNCHANGED interned

LoadStaticField(s)  == Step(heap, 0, << heap.own[StaticP(s)] >>) /\ UNCHANGED interned

\* SetStaticField throws on null.
StoreStaticField(s) ==
    /\ Eval # << >> /\ IsObject(Arg(1))
    /\ LET stored == SetStaticField(heap, s, Arg(1))
       IN  Step(IF stored.fault # "none" THEN stored ELSE CollectInstance(stored, Arg(1)), 1, << >>)
    /\ UNCHANGED interned

\* NEWARRAY of one element.
NewArray ==
    /\ Eval # << >> /\ CanAllocate
    /\ LET a == AllocateInstance(heap, "array")
           h == SetField(a.h, a.o, Arg(1))
       IN  Step(DiscardValue(h, Arg(1)), 1, << a.o >>)
    /\ UNCHANGED interned

\* GetElement without a frame returns an instance without a shape, whose type
\* LOADARRAYELEMENT reads.
LoadArrayElement ==
    /\ Eval # << >> /\ IsObject(Arg(1)) /\ heap.kind[Arg(1)] = "array"
    /\ Step([heap EXCEPT !.fault = "null_shape"], 1, << >>)
    /\ UNCHANGED interned

\* The array is popped and not discarded.
StoreArrayElement ==
    /\ Len(Eval) >= 2 /\ IsObject(Arg(2)) /\ heap.kind[Arg(2)] = "array"
    /\ Step(DiscardValue(SetField(Touch(heap, Arg(2)), Arg(2), Arg(1)), Arg(1)), 2, << >>)
    /\ UNCHANGED interned

ArrayLength ==
    /\ Eval # << >> /\ IsObject(Arg(1)) /\ heap.kind[Arg(1)] = "array"
    /\ Step(CollectInstance(Touch(heap, Arg(1)), Arg(1)), 1, << >>)
    /\ UNCHANGED interned

-----------------------------------------------------------------------------
(* Calls                                                                   *)

CanCall == Running /\ Depth < MaxFrames /\ Eval # << >>

\* CALLMETHODSYMBOL of a method with one argument: SetLocal counts it.
CallMethod ==
    /\ CanCall
    /\ heap' = SetLocal(heap, LocalP(Depth + 1, 0), Arg(1))
    /\ frames' = Append([frames EXCEPT ![Depth].eval = Front(@)], NoFrame)
    /\ UNCHANGED interned

\* NEWOBJECT of a class whose constructor takes one argument.  The object is
\* counted twice, as "this" of the constructor and until it returns; the
\* argument moves from the eval stack to a local uncounted.
NewObject ==
    /\ CanCall /\ CanAllocate
    /\ LET a     == AllocateInstance(heap, "object")
           twice == IncrementReference(IncrementReference(a.h, a.o), a.o)
           this  == Account(Write(twice, LocalP(Depth + 1, 0), a.o), a.o, 1)
           arg   == IF Arg(1) = NoShape THEN Null ELSE Arg(1)
       IN  /\ heap' = Overdraw(Write(this, LocalP(Depth + 1, 1), arg), arg)
           /\ frames' = Append([frames EXCEPT ![Depth].eval = Front(@)],
                               [NoFrame EXCEPT !.ctor = a.o])
    /\ UNCHANGED interned

\* The frame is drained and popped; CurrentException goes without a release.
Leave(h, eval) ==
    LET drained == DrainLocals(DrainEval(h, eval), Depth)
    IN  IF drained.fault # "none" THEN drained ELSE SetException(drained, Depth, Null)

\* PopFrame, and what the caller finds on its stack: a constructor leaves the
\* object, whose second count is taken back, a method the return slot.  That is
\* null: no instruction writes it.
BackToCaller(h, returnsValue) ==
    LET ctor   == Top.ctor
        result == IF ctor # Null THEN << ctor >> ELSE IF returnsValue THEN << Null >> ELSE << >>
    IN  /\ ctor # Null => ~returnsValue
        /\ Len(frames[Depth - 1].eval) + Len(result) <= MaxEval
        /\ heap' = IF h.fault # "none" THEN h
                   ELSE DecrementReference(Take(h, ctor), ctor)
        /\ frames' = [Front(frames) EXCEPT ![Depth - 1].eval = @ \o result]
        /\ UNCHANGED interned

\* RETURN: the value of the return statement stays on the eval stack, which
\* the frame drains.
Return(returnsValue) ==
    /\ Running /\ Depth > 1
    /\ BackToCaller(Leave(heap, Eval), returnsValue)

\* A native function with one argument that returns it, a new object or null.
\* PlaceReturned counts the result, and nothing takes that count back.
CallNative(which) ==
    /\ CanCall
    /\ which = "new" => CanAllocate
    /\ LET called == SetLocal(heap, LocalP(Depth + 1, 0), Arg(1))
           a      == IF which = "new" THEN AllocateInstance(called, "object")
                     ELSE [o |-> IF which = "arg" /\ Arg(1) # NoShape THEN Arg(1) ELSE Null,
                           h |-> called]
           placed == Account(IncrementReference(a.h, a.o), a.o, 1)
           left   == IF placed.fault # "none" THEN placed ELSE DrainLocals(placed, Depth + 1)
       IN  /\ heap' = left
           /\ frames' = [frames EXCEPT ![Depth].eval = Append(Front(@), a.o)]
    /\ UNCHANGED interned

-----------------------------------------------------------------------------
(* Exceptions                                                              *)

\* THROW of a reference: counted, and made the current exception.
Throw ==
    /\ Running /\ Eval # << >> /\ IsObject(Arg(1))
    /\ heap' = SetException(IncrementReference(heap, Arg(1)), Depth, Arg(1))
    /\ frames' = [frames EXCEPT ![Depth].eval = Front(@), ![Depth].raised = TRUE]
    /\ UNCHANGED interned

Rethrow ==
    /\ Running /\ IsObject(heap.own[ExcP(Depth)])
    /\ heap' = LET e == heap.own[ExcP(Depth)] IN Account(IncrementReference(heap, e), e, 1)
    /\ frames' = [frames EXCEPT ![Depth].raised = TRUE]
    /\ UNCHANGED interned

\* HandleExceptionInFrame: the exception is counted again, for the entry it
\* pushes or for the frame it leaves.
Dispatched ==
    LET e       == heap.own[ExcP(Depth)]
        drained == DrainEval(heap, Eval)
    IN  IF drained.fault # "none" THEN drained ELSE Account(IncrementReference(drained, e), e, 1)

HandleException ==
    /\ heap.fault = "none" /\ Depth > 0 /\ Top.raised
    /\ heap' = Dispatched
    /\ frames' = [frames EXCEPT ![Depth].eval = << heap.own[ExcP(Depth)] >>, ![Depth].raised = FALSE]
    /\ UNCHANGED interned

\* Without a handler the body ends, and EndOfInstructions overwrites the
\* reason: the caller goes on as if the method had returned.
LeaveWithException(returnsValue) ==
    /\ heap.fault = "none" /\ Depth > 1 /\ Top.raised
    /\ LET gone == Dispatched
       IN  BackToCaller(IF gone.fault # "none" THEN gone ELSE Leave(gone, << >>), returnsValue)

\* END_CATCH collects without taking the count of CurrentException back.
EndCatch ==
    /\ Running /\ IsObject(heap.own[ExcP(Depth)])
    /\ heap' = LET e == heap.own[ExcP(Depth)]
               IN  CollectInstance(SetException(heap, Depth, Null), e)
    /\ UNCHANGED << frames, interned >>

\* GarbageCollector::Terminate and TerminateCallStack: all objects are marked
\* Terminated first, so that nothing is released twice, and then freed.
Terminate ==
    /\ heap.fault = "none" /\ Depth > 0
    /\ heap' = [Freed(heap, {o \in Objects : heap.st[o] = "live"})
                    EXCEPT !.own = [p \in Places |-> Null]]
    /\ frames' = << >>
    /\ UNCHANGED interned

Next ==
    /\ frames # << >> /\ steps < MaxSteps /\ steps' = steps + 1
    /\ \/ LoadConstNull
       \/ \E l \in Literals : LoadConstString(l)
       \/ \E i \in Locals : LoadLocal(i)
       \/ \E i \in Locals : StoreLocal(i)
       \/ Pop \/ Dup \/ LoadField \/ StoreField
       \/ \E s \in Statics : LoadStaticField(s)
       \/ \E s \in Statics : StoreStaticField(s)
       \/ NewArray \/ LoadArrayElement \/ StoreArrayElement \/ ArrayLength
       \/ CallMethod \/ NewObject
       \/ \E v \in BOOLEAN : Return(v)
       \/ \E v \in BOOLEAN : LeaveWithException(v)
       \/ \E which \in {"arg", "new", "null"} : CallNative(which)
       \/ Throw \/ Rethrow \/ HandleException \/ EndCatch
       \/ Terminate

Spec == Init /\ [][Next]_vars

-----------------------------------------------------------------------------
(* Properties                                                              *)

TypeOK ==
    /\ heap \in Heap
    /\ frames \in Seq(Frame) /\ Len(frames) <= MaxFrames
    /\ interned \in [Literals -> Value]
    /\ steps \in 0 .. MaxSteps

Owners(o) == Cardinality({p \in Places : heap.own[p] = o})

\* The counter of an object is what its owners were given and the counts that
\* nobody owns: no instruction gives or takes a count besides those that the
\* account names (AllocateInstance to TerminateInstance, SetLocal, SetField,
\* SetStaticField, the drains of a frame, InstantiateObject, PlaceReturned,
\* THROW to END_CATCH).
RefCountExact ==
    heap.fault = "none" =>
        \A o \in Objects : heap.st[o] = "live" => heap.count[o] = Owners(o) + heap.spare[o]

\* An object is not freed while a local, a field, a static field or a current
\* exception refers to it, unless it lost a count nobody was to take: as an
\* argument of a constructor (CopyArgumentPayloads) or as an entry that was
\* on an eval stack when it was drained (DrainEvalReferences).
OwnedAlive ==
    heap.fault = "none" => \A p \in Places : heap.own[p] \in Objects =>
        heap.st[heap.own[p]] = "live" \/ heap.own[p] \in heap.short
=============================================================================
