-------------------------- MODULE CallStack_proofs --------------------------
(***************************************************************************)
(* The frames of CallStack outlive the activations that hold pointers to   *)
(* them, however C++ exceptions, aborts and callbacks interleave, for any  *)
(* number of frames.                                                       *)
(***************************************************************************)
EXTENDS CallStack, SequenceFacts, TLAPS

\* Frames are stacked in the order of their creation, each on the frame that
\* was current then: PreviousFrame is the frame right below.
StackInv ==
    /\ \A i, j \in 1 .. Len(stack) : i < j => stack[i] < stack[j]
    /\ \A j \in 1 .. Len(stack) :
          frames[stack[j]].prev = IF j = 1 THEN NoFrame ELSE stack[j - 1]

\* Activations are nested the same way, on frames of the stack, and the
\* outermost one is the one of Run.
ActiveInv ==
    /\ \A i \in 1 .. Len(active) : \E j \in 1 .. Len(stack) : active[i].frame = stack[j]
    /\ \A i, j \in 1 .. Len(active) : i < j => active[i].frame < active[j].frame
    /\ \A i \in 1 .. Len(active) : active[i].via = "Run" <=> i = 1

HostInv ==
    /\ host = "running" <=> active # << >>
    /\ flying => active # << >>

\* The inductive invariant.
CallInv ==
    /\ TypeOK
    /\ StackInv
    /\ ActiveInv
    /\ HostInv
    /\ FramesAccounted
    /\ StackMatchesActivations

\* gs is fs with other reasons and exceptions.
SameFrames(fs, gs) ==
    /\ gs \in Seq(Frame)
    /\ Len(gs) = Len(fs)
    /\ \A i \in 1 .. Len(fs) : gs[i].prev = fs[i].prev

-----------------------------------------------------------------------------
(* Frames                                                                  *)

\* Setting the reason and the exception of a frame leaves the rest alone.
LEMMA SetReasonSame ==
    ASSUME NEW fs \in Seq(Frame), NEW f \in 1 .. Len(fs),
           NEW r \in Reasons, NEW e \in Exceptions \cup {NoExc}
    PROVE  SameFrames(fs, SetReason(fs, f, r, e))
<1> DEFINE g == [kind |-> fs[f].kind, prev |-> fs[f].prev, reason |-> r, exc |-> e]
<1>1. fs[f] \in Frame
  BY ElementOfSeq
<1>2. g \in Frame /\ g.prev = fs[f].prev
  BY <1>1 DEF Frame
<1>3. SameFrames(fs, [fs EXCEPT ![f] = g])
  <2> HIDE DEF g
  <2>1. /\ [fs EXCEPT ![f] = g] \in Seq(Frame)
        /\ Len([fs EXCEPT ![f] = g]) = Len(fs)
        /\ \A j \in 1 .. Len(fs) : [fs EXCEPT ![f] = g][j] = IF j = f THEN g ELSE fs[j]
    BY <1>2, ExceptSeq
  <2> QED
    BY <2>1, <1>2 DEF SameFrames
<1> QED
  BY <1>3 DEF SetReason

\* Raise does that, or nothing.
LEMMA RaiseSame ==
    ASSUME NEW fs \in Seq(Frame), NEW f \in 0 .. Len(fs), NEW e \in Exceptions
    PROVE  SameFrames(fs, Raise(fs, f, e))
<1>1. CASE f = NoFrame
  BY <1>1 DEF Raise, SameFrames
<1>2. CASE f # NoFrame
  <2>1. f \in 1 .. Len(fs) /\ "ExceptionRaised" \in Reasons
    BY <1>2 DEF NoFrame, Reasons
  <2> QED
    BY <1>2, <2>1, SetReasonSame DEF Raise
<1> QED
  BY <1>1, <1>2

\* So does Clear.
LEMMA ClearSame ==
    ASSUME NEW fs \in Seq(Frame), NEW f \in 0 .. Len(fs)
    PROVE  SameFrames(fs, Clear(fs, f))
<1>1. CASE f = NoFrame \/ fs[f].reason # "ExceptionRaised"
  BY <1>1 DEF Clear, SameFrames
<1>2. CASE ~(f = NoFrame \/ fs[f].reason # "ExceptionRaised")
  <2>1. f \in 1 .. Len(fs) /\ "None" \in Reasons
    BY <1>2 DEF NoFrame, Reasons
  <2> QED
    BY <1>2, <2>1, SetReasonSame DEF Clear
<1> QED
  BY <1>1, <1>2

\* So does the end of a method.
LEMMA EndedSame ==
    ASSUME NEW fs \in Seq(Frame), NEW f \in 1 .. Len(fs)
    PROVE  SameFrames(fs, Ended(fs, f))
<1>1. fs[f].exc \in Exceptions \cup {NoExc}
  <2>1. fs[f] \in Frame
    BY ElementOfSeq
  <2> QED
    BY <2>1 DEF Frame
<1> QED
  BY <1>1, SetReasonSame DEF Ended, Reasons

\* The relation is transitive.
LEMMA SameTransitive ==
    ASSUME NEW fs, NEW gs, NEW hs, SameFrames(fs, gs), SameFrames(gs, hs)
    PROVE  SameFrames(fs, hs)
BY DEF SameFrames

\* The frame of the innermost activation, and the one below it, are frames.
LEMMA RunningFrame ==
    ASSUME CallInv, active # << >>
    PROVE  /\ Len(active) \in Nat \ {0}
           /\ Running = active[Len(active)].frame
           /\ Last(active) = active[Len(active)]
           /\ Running \in 1 .. Len(frames)
           /\ frames[Running] \in Frame
           /\ frames[Running].prev \in 0 .. Len(frames)
           /\ Len(stack) \in Nat \ {0}
<1>1. Len(active) \in Nat \ {0} /\ Last(active) = active[Len(active)]
  <2>1. active \in Seq(Activation)
    BY DEF CallInv, TypeOK
  <2>2. Len(active) > 0 /\ Last(active) = active[Len(active)]
    BY <2>1, FrontLast
  <2>3. Len(active) \in Nat
    BY <2>1, LenProperties
  <2> QED
    BY <2>2, <2>3
<1>2. PICK j \in 1 .. Len(stack) : Running = stack[j]
  BY <1>1 DEF CallInv, ActiveInv, Running
<1>3. /\ Len(stack) \in Nat
      /\ Len(frames) \in Nat
      /\ \A i \in 1 .. Len(stack) : stack[i] \in 1 .. Len(frames)
  BY LenProperties, ElementOfSeq DEF CallInv, TypeOK
<1>4. Running \in 1 .. Len(frames)
  BY <1>2, <1>3
<1>5. frames[Running] \in Frame
  BY <1>4, ElementOfSeq DEF CallInv, TypeOK
<1>6. frames[Running].prev = IF j = 1 THEN NoFrame ELSE stack[j - 1]
  BY <1>2 DEF CallInv, StackInv
<1>7. frames[Running].prev \in 0 .. Len(frames)
  <2>1. CASE j = 1
    BY <2>1, <1>6, <1>3 DEF NoFrame
  <2>2. CASE j # 1
    BY <2>2, <1>2, <1>6, <1>3
  <2> QED
    BY <2>1, <2>2
<1> QED
  BY <1>1, <1>2, <1>3, <1>4, <1>5, <1>7 DEF Running

-----------------------------------------------------------------------------
(* What a push and a pop do to the two stacks                              *)

\* A step that leaves both stacks alone keeps the invariant.
LEMMA SameKeeps ==
    ASSUME CallInv, SameFrames(frames, frames'),
           UNCHANGED << stack, active, host, lost >>,
           flying' \in BOOLEAN, flying' => active # << >>, abort' \in BOOLEAN,
           catching' \subseteq Nat,
           unhandled' \in Exceptions \cup {NoExc}, escaped' \in Exceptions \cup {NoExc}
    PROVE  CallInv'
<1>1. TypeOK'
  BY DEF CallInv, TypeOK, SameFrames
<1>2. StackInv'
  <2>1. \A j \in 1 .. Len(stack) : stack[j] \in 1 .. Len(frames)
    BY ElementOfSeq DEF CallInv, TypeOK
  <2> QED
    BY <2>1 DEF CallInv, StackInv, SameFrames
<1>3. ActiveInv' /\ HostInv' /\ FramesAccounted' /\ StackMatchesActivations'
  BY DEF CallInv, ActiveInv, HostInv, FramesAccounted, StackMatchesActivations
<1> QED
  BY <1>1, <1>2, <1>3 DEF CallInv

\* PopFrame at the end of the innermost activation removes its own frame or
\* one that was left behind above it, never the frame of another activation:
\* these were created earlier.
LEMMA PopShape ==
    ASSUME CallInv, active # << >>, SameFrames(frames, frames'),
           active' = Front(active), stack' = Popped
    PROVE  /\ stack' \in Seq(1 .. Len(frames'))
           /\ active' \in Seq(Activation)
           /\ StackInv' /\ ActiveInv'
           /\ Len(stack') = Len(stack) - 1
           /\ Len(active') = Len(active) - 1
           /\ (lost = 0 => stack' = [i \in DOMAIN active' |-> active'[i].frame])
<1>1. /\ Len(active) \in Nat \ {0} /\ active' \in Seq(Activation)
      /\ Len(active') = Len(active) - 1
      /\ \A i \in 1 .. Len(active') : i \in 1 .. Len(active) /\ active'[i] = active[i]
  <2>1. active \in Seq(Activation) /\ Len(active) \in Nat
    BY LenProperties DEF CallInv, TypeOK
  <2>2. /\ active' \in Seq(Activation) /\ Len(active') = Len(active) - 1 /\ Len(active) > 0
        /\ \A i \in 1 .. Len(active) - 1 : active'[i] = active[i]
    BY <2>1, FrontLast
  <2> QED
    BY <2>1, <2>2
<1>2. stack # << >>
  BY RunningFrame, EmptySeq DEF CallInv, TypeOK
<1>3. /\ Len(stack) \in Nat \ {0} /\ stack' \in Seq(1 .. Len(frames'))
      /\ Len(stack') = Len(stack) - 1
      /\ \A i \in 1 .. Len(stack') : i \in 1 .. Len(stack) /\ stack'[i] = stack[i]
  <2>1. stack \in Seq(1 .. Len(frames)) /\ Len(frames') = Len(frames) /\ stack' = Front(stack)
    BY <1>2 DEF CallInv, TypeOK, Popped, SameFrames
  <2>2. Len(stack) \in Nat
    BY <2>1, LenProperties
  <2>3. /\ stack' \in Seq(1 .. Len(frames)) /\ Len(stack') = Len(stack) - 1 /\ Len(stack) > 0
        /\ \A i \in 1 .. Len(stack) - 1 : stack'[i] = stack[i]
    BY <1>2, <2>1, FrontLast
  <2> QED
    BY <2>1, <2>2, <2>3
<1>4. \A j \in 1 .. Len(stack) : stack[j] \in 1 .. Len(frames)
  BY ElementOfSeq DEF CallInv, TypeOK
<1>5. StackInv'
  <2>1. \A i, j \in 1 .. Len(stack') : i < j => stack'[i] < stack'[j]
    BY <1>3 DEF CallInv, StackInv
  <2>2. \A j \in 1 .. Len(stack') :
           frames'[stack'[j]].prev = IF j = 1 THEN NoFrame ELSE stack'[j - 1]
    <3> SUFFICES ASSUME NEW j \in 1 .. Len(stack')
                 PROVE  frames'[stack'[j]].prev = IF j = 1 THEN NoFrame ELSE stack'[j - 1]
      OBVIOUS
    <3>1. j \in 1 .. Len(stack) /\ stack'[j] = stack[j]
      BY <1>3
    <3>2. frames'[stack[j]].prev = frames[stack[j]].prev
      BY <3>1, <1>4 DEF SameFrames
    <3>3. frames[stack[j]].prev = IF j = 1 THEN NoFrame ELSE stack[j - 1]
      BY <3>1 DEF CallInv, StackInv
    <3>4. j # 1 => stack'[j - 1] = stack[j - 1]
      BY <1>3
    <3> QED
      BY <3>1, <3>2, <3>3, <3>4
  <2> QED
    BY <2>1, <2>2 DEF StackInv
<1>6. ActiveInv'
  <2>1. \A i \in 1 .. Len(active') : \E j \in 1 .. Len(stack') : active'[i].frame = stack'[j]
    <3> SUFFICES ASSUME NEW i \in 1 .. Len(active')
                 PROVE  \E j \in 1 .. Len(stack') : active'[i].frame = stack'[j]
      OBVIOUS
    <3>1. i \in 1 .. Len(active) /\ i < Len(active) /\ active'[i] = active[i]
      BY <1>1
    <3>2. PICK j \in 1 .. Len(stack) : active[i].frame = stack[j]
      BY <3>1 DEF CallInv, ActiveInv
    <3>3. PICK k \in 1 .. Len(stack) : active[Len(active)].frame = stack[k]
      BY <1>1 DEF CallInv, ActiveInv
    <3>4. stack[j] < stack[k]
      <4>1. Len(active) \in 1 .. Len(active)
        BY <1>1
      <4> QED
        BY <4>1, <3>1, <3>2, <3>3 DEF CallInv, ActiveInv
    <3>5. j # Len(stack)
      <4> SUFFICES ASSUME j = Len(stack) PROVE FALSE
        OBVIOUS
      <4>1. k = j \/ k < j
        BY <1>3
      <4>2. k < j => stack[k] < stack[j]
        BY DEF CallInv, StackInv
      <4> QED
        BY <4>1, <4>2, <3>4, <1>4
    <3>6. j \in 1 .. Len(stack') /\ stack'[j] = stack[j]
      <4>1. j \in 1 .. Len(stack) - 1 /\ Len(stack') = Len(stack) - 1
        BY <3>5, <1>3
      <4> QED
        BY <4>1, <1>3
    <3> QED
      BY <3>1, <3>2, <3>6
  <2>2. \A i, j \in 1 .. Len(active') : i < j => active'[i].frame < active'[j].frame
    BY <1>1 DEF CallInv, ActiveInv
  <2>3. \A i \in 1 .. Len(active') : active'[i].via = "Run" <=> i = 1
    BY <1>1 DEF CallInv, ActiveInv
  <2> QED
    BY <2>1, <2>2, <2>3 DEF ActiveInv
<1>7. ASSUME lost = 0 PROVE stack' = [i \in DOMAIN active' |-> active'[i].frame]
  <2>1. stack = [i \in DOMAIN active |-> active[i].frame]
    BY <1>7 DEF CallInv, StackMatchesActivations
  <2>2. DOMAIN active = 1 .. Len(active) /\ DOMAIN stack = 1 .. Len(stack)
    BY LenProperties DEF CallInv, TypeOK
  <2>3. DOMAIN active' = 1 .. Len(active') /\ stack' \in [1 .. Len(stack') -> 1 .. Len(frames')]
    BY <1>1, <1>3, LenProperties
  <2>4. Len(stack') = Len(active')
    BY <1>1, <1>3, <1>7 DEF CallInv, FramesAccounted
  <2>5. \A i \in 1 .. Len(active') : stack'[i] = active'[i].frame
    BY <1>1, <1>3, <2>1, <2>2, <2>4
  <2> QED
    BY <2>3, <2>4, <2>5
<1> QED
  BY <1>1, <1>3, <1>5, <1>6, <1>7

\* PushFrame: the new frame is the youngest and lies on the current one.
LEMMA PushShape ==
    ASSUME CallInv, NEW kind \in Kinds, frames' = Append(frames, NewFrame(kind))
    PROVE  /\ frames' \in Seq(Frame)
           /\ Len(frames') = Len(frames) + 1
           /\ Len(frames) \in Nat
           /\ stack' = stack => stack' \in Seq(1 .. Len(frames')) /\ StackInv'
           /\ stack' = Append(stack, Len(frames) + 1) =>
                 /\ stack' \in Seq(1 .. Len(frames')) /\ StackInv'
                 /\ Len(stack') = Len(stack) + 1
                 /\ \A i \in 1 .. Len(stack) : stack'[i] = stack[i]
                 /\ stack'[Len(stack')] = Len(frames) + 1
<1>1. /\ stack \in Seq(1 .. Len(frames)) /\ Len(stack) \in Nat
      /\ frames \in Seq(Frame) /\ Len(frames) \in Nat
      /\ \A i \in 1 .. Len(stack) : stack[i] \in 1 .. Len(frames)
  BY LenProperties, ElementOfSeq DEF CallInv, TypeOK
<1>2. CurrentFrame = (IF Len(stack) = 0 THEN NoFrame ELSE stack[Len(stack)]) /\ CurrentFrame \in Nat
  <2>1. CASE stack = << >>
    BY <2>1 DEF CurrentFrame, NoFrame
  <2>2. CASE stack # << >>
    <3>1. Last(stack) = stack[Len(stack)] /\ Len(stack) > 0 /\ Last(stack) \in 1 .. Len(frames)
      BY <2>2, <1>1, FrontLast
    <3> QED
      BY <2>2, <3>1 DEF CurrentFrame
  <2> QED
    BY <2>1, <2>2
<1>3. NewFrame(kind) \in Frame /\ NewFrame(kind).prev = CurrentFrame
  BY <1>2 DEF NewFrame, Frame, Reasons
<1>4. /\ frames' \in Seq(Frame) /\ Len(frames') = Len(frames) + 1
      /\ \A i \in 1 .. Len(frames) : frames'[i] = frames[i]
      /\ frames'[Len(frames) + 1].prev = CurrentFrame
  BY <1>1, <1>3, AppendProperties
<1>5. stack \in Seq(1 .. Len(frames'))
  <2>1. 1 .. Len(frames) \subseteq 1 .. Len(frames')
    BY <1>1, <1>4
  <2> QED
    BY <1>1, <2>1, SeqMonotonic
<1>6. ASSUME stack' = stack PROVE stack' \in Seq(1 .. Len(frames')) /\ StackInv'
  <2>1. StackInv
    BY DEF CallInv
  <2> QED
    BY <1>1, <1>4, <1>5, <1>6, <2>1 DEF StackInv
<1>7. ASSUME stack' = Append(stack, Len(frames) + 1)
      PROVE  /\ stack' \in Seq(1 .. Len(frames')) /\ StackInv'
             /\ Len(stack') = Len(stack) + 1
             /\ \A i \in 1 .. Len(stack) : stack'[i] = stack[i]
             /\ stack'[Len(stack')] = Len(frames) + 1
  <2>1. Len(frames) + 1 \in 1 .. Len(frames')
    BY <1>1, <1>4
  <2>2. /\ stack' \in Seq(1 .. Len(frames')) /\ Len(stack') = Len(stack) + 1
        /\ \A i \in 1 .. Len(stack) : stack'[i] = stack[i]
        /\ stack'[Len(stack) + 1] = Len(frames) + 1
    BY <1>5, <1>7, <2>1, AppendProperties
  <2>3. ASSUME NEW i \in 1 .. Len(stack'), NEW j \in 1 .. Len(stack'), i < j
        PROVE  stack'[i] < stack'[j]
    <3>1. i \in 1 .. Len(stack)
      BY <1>1, <2>2, <2>3
    <3>2. CASE j = Len(stack) + 1
      BY <3>1, <3>2, <1>1, <2>2
    <3>3. CASE j # Len(stack) + 1
      <4>1. j \in 1 .. Len(stack)
        BY <3>3, <1>1, <2>2
      <4> QED
        BY <3>1, <4>1, <2>2, <2>3 DEF CallInv, StackInv
    <3> QED
      BY <3>2, <3>3
  <2>4. ASSUME NEW j \in 1 .. Len(stack')
        PROVE  frames'[stack'[j]].prev = IF j = 1 THEN NoFrame ELSE stack'[j - 1]
    <3>1. CASE j = Len(stack) + 1
      <4>1. frames'[stack'[j]].prev = CurrentFrame
        BY <3>1, <2>2, <1>4
      <4>2. CASE Len(stack) = 0
        BY <3>1, <4>1, <4>2, <1>2
      <4>3. CASE Len(stack) # 0
        <5>1. j - 1 = Len(stack) /\ j # 1 /\ Len(stack) \in 1 .. Len(stack)
          BY <3>1, <4>3, <1>1
        <5> QED
          BY <4>1, <4>3, <5>1, <1>2, <2>2
      <4> QED
        BY <4>2, <4>3
    <3>2. CASE j # Len(stack) + 1
      <4>1. j \in 1 .. Len(stack) /\ stack'[j] = stack[j] /\ (j # 1 => j - 1 \in 1 .. Len(stack))
        BY <3>2, <1>1, <2>2
      <4>2. frames'[stack[j]] = frames[stack[j]]
        BY <4>1, <1>1, <1>4
      <4>3. frames[stack[j]].prev = IF j = 1 THEN NoFrame ELSE stack[j - 1]
        BY <4>1 DEF CallInv, StackInv
      <4> QED
        BY <4>1, <4>2, <4>3, <2>2
    <3> QED
      BY <3>1, <3>2
  <2> QED
    BY <2>2, <2>3, <2>4 DEF StackInv
<1> QED
  BY <1>1, <1>4, <1>6, <1>7

\* A call, from the host or from an activation, keeps the invariant.
LEMMA PushKeeps ==
    ASSUME CallInv, NEW kind \in Kinds, NEW via \in Callers,
           via = "Run" <=> active = << >>,
           frames' = Append(frames, NewFrame(kind)),
           stack' = Append(stack, Len(frames) + 1),
           active' = Append(active, [frame |-> Len(frames) + 1, via |-> via]),
           host' = "running", flying' = FALSE, lost' = lost,
           abort' \in BOOLEAN, catching' \subseteq Nat,
           unhandled' \in Exceptions \cup {NoExc}, escaped' \in Exceptions \cup {NoExc}
    PROVE  CallInv'
<1> DEFINE new == [frame |-> Len(frames) + 1, via |-> via]
<1>1. /\ frames' \in Seq(Frame) /\ Len(frames') = Len(frames) + 1 /\ Len(frames) \in Nat
      /\ stack' \in Seq(1 .. Len(frames')) /\ StackInv'
      /\ Len(stack') = Len(stack) + 1
      /\ \A i \in 1 .. Len(stack) : stack'[i] = stack[i]
      /\ stack'[Len(stack')] = Len(frames) + 1
  BY PushShape
<1>2. /\ active \in Seq(Activation) /\ Len(active) \in Nat /\ Len(stack) \in Nat
      /\ \A i \in 1 .. Len(stack) : stack[i] \in 1 .. Len(frames)
  BY LenProperties, ElementOfSeq DEF CallInv, TypeOK
<1>3. new \in Activation
  BY <1>1 DEF Activation
<1>4. /\ active' \in Seq(Activation) /\ Len(active') = Len(active) + 1
      /\ \A i \in 1 .. Len(active) : active'[i] = active[i]
      /\ active'[Len(active) + 1] = new
  BY <1>2, <1>3, AppendProperties
<1>5. TypeOK'
  BY <1>1, <1>4 DEF CallInv, TypeOK
<1>6. ActiveInv'
  <2>1. ASSUME NEW i \in 1 .. Len(active')
        PROVE  \E j \in 1 .. Len(stack') : active'[i].frame = stack'[j]
    <3>1. CASE i = Len(active) + 1
      <4>1. Len(stack') \in 1 .. Len(stack') /\ active'[i].frame = stack'[Len(stack')]
        BY <3>1, <1>1, <1>2, <1>4
      <4> QED
        BY <4>1
    <3>2. CASE i # Len(active) + 1
      <4>1. i \in 1 .. Len(active) /\ active'[i] = active[i]
        BY <3>2, <1>2, <1>4
      <4>2. PICK j \in 1 .. Len(stack) : active[i].frame = stack[j]
        BY <4>1 DEF CallInv, ActiveInv
      <4>3. j \in 1 .. Len(stack') /\ stack'[j] = stack[j]
        BY <1>1, <1>2
      <4> QED
        BY <4>1, <4>2, <4>3
    <3> QED
      BY <3>1, <3>2
  <2>2. ASSUME NEW i \in 1 .. Len(active'), NEW j \in 1 .. Len(active'), i < j
        PROVE  active'[i].frame < active'[j].frame
    <3>1. i \in 1 .. Len(active) /\ active'[i] = active[i]
      BY <2>2, <1>2, <1>4
    <3>2. CASE j = Len(active) + 1
      <4>1. PICK k \in 1 .. Len(stack) : active[i].frame = stack[k]
        BY <3>1 DEF CallInv, ActiveInv
      <4>2. active[i].frame \in 1 .. Len(frames)
        BY <4>1, <1>2
      <4> QED
        BY <3>1, <3>2, <4>2, <1>1, <1>4
    <3>3. CASE j # Len(active) + 1
      <4>1. j \in 1 .. Len(active) /\ active'[j] = active[j]
        BY <3>3, <1>2, <1>4
      <4> QED
        BY <3>1, <4>1, <2>2 DEF CallInv, ActiveInv
    <3> QED
      BY <3>2, <3>3
  <2>3. ASSUME NEW i \in 1 .. Len(active') PROVE active'[i].via = "Run" <=> i = 1
    <3>1. CASE i = Len(active) + 1
      <4>1. active = << >> <=> Len(active) = 0
        BY <1>2, EmptySeq
      <4>2. active'[i].via = via
        BY <3>1, <1>4
      <4>3. i = 1 <=> Len(active) = 0
        BY <3>1, <1>2
      <4> QED
        BY <4>1, <4>2, <4>3
    <3>2. CASE i # Len(active) + 1
      <4>1. i \in 1 .. Len(active) /\ active'[i] = active[i]
        BY <3>2, <1>2, <1>4
      <4> QED
        BY <4>1 DEF CallInv, ActiveInv
    <3> QED
      BY <3>1, <3>2
  <2> QED
    BY <2>1, <2>2, <2>3 DEF ActiveInv
<1>7. active' # << >>
  BY <1>2, <1>4, EmptySeq
<1>8. HostInv' /\ FramesAccounted'
  <2>1. HostInv'
    BY <1>7 DEF HostInv
  <2>2. Len(stack) = Len(active) + lost /\ lost \in Nat
    BY DEF CallInv, FramesAccounted, TypeOK
  <2>3. FramesAccounted'
    BY <2>2, <1>1, <1>2, <1>4 DEF FramesAccounted
  <2> QED
    BY <2>1, <2>3
<1>9. StackMatchesActivations'
  <2> SUFFICES ASSUME lost = 0
               PROVE  stack' = [i \in DOMAIN active' |-> active'[i].frame]
    BY DEF StackMatchesActivations
  <2>1. Len(stack) = Len(active) /\ Len(stack') = Len(active')
    BY <1>1, <1>2, <1>4 DEF CallInv, FramesAccounted
  <2>2. stack = [i \in DOMAIN active |-> active[i].frame] /\ DOMAIN active = 1 .. Len(active)
    BY <1>2, LenProperties DEF CallInv, StackMatchesActivations
  <2>3. DOMAIN active' = 1 .. Len(active') /\ stack' \in [1 .. Len(stack') -> 1 .. Len(frames')]
    BY <1>1, <1>4, LenProperties
  <2>4. ASSUME NEW i \in 1 .. Len(active') PROVE stack'[i] = active'[i].frame
    <3>1. CASE i = Len(active) + 1
      BY <3>1, <2>1, <1>1, <1>4
    <3>2. CASE i # Len(active) + 1
      <4>1. i \in 1 .. Len(active) /\ active'[i] = active[i] /\ stack'[i] = stack[i]
        BY <3>2, <2>1, <1>1, <1>2, <1>4
      <4> QED
        BY <4>1, <2>2
    <3> QED
      BY <3>1, <3>2
  <2> QED
    BY <2>1, <2>3, <2>4
<1> QED
  BY <1>1, <1>5, <1>6, <1>8, <1>9 DEF CallInv

\* The return of an activation to its caller keeps it.
LEMMA LeaveKeeps ==
    ASSUME CallInv, active # << >>, NEW fs, SameFrames(frames, fs), LeaveTo(fs),
           flying' = FALSE, abort' = abort, lost' = lost,
           escaped' \in Exceptions \cup {NoExc}
    PROVE  CallInv'
<1>1. /\ Running \in 1 .. Len(frames) /\ frames[Running].prev \in 0 .. Len(frames)
      /\ Len(active) \in Nat \ {0} /\ Last(active) = active[Len(active)]
  BY RunningFrame
<1>2. /\ fs \in Seq(Frame) /\ Len(fs) = Len(frames)
      /\ fs[Running].prev \in 0 .. Len(fs)
      /\ fs[Running].exc \in Exceptions \cup {NoExc}
  <2>1. fs \in Seq(Frame) /\ Len(fs) = Len(frames) /\ fs[Running].prev = frames[Running].prev
    BY <1>1 DEF SameFrames
  <2>2. fs[Running] \in Frame
    BY <2>1, <1>1, ElementOfSeq
  <2> QED
    BY <2>1, <2>2, <1>1 DEF Frame
<1>3. SameFrames(frames, frames')
  <2>1. CASE Last(active).via = "TryInvokeMethod"
    <3>1. SameFrames(fs, Clear(fs, fs[Running].prev))
      BY <1>2, ClearSame
    <3> QED
      BY <2>1, <3>1, SameTransitive DEF LeaveTo
  <2>2. CASE Last(active).via # "TryInvokeMethod"
    BY <2>2 DEF LeaveTo
  <2> QED
    BY <2>1, <2>2
<1>4. active' = Front(active) /\ stack' = Popped
  BY DEF LeaveTo
<1>5. /\ stack' \in Seq(1 .. Len(frames')) /\ active' \in Seq(Activation)
      /\ StackInv' /\ ActiveInv'
      /\ Len(stack') = Len(stack) - 1 /\ Len(active') = Len(active) - 1
      /\ (lost = 0 => stack' = [i \in DOMAIN active' |-> active'[i].frame])
  BY <1>3, <1>4, PopShape
<1>6. host = "running"
  BY DEF CallInv, HostInv
<1>7. host' \in {"ended", "running"} /\ (host' = "running" <=> Last(active).via # "Run")
  BY <1>6 DEF LeaveTo
<1>8. unhandled' \in Exceptions \cup {NoExc}
  BY <1>2 DEF LeaveTo, CallInv, TypeOK
<1>9. TypeOK'
  <2>1. frames' \in Seq(Frame)
    BY <1>3 DEF SameFrames
  <2>2. catching' \subseteq Nat
    BY DEF LeaveTo, CallInv, TypeOK
  <2> QED
    BY <2>1, <2>2, <1>5, <1>7, <1>8 DEF CallInv, TypeOK
<1>10. HostInv'
  <2>1. Last(active).via = "Run" <=> Len(active) = 1
    <3>1. Len(active) \in 1 .. Len(active)
      BY <1>1
    <3> QED
      BY <3>1, <1>1 DEF CallInv, ActiveInv
  <2>2. active' = << >> <=> Len(active') = 0
    BY <1>5, EmptySeq
  <2>3. host' = "running" <=> active' # << >>
    BY <2>1, <2>2, <1>1, <1>5, <1>7
  <2> QED
    BY <2>3 DEF HostInv
<1>11. FramesAccounted' /\ StackMatchesActivations'
  <2>1. Len(stack) = Len(active) + lost /\ lost \in Nat /\ Len(stack) \in Nat
    BY LenProperties DEF CallInv, FramesAccounted, TypeOK
  <2> QED
    BY <2>1, <1>1, <1>5 DEF FramesAccounted, StackMatchesActivations
<1> QED
  BY <1>5, <1>9, <1>10, <1>11 DEF CallInv

-----------------------------------------------------------------------------
(* One lemma for each group of actions                                     *)

\* An invocation from an activation keeps it.
LEMMA InvokeKeeps ==
    ASSUME CallInv, active # << >>, NEW kind \in Kinds, NEW via \in Callers \ {"Run"},
           Invoke(kind, via), catching' \subseteq Nat
    PROVE  CallInv'
<1>1. host' = "running"
  BY DEF Invoke, CallInv, HostInv
<1>2. /\ abort' \in BOOLEAN /\ unhandled' \in Exceptions \cup {NoExc}
      /\ escaped' \in Exceptions \cup {NoExc}
  BY DEF Invoke, CallInv, TypeOK
<1> QED
  BY <1>1, <1>2, PushKeeps DEF Invoke

\* The host and the calls keep the invariant.
LEMMA CallsKeep ==
    ASSUME CallInv, Run \/ Abort \/ BodyCall \/ Callback
    PROVE  CallInv'
<1>1. CASE Run
  <2>1. active = << >> /\ flying = FALSE /\ catching \subseteq Nat
    BY <1>1 DEF Run, CallInv, HostInv, TypeOK
  <2>2. active' = Append(active, [frame |-> Len(frames) + 1, via |-> "Run"])
    BY <1>1, <2>1 DEF Run
  <2> QED
    BY <1>1, <2>1, <2>2, PushKeeps DEF Run, Kinds, Callers
<1>2. CASE Abort
  <2>1. SameFrames(frames, frames')
    BY <1>2 DEF Abort, SameFrames, CallInv, TypeOK
  <2> QED
    BY <1>2, <2>1, SameKeeps DEF Abort, CallInv, TypeOK, HostInv
<1>3. CASE BodyCall \/ Callback
  <2>1. PICK k \in Kinds, v \in Callers \ {"Run"} : Invoke(k, v)
    BY <1>3 DEF BodyCall, Callback, Kinds, Callers
  <2>2. active # << >> /\ catching' \subseteq Nat
    BY <1>3 DEF BodyCall, Callback, LoopHead, Executes, CallInv, TypeOK
  <2> QED
    BY <2>1, <2>2, InvokeKeeps
<1> QED
  BY <1>1, <1>2, <1>3

\* An invocation refused because of AbortFlag keeps it: its frame was popped, or
\* is one more that is left behind.
LEMMA RefuseKeeps ==
    ASSUME CallInv, active # << >>, NEW kind \in Kinds, Refuse(kind) \/ RefuseTry(kind),
           catching' \subseteq Nat
    PROVE  CallInv'
<1>1. /\ frames' = Append(frames, NewFrame(kind))
      /\ active # << >> /\ UNCHANGED << active, abort, host, unhandled, escaped >>
      /\ flying' = TRUE
  BY DEF Refuse, RefuseTry
<1>2. Len(stack) = Len(active) + lost /\ lost \in Nat /\ Len(stack) \in Nat /\ Len(active) \in Nat
  BY LenProperties DEF CallInv, FramesAccounted, TypeOK
<1>3. HostInv'
  BY <1>1 DEF CallInv, HostInv
<1>4. CASE stack' = stack /\ lost' = lost
  <2>1. frames' \in Seq(Frame) /\ stack' \in Seq(1 .. Len(frames')) /\ StackInv'
    BY <1>1, <1>4, PushShape
  <2>2. TypeOK'
    BY <2>1, <1>1, <1>4 DEF CallInv, TypeOK
  <2>3. ActiveInv' /\ FramesAccounted' /\ StackMatchesActivations'
    BY <1>1, <1>4 DEF CallInv, ActiveInv, FramesAccounted, StackMatchesActivations
  <2> QED
    BY <2>1, <2>2, <2>3, <1>3 DEF CallInv
<1>5. CASE stack' = Append(stack, Len(frames) + 1) /\ lost' = lost + 1
  <2>1. /\ frames' \in Seq(Frame) /\ stack' \in Seq(1 .. Len(frames')) /\ StackInv'
        /\ Len(stack') = Len(stack) + 1
        /\ \A i \in 1 .. Len(stack) : stack'[i] = stack[i]
    BY <1>1, <1>5, PushShape
  <2>2. TypeOK'
    BY <2>1, <1>1, <1>2, <1>5 DEF CallInv, TypeOK
  <2>3. ActiveInv'
    <3>1. ASSUME NEW i \in 1 .. Len(active)
          PROVE  \E j \in 1 .. Len(stack') : active[i].frame = stack'[j]
      <4>1. PICK j \in 1 .. Len(stack) : active[i].frame = stack[j]
        BY DEF CallInv, ActiveInv
      <4>2. j \in 1 .. Len(stack') /\ stack'[j] = stack[j]
        BY <2>1, <1>2
      <4> QED
        BY <4>1, <4>2
    <3> QED
      BY <3>1, <1>1 DEF CallInv, ActiveInv
  <2>4. FramesAccounted' /\ StackMatchesActivations'
    BY <2>1, <1>1, <1>2, <1>5 DEF FramesAccounted, StackMatchesActivations
  <2> QED
    BY <2>1, <2>2, <2>3, <2>4, <1>3 DEF CallInv
<1> QED
  BY <1>4, <1>5 DEF Refuse, RefuseTry

\* So do the calls that are refused.
LEMMA AbortedKeeps ==
    ASSUME CallInv, BodyCallAborted \/ CallbackAborted
    PROVE  CallInv'
<1>1. active # << >> /\ catching' \subseteq Nat
  BY DEF BodyCallAborted, CallbackAborted, Executes, CallInv, TypeOK
<1>2. PICK k \in Kinds : Refuse(k) \/ RefuseTry(k)
  BY DEF BodyCallAborted, CallbackAborted, Kinds
<1> QED
  BY <1>1, <1>2, RefuseKeeps

\* What a script method does between calls, and its end, keep it.
LEMMA BodyKeeps ==
    ASSUME CallInv, BodyThrow \/ BodyCatch \/ BodyEscape \/ BodyReturn \/ BodyFault
    PROVE  CallInv'
<1>1. active # << >> /\ ~flying
  BY DEF BodyThrow, BodyCatch, BodyEscape, BodyReturn, BodyFault, LoopHead, Executes
<1>2. /\ frames \in Seq(Frame) /\ Running \in 1 .. Len(frames) /\ Running \in 0 .. Len(frames)
      /\ frames[Running].exc \in Exceptions \cup {NoExc}
      /\ abort \in BOOLEAN /\ unhandled \in Exceptions \cup {NoExc}
      /\ escaped \in Exceptions \cup {NoExc} /\ catching \subseteq Nat
  BY <1>1, RunningFrame DEF CallInv, TypeOK, Frame
<1>3. CASE BodyThrow
  <2>1. PICK e \in Exceptions : frames' = Raise(frames, Running, e)
    BY <1>3 DEF BodyThrow
  <2>2. SameFrames(frames, frames')
    BY <2>1, <1>2, RaiseSame
  <2>3. UNCHANGED << stack, active, flying, catching, abort, host, unhandled, escaped, lost >>
    BY <1>3 DEF BodyThrow
  <2> QED
    BY <1>1, <1>2, <2>2, <2>3, SameKeeps DEF CallInv, TypeOK
<1>4. CASE BodyCatch
  <2>1. SameFrames(frames, frames')
    BY <1>2, <1>4, ClearSame DEF BodyCatch
  <2>2. UNCHANGED << stack, active, flying, catching, abort, host, unhandled, escaped, lost >>
    BY <1>4 DEF BodyCatch
  <2> QED
    BY <1>1, <1>2, <2>1, <2>2, SameKeeps DEF CallInv, TypeOK
<1>5. SameFrames(frames, Ended(frames, Running))
  BY <1>2, EndedSame
<1>6. CASE BodyEscape
  <2>1. escaped' \in Exceptions \cup {NoExc}
    BY <1>2, <1>6 DEF BodyEscape
  <2>2. flying' = FALSE /\ abort' = abort /\ lost' = lost /\ LeaveTo(Ended(frames, Running))
    BY <1>1, <1>6 DEF BodyEscape, CallInv, TypeOK
  <2> QED
    BY <1>1, <1>5, <2>1, <2>2, LeaveKeeps
<1>7. CASE BodyReturn
  <2>1. /\ flying' = FALSE /\ abort' = abort /\ lost' = lost /\ escaped' = escaped
        /\ LeaveTo(Ended(frames, Running))
    BY <1>1, <1>7 DEF BodyReturn, CallInv, TypeOK
  <2> QED
    BY <1>1, <1>2, <1>5, <2>1, LeaveKeeps
<1>8. CASE BodyFault
  <2>1. SameFrames(frames, frames')
    BY <1>2, <1>8 DEF BodyFault, SameFrames
  <2> QED
    BY <1>1, <1>2, <1>8, <2>1, SameKeeps DEF BodyFault
<1> QED
  BY <1>3, <1>4, <1>6, <1>7, <1>8

\* A C++ exception that leaves an activation keeps it.
LEMMA UnwindKeeps ==
    ASSUME CallInv, Unwind
    PROVE  CallInv'
<1>1. /\ active # << >> /\ active' = Front(active)
      /\ UNCHANGED << frames, abort, unhandled, escaped >>
      /\ catching' \subseteq Nat
  BY DEF Unwind, CallInv, HostInv, TypeOK
<1>2. /\ Len(active) \in Nat \ {0} /\ Last(active) = active[Len(active)]
      /\ Len(active) \in 1 .. Len(active)
  BY <1>1, RunningFrame
<1>3. Last(active).via = "Run" <=> Len(active) = 1
  BY <1>2 DEF CallInv, ActiveInv
<1>4. Len(stack) = Len(active) + lost /\ lost \in Nat /\ Len(stack) \in Nat
  BY LenProperties DEF CallInv, FramesAccounted, TypeOK
<1>5. /\ active' \in Seq(Activation) /\ Len(active') = Len(active) - 1
      /\ \A i \in 1 .. Len(active') : i \in 1 .. Len(active) /\ active'[i] = active[i]
  <2>1. active \in Seq(Activation)
    BY DEF CallInv, TypeOK
  <2>2. /\ active' \in Seq(Activation) /\ Len(active') = Len(active) - 1
        /\ \A i \in 1 .. Len(active) - 1 : active'[i] = active[i]
    BY <1>1, <2>1, FrontLast
  <2> QED
    BY <1>2, <2>2
<1>6. HostInv' /\ host' \in { "idle", "running", "ended", "failed" } /\ flying' \in BOOLEAN
  <2>1. host = "running" /\ flying = TRUE
    BY <1>1 DEF Unwind, CallInv, HostInv, TypeOK
  <2>2. active' = << >> <=> Len(active') = 0
    BY <1>5, EmptySeq
  <2>3. CASE Last(active).via = "Run"
    <3>1. active' = << >>
      BY <2>2, <2>3, <1>3, <1>5
    <3> QED
      BY <2>3, <3>1 DEF Unwind, HostInv
  <2>4. CASE Last(active).via # "Run"
    <3>1. active' # << >>
      BY <2>2, <2>4, <1>2, <1>3, <1>5
    <3> QED
      BY <2>1, <2>4, <3>1 DEF Unwind, HostInv
  <2> QED
    BY <2>3, <2>4
<1>7. CASE Last(active).via = "TryInvokeMethod"
  <2>1. stack' = Popped /\ lost' = lost
    BY <1>7 DEF Unwind
  <2>2. SameFrames(frames, frames')
    BY <1>1 DEF SameFrames, CallInv, TypeOK
  <2>3. /\ stack' \in Seq(1 .. Len(frames')) /\ StackInv' /\ ActiveInv'
        /\ Len(stack') = Len(stack) - 1
        /\ (lost = 0 => stack' = [i \in DOMAIN active' |-> active'[i].frame])
    BY <1>1, <2>1, <2>2, PopShape
  <2>4. TypeOK'
    BY <2>1, <2>3, <1>1, <1>5, <1>6 DEF CallInv, TypeOK
  <2>5. FramesAccounted' /\ StackMatchesActivations'
    BY <2>1, <2>3, <1>2, <1>4, <1>5 DEF FramesAccounted, StackMatchesActivations
  <2> QED
    BY <2>3, <2>4, <2>5, <1>6 DEF CallInv
<1>8. CASE Last(active).via # "TryInvokeMethod"
  <2>1. stack' = stack /\ lost' = lost + 1
    BY <1>8 DEF Unwind
  <2>2. TypeOK'
    BY <2>1, <1>1, <1>4, <1>5, <1>6 DEF CallInv, TypeOK
  <2>3. StackInv'
    BY <2>1, <1>1 DEF CallInv, StackInv
  <2>4. ActiveInv'
    BY <2>1, <1>5 DEF CallInv, ActiveInv
  <2>5. FramesAccounted' /\ StackMatchesActivations'
    BY <2>1, <1>2, <1>4, <1>5 DEF FramesAccounted, StackMatchesActivations
  <2> QED
    BY <2>2, <2>3, <2>4, <2>5, <1>6 DEF CallInv
<1> QED
  BY <1>7, <1>8

\* External methods keep it.
LEMMA ExternalKeeps ==
    ASSUME CallInv, ExternalReturn \/ Propagate \/ RaiseInCaller \/ ExternalCaught
    PROVE  CallInv'
<1>1. active # << >>
  BY DEF ExternalReturn, Propagate, RaiseInCaller, ExternalCaught, Executes
<1>2. /\ frames \in Seq(Frame) /\ Running \in 1 .. Len(frames) /\ Running \in 0 .. Len(frames)
      /\ frames[Running].prev \in 0 .. Len(frames)
      /\ abort \in BOOLEAN /\ unhandled \in Exceptions \cup {NoExc}
      /\ escaped \in Exceptions \cup {NoExc} /\ flying \in BOOLEAN /\ catching \subseteq Nat
  BY <1>1, RunningFrame DEF CallInv, TypeOK
<1>3. CASE ExternalReturn
  <2>1. /\ flying' = FALSE /\ abort' = abort /\ lost' = lost /\ escaped' = escaped
        /\ LeaveTo(Ended(frames, Running))
    BY <1>2, <1>3 DEF ExternalReturn, Executes
  <2>2. SameFrames(frames, Ended(frames, Running))
    BY <1>2, EndedSame
  <2> QED
    BY <1>1, <1>2, <2>1, <2>2, LeaveKeeps
<1>4. CASE Propagate
  <2>1. PICK e \in Exceptions : frames' = Raise(frames, Running, e)
    BY <1>4 DEF Propagate
  <2>2. SameFrames(frames, frames')
    BY <2>1, <1>2, RaiseSame
  <2> QED
    BY <1>1, <1>2, <1>4, <2>2, SameKeeps DEF Propagate
<1>5. CASE RaiseInCaller
  <2>1. PICK e \in Exceptions : frames' = Raise(frames, frames[Running].prev, e)
    BY <1>5 DEF RaiseInCaller
  <2>2. SameFrames(frames, frames')
    BY <2>1, <1>2, RaiseSame
  <2> QED
    BY <1>1, <1>2, <1>5, <2>2, SameKeeps DEF RaiseInCaller
<1>6. CASE ExternalCaught
  <2>1. PICK e \in Exceptions : LeaveTo(Raise(Raise(frames, Running, e), frames[Running].prev, e))
    BY <1>6 DEF ExternalCaught
  <2>2. SameFrames(frames, Raise(frames, Running, e))
    BY <1>2, RaiseSame
  <2>3. SameFrames(Raise(frames, Running, e), Raise(Raise(frames, Running, e), frames[Running].prev, e))
    <3>1. Raise(frames, Running, e) \in Seq(Frame) /\ Len(Raise(frames, Running, e)) = Len(frames)
      BY <2>2 DEF SameFrames
    <3> QED
      BY <3>1, <1>2, RaiseSame
  <2>4. SameFrames(frames, Raise(Raise(frames, Running, e), frames[Running].prev, e))
    BY <2>2, <2>3, SameTransitive
  <2>5. flying' = FALSE /\ abort' = abort /\ lost' = lost /\ escaped' = escaped
    BY <1>2, <1>6 DEF ExternalCaught
  <2> QED
    BY <1>1, <1>2, <2>1, <2>4, <2>5, LeaveKeeps
<1> QED
  BY <1>3, <1>4, <1>5, <1>6

\* The catch around an external method keeps it, whether it invokes the
\* constructor of its exception, is refused to, or finds none.
LEMMA CatchKeeps ==
    ASSUME CallInv, ExternalCatch \/ ExternalCatchAborted \/ ExternalCatchFails
    PROVE  CallInv'
<1>1. active # << >> /\ Caught
  BY DEF ExternalCatch, ExternalCatchAborted, ExternalCatchFails, Caught
<1>2. catching' \subseteq Nat
  <2>1. Running \in Nat
    BY <1>1, RunningFrame, LenProperties DEF CallInv, TypeOK
  <2> QED
    BY <1>1, <2>1 DEF Caught, CallInv, TypeOK
<1>3. CASE ExternalCatch
  <2>1. PICK k \in Kinds : Invoke(k, "InvokeMethod")
    BY <1>3 DEF ExternalCatch
  <2> QED
    BY <1>1, <1>2, <2>1, InvokeKeeps DEF Callers
<1>4. CASE ExternalCatchAborted
  BY <1>1, <1>2, <1>4, RefuseKeeps DEF ExternalCatchAborted
<1>5. CASE ExternalCatchFails
  <2>1. SameFrames(frames, frames')
    BY <1>5 DEF ExternalCatchFails, SameFrames, CallInv, TypeOK
  <2> QED
    BY <1>1, <1>2, <1>5, <2>1, SameKeeps DEF ExternalCatchFails, CallInv, TypeOK
<1> QED
  BY <1>3, <1>4, <1>5

-----------------------------------------------------------------------------
(* The theorems                                                            *)

\* The invariant holds throughout every execution of the virtual machine.
THEOREM CallStackInvariant == Spec => []CallInv
<1>1. Init => CallInv
  <2> SUFFICES ASSUME Init PROVE CallInv
    OBVIOUS
  <2>1. TypeOK
    BY EmptySeq DEF Init, TypeOK
  <2>2. Len(stack) = 0 /\ Len(active) = 0 /\ lost = 0 /\ stack = << >> /\ active = << >>
    BY EmptySeq DEF Init
  <2>3. StackInv /\ ActiveInv /\ FramesAccounted
    BY <2>2 DEF StackInv, ActiveInv, FramesAccounted
  <2>4. HostInv
    BY DEF Init, HostInv
  <2>5. StackMatchesActivations
    BY <2>2 DEF StackMatchesActivations
  <2> QED
    BY <2>1, <2>3, <2>4, <2>5 DEF CallInv
<1>2. CallInv /\ [Next]_vars => CallInv'
  <2> SUFFICES ASSUME CallInv, [Next]_vars PROVE CallInv'
    OBVIOUS
  <2>1. CASE Next
    BY <2>1, CallsKeep, AbortedKeeps, BodyKeeps, UnwindKeeps, ExternalKeeps, CatchKeeps DEF Next, Step
  <2>2. CASE UNCHANGED vars
    BY <2>2 DEF vars, CallInv, TypeOK, StackInv, ActiveInv, HostInv, FramesAccounted,
                StackMatchesActivations
  <2> QED
    BY <2>1, <2>2
<1> QED
  BY <1>1, <1>2, PTL DEF Spec

\* The raw CallStackFrame pointers of every activation of InvokeMethodInternal,
\* to its own frame and to PreviousFrame, point to frames CallStack still owns.
THEOREM FramesStayAlive == Spec => []ActiveFramesAlive
<1>1. CallInv => ActiveFramesAlive
  <2> SUFFICES ASSUME CallInv, NEW i \in DOMAIN active
               PROVE  /\ active[i].frame \in Range(stack)
                      /\ frames[active[i].frame].prev # NoFrame =>
                            frames[active[i].frame].prev \in Range(stack)
    BY DEF ActiveFramesAlive
  <2>1. /\ DOMAIN active = 1 .. Len(active) /\ DOMAIN stack = 1 .. Len(stack)
        /\ Len(stack) \in Nat
    BY LenProperties DEF CallInv, TypeOK
  <2>2. PICK j \in 1 .. Len(stack) : active[i].frame = stack[j]
    BY <2>1 DEF CallInv, ActiveInv
  <2>3. frames[stack[j]].prev = IF j = 1 THEN NoFrame ELSE stack[j - 1]
    BY DEF CallInv, StackInv
  <2>4. j # 1 => j - 1 \in 1 .. Len(stack)
    BY <2>1
  <2> QED
    BY <2>1, <2>2, <2>3, <2>4 DEF Range
<1> QED
  BY <1>1, CallStackInvariant, PTL

\* CallStack holds exactly the frames of the activations and those that C++
\* exceptions left behind in InvokeMethod.
THEOREM NoFrameUnaccounted == Spec => []FramesAccounted
<1>1. CallInv => FramesAccounted
  BY DEF CallInv
<1> QED
  BY <1>1, CallStackInvariant, PTL

\* Without a frame left behind, CurrentFrame() is the frame that runs.
THEOREM StackIsActivations == Spec => []StackMatchesActivations
<1>1. CallInv => StackMatchesActivations
  BY DEF CallInv
<1> QED
  BY <1>1, CallStackInvariant, PTL
=============================================================================
