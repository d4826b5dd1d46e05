--------------------------- MODULE SequenceFacts ---------------------------
(***************************************************************************)
(* Facts that the proofs of the other modules use: Front and Last of a     *)
(* sequence, induction over a set of numbers, functions on numbers that    *)
(* are defined by recursion.                                               *)
(***************************************************************************)
EXTENDS SequencesExt, SequenceTheorems, FiniteSetTheorems, TLAPS

\* The last element and the rest of a non-empty sequence: what back() and
\* pop_back() of a std::vector leave.
LEMMA FrontLast ==
    ASSUME NEW S, NEW s \in Seq(S), s # << >>
    PROVE  /\ Last(s) \in S
           /\ Last(s) = s[Len(s)]
           /\ Front(s) \in Seq(S)
           /\ Len(s) > 0
           /\ Len(Front(s)) = Len(s) - 1
           /\ \A i \in 1 .. Len(s) - 1 : Front(s)[i] = s[i]
<1>1. Len(s) \in Nat \ {0} /\ DOMAIN s = 1 .. Len(s) /\ \A i \in 1 .. Len(s) : s[i] \in S
  BY EmptySeq, LenProperties, ElementOfSeq
<1>2. Last(s) \in S
  BY <1>1 DEF Last
<1>3. /\ SubSeq(s, 1, Len(s) - 1) \in Seq(S)
      /\ Len(SubSeq(s, 1, Len(s) - 1)) = Len(s) - 1
      /\ \A i \in 1 .. Len(s) - 1 : SubSeq(s, 1, Len(s) - 1)[i] = s[i]
  <2>1. Len(s) - 1 \in Int /\ \A i \in 1 .. Len(s) - 1 : s[i] \in S
    BY <1>1
  <2>2. /\ SubSeq(s, 1, Len(s) - 1) \in Seq(S)
        /\ Len(SubSeq(s, 1, Len(s) - 1)) = IF 1 <= Len(s) - 1 THEN (Len(s) - 1) - 1 + 1 ELSE 0
        /\ \A i \in 1 .. (Len(s) - 1) - 1 + 1 : SubSeq(s, 1, Len(s) - 1)[i] = s[1 + i - 1]
    BY <2>1, SubSeqProperties
  <2> QED
    BY <2>2, <1>1
<1> QED
  BY <1>1, <1>2, <1>3 DEF Front, Last

\* What is left of a non-empty sequence without its first element.
LEMMA TailFacts ==
    ASSUME NEW S, NEW s \in Seq(S), s # << >>
    PROVE  /\ Tail(s) \in Seq(S) /\ s[1] \in S /\ Head(s) = s[1]
           /\ Len(s) \in Nat \ {0} /\ DOMAIN s = 1 .. Len(s)
           /\ Len(Tail(s)) = Len(s) - 1 /\ (Len(s) = 1 => Tail(s) = << >>)
           /\ \A i \in DOMAIN Tail(s) : i \in Nat /\ i + 1 # 1 /\ i + 1 \in DOMAIN s /\ Tail(s)[i] = s[i + 1]
           /\ \A i \in DOMAIN s : i \in Nat /\ (i # 1 => i - 1 \in DOMAIN Tail(s) /\ Tail(s)[i - 1] = s[i])
<1>1. Len(s) \in Nat \ {0} /\ DOMAIN s = 1 .. Len(s)
  BY EmptySeq, LenProperties
<1>2. Tail(s) \in Seq(S) /\ Len(Tail(s)) = Len(s) - 1 /\ \A i \in 1 .. Len(Tail(s)) : Tail(s)[i] = s[i + 1]
  BY HeadTailProperties
<1>3. DOMAIN Tail(s) = 1 .. Len(s) - 1
  BY <1>2, LenProperties
<1>4. ASSUME Len(s) = 1 PROVE Tail(s) = << >>
  <2>1. \A t \in Seq(S) : t # << >> => Len(t) \in Nat \ {0}
    BY EmptySeq
  <2>2. Len(Tail(s)) = 0
    BY <1>2, <1>4
  <2> QED
    BY <1>2, <2>1, <2>2
<1>5. s[1] \in S /\ Head(s) = s[1]
  BY <1>1, ElementOfSeq
<1>6. ASSUME NEW i \in DOMAIN Tail(s) PROVE i \in Nat /\ i + 1 # 1 /\ i + 1 \in DOMAIN s /\ Tail(s)[i] = s[i + 1]
  BY <1>1, <1>2, <1>3
<1>7. ASSUME NEW i \in DOMAIN s, i # 1 PROVE i - 1 \in DOMAIN Tail(s) /\ Tail(s)[i - 1] = s[i]
  <2>1. i - 1 \in 1 .. Len(s) - 1 /\ (i - 1) + 1 = i
    BY <1>1, <1>7
  <2>2. Tail(s)[i - 1] = s[(i - 1) + 1]
    BY <1>2, <2>1
  <2> QED
    BY <1>3, <2>1, <2>2
<1>8. \A i \in DOMAIN s : i \in Nat
  BY <1>1
<1> QED
  BY <1>1, <1>2, <1>4, <1>5, <1>6, <1>7, <1>8

-----------------------------------------------------------------------------
(* Recursion over numbers                                                  *)

\* Induction, for a set of numbers.
LEMMA NatSet ==
    ASSUME NEW S \in SUBSET Nat, 0 \in S, \A n \in S : n + 1 \in S
    PROVE  S = Nat
<1> SUFFICES ASSUME Nat \ S # {} PROVE FALSE
  OBVIOUS
<1> DEFINE T == Nat \ S
<1>1. PICK x \in T : \A y \in T : ~(<< y, x >> \in OpToRel(<, Nat))
  BY NatLessThanWellFounded, WFMin
<1>2. \A y \in T : ~(y < x)
  BY <1>1 DEF OpToRel
<1>3. x \in Nat /\ x \notin S /\ x # 0
  BY <1>1
<1>4. x - 1 \in Nat /\ x - 1 < x /\ (x - 1) + 1 = x
  BY <1>3
<1>5. x - 1 \in S
  BY <1>2, <1>4
<1>6. (x - 1) + 1 \in S
  BY <1>5
<1> QED
  BY <1>3, <1>4, <1>6

\* g is the function on the numbers that starts with "first" and goes on with
\* "step".
Iterates(g, W, first, step) ==
    /\ g \in [Nat -> W]
    /\ g[0] = first
    /\ \A n \in Nat : g[n + 1] = step[n][g[n]]

\* A function on the numbers that is defined by recursion exists.
LEMMA Recursion ==
    ASSUME NEW W, NEW first \in W, NEW step \in [Nat -> [W -> W]]
    PROVE  \E g : Iterates(g, W, first, step)
<1> DEFINE Traces(n) == {t \in [0 .. n -> W] : t[0] = first /\ \A i \in 0 .. n - 1 : t[i + 1] = step[i][t[i]]}
           S == {n \in Nat : Traces(n) # {}}
           U == {n \in Nat : \A t, u \in Traces(n) : t = u}
<1>1. S = Nat
  <2>1. 0 \in S
    <3>1. [i \in 0 .. 0 |-> first] \in Traces(0)
      OBVIOUS
    <3> QED
      BY <3>1
  <2>2. ASSUME NEW n \in S PROVE n + 1 \in S
    <3>1. PICK t : t \in Traces(n)
      OBVIOUS
    <3> DEFINE u == [i \in 0 .. n + 1 |-> IF i = n + 1 THEN step[n][t[n]] ELSE t[i]]
    <3>2. u \in Traces(n + 1)
      <4>1. t[n] \in W /\ step[n][t[n]] \in W
        BY <3>1
      <4>2. u \in [0 .. n + 1 -> W]
        BY <3>1, <4>1
      <4>3. u[0] = first
        BY <3>1
      <4>4. ASSUME NEW i \in 0 .. n PROVE u[i + 1] = step[i][u[i]]
        <5>1. CASE i = n
          <6>1. n + 1 \in 0 .. n + 1 /\ n \in 0 .. n + 1 /\ n # n + 1
            OBVIOUS
          <6>2. u[n + 1] = step[n][t[n]] /\ u[n] = t[n]
            BY <6>1
          <6> QED
            BY <5>1, <6>2
        <5>2. CASE i # n
          <6>1. i \in 0 .. n - 1 /\ i + 1 \in 0 .. n + 1 /\ i \in 0 .. n + 1 /\ i + 1 # n + 1 /\ i # n + 1
            BY <5>2
          <6>2. t[i + 1] = step[i][t[i]]
            BY <3>1, <6>1
          <6> QED
            BY <6>1, <6>2
        <5> QED
          BY <5>1, <5>2
      <4> HIDE DEF u
      <4>5. n = (n + 1) - 1 /\ n + 1 \in Nat
        OBVIOUS
      <4> QED
        BY <4>2, <4>3, <4>4, <4>5
    <3> HIDE DEF u
    <3> QED
      BY <3>2
  <2> HIDE DEF S
  <2> QED
    BY <2>1, <2>2, NatSet DEF S
<1>2. U = Nat
  <2>1. 0 \in U
    OBVIOUS
  <2>2. ASSUME NEW n \in U PROVE n + 1 \in U
    <3> SUFFICES ASSUME NEW t \in Traces(n + 1), NEW u \in Traces(n + 1) PROVE t = u
      <4> HIDE DEF Traces
      <4> QED
        OBVIOUS
    <3> DEFINE a == [i \in 0 .. n |-> t[i]]  b == [i \in 0 .. n |-> u[i]]
    <3>1. a \in Traces(n) /\ b \in Traces(n)
      OBVIOUS
    <3>2. a = b
      BY <3>1
    <3>3. \A i \in 0 .. n : t[i] = a[i] /\ u[i] = b[i]
      OBVIOUS
    <3> HIDE DEF a, b
    <3>4. \A i \in 0 .. n : t[i] = u[i]
      BY <3>2, <3>3
    <3>5. n \in 0 .. (n + 1) - 1 /\ n \in 0 .. n
      OBVIOUS
    <3>6. t[n + 1] = step[n][t[n]] /\ u[n + 1] = step[n][u[n]]
      BY <3>5
    <3>7. t[n + 1] = u[n + 1]
      BY <3>4, <3>5, <3>6
    <3>8. t \in [0 .. n + 1 -> W] /\ u \in [0 .. n + 1 -> W]
      OBVIOUS
    <3>9. \A i \in 0 .. n + 1 : t[i] = u[i]
      BY <3>4, <3>7
    <3> QED
      BY <3>8, <3>9
  <2> HIDE DEF U
  <2> QED
    BY <2>1, <2>2, NatSet DEF U
<1> DEFINE trace(n) == CHOOSE t : t \in Traces(n)
           g == [n \in Nat |-> trace(n)[n]]
<1>3. \A n \in Nat : trace(n) \in Traces(n)
  BY <1>1
<1>4. ASSUME NEW n \in Nat PROVE trace(n + 1)[n] = trace(n)[n]
  <2>1. trace(n + 1) \in Traces(n + 1)
    <3>1. n + 1 \in Nat
      OBVIOUS
    <3> HIDE DEF trace, Traces
    <3> QED
      BY <1>3, <3>1
  <2>2. trace(n) \in Traces(n)
    BY <1>3
  <2>3. PICK t : t = trace(n + 1) /\ t \in Traces(n + 1)
    BY <2>1
  <2> DEFINE b == [i \in 0 .. n |-> t[i]]
  <2>4. b \in Traces(n)
    <3>1. t \in [0 .. n + 1 -> W] /\ t[0] = first
      BY <2>3
    <3>2. \A i \in 0 .. n : t[i + 1] = step[i][t[i]]
      <4>1. n = (n + 1) - 1
        OBVIOUS
      <4> QED
        BY <2>3, <4>1
    <3>3. b \in [0 .. n -> W] /\ b[0] = first
      BY <3>1
    <3>4. ASSUME NEW i \in 0 .. n - 1 PROVE b[i + 1] = step[i][b[i]]
      <4>1. i \in 0 .. n /\ i + 1 \in 0 .. n
        OBVIOUS
      <4>2. b[i + 1] = t[i + 1] /\ b[i] = t[i]
        BY <4>1
      <4> QED
        BY <3>2, <4>1, <4>2
    <3> HIDE DEF b
    <3> QED
      BY <3>3, <3>4
  <2>5. b[n] = t[n]
    OBVIOUS
  <2> HIDE DEF b, trace, Traces
  <2>6. b = trace(n)
    BY <1>2, <2>2, <2>4
  <2> QED
    BY <2>3, <2>5, <2>6
<1> HIDE DEF trace
<1>5. g \in [Nat -> W] /\ g[0] = first
  BY <1>3
<1>6. ASSUME NEW n \in Nat PROVE g[n + 1] = step[n][g[n]]
  <2>1. trace(n + 1)[n + 1] = step[n][trace(n + 1)[n]]
    BY <1>3
  <2> QED
    BY <1>4, <2>1
<1>7. Iterates(g, W, first, step)
  BY <1>5, <1>6 DEF Iterates
<1> QED
  BY <1>7

\* The same on the numbers up to m.
IteratesTo(g, W, m, first, step) ==
    /\ g \in [0 .. m -> W]
    /\ g[0] = first
    /\ \A n \in 0 .. m - 1 : g[n + 1] = step[n][g[n]]

\* A function on 0 .. m that is defined by recursion exists.
LEMMA FiniteRecursion ==
    ASSUME NEW W, NEW m \in Nat, NEW first \in W, NEW step \in [0 .. m - 1 -> [W -> W]]
    PROVE  \E g : IteratesTo(g, W, m, first, step)
<1> DEFINE full == [n \in Nat |-> IF n < m THEN step[n] ELSE [x \in W |-> x]]
<1>1. full \in [Nat -> [W -> W]] /\ \A n \in 0 .. m - 1 : full[n] = step[n]
  <2>1. ASSUME NEW n \in Nat, n < m PROVE n \in 0 .. m - 1
    BY <2>1
  <2>2. ASSUME NEW n \in 0 .. m - 1 PROVE n \in Nat /\ n < m
    OBVIOUS
  <2>3. \A n \in Nat : (IF n < m THEN step[n] ELSE [x \in W |-> x]) \in [W -> W]
    BY <2>1
  <2> QED
    BY <2>2, <2>3
<1> HIDE DEF full
<1>2. \E g : Iterates(g, W, first, full)
  BY <1>1, Recursion
<1>3. PICK g : g \in [Nat -> W] /\ g[0] = first /\ \A n \in Nat : g[n + 1] = full[n][g[n]]
  BY <1>2 DEF Iterates
<1> DEFINE t == [n \in 0 .. m |-> g[n]]
<1>4. t \in [0 .. m -> W] /\ t[0] = first
  BY <1>3
<1>5. ASSUME NEW n \in 0 .. m - 1 PROVE t[n + 1] = step[n][t[n]]
  <2>1. n \in 0 .. m /\ n + 1 \in 0 .. m /\ n \in Nat
    OBVIOUS
  <2>2. t[n + 1] = g[n + 1] /\ t[n] = g[n] /\ g[n + 1] = full[n][g[n]]
    BY <1>3, <2>1
  <2> QED
    BY <1>1, <2>2
<1>6. IteratesTo(t, W, m, first, step)
  <2> HIDE DEF t
  <2> QED
    BY <1>4, <1>5 DEF IteratesTo
<1> QED
  BY <1>6
=============================================================================
