---------------------------- MODULE Hosts_proofs ----------------------------
(***************************************************************************)
(* Proofs about the compilation context: the order of versions and what    *)
(* the operators ^ and ~ admit, the version chosen for a dependency, the   *)
(* load order that Kahn's algorithm finds, and what AddLibraries loads.    *)
(***************************************************************************)
EXTENDS Hosts, SequenceFacts

-----------------------------------------------------------------------------
(* Versions                                                                *)

VersionSet == [1 .. 3 -> Nat]

\* Less compares the major, the minor and the patch number in this order.
LEMMA LessMeans ==
    ASSUME NEW v \in VersionSet, NEW w \in VersionSet
    PROVE  Less(v, w) <=> \/ v[1] < w[1]
                          \/ v[1] = w[1] /\ v[2] < w[2]
                          \/ v[1] = w[1] /\ v[2] = w[2] /\ v[3] < w[3]
<1>1. 1 .. 3 = {1, 2, 3} /\ 1 .. (1 - 1) = {} /\ 1 .. (2 - 1) = {1} /\ 1 .. (3 - 1) = {1, 2}
  OBVIOUS
<1> DEFINE First(i) == v[i] < w[i] /\ \A k \in 1 .. (i - 1) : v[k] = w[k]
<1>2. First(1) <=> v[1] < w[1]
  BY <1>1
<1>3. First(2) <=> v[1] = w[1] /\ v[2] < w[2]
  BY <1>1
<1>4. First(3) <=> v[1] = w[1] /\ v[2] = w[2] /\ v[3] < w[3]
  BY <1>1
<1>5. Less(v, w) <=> \E i \in {1, 2, 3} : First(i)
  BY <1>1 DEF Less
<1> HIDE DEF First
<1> QED
  BY <1>2, <1>3, <1>4, <1>5

\* The numbers of a version, and a version is its numbers.
LEMMA VersionNumbers ==
    ASSUME NEW v \in VersionSet, NEW w \in VersionSet
    PROVE  /\ v[1] \in Nat /\ v[2] \in Nat /\ v[3] \in Nat
           /\ v = w <=> v[1] = w[1] /\ v[2] = w[2] /\ v[3] = w[3]
<1>1. \A i \in 1 .. 3 : i = 1 \/ i = 2 \/ i = 3
  OBVIOUS
<1>2. v[1] \in Nat /\ v[2] \in Nat /\ v[3] \in Nat
  BY DEF VersionSet
<1>3. ASSUME v[1] = w[1], v[2] = w[2], v[3] = w[3] PROVE v = w
  <2>1. \A i \in 1 .. 3 : v[i] = w[i]
    BY <1>1, <1>3
  <2> QED
    BY <2>1 DEF VersionSet
<1> QED
  BY <1>2, <1>3

\* The comparisons of versions are those of a strict total order
\* (SemanticVersion: operator<, operator==), whatever the numbers.
THEOREM VersionOrder ==
    ASSUME NEW u \in VersionSet, NEW v \in VersionSet, NEW w \in VersionSet
    PROVE  /\ ~Less(v, v)
           /\ Less(u, v) /\ Less(v, w) => Less(u, w)
           /\ Less(v, w) \/ Less(w, v) \/ v = w
           /\ ~(Less(v, w) /\ Less(w, v))
<1>1. /\ u[1] \in Nat /\ u[2] \in Nat /\ u[3] \in Nat
      /\ v[1] \in Nat /\ v[2] \in Nat /\ v[3] \in Nat
      /\ w[1] \in Nat /\ w[2] \in Nat /\ w[3] \in Nat
  BY VersionNumbers
<1>2. ~Less(v, v)
  BY <1>1, LessMeans
<1>3. ASSUME Less(u, v), Less(v, w) PROVE Less(u, w)
  BY <1>1, <1>3, LessMeans
<1>4. Less(v, w) \/ Less(w, v) \/ v = w
  BY <1>1, LessMeans, VersionNumbers
<1>5. ~(Less(v, w) /\ Less(w, v))
  BY <1>1, LessMeans
<1> QED
  BY <1>2, <1>3, <1>4, <1>5

Caret(v) == [op |-> "Compatible", version |-> v]
Tilde(v) == [op |-> "Approximately", version |-> v]

\* A version is met by ^ exactly if it is not below the version of the constraint and has
\* its numbers up to the first that is not zero (VersionExpression::Satisfies: Compatible).
THEOREM CaretMeans ==
    ASSUME NEW v \in VersionSet, NEW w \in VersionSet
    PROVE  Meets(w, Caret(v)) <=>
             /\ w = v \/ Less(v, w)
             /\ \A i \in 1 .. 3 : (\A k \in 1 .. (i - 1) : v[k] = 0) => w[i] = v[i]
<1> DEFINE upper == UpperOfCompatible(v)
           Kept(i) == (\A k \in 1 .. (i - 1) : v[k] = 0) => w[i] = v[i]
<1>1. /\ v[1] \in Nat /\ v[2] \in Nat /\ v[3] \in Nat
      /\ w[1] \in Nat /\ w[2] \in Nat /\ w[3] \in Nat
  BY VersionNumbers
<1>2. Meets(w, Caret(v)) <=> ~Less(w, v) /\ Less(w, upper)
  BY DEF Meets, Caret
<1>3. /\ upper \in VersionSet
      /\ upper[1] = IF v[1] > 0 THEN v[1] + 1 ELSE v[1]
      /\ upper[2] = IF v[1] > 0 THEN 0 ELSE IF v[2] > 0 THEN v[2] + 1 ELSE v[2]
      /\ upper[3] = IF v[1] > 0 \/ v[2] > 0 THEN 0 ELSE v[3] + 1
  BY <1>1 DEF UpperOfCompatible, VersionSet
<1>4. 1 .. 3 = {1, 2, 3} /\ 1 .. (1 - 1) = {} /\ 1 .. (2 - 1) = {1} /\ 1 .. (3 - 1) = {1, 2}
  OBVIOUS
<1>5. (\A i \in 1 .. 3 : Kept(i)) <=>
        w[1] = v[1] /\ (v[1] = 0 => w[2] = v[2]) /\ (v[1] = 0 /\ v[2] = 0 => w[3] = v[3])
  <2>1. Kept(1) <=> w[1] = v[1]
    BY <1>4
  <2>2. Kept(2) <=> (v[1] = 0 => w[2] = v[2])
    BY <1>4
  <2>3. Kept(3) <=> (v[1] = 0 /\ v[2] = 0 => w[3] = v[3])
    BY <1>4
  <2> HIDE DEF Kept
  <2> QED
    BY ONLY <1>4, <2>1, <2>2, <2>3
<1> HIDE DEF upper, Kept
<1>6. ~Less(w, v) <=> w = v \/ Less(v, w)
  BY VersionOrder
<1>7. Less(v, w) <=> \/ v[1] < w[1]
                     \/ v[1] = w[1] /\ v[2] < w[2]
                     \/ v[1] = w[1] /\ v[2] = w[2] /\ v[3] < w[3]
  BY LessMeans
<1>8. Less(w, upper) <=> \/ w[1] < upper[1]
                         \/ w[1] = upper[1] /\ w[2] < upper[2]
                         \/ w[1] = upper[1] /\ w[2] = upper[2] /\ w[3] < upper[3]
  BY <1>3, LessMeans
<1>9. v = w <=> v[1] = w[1] /\ v[2] = w[2] /\ v[3] = w[3]
  BY VersionNumbers
<1>10. (w = v \/ Less(v, w)) => (Less(w, upper) <=> \A i \in 1 .. 3 : Kept(i))
  BY ONLY <1>1, <1>3, <1>5, <1>7, <1>8, <1>9
<1> QED
  BY ONLY <1>2, <1>6, <1>10 DEF Kept

\* A version is met by ~ exactly if it is not below the version of the constraint and has
\* its major and minor number (VersionExpression::Satisfies: Approximately).
THEOREM TildeMeans ==
    ASSUME NEW v \in VersionSet, NEW w \in VersionSet
    PROVE  Meets(w, Tilde(v)) <=> (w = v \/ Less(v, w)) /\ w[1] = v[1] /\ w[2] = v[2]
<1> DEFINE upper == UpperOfApproximate(v)
<1>1. /\ v[1] \in Nat /\ v[2] \in Nat /\ v[3] \in Nat
      /\ w[1] \in Nat /\ w[2] \in Nat /\ w[3] \in Nat
  BY VersionNumbers
<1>2. Meets(w, Tilde(v)) <=> ~Less(w, v) /\ Less(w, upper)
  BY DEF Meets, Tilde
<1>3. upper \in VersionSet /\ upper[1] = v[1] /\ upper[2] = v[2] + 1 /\ upper[3] = 0
  BY <1>1 DEF UpperOfApproximate, VersionSet
<1> HIDE DEF upper
<1>4. ~Less(w, v) <=> w = v \/ Less(v, w)
  BY VersionOrder
<1>5. Less(v, w) <=> \/ v[1] < w[1]
                     \/ v[1] = w[1] /\ v[2] < w[2]
                     \/ v[1] = w[1] /\ v[2] = w[2] /\ v[3] < w[3]
  BY LessMeans
<1>6. Less(w, upper) <=> \/ w[1] < upper[1]
                         \/ w[1] = upper[1] /\ w[2] < upper[2]
                         \/ w[1] = upper[1] /\ w[2] = upper[2] /\ w[3] < upper[3]
  BY <1>3, LessMeans
<1>7. v = w <=> v[1] = w[1] /\ v[2] = w[2] /\ v[3] = w[3]
  BY VersionNumbers
<1>8. (w = v \/ Less(v, w)) => (Less(w, upper) <=> w[1] = v[1] /\ w[2] = v[2])
  BY ONLY <1>1, <1>3, <1>5, <1>6, <1>7
<1> QED
  BY <1>2, <1>4, <1>8

-----------------------------------------------------------------------------
(* Loops                                                                   *)

\* What holds at first and is kept by every step holds after each of them.
LEMMA SmallInduction ==
    ASSUME NEW m \in Nat, NEW P, 0 \in P, \A n \in 0 .. m - 1 : n \in P => n + 1 \in P
    PROVE  \A n \in 0 .. m : n \in P
<1> DEFINE S == {n \in Nat : n <= m => n \in P}
<1>1. 0 \in S
  OBVIOUS
<1>2. ASSUME NEW n \in S PROVE n + 1 \in S
  <2>1. CASE n + 1 <= m
    <3>1. n \in 0 .. m - 1 /\ n \in P
      BY <2>1
    <3> QED
      BY <3>1
  <2>2. CASE ~(n + 1 <= m)
    BY <2>2
  <2> QED
    BY <2>1, <2>2
<1> HIDE DEF S
<1>3. S = Nat
  BY <1>1, <1>2, NatSet DEF S
<1> QED
  BY <1>3 DEF S

\* g[n] is what a loop has after n of m steps.
Loops(g, W, m, first, step) ==
  g \in [0 .. m -> W] /\ g[0] = first /\ \A n \in 1 .. m : g[n] = step[n][g[n - 1]]

\* A solution of the equations of a loop exists ...
LEMMA LoopExists ==
    ASSUME NEW W, NEW m \in Nat, NEW first \in W, NEW step \in [1 .. m -> [W -> W]]
    PROVE  \E g : Loops(g, W, m, first, step)
<1> DEFINE shifted == [n \in 0 .. m - 1 |-> step[n + 1]]
<1>1. shifted \in [0 .. m - 1 -> [W -> W]]
  <2>1. \A n \in 0 .. m - 1 : n + 1 \in 1 .. m
    OBVIOUS
  <2> QED
    BY <2>1
<1>2. \A n \in 1 .. m : n - 1 \in 0 .. m - 1 /\ shifted[n - 1] = step[n]
  <2>1. \A n \in 1 .. m : n - 1 \in 0 .. m - 1 /\ (n - 1) + 1 = n
    OBVIOUS
  <2> QED
    BY <2>1
<1> HIDE DEF shifted
<1>3. PICK g : IteratesTo(g, W, m, first, shifted)
  BY <1>1, FiniteRecursion
<1>4. g \in [0 .. m -> W] /\ g[0] = first /\ \A n \in 0 .. m - 1 : g[n + 1] = shifted[n][g[n]]
  BY <1>3 DEF IteratesTo
<1>5. ASSUME NEW n \in 1 .. m PROVE g[n] = step[n][g[n - 1]]
  <2>1. n - 1 \in 0 .. m - 1 /\ (n - 1) + 1 = n
    OBVIOUS
  <2>2. g[(n - 1) + 1] = shifted[n - 1][g[n - 1]]
    BY <1>4, <2>1
  <2> QED
    BY <1>2, <2>1, <2>2
<1> QED
  BY <1>4, <1>5 DEF Loops

\* ... and every one stays in the set that the steps stay in.
LEMMA LoopStays ==
    ASSUME NEW W, NEW m \in Nat, NEW first \in W, NEW g, DOMAIN g = 0 .. m, g = [n \in DOMAIN g |-> g[n]],
           g[0] = first, \A n \in 1 .. m : g[n - 1] \in W => g[n] \in W
    PROVE  g \in [0 .. m -> W]
<1> DEFINE P == {n \in 0 .. m : g[n] \in W}
<1>1. 0 \in P
  OBVIOUS
<1>2. ASSUME NEW n \in 0 .. m - 1, n \in P PROVE n + 1 \in P
  <2>1. n + 1 \in 1 .. m /\ n + 1 \in 0 .. m /\ (n + 1) - 1 = n
    OBVIOUS
  <2> QED
    BY <1>2, <2>1
<1> HIDE DEF P
<1>3. \A n \in 0 .. m : n \in P
  BY <1>1, <1>2, SmallInduction
<1>4. \A n \in 0 .. m : g[n] \in W
  BY <1>3 DEF P
<1> QED
  BY <1>4

\* A sequence with one more element.
LEMMA AppendFacts ==
    ASSUME NEW S, NEW s \in Seq(S), NEW x \in S
    PROVE  /\ Append(s, x) \in Seq(S) /\ Len(s) \in Nat /\ DOMAIN s = 1 .. Len(s)
           /\ Len(Append(s, x)) = Len(s) + 1 /\ DOMAIN Append(s, x) = 1 .. Len(s) + 1
           /\ \A i \in 1 .. Len(s) : Append(s, x)[i] = s[i] /\ s[i] \in S
           /\ Append(s, x)[Len(s) + 1] = x
           /\ ToSet(Append(s, x)) = ToSet(s) \cup {x}
           /\ IsInjective(s) /\ x \notin ToSet(s) => IsInjective(Append(s, x))
<1> DEFINE t == Append(s, x)
           m == Len(s)
<1>1. m \in Nat /\ DOMAIN s = 1 .. m /\ \A i \in 1 .. m : s[i] \in S
  BY LenProperties, ElementOfSeq
<1>2. t \in Seq(S) /\ Len(t) = m + 1 /\ \A i \in 1 .. m : t[i] = s[i]
  BY AppendProperties
<1>3. t[m + 1] = x
  BY AppendProperties
<1>4. DOMAIN t = 1 .. m + 1
  BY <1>2, LenProperties
<1> HIDE DEF t, m
<1>5. \A i \in 1 .. m + 1 : i \in 1 .. m \/ i = m + 1
  BY <1>1
<1>6. 1 .. m \subseteq 1 .. m + 1 /\ m + 1 \in 1 .. m + 1
  BY <1>1
<1>7. ToSet(t) = ToSet(s) \cup {x}
  <2>1. ASSUME NEW y \in ToSet(t) PROVE y \in ToSet(s) \cup {x}
    <3>1. PICK i \in 1 .. m + 1 : y = t[i]
      BY <1>4 DEF ToSet
    <3> QED
      BY <1>1, <1>2, <1>3, <1>5, <3>1 DEF ToSet
  <2>2. ASSUME NEW y \in ToSet(s) PROVE y \in ToSet(t)
    <3>1. PICK i \in 1 .. m : y = s[i]
      BY <1>1 DEF ToSet
    <3> QED
      BY <1>2, <1>4, <1>6, <3>1 DEF ToSet
  <2>3. x \in ToSet(t)
    BY <1>3, <1>4, <1>6 DEF ToSet
  <2> QED
    BY <2>1, <2>2, <2>3
<1>8. ASSUME IsInjective(s), x \notin ToSet(s) PROVE IsInjective(t)
  <2>1. \A i \in 1 .. m : s[i] # x
    BY <1>1, <1>8 DEF ToSet
  <2>2. ASSUME NEW a \in 1 .. m + 1, NEW b \in 1 .. m + 1, t[a] = t[b] PROVE a = b
    BY <1>1, <1>2, <1>3, <1>5, <1>8, <2>1, <2>2 DEF IsInjective
  <2> QED
    BY <1>4, <2>2 DEF IsInjective
<1> QED
  BY <1>1, <1>2, <1>3, <1>4, <1>7, <1>8 DEF t, m

\* A sequence without repetitions, without its first element.
LEMMA TailOfDistinct ==
    ASSUME NEW S, NEW s \in Seq(S), s # << >>, IsInjective(s)
    PROVE  /\ Tail(s) \in Seq(S) /\ IsInjective(Tail(s))
           /\ Head(s) \in S /\ Head(s) \in ToSet(s)
           /\ ToSet(Tail(s)) = ToSet(s) \ {Head(s)}
<1> DEFINE t == Tail(s)
<1>1. /\ t \in Seq(S) /\ s[1] \in S /\ Head(s) = s[1] /\ Len(s) \in Nat \ {0} /\ DOMAIN s = 1 .. Len(s)
      /\ \A i \in DOMAIN t : i \in Nat /\ i + 1 # 1 /\ i + 1 \in DOMAIN s /\ t[i] = s[i + 1]
      /\ \A i \in DOMAIN s : i \in Nat /\ (i # 1 => i - 1 \in DOMAIN t /\ t[i - 1] = s[i])
  BY TailFacts
<1> HIDE DEF t
<1>2. 1 \in DOMAIN s
  BY <1>1
<1>3. IsInjective(t)
  <2>1. ASSUME NEW a \in DOMAIN t, NEW b \in DOMAIN t, t[a] = t[b] PROVE a = b
    <3>1. a + 1 = b + 1
      BY <1>1, <2>1 DEF IsInjective
    <3> QED
      BY <1>1, <3>1
  <2> QED
    BY <2>1 DEF IsInjective
<1>4. ASSUME NEW y \in ToSet(t) PROVE y \in ToSet(s) \ {s[1]}
  <2>1. PICK i \in DOMAIN t : y = t[i]
    BY DEF ToSet
  <2>2. i + 1 \in DOMAIN s /\ i + 1 # 1 /\ y = s[i + 1]
    BY <1>1, <2>1
  <2>3. s[i + 1] # s[1]
    BY <1>2, <2>2 DEF IsInjective
  <2> QED
    BY <2>2, <2>3 DEF ToSet
<1>5. ASSUME NEW y \in ToSet(s), y # s[1] PROVE y \in ToSet(t)
  <2>1. PICK i \in DOMAIN s : y = s[i]
    BY DEF ToSet
  <2> QED
    BY <1>1, <1>5, <2>1 DEF ToSet
<1> QED
  <2>1. ToSet(t) = ToSet(s) \ {s[1]}
    BY <1>4, <1>5
  <2>2. s[1] \in ToSet(s)
    BY <1>2 DEF ToSet
  <2> QED
    BY <1>1, <1>3, <2>1, <2>2 DEF t

\* A new element keeps a sequence free of repetitions.
LEMMA AppendNew ==
    ASSUME NEW S, NEW s \in Seq(S), NEW x \in S, IsInjective(s), x \notin ToSet(s)
    PROVE  IsInjective(Append(s, x)) /\ ToSet(Append(s, x)) = ToSet(s) \cup {x}
  BY AppendFacts

\* The numbers from 1, and the elements of a sequence.
LEMMA NumbersTo ==
    ASSUME NEW N \in Nat
    PROVE  IsFiniteSet(1 .. N) /\ Cardinality(1 .. N) = N
  BY FS_Interval

LEMMA ElementsOf ==
    ASSUME NEW S, NEW s \in Seq(S)
    PROVE  ToSet(s) \subseteq S
<1>1. DOMAIN s = 1 .. Len(s) /\ \A i \in 1 .. Len(s) : s[i] \in S
  BY LenProperties, ElementOfSeq
<1> QED
  BY <1>1 DEF ToSet

-----------------------------------------------------------------------------
(* The version chosen for a dependency                                     *)

\* A candidate: the index of a library and its version, if that can be read.
CandidateSet == Nat \X (VersionSet \cup {Nullopt})

\* The candidates are looked at one after the other.
LEMMA BestSteps ==
    ASSUME NEW candidates \in Seq(CandidateSet), NEW expression, NEW constraints
    PROVE  \E best \in [0 .. Len(candidates) -> CandidateSet \cup {Nullopt}] :
             /\ best[0] = Nullopt
             /\ \A n \in 1 .. Len(candidates) : best[n] = Better(best[n - 1], candidates[n], expression, constraints)
             /\ BestMatch(candidates, expression, constraints) =
                  IF expression # Wildcard /\ constraints = Nullopt THEN Nullopt ELSE best[Len(candidates)]
<1> DEFINE m == Len(candidates)
           W == CandidateSet \cup {Nullopt}
           first == Nullopt
           F(x, n) == Better(x, candidates[n], expression, constraints)
           Solves(g) == g = [n \in 0 .. m |-> IF n = 0 THEN first ELSE F(g[n - 1], n)]
           step == [n \in 1 .. m |-> [x \in W |-> F(x, n)]]
           at == CHOOSE g : Solves(g)
<1>1. m \in Nat /\ first \in W
  BY LenProperties
<1>2. ASSUME NEW x \in W, NEW n \in 1 .. m PROVE F(x, n) \in W
  BY ElementOfSeq DEF Better
<1>3. BestMatch(candidates, expression, constraints) =
        IF expression # Wildcard /\ constraints = Nullopt THEN Nullopt ELSE at[m]
  BY DEF BestMatch
<1> HIDE DEF m, W, first, F, at
<1>4. step \in [1 .. m -> [W -> W]] /\ \A n \in 1 .. m : \A x \in W : step[n][x] = F(x, n)
  BY <1>2
<1> HIDE DEF step
<1> PICK g : Loops(g, W, m, first, step)
  BY <1>1, <1>4, LoopExists
<1>5. g \in [0 .. m -> W] /\ g[0] = first /\ \A n \in 1 .. m : g[n] = step[n][g[n - 1]]
  BY DEF Loops
<1>6. Solves(g)
  <2>1. ASSUME NEW n \in 0 .. m PROVE g[n] = IF n = 0 THEN first ELSE F(g[n - 1], n)
    <3>1. CASE n = 0
      BY <1>5, <3>1
    <3>2. CASE n # 0
      <4>1. n \in 1 .. m /\ n - 1 \in 0 .. m
        BY <1>1, <3>2
      <4> QED
        BY <1>4, <1>5, <3>2, <4>1
    <3> QED
      BY <3>1, <3>2
  <2> QED
    BY <1>5, <2>1
<1>7. Solves(at)
  BY <1>6 DEF at
<1>8. at[0] = first /\ \A n \in 1 .. m : at[n] = F(at[n - 1], n)
  <2>1. 0 \in 0 .. m /\ \A n \in 1 .. m : n \in 0 .. m /\ n # 0
    BY <1>1
  <2> QED
    BY <1>7, <2>1
<1>9. at \in [0 .. m -> W]
  <2>1. DOMAIN at = 0 .. m /\ at = [n \in DOMAIN at |-> at[n]]
    BY <1>7
  <2>2. \A n \in 1 .. m : at[n - 1] \in W => at[n] \in W
    BY <1>2, <1>8
  <2> HIDE DEF Solves
  <2> QED
    BY <1>1, <1>8, <2>1, <2>2, LoopStays
<1> QED
  BY <1>3, <1>8, <1>9 DEF F, W, m, first

\* Among the first n candidates, best is the newest of those that the expression accepts.
NewestOf(best, n, candidates, expression, constraints) ==
  LET accepted == {i \in 1 .. n : Accepts(expression, constraints, candidates[i][2])}
  IN /\ best = Nullopt <=> accepted = {}
     /\ best # Nullopt =>
          /\ \E i \in accepted : best = candidates[i]
          /\ best[2] # Nullopt =>
               \A i \in accepted : candidates[i][2] # Nullopt => ~Less(best[2], candidates[i][2])

LEMMA CandidateFacts ==
    ASSUME NEW c \in CandidateSet
    PROVE  /\ c # Nullopt /\ c[1] \in Nat
           /\ c[2] # Nullopt => c[2] \in VersionSet
           /\ c[2] \in VersionSet => c[2] # Nullopt
<1>1. PICK k \in Nat, v \in VersionSet \cup {Nullopt} : c = << k, v >>
  BY DEF CandidateSet
<1>2. c[1] = k /\ c[2] = v /\ Len(c) = 2 /\ Len(Nullopt) = 0
  BY <1>1 DEF Nullopt
<1>3. ASSUME Nullopt \in VersionSet PROVE FALSE
  <2>1. DOMAIN Nullopt = 1 .. 3 /\ DOMAIN Nullopt = {}
    BY <1>3 DEF VersionSet, Nullopt
  <2> QED
    BY <2>1
<1> QED
  BY <1>1, <1>2, <1>3

\* One more candidate keeps it so.
LEMMA BestStep ==
    ASSUME NEW candidates \in Seq(CandidateSet), NEW expression, NEW constraints,
           NEW n \in 1 .. Len(candidates), NEW best \in CandidateSet \cup {Nullopt},
           NewestOf(best, n - 1, candidates, expression, constraints)
    PROVE  NewestOf(Better(best, candidates[n], expression, constraints), n, candidates, expression, constraints)
<1> DEFINE c == candidates[n]
           Accepted(k) == {i \in 1 .. k : Accepts(expression, constraints, candidates[i][2])}
           next == Better(best, c, expression, constraints)
<1>1. Len(candidates) \in Nat /\ \A i \in 1 .. Len(candidates) : candidates[i] \in CandidateSet
  BY LenProperties, ElementOfSeq
<1>2. c \in CandidateSet /\ c # Nullopt /\ n \in Nat
  BY <1>1, CandidateFacts
<1>3. \A i \in 1 .. n : i \in 1 .. n - 1 \/ i = n
  BY <1>1
<1>4. n \in 1 .. n /\ 1 .. n - 1 \subseteq 1 .. n /\ n \notin 1 .. n - 1 /\ 1 .. n \subseteq 1 .. Len(candidates)
  BY <1>1
<1>5. Accepted(n) = IF Accepts(expression, constraints, c[2]) THEN Accepted(n - 1) \cup {n} ELSE Accepted(n - 1)
  BY <1>3, <1>4
<1>6. /\ best = Nullopt <=> Accepted(n - 1) = {}
      /\ best # Nullopt =>
           /\ \E i \in Accepted(n - 1) : best = candidates[i]
           /\ best[2] # Nullopt =>
                \A i \in Accepted(n - 1) : candidates[i][2] # Nullopt => ~Less(best[2], candidates[i][2])
  BY DEF NewestOf
<1>7. \A i \in Accepted(n) : candidates[i] \in CandidateSet
  BY <1>1, <1>4
<1> HIDE DEF Accepted
<1> SUFFICES /\ next = Nullopt <=> Accepted(n) = {}
             /\ next # Nullopt =>
                  /\ \E i \in Accepted(n) : next = candidates[i]
                  /\ next[2] # Nullopt =>
                       \A i \in Accepted(n) : candidates[i][2] # Nullopt => ~Less(next[2], candidates[i][2])
  BY DEF NewestOf, Accepted
<1>8. CASE ~Accepts(expression, constraints, c[2])
  <2>1. next = best /\ Accepted(n) = Accepted(n - 1)
    BY <1>5, <1>8 DEF Better
  <2> HIDE DEF next
  <2> QED
    BY <1>6, <2>1
<1>9. CASE Accepts(expression, constraints, c[2]) /\ best = Nullopt
  <2>1. next = c /\ Accepted(n) = {n}
    BY <1>5, <1>6, <1>9 DEF Better, Newer
  <2>2. c[2] # Nullopt => ~Less(c[2], c[2])
    BY <1>2, CandidateFacts, VersionOrder
  <2> HIDE DEF next
  <2> QED
    BY <1>2, <2>1, <2>2
<1>10. CASE Accepts(expression, constraints, c[2]) /\ best # Nullopt /\ Newer(best, c)
  <2>1. next = c /\ Accepted(n) = Accepted(n - 1) \cup {n}
    BY <1>5, <1>10 DEF Better
  <2>2. best[2] # Nullopt /\ c[2] # Nullopt /\ Less(best[2], c[2])
    BY <1>10 DEF Newer
  <2>3. best[2] \in VersionSet /\ c[2] \in VersionSet
    BY <1>2, <1>10, <2>2, CandidateFacts
  <2>4. ASSUME NEW i \in Accepted(n), candidates[i][2] # Nullopt PROVE ~Less(c[2], candidates[i][2])
    <3>1. candidates[i][2] \in VersionSet
      BY <1>7, <2>4, CandidateFacts
    <3>2. CASE i = n
      BY <2>3, <3>2, VersionOrder
    <3>3. CASE i \in Accepted(n - 1)
      <4>1. ~Less(best[2], candidates[i][2])
        BY <1>6, <1>10, <2>2, <2>4, <3>3
      <4> QED
        BY <2>2, <2>3, <3>1, <4>1, VersionOrder
    <3> QED
      BY <2>1, <3>2, <3>3
  <2> HIDE DEF next
  <2> QED
    BY <1>2, <2>1, <2>4
<1>11. CASE Accepts(expression, constraints, c[2]) /\ best # Nullopt /\ ~Newer(best, c)
  <2>1. next = best /\ Accepted(n) = Accepted(n - 1) \cup {n}
    BY <1>5, <1>11 DEF Better
  <2>2. best[2] # Nullopt /\ c[2] # Nullopt => ~Less(best[2], c[2])
    BY <1>11 DEF Newer
  <2> HIDE DEF next
  <2> QED
    BY <1>6, <1>11, <2>1, <2>2
<1> QED
  BY <1>8, <1>9, <1>10, <1>11

\* The library chosen for a dependency is the newest of the candidates that its expression
\* accepts, and none is chosen only if the expression cannot be read or accepts none
\* (ResolveLibraryDependencies: bestMatch).
THEOREM BestMatchIsNewest ==
    ASSUME NEW candidates \in Seq(CandidateSet), NEW expression, NEW constraints
    PROVE  LET best == BestMatch(candidates, expression, constraints)
           IN IF expression # Wildcard /\ constraints = Nullopt THEN best = Nullopt
              ELSE NewestOf(best, Len(candidates), candidates, expression, constraints)
<1> DEFINE m == Len(candidates)
<1>1. m \in Nat
  BY LenProperties
<1>2. PICK best \in [0 .. m -> CandidateSet \cup {Nullopt}] :
        /\ best[0] = Nullopt
        /\ \A n \in 1 .. m : best[n] = Better(best[n - 1], candidates[n], expression, constraints)
        /\ BestMatch(candidates, expression, constraints) =
             IF expression # Wildcard /\ constraints = Nullopt THEN Nullopt ELSE best[m]
  BY BestSteps
<1> DEFINE P == {n \in 0 .. m : NewestOf(best[n], n, candidates, expression, constraints)}
<1>3. 0 \in P
  <2>1. 1 .. 0 = {} /\ 0 \in 0 .. m
    BY <1>1
  <2> QED
    BY <1>2, <2>1 DEF NewestOf
<1>4. ASSUME NEW n \in 0 .. m - 1, n \in P PROVE n + 1 \in P
  <2>1. n + 1 \in 1 .. m /\ n + 1 \in 0 .. m /\ (n + 1) - 1 = n /\ n \in 0 .. m
    BY <1>1
  <2>2. NewestOf(best[n], (n + 1) - 1, candidates, expression, constraints) /\ best[n] \in CandidateSet \cup {Nullopt}
    BY <1>2, <1>4, <2>1
  <2>3. NewestOf(Better(best[n], candidates[n + 1], expression, constraints), n + 1, candidates, expression, constraints)
    BY <2>1, <2>2, BestStep
  <2>4. best[n + 1] = Better(best[n], candidates[n + 1], expression, constraints)
    BY <1>2, <2>1
  <2> QED
    BY <2>1, <2>3, <2>4
<1> HIDE DEF P, m
<1>5. m \in P
  <2>1. m \in 0 .. m
    BY <1>1
  <2> QED
    BY <1>1, <1>3, <1>4, <2>1, SmallInduction
<1>6. NewestOf(best[m], m, candidates, expression, constraints)
  BY <1>5 DEF P
<1> QED
  BY <1>2, <1>6 DEF m

-----------------------------------------------------------------------------
(* Kahn's algorithm                                                        *)

\* Edges between N libraries; the target 0 is none of them.
EdgeSet(N) == [source : 1 .. N, target : 0 .. N]
StateSet(N) == [queue : Seq(1 .. N), order : Seq(1 .. N), inDegree : [1 .. N -> Int]]

\* The edges from library i that are not done.
Waits(edges, done, i) == {k \in DOMAIN edges \ done : edges[k].source = i}
DoneBy(edges, order) == {k \in DOMAIN edges : edges[k].target \in ToSet(order)}
\* Every library is behind those it depends on.
Behind(edges, order) ==
  \A p \in DOMAIN order, k \in DOMAIN edges :
    edges[k].source = order[p] => \E q \in 1 .. p - 1 : order[q] = edges[k].target
\* The counters count the edges that are not done, the libraries without one are in the
\* queue or in the order, each once.
Counts(N, edges, done, st) ==
  /\ st \in StateSet(N)
  /\ IsInjective(st.queue) /\ IsInjective(st.order) /\ ToSet(st.queue) \cap ToSet(st.order) = {}
  /\ \A i \in 1 .. N :
       /\ st.inDegree[i] = Cardinality(Waits(edges, done, i))
       /\ i \in ToSet(st.queue) \cup ToSet(st.order) <=> Waits(edges, done, i) = {}
  /\ Behind(edges, st.order)

LEMMA StateFields ==
    ASSUME NEW N \in Nat, NEW st \in StateSet(N)
    PROVE  /\ st.queue \in Seq(1 .. N) /\ st.order \in Seq(1 .. N) /\ st.inDegree \in [1 .. N -> Int]
           /\ st = [queue |-> st.queue, order |-> st.order, inDegree |-> st.inDegree]
  BY DEF StateSet

\* What the counters and the lists say of one library.
LEMMA CountsOf ==
    ASSUME NEW N, NEW edges, NEW done, NEW st, Counts(N, edges, done, st), NEW i \in 1 .. N
    PROVE  /\ st.inDegree[i] = Cardinality(Waits(edges, done, i))
           /\ i \in ToSet(st.queue) \cup ToSet(st.order) <=> Waits(edges, done, i) = {}
<1>1. st.inDegree[i] = Cardinality(Waits(edges, done, i))
  BY DEF Counts
<1>2. i \in ToSet(st.queue) \cup ToSet(st.order) <=> Waits(edges, done, i) = {}
  BY Zenon DEF Counts
<1> QED
  BY <1>1, <1>2

LEMMA EdgeFacts ==
    ASSUME NEW N \in Nat, NEW edges \in Seq(EdgeSet(N))
    PROVE  /\ Len(edges) \in Nat /\ DOMAIN edges = 1 .. Len(edges) /\ IsFiniteSet(DOMAIN edges)
           /\ \A k \in DOMAIN edges : edges[k].source \in 1 .. N /\ edges[k].target \in 0 .. N
<1>1. Len(edges) \in Nat /\ DOMAIN edges = 1 .. Len(edges)
  BY LenProperties
<1>2. \A k \in 1 .. Len(edges) : edges[k] \in EdgeSet(N)
  BY ElementOfSeq
<1>3. IsFiniteSet(1 .. Len(edges))
  BY <1>1, FS_Interval
<1> QED
  BY <1>1, <1>2, <1>3 DEF EdgeSet

\* What Release does to the three fields.
LEMMA ReleaseFields ==
    ASSUME NEW N \in Nat, NEW st \in StateSet(N), NEW edge \in EdgeSet(N)
    PROVE  LET s == edge.source
               next == Release(st, edge)
           IN /\ next \in StateSet(N)
              /\ next.order = st.order
              /\ next.inDegree = [st.inDegree EXCEPT ![s] = @ - 1]
              /\ next.queue = IF st.inDegree[s] - 1 = 0 THEN Append(st.queue, s) ELSE st.queue
<1> DEFINE s == edge.source
           next == Release(st, edge)
<1>1. s \in 1 .. N
  BY DEF EdgeSet
<1>2. st.queue \in Seq(1 .. N) /\ st.order \in Seq(1 .. N) /\ st.inDegree \in [1 .. N -> Int]
  BY StateFields
<1> DEFINE queue == IF st.inDegree[s] - 1 = 0 THEN Append(st.queue, s) ELSE st.queue
           inDegree == [st.inDegree EXCEPT ![s] = @ - 1]
<1>3. next = [queue |-> queue, order |-> st.order, inDegree |-> inDegree]
  BY DEF Release
<1> HIDE DEF next, s
<1>4. Append(st.queue, s) \in Seq(1 .. N)
  BY <1>1, <1>2, AppendProperties
<1>5. queue \in Seq(1 .. N)
  BY <1>2, <1>4
<1>6. inDegree \in [1 .. N -> Int]
  BY <1>1, <1>2
<1> HIDE DEF queue, inDegree
<1>7. next \in StateSet(N) /\ next.order = st.order /\ next.inDegree = inDegree /\ next.queue = queue
  BY <1>2, <1>3, <1>5, <1>6 DEF StateSet
<1> QED
  BY <1>7 DEF next, s, queue, inDegree

\* One more edge is done.
LEMMA ReleaseStep ==
    ASSUME NEW N \in Nat, NEW edges \in Seq(EdgeSet(N)), NEW done, NEW st, Counts(N, edges, done, st),
           NEW k \in DOMAIN edges \ done
    PROVE  Counts(N, edges, done \cup {k}, Release(st, edges[k])) /\ Release(st, edges[k]).order = st.order
<1> DEFINE s == edges[k].source
           next == Release(st, edges[k])
           Before(i) == Waits(edges, done, i)
           After(i) == Waits(edges, done \cup {k}, i)
<1>1. st \in StateSet(N) /\ edges[k] \in EdgeSet(N) /\ s \in 1 .. N
  <2>1. edges[k] \in EdgeSet(N)
    BY EdgeFacts, ElementOfSeq
  <2> QED
    BY <2>1 DEF Counts, EdgeSet
<1>2. /\ next \in StateSet(N) /\ next.order = st.order
      /\ next.inDegree = [st.inDegree EXCEPT ![s] = @ - 1]
      /\ next.queue = IF st.inDegree[s] - 1 = 0 THEN Append(st.queue, s) ELSE st.queue
  BY <1>1, ReleaseFields
<1>3. st.queue \in Seq(1 .. N) /\ st.order \in Seq(1 .. N) /\ st.inDegree \in [1 .. N -> Int]
  BY <1>1, StateFields
<1>4. /\ IsInjective(st.queue) /\ IsInjective(st.order) /\ ToSet(st.queue) \cap ToSet(st.order) = {}
      /\ Behind(edges, st.order)
  BY DEF Counts
<1>5. \A i \in 1 .. N : IsFiniteSet(Before(i))
  <2>1. \A i \in 1 .. N : Before(i) \subseteq DOMAIN edges
    BY DEF Waits
  <2> QED
    BY <2>1, EdgeFacts, FS_Subset
<1>6. k \in Before(s) /\ After(s) = Before(s) \ {k} /\ \A i \in 1 .. N : i # s => After(i) = Before(i)
  BY DEF Waits
<1> HIDE DEF next, Before, After, s
<1>7. /\ IsFiniteSet(After(s)) /\ Cardinality(After(s)) = Cardinality(Before(s)) - 1
      /\ Cardinality(Before(s)) - 1 = 0 <=> After(s) = {}
  <2>1. IsFiniteSet(After(s)) /\ Cardinality(After(s)) = Cardinality(Before(s)) - 1
    BY <1>1, <1>5, <1>6, FS_RemoveElement
  <2>2. Cardinality(After(s)) = 0 <=> After(s) = {}
    BY <2>1, FS_EmptySet
  <2> QED
    BY <2>1, <2>2
<1>8. s \notin ToSet(st.queue) \cup ToSet(st.order)
  <2>1. Before(s) # {}
    BY <1>6
  <2> QED
    BY <1>1, <2>1, CountsOf DEF Before
<1>9. \A i \in 1 .. N : next.inDegree[i] = Cardinality(After(i))
  <2>1. ASSUME NEW i \in 1 .. N PROVE next.inDegree[i] = IF i = s THEN st.inDegree[s] - 1 ELSE st.inDegree[i]
    BY <1>1, <1>2, <1>3
  <2>2. ASSUME NEW i \in 1 .. N PROVE next.inDegree[i] = Cardinality(After(i))
    <3>1. st.inDegree[i] = Cardinality(Before(i)) /\ st.inDegree[s] = Cardinality(Before(s))
      BY <1>1, CountsOf DEF Before
    <3>2. CASE i = s
      BY ONLY <1>7, <2>1, <3>1, <3>2
    <3>3. CASE i # s
      BY ONLY <1>6, <2>1, <3>1, <3>3
    <3> QED
      BY <3>2, <3>3
  <2> QED
    BY ONLY <2>2
<1>10. /\ ToSet(next.queue) = IF After(s) = {} THEN ToSet(st.queue) \cup {s} ELSE ToSet(st.queue)
       /\ IsInjective(next.queue)
  <2>1. st.inDegree[s] - 1 = 0 <=> After(s) = {}
    <3>1. st.inDegree[s] = Cardinality(Before(s))
      BY <1>1, CountsOf DEF Before
    <3> QED
      BY ONLY <1>7, <3>1
  <2>2. CASE After(s) = {}
    <3>1. next.queue = Append(st.queue, s)
      BY <1>2, <2>1, <2>2
    <3> QED
      BY <1>1, <1>3, <1>4, <1>8, <2>2, <3>1, AppendFacts
  <2>3. CASE After(s) # {}
    BY <1>2, <1>4, <2>1, <2>3
  <2> QED
    BY <2>2, <2>3
<1>11. ToSet(next.queue) \cap ToSet(next.order) = {}
  BY <1>2, <1>4, <1>8, <1>10
<1>12. \A i \in 1 .. N : i \in ToSet(next.queue) \cup ToSet(next.order) <=> After(i) = {}
  <2>1. ASSUME NEW i \in 1 .. N PROVE i \in ToSet(next.queue) \cup ToSet(next.order) <=> After(i) = {}
    <3>1. CASE i = s
      BY <1>2, <1>8, <1>10, <3>1
    <3>2. CASE i # s
      <4>1. After(i) = Before(i)
        BY <1>6, <3>2
      <4>2. i \in ToSet(next.queue) <=> i \in ToSet(st.queue)
        BY <1>10, <3>2
      <4>3. i \in ToSet(st.queue) \cup ToSet(st.order) <=> Before(i) = {}
        BY CountsOf DEF Before
      <4> QED
        BY ONLY <1>2, <4>1, <4>2, <4>3
    <3> QED
      BY <3>1, <3>2
  <2> QED
    BY <2>1
<1> QED
  BY <1>2, <1>4, <1>9, <1>10, <1>11, <1>12 DEF Counts, After, next, s

\* released[n] is the state when n edges have been looked at.
Releases(released, N, edges, st) ==
  /\ released \in [0 .. Len(edges) -> StateSet(N)]
  /\ released[0] = [queue |-> Tail(st.queue), order |-> Append(st.order, Head(st.queue)), inDegree |-> st.inDegree]
  /\ \A n \in 1 .. Len(edges) : released[n] = ReleaseFor(released[n - 1], edges[n], Head(st.queue))
  /\ Take(edges, st) = released[Len(edges)]

\* The edges are looked at one after the other.
LEMMA TakeSteps ==
    ASSUME NEW N \in Nat, NEW edges \in Seq(EdgeSet(N)), NEW st \in StateSet(N), st.queue # << >>
    PROVE  \E released : Releases(released, N, edges, st)
<1> DEFINE m == Len(edges)
           W == StateSet(N)
           first == [queue |-> Tail(st.queue), order |-> Append(st.order, Head(st.queue)), inDegree |-> st.inDegree]
           F(x, n) == ReleaseFor(x, edges[n], Head(st.queue))
           Solves(g) == g = [n \in 0 .. m |-> IF n = 0 THEN first ELSE F(g[n - 1], n)]
           step == [n \in 1 .. m |-> [x \in W |-> F(x, n)]]
           at == CHOOSE g : Solves(g)
<1>1. m \in Nat /\ first \in W
  <2>1. st.queue \in Seq(1 .. N) /\ st.order \in Seq(1 .. N) /\ st.inDegree \in [1 .. N -> Int]
    BY StateFields
  <2>2. Head(st.queue) \in 1 .. N /\ Tail(st.queue) \in Seq(1 .. N)
    BY <2>1, HeadTailProperties
  <2>3. Append(st.order, Head(st.queue)) \in Seq(1 .. N)
    BY <2>1, <2>2, AppendProperties
  <2>4. first \in StateSet(N)
    BY <2>1, <2>2, <2>3 DEF StateSet
  <2> QED
    BY <2>4, EdgeFacts
<1>2. ASSUME NEW x \in W, NEW n \in 1 .. m PROVE F(x, n) \in W
  <2>1. edges[n] \in EdgeSet(N)
    BY EdgeFacts, ElementOfSeq
  <2> QED
    BY <2>1, ReleaseFields DEF ReleaseFor
<1>3. Take(edges, st) = at[m]
  BY DEF Take
<1> HIDE DEF m, W, first, F, at
<1>4. step \in [1 .. m -> [W -> W]] /\ \A n \in 1 .. m : \A x \in W : step[n][x] = F(x, n)
  BY <1>2
<1> HIDE DEF step
<1> PICK g : Loops(g, W, m, first, step)
  BY <1>1, <1>4, LoopExists
<1>5. g \in [0 .. m -> W] /\ g[0] = first /\ \A n \in 1 .. m : g[n] = step[n][g[n - 1]]
  BY DEF Loops
<1>6. Solves(g)
  <2>1. ASSUME NEW n \in 0 .. m PROVE g[n] = IF n = 0 THEN first ELSE F(g[n - 1], n)
    <3>1. CASE n = 0
      BY <1>5, <3>1
    <3>2. CASE n # 0
      <4>1. n \in 1 .. m /\ n - 1 \in 0 .. m
        BY <1>1, <3>2
      <4> QED
        BY <1>4, <1>5, <3>2, <4>1
    <3> QED
      BY <3>1, <3>2
  <2> QED
    BY <1>5, <2>1
<1>7. Solves(at)
  BY <1>6 DEF at
<1>8. at[0] = first /\ \A n \in 1 .. m : at[n] = F(at[n - 1], n)
  <2>1. 0 \in 0 .. m /\ \A n \in 1 .. m : n \in 0 .. m /\ n # 0
    BY <1>1
  <2> QED
    BY <1>7, <2>1
<1>9. at \in [0 .. m -> W]
  <2>1. DOMAIN at = 0 .. m /\ at = [n \in DOMAIN at |-> at[n]]
    BY <1>7
  <2>2. \A n \in 1 .. m : at[n - 1] \in W => at[n] \in W
    BY <1>2, <1>8
  <2> HIDE DEF Solves
  <2> QED
    BY <1>1, <1>8, <2>1, <2>2, LoopStays
<1> QED
  BY <1>3, <1>8, <1>9 DEF F, W, m, first, Releases

\* A round of the algorithm: the head of the queue is in the order, its edges are done.
LEMMA TakeStep ==
    ASSUME NEW N \in Nat, NEW edges \in Seq(EdgeSet(N)), NEW st, st.queue # << >>,
           Counts(N, edges, DoneBy(edges, st.order), st)
    PROVE  LET next == Take(edges, st)
           IN Counts(N, edges, DoneBy(edges, next.order), next) /\ next.order = Append(st.order, Head(st.queue))
<1> DEFINE m == Len(edges)
           c == Head(st.queue)
           order == Append(st.order, c)
           Done(n) == DoneBy(edges, st.order) \cup {k \in 1 .. n : edges[k].target = c}
<1>1. /\ st \in StateSet(N) /\ IsInjective(st.queue) /\ IsInjective(st.order)
      /\ ToSet(st.queue) \cap ToSet(st.order) = {} /\ Behind(edges, st.order)
      /\ \A i \in 1 .. N :
           /\ st.inDegree[i] = Cardinality(Waits(edges, DoneBy(edges, st.order), i))
           /\ i \in ToSet(st.queue) \cup ToSet(st.order) <=> Waits(edges, DoneBy(edges, st.order), i) = {}
  BY DEF Counts
<1>2. st.queue \in Seq(1 .. N) /\ st.order \in Seq(1 .. N) /\ st.inDegree \in [1 .. N -> Int]
  BY <1>1, StateFields
<1>3. m \in Nat /\ DOMAIN edges = 1 .. m
  BY EdgeFacts
<1>4. /\ Tail(st.queue) \in Seq(1 .. N) /\ IsInjective(Tail(st.queue)) /\ c \in 1 .. N /\ c \in ToSet(st.queue)
      /\ ToSet(Tail(st.queue)) = ToSet(st.queue) \ {c}
  BY <1>1, <1>2, TailOfDistinct
<1>5. /\ order \in Seq(1 .. N) /\ ToSet(order) = ToSet(st.order) \cup {c} /\ IsInjective(order)
      /\ Len(st.order) \in Nat /\ DOMAIN st.order = 1 .. Len(st.order) /\ DOMAIN order = 1 .. Len(st.order) + 1
      /\ order[Len(st.order) + 1] = c /\ \A i \in 1 .. Len(st.order) : order[i] = st.order[i]
  <2>1. PICK s, x, S : s = st.order /\ x = c /\ S = 1 .. N
    OBVIOUS
  <2>2. s \in Seq(S) /\ x \in S /\ IsInjective(s) /\ x \notin ToSet(s)
    BY <1>1, <1>2, <1>4, <2>1
  <2> HIDE DEF c
  <2>3. /\ Append(s, x) \in Seq(S) /\ ToSet(Append(s, x)) = ToSet(s) \cup {x} /\ IsInjective(Append(s, x))
        /\ Len(s) \in Nat /\ DOMAIN s = 1 .. Len(s) /\ DOMAIN Append(s, x) = 1 .. Len(s) + 1
        /\ Append(s, x)[Len(s) + 1] = x /\ \A i \in 1 .. Len(s) : Append(s, x)[i] = s[i]
    BY <2>2, AppendFacts
  <2> QED
    BY <2>1, <2>3
<1> PICK released : Releases(released, N, edges, st)
  BY <1>1, TakeSteps
<1>R. /\ released \in [0 .. m -> StateSet(N)]
      /\ released[0] = [queue |-> Tail(st.queue), order |-> order, inDegree |-> st.inDegree]
      /\ \A n \in 1 .. m : released[n] = ReleaseFor(released[n - 1], edges[n], c)
      /\ Take(edges, st) = released[m]
  BY DEF Releases
<1>6. /\ released[0] \in StateSet(N) /\ released[0].queue = Tail(st.queue) /\ released[0].order = order
      /\ released[0].inDegree = st.inDegree
  <2>1. released[0] \in StateSet(N)
    <3>1. 0 \in 0 .. m
      BY <1>3
    <3> QED
      BY ONLY <1>R, <3>1
  <2> HIDE DEF order
  <2> QED
    BY <2>1, <1>R
<1>7. Behind(edges, order)
  <2> SUFFICES ASSUME NEW p \in 1 .. Len(st.order) + 1, NEW k \in DOMAIN edges, edges[k].source = order[p]
               PROVE  \E q \in 1 .. p - 1 : order[q] = edges[k].target
    BY <1>5 DEF Behind
  <2>1. CASE p = Len(st.order) + 1
    <3>1. Waits(edges, DoneBy(edges, st.order), c) = {} /\ edges[k].source = c
      BY <1>1, <1>4, <1>5, <2>1
    <3>2. edges[k].target \in ToSet(st.order)
      BY <3>1 DEF Waits, DoneBy
    <3>3. PICK q \in 1 .. Len(st.order) : edges[k].target = st.order[q]
      BY <1>5, <3>2 DEF ToSet
    <3> QED
      BY <1>5, <2>1, <3>3
  <2>2. CASE p # Len(st.order) + 1
    <3>1. p \in 1 .. Len(st.order) /\ order[p] = st.order[p]
      BY <1>5, <2>2
    <3>2. PICK q \in 1 .. p - 1 : st.order[q] = edges[k].target
      <4>1. edges[k].source = st.order[p] /\ p \in DOMAIN st.order
        BY <1>5, <3>1
      <4> HIDE DEF order, c
      <4> QED
        BY ONLY <1>1, <4>1 DEF Behind
    <3>3. q \in 1 .. Len(st.order)
      BY <1>5, <3>1
    <3>4. order[q] = edges[k].target
      BY ONLY <1>5, <3>2, <3>3
    <3> QED
      BY <3>4
  <2> QED
    BY <2>1, <2>2
<1> DEFINE P == {n \in 0 .. m : Counts(N, edges, Done(n), released[n]) /\ released[n].order = order}
<1>8. 0 \in P
  <2>1. Done(0) = DoneBy(edges, st.order)
    OBVIOUS
  <2>2. ToSet(Tail(st.queue)) \cap ToSet(order) = {}
    BY <1>1, <1>4, <1>5
  <2>3. ToSet(Tail(st.queue)) \cup ToSet(order) = ToSet(st.queue) \cup ToSet(st.order)
    BY <1>4, <1>5
  <2> HIDE DEF Done, order, c
  <2>4. Counts(N, edges, Done(0), released[0])
    BY <1>1, <1>4, <1>5, <1>6, <1>7, <2>1, <2>2, <2>3 DEF Counts
  <2> QED
    BY <1>3, <1>6, <2>4 DEF order
<1>9. ASSUME NEW n \in 0 .. m - 1, n \in P PROVE n + 1 \in P
  <2>1. n + 1 \in 1 .. m /\ n + 1 \in 0 .. m /\ n \in Nat /\ (n + 1) - 1 = n
    BY <1>3
  <2>2. released[n + 1] = ReleaseFor(released[n], edges[n + 1], c)
    BY <1>R, <2>1
  <2>3. Counts(N, edges, Done(n), released[n]) /\ released[n].order = order
    BY <1>9
  <2>4. \A k \in 1 .. n + 1 : k \in 1 .. n \/ k = n + 1
    BY <2>1
  <2>5. 1 .. n \subseteq 1 .. n + 1 /\ n + 1 \in 1 .. n + 1 /\ n + 1 \notin 1 .. n
    BY <2>1
  <2>6. CASE edges[n + 1].target = c
    <3>1. Done(n + 1) = Done(n) \cup {n + 1}
      BY <2>4, <2>5, <2>6
    <3>2. c \notin ToSet(st.order)
      BY <1>1, <1>4
    <3>3. n + 1 \in DOMAIN edges \ Done(n)
      BY <1>3, <2>1, <2>5, <2>6, <3>2 DEF DoneBy
    <3>4. released[n + 1] = Release(released[n], edges[n + 1])
      BY <2>2, <2>6 DEF ReleaseFor
    <3> HIDE DEF Done, order, c
    <3>5. PICK k, d, r : k = n + 1 /\ d = Done(n) /\ r = released[n]
      OBVIOUS
    <3>6. Counts(N, edges, d, r) /\ r.order = order /\ k \in DOMAIN edges \ d
      BY ONLY <2>3, <3>3, <3>5
    <3>7. Counts(N, edges, d \cup {k}, Release(r, edges[k])) /\ Release(r, edges[k]).order = order
      BY <3>6, ReleaseStep
    <3>8. Counts(N, edges, Done(n) \cup {n + 1}, released[n + 1]) /\ released[n + 1].order = order
      BY ONLY <3>4, <3>5, <3>7
    <3> QED
      BY <2>1, <3>1, <3>8
  <2>7. CASE edges[n + 1].target # c
    <3>1. Done(n + 1) = Done(n)
      BY <2>4, <2>5, <2>7
    <3>2. released[n + 1] = released[n]
      BY <2>2, <2>7 DEF ReleaseFor
    <3> HIDE DEF Done, order, c
    <3> QED
      BY <2>1, <2>3, <3>1, <3>2
  <2> QED
    BY <2>6, <2>7
<1>10. Done(m) = DoneBy(edges, order)
  BY <1>3, <1>5 DEF DoneBy
<1> HIDE DEF P, Done, order, c
<1>11. m \in P
  <2>1. m \in 0 .. m
    BY <1>3
  <2> QED
    BY <1>3, <1>8, <1>9, <2>1, SmallInduction
<1>12. Counts(N, edges, Done(m), Take(edges, st)) /\ Take(edges, st).order = order
  BY <1>R, <1>11 DEF P
<1> QED
  BY <1>10, <1>12 DEF order, c

\* The libraries are looked at one after the other.
LEMMA FreeSteps ==
    ASSUME NEW N \in Nat, NEW degrees \in [1 .. N -> Nat]
    PROVE  \E free \in [0 .. N -> Seq(1 .. N)] :
             /\ free[0] = << >>
             /\ \A n \in 1 .. N : free[n] = QueueFree(free[n - 1], degrees, n)
             /\ Free(degrees) = free[N]
<1> DEFINE m == N
           W == Seq(1 .. N)
           first == << >>
           F(x, n) == QueueFree(x, degrees, n)
           Solves(g) == g = [n \in 0 .. m |-> IF n = 0 THEN first ELSE F(g[n - 1], n)]
           step == [n \in 1 .. m |-> [x \in W |-> F(x, n)]]
           at == CHOOSE g : Solves(g)
<1>1. m \in Nat /\ first \in W
  BY EmptySeq
<1>2. ASSUME NEW x \in W, NEW n \in 1 .. m PROVE F(x, n) \in W
  BY AppendProperties DEF QueueFree
<1>3. Len(degrees) = m /\ Free(degrees) = at[m]
  <2>1. Len(degrees) = m
    OBVIOUS
  <2> QED
    BY <2>1 DEF Free
<1> HIDE DEF m, W, first, F, at
<1>4. step \in [1 .. m -> [W -> W]] /\ \A n \in 1 .. m : \A x \in W : step[n][x] = F(x, n)
  BY <1>2
<1> HIDE DEF step
<1> PICK g : Loops(g, W, m, first, step)
  BY <1>1, <1>4, LoopExists
<1>5. g \in [0 .. m -> W] /\ g[0] = first /\ \A n \in 1 .. m : g[n] = step[n][g[n - 1]]
  BY DEF Loops
<1>6. Solves(g)
  <2>1. ASSUME NEW n \in 0 .. m PROVE g[n] = IF n = 0 THEN first ELSE F(g[n - 1], n)
    <3>1. CASE n = 0
      BY <1>5, <3>1
    <3>2. CASE n # 0
      <4>1. n \in 1 .. m /\ n - 1 \in 0 .. m
        BY <1>1, <3>2
      <4> QED
        BY <1>4, <1>5, <3>2, <4>1
    <3> QED
      BY <3>1, <3>2
  <2> QED
    BY <1>5, <2>1
<1>7. Solves(at)
  BY <1>6 DEF at
<1>8. at[0] = first /\ \A n \in 1 .. m : at[n] = F(at[n - 1], n)
  <2>1. 0 \in 0 .. m /\ \A n \in 1 .. m : n \in 0 .. m /\ n # 0
    BY <1>1
  <2> QED
    BY <1>7, <2>1
<1>9. at \in [0 .. m -> W]
  <2>1. DOMAIN at = 0 .. m /\ at = [n \in DOMAIN at |-> at[n]]
    BY <1>7
  <2>2. \A n \in 1 .. m : at[n - 1] \in W => at[n] \in W
    BY <1>2, <1>8
  <2> HIDE DEF Solves
  <2> QED
    BY <1>1, <1>8, <2>1, <2>2, LoopStays
<1> QED
  BY <1>3, <1>8, <1>9 DEF F, W, m, first

\* The first queue holds the libraries that depend on nothing.
LEMMA FreeFacts ==
    ASSUME NEW N \in Nat, NEW degrees \in [1 .. N -> Nat]
    PROVE  /\ Free(degrees) \in Seq(1 .. N) /\ IsInjective(Free(degrees))
           /\ ToSet(Free(degrees)) = {i \in 1 .. N : degrees[i] = 0}
<1> PICK free \in [0 .. N -> Seq(1 .. N)] :
      /\ free[0] = << >>
      /\ \A n \in 1 .. N : free[n] = QueueFree(free[n - 1], degrees, n)
      /\ Free(degrees) = free[N]
  BY FreeSteps
<1> DEFINE Found(n) == {i \in 1 .. n : degrees[i] = 0}
           P == {n \in 0 .. N : IsInjective(free[n]) /\ ToSet(free[n]) = Found(n)}
<1>1. 0 \in P
  <2>1. ToSet(<< >>) = {} /\ IsInjective(<< >>)
    BY DEF ToSet, IsInjective
  <2>2. Found(0) = {} /\ 0 \in 0 .. N
    OBVIOUS
  <2> QED
    BY <2>1, <2>2
<1>2. ASSUME NEW n \in 0 .. N - 1, n \in P PROVE n + 1 \in P
  <2>1. n + 1 \in 1 .. N /\ n + 1 \in 0 .. N /\ n \in 0 .. N /\ (n + 1) - 1 = n
    OBVIOUS
  <2>2. free[n] \in Seq(1 .. N) /\ IsInjective(free[n]) /\ ToSet(free[n]) = Found(n)
    BY <1>2, <2>1
  <2>3. free[n + 1] = QueueFree(free[n], degrees, n + 1)
    BY <2>1
  <2>4. \A i \in 1 .. n + 1 : i \in 1 .. n \/ i = n + 1
    OBVIOUS
  <2>5. 1 .. n \subseteq 1 .. n + 1 /\ n + 1 \in 1 .. n + 1 /\ n + 1 \notin 1 .. n
    OBVIOUS
  <2>6. Found(n + 1) = IF degrees[n + 1] = 0 THEN Found(n) \cup {n + 1} ELSE Found(n)
    BY <2>4, <2>5
  <2>7. n + 1 \notin Found(n)
    BY <2>5
  <2> HIDE DEF Found
  <2>8. CASE degrees[n + 1] = 0
    <3>1. free[n + 1] = Append(free[n], n + 1)
      BY <2>3, <2>8 DEF QueueFree
    <3>2. PICK k, s, S : k = n + 1 /\ s = free[n] /\ S = 1 .. N
      OBVIOUS
    <3>3. s \in Seq(S) /\ IsInjective(s) /\ k \in S /\ k \notin ToSet(s)
      BY ONLY <2>1, <2>2, <2>7, <3>2
    <3>4. IsInjective(Append(s, k)) /\ ToSet(Append(s, k)) = ToSet(s) \cup {k}
      BY <3>3, AppendNew
    <3> QED
      BY <2>1, <2>2, <2>6, <2>8, <3>1, <3>2, <3>4
  <2>9. CASE degrees[n + 1] # 0
    BY <2>1, <2>2, <2>3, <2>6, <2>9 DEF QueueFree
  <2> QED
    BY <2>8, <2>9
<1>3. N \in 0 .. N
  OBVIOUS
<1> HIDE DEF P
<1>4. N \in P
  BY <1>1, <1>2, <1>3, SmallInduction
<1>5. free[N] \in Seq(1 .. N) /\ IsInjective(free[N]) /\ ToSet(free[N]) = Found(N)
  BY <1>3, <1>4 DEF P
<1> QED
  BY <1>5

\* after[n] is the state when n rounds are over.
Rounds(after, N, edges, degrees) ==
  /\ after \in [0 .. N -> StateSet(N)]
  /\ after[0] = [queue |-> Free(degrees), order |-> << >>, inDegree |-> degrees]
  /\ \A n \in 1 .. N : after[n] = TakeAny(edges, after[n - 1])
  /\ Kahn(edges, degrees) = after[N].order

\* The rounds follow one another.
LEMMA KahnSteps ==
    ASSUME NEW N \in Nat, NEW edges \in Seq(EdgeSet(N)), NEW degrees \in [1 .. N -> Nat]
    PROVE  \E after : Rounds(after, N, edges, degrees)
<1> DEFINE m == N
           W == StateSet(N)
           first == [queue |-> Free(degrees), order |-> << >>, inDegree |-> degrees]
           F(x, n) == TakeAny(edges, x)
           Solves(g) == g = [n \in 0 .. m |-> IF n = 0 THEN first ELSE F(g[n - 1], n)]
           step == [n \in 1 .. m |-> [x \in W |-> F(x, n)]]
           at == CHOOSE g : Solves(g)
<1>1. m \in Nat /\ first \in W
  <2>1. Free(degrees) \in Seq(1 .. N) /\ << >> \in Seq(1 .. N) /\ degrees \in [1 .. N -> Int]
    BY FreeFacts, EmptySeq
  <2> QED
    BY <2>1 DEF StateSet
<1>2. ASSUME NEW x \in W, NEW n \in 1 .. m PROVE F(x, n) \in W
  <2>1. CASE x.queue = << >>
    BY <2>1 DEF TakeAny
  <2>2. CASE x.queue # << >>
    <3>1. PICK released : Releases(released, N, edges, x)
      BY <2>2, TakeSteps
    <3>2. Len(edges) \in 0 .. Len(edges)
      BY EdgeFacts
    <3>3. Take(edges, x) \in StateSet(N)
      BY <3>1, <3>2 DEF Releases
    <3> QED
      BY <2>2, <3>3 DEF TakeAny
  <2> QED
    BY <2>1, <2>2
<1>3. Kahn(edges, degrees) = at[m].order
  <2>1. Len(degrees) = m
    OBVIOUS
  <2> QED
    BY <2>1 DEF Kahn
<1> HIDE DEF m, W, first, F, at
<1>4. step \in [1 .. m -> [W -> W]] /\ \A n \in 1 .. m : \A x \in W : step[n][x] = F(x, n)
  BY <1>2
<1> HIDE DEF step
<1> PICK g : Loops(g, W, m, first, step)
  BY <1>1, <1>4, LoopExists
<1>5. g \in [0 .. m -> W] /\ g[0] = first /\ \A n \in 1 .. m : g[n] = step[n][g[n - 1]]
  BY DEF Loops
<1>6. Solves(g)
  <2>1. ASSUME NEW n \in 0 .. m PROVE g[n] = IF n = 0 THEN first ELSE F(g[n - 1], n)
    <3>1. CASE n = 0
      BY <1>5, <3>1
    <3>2. CASE n # 0
      <4>1. n \in 1 .. m /\ n - 1 \in 0 .. m
        BY <1>1, <3>2
      <4> QED
        BY <1>4, <1>5, <3>2, <4>1
    <3> QED
      BY <3>1, <3>2
  <2> QED
    BY <1>5, <2>1
<1>7. Solves(at)
  BY <1>6 DEF at
<1>8. at[0] = first /\ \A n \in 1 .. m : at[n] = F(at[n - 1], n)
  <2>1. 0 \in 0 .. m /\ \A n \in 1 .. m : n \in 0 .. m /\ n # 0
    BY <1>1
  <2> QED
    BY <1>7, <2>1
<1>9. at \in [0 .. m -> W]
  <2>1. DOMAIN at = 0 .. m /\ at = [n \in DOMAIN at |-> at[n]]
    BY <1>7
  <2>2. \A n \in 1 .. m : at[n - 1] \in W => at[n] \in W
    BY <1>2, <1>8
  <2> HIDE DEF Solves
  <2> QED
    BY <1>1, <1>8, <2>1, <2>2, LoopStays
<1> QED
  BY <1>3, <1>8, <1>9 DEF F, W, m, first, Rounds

\* How many edges leave each library.
Degrees(N, edges) == [i \in 1 .. N |-> Cardinality({k \in DOMAIN edges : edges[k].source = i})]

\* The state before the first round.
LEMMA StartCounts ==
    ASSUME NEW N \in Nat, NEW edges \in Seq(EdgeSet(N))
    PROVE  /\ Degrees(N, edges) \in [1 .. N -> Nat]
           /\ LET st == [queue |-> Free(Degrees(N, edges)), order |-> << >>, inDegree |-> Degrees(N, edges)]
              IN Counts(N, edges, DoneBy(edges, st.order), st)
<1> DEFINE degrees == Degrees(N, edges)
           st == [queue |-> Free(degrees), order |-> << >>, inDegree |-> degrees]
           W(i) == Waits(edges, {}, i)
<1>1. \A i \in 1 .. N : IsFiniteSet(W(i)) /\ Cardinality(W(i)) \in Nat /\ (Cardinality(W(i)) = 0 <=> W(i) = {})
  <2> SUFFICES ASSUME NEW i \in 1 .. N
               PROVE  IsFiniteSet(W(i)) /\ Cardinality(W(i)) \in Nat /\ (Cardinality(W(i)) = 0 <=> W(i) = {})
    OBVIOUS
  <2>1. W(i) \subseteq DOMAIN edges
    BY DEF Waits
  <2>2. IsFiniteSet(W(i))
    BY <2>1, EdgeFacts, FS_Subset
  <2> QED
    BY <2>2, FS_CardinalityType, FS_EmptySet
<1>2. \A i \in 1 .. N : degrees[i] = Cardinality(W(i))
  <2>1. \A i \in 1 .. N : {k \in DOMAIN edges : edges[k].source = i} = W(i)
    BY DEF Waits
  <2> QED
    BY <2>1 DEF Degrees
<1>3. degrees \in [1 .. N -> Nat]
  <2>1. degrees = [i \in 1 .. N |-> degrees[i]]
    BY DEF Degrees
  <2> HIDE DEF degrees, W
  <2> QED
    BY <1>1, <1>2, <2>1
<1>4. Free(degrees) \in Seq(1 .. N) /\ IsInjective(Free(degrees)) /\ ToSet(Free(degrees)) = {i \in 1 .. N : degrees[i] = 0}
  BY <1>3, FreeFacts
<1>5. ToSet(<< >>) = {} /\ IsInjective(<< >>) /\ DoneBy(edges, << >>) = {} /\ Behind(edges, << >>) /\ << >> \in Seq(1 .. N)
  BY EmptySeq DEF ToSet, IsInjective, DoneBy, Behind
<1> HIDE DEF degrees
<1>6. st.queue = Free(degrees) /\ st.order = << >> /\ st.inDegree = degrees
  OBVIOUS
<1>7. st \in StateSet(N)
  BY <1>3, <1>4, <1>5 DEF StateSet
<1> HIDE DEF st
<1>8. ASSUME NEW i \in 1 .. N
      PROVE  st.inDegree[i] = Cardinality(W(i)) /\ (i \in ToSet(st.queue) \cup ToSet(st.order) <=> W(i) = {})
  <2>1. degrees[i] = 0 <=> W(i) = {}
    BY <1>1, <1>2
  <2> HIDE DEF W
  <2> QED
    BY <1>2, <1>4, <1>5, <1>6, <2>1
<1>9. Counts(N, edges, {}, st)
  BY <1>4, <1>5, <1>6, <1>7, <1>8 DEF Counts
<1>10. Counts(N, edges, DoneBy(edges, st.order), st)
  BY <1>5, <1>6, <1>9
<1> QED
  BY <1>3, <1>10 DEF st, degrees

\* After n rounds n libraries are in the order, or the queue is empty.
Advanced(N, edges, n, st) ==
  /\ Counts(N, edges, DoneBy(edges, st.order), st)
  /\ Cardinality(ToSet(st.order)) = Len(st.order)
  /\ st.queue = << >> \/ Len(st.order) = n

LEMMA Advance ==
    ASSUME NEW N \in Nat, NEW edges \in Seq(EdgeSet(N)), NEW n \in Nat, NEW st, Advanced(N, edges, n, st)
    PROVE  Advanced(N, edges, n + 1, TakeAny(edges, st))
<1> DEFINE next == TakeAny(edges, st)
           c == Head(st.queue)
<1>1. CASE st.queue = << >>
  <2>1. next = st
    BY <1>1 DEF TakeAny
  <2> QED
    BY <1>1, <2>1 DEF Advanced
<1>2. CASE st.queue # << >>
  <2>1. next = Take(edges, st)
    BY <1>2 DEF TakeAny
  <2>2. Counts(N, edges, DoneBy(edges, st.order), st)
    BY DEF Advanced
  <2>3. Counts(N, edges, DoneBy(edges, next.order), next) /\ next.order = Append(st.order, c)
    BY <1>2, <2>1, <2>2, TakeStep
  <2>4. st \in StateSet(N) /\ IsInjective(st.queue) /\ ToSet(st.queue) \cap ToSet(st.order) = {}
    BY <2>2 DEF Counts
  <2>5. st.queue \in Seq(1 .. N) /\ st.order \in Seq(1 .. N)
    BY <2>4, StateFields
  <2>6. c \in 1 .. N /\ c \notin ToSet(st.order)
    BY <1>2, <2>4, <2>5, TailOfDistinct
  <2>7. Len(next.order) = Len(st.order) + 1 /\ ToSet(next.order) = ToSet(st.order) \cup {c}
    BY <2>3, <2>5, <2>6, AppendFacts
  <2>8. ToSet(st.order) \subseteq 1 .. N /\ IsFiniteSet(1 .. N)
    BY <2>5, ElementsOf, NumbersTo
  <2>9. IsFiniteSet(ToSet(st.order))
    BY <2>8, FS_Subset
  <2>10. Cardinality(ToSet(next.order)) = Cardinality(ToSet(st.order)) + 1
    BY <2>6, <2>7, <2>9, FS_AddElement
  <2>11. Len(st.order) = n /\ Cardinality(ToSet(st.order)) = Len(st.order)
    BY <1>2 DEF Advanced
  <2> HIDE DEF next
  <2>12. Advanced(N, edges, n + 1, next)
    BY <2>3, <2>7, <2>10, <2>11 DEF Advanced
  <2> QED
    BY <2>12 DEF next
<1> QED
  BY <1>1, <1>2

\* The order of Kahn's algorithm names a library at most once and behind all it depends on,
\* and each library that it does not name depends on one that it does not name either
\* (ResolveLibraryDependencies: loadOrder).
THEOREM KahnOrder ==
    ASSUME NEW N \in Nat, NEW edges \in Seq(EdgeSet(N))
    PROVE  LET order == Kahn(edges, Degrees(N, edges))
           IN /\ order \in Seq(1 .. N) /\ IsInjective(order) /\ Cardinality(ToSet(order)) = Len(order)
              /\ Behind(edges, order)
              /\ \A i \in (1 .. N) \ ToSet(order) :
                   \E k \in DOMAIN edges : edges[k].source = i /\ edges[k].target \notin ToSet(order)
<1> DEFINE degrees == Degrees(N, edges)
           order == Kahn(edges, degrees)
<1>1. degrees \in [1 .. N -> Nat]
  BY StartCounts
<1> PICK after : Rounds(after, N, edges, degrees)
  BY <1>1, KahnSteps
<1>2. /\ after[0] = [queue |-> Free(degrees), order |-> << >>, inDegree |-> degrees]
      /\ \A n \in 1 .. N : after[n] = TakeAny(edges, after[n - 1])
      /\ order = after[N].order
  BY DEF Rounds
<1> DEFINE P == {n \in 0 .. N : Advanced(N, edges, n, after[n])}
<1>3. 0 \in P
  <2>1. after[0].order = << >>
    BY <1>2
  <2>2. Counts(N, edges, DoneBy(edges, after[0].order), after[0])
    BY <1>2, StartCounts
  <2>3. Cardinality(ToSet(<< >>)) = Len(<< >>) /\ Len(<< >>) = 0
    <3>1. ToSet(<< >>) = {} /\ Len(<< >>) = 0
      BY EmptySeq DEF ToSet
    <3> QED
      BY <3>1, FS_EmptySet
  <2> QED
    BY <2>1, <2>2, <2>3 DEF Advanced
<1>4. ASSUME NEW n \in 0 .. N - 1, n \in P PROVE n + 1 \in P
  <2>1. n \in Nat /\ n + 1 \in 1 .. N /\ n + 1 \in 0 .. N /\ (n + 1) - 1 = n
    OBVIOUS
  <2>2. after[n + 1] = TakeAny(edges, after[n]) /\ Advanced(N, edges, n, after[n])
    BY <1>2, <1>4, <2>1
  <2>3. Advanced(N, edges, n + 1, TakeAny(edges, after[n]))
    BY <2>1, <2>2, Advance
  <2> QED
    BY <2>1, <2>2, <2>3
<1> HIDE DEF P, order, degrees
<1>5. N \in P
  <2>1. N \in 0 .. N
    OBVIOUS
  <2> QED
    BY <1>3, <1>4, <2>1, SmallInduction
<1> PICK st : st = after[N]
  OBVIOUS
<1>6. Advanced(N, edges, N, st) /\ order = st.order
  BY <1>2, <1>5 DEF P
<1>7. /\ Counts(N, edges, DoneBy(edges, order), st)
      /\ Cardinality(ToSet(order)) = Len(order) /\ (st.queue = << >> \/ Len(order) = N)
  BY <1>6 DEF Advanced
<1>8. /\ st \in StateSet(N) /\ IsInjective(order) /\ Behind(edges, order)
      /\ ToSet(st.queue) \cap ToSet(order) = {}
  BY <1>6, <1>7 DEF Counts
<1>9. order \in Seq(1 .. N) /\ st.queue \in Seq(1 .. N)
  BY <1>6, <1>8, StateFields
<1>10. ToSet(order) \subseteq 1 .. N /\ ToSet(st.queue) \subseteq 1 .. N
  BY <1>9, ElementsOf
<1>11. ToSet(st.queue) = {}
  <2>1. CASE st.queue = << >>
    BY <2>1 DEF ToSet
  <2>2. CASE Len(order) = N
    <3>1. IsFiniteSet(1 .. N) /\ Cardinality(1 .. N) = N
      BY NumbersTo
    <3>2. ToSet(order) = 1 .. N
      BY <1>7, <1>10, <2>2, <3>1, FS_Subset
    <3> QED
      BY <1>8, <1>10, <3>2
  <2> QED
    BY <1>7, <2>1, <2>2
<1>12. ASSUME NEW i \in (1 .. N) \ ToSet(order)
       PROVE  \E k \in DOMAIN edges : edges[k].source = i /\ edges[k].target \notin ToSet(order)
  <2>1. Waits(edges, DoneBy(edges, order), i) # {}
    BY <1>6, <1>7, <1>11, CountsOf
  <2>2. PICK k : k \in Waits(edges, DoneBy(edges, order), i)
    BY <2>1
  <2> QED
    BY <2>2 DEF Waits, DoneBy
<1> QED
  BY <1>7, <1>8, <1>9, <1>12 DEF order, degrees

\* A set of libraries each of which waits for one of the set or for one that is missing.
Stuck(N, edges, R) ==
  R # {} /\ R \subseteq 1 .. N /\ \A i \in R : \E k \in DOMAIN edges : edges[k].source = i /\ edges[k].target \in R \cup {0}

\* All libraries are in the order exactly if no set of them is stuck: the error for circular
\* dependencies is reported when there is a cycle and only then (ResolveLibraryDependencies:
\* loadOrder.size() != libraries.size()).
THEOREM OrderIsComplete ==
    ASSUME NEW N \in Nat, NEW edges \in Seq(EdgeSet(N))
    PROVE  LET order == Kahn(edges, Degrees(N, edges))
           IN /\ Len(order) = N <=> ToSet(order) = 1 .. N
              /\ Len(order) = N <=> ~\E R : Stuck(N, edges, R)
<1> DEFINE order == Kahn(edges, Degrees(N, edges))
<1>1. /\ order \in Seq(1 .. N) /\ Cardinality(ToSet(order)) = Len(order) /\ Behind(edges, order)
      /\ \A i \in (1 .. N) \ ToSet(order) :
           \E k \in DOMAIN edges : edges[k].source = i /\ edges[k].target \notin ToSet(order)
  BY KahnOrder
<1> HIDE DEF order
<1>2. Len(order) \in Nat /\ DOMAIN order = 1 .. Len(order) /\ \A p \in 1 .. Len(order) : order[p] \in 1 .. N
  BY <1>1, LenProperties, ElementOfSeq
<1>3. IsFiniteSet(1 .. N) /\ Cardinality(1 .. N) = N /\ ToSet(order) \subseteq 1 .. N
  BY <1>1, ElementsOf, NumbersTo
<1>4. Len(order) = N <=> ToSet(order) = 1 .. N
  BY <1>1, <1>3, FS_Subset
<1>5. ASSUME NEW R, Stuck(N, edges, R) PROVE ToSet(order) \cap R = {}
  <2> DEFINE m == Len(order)
             P == {p \in 0 .. m : \A q \in 1 .. p : order[q] \notin R}
  <2>1. 0 \in P
    BY <1>2
  <2>2. ASSUME NEW p \in 0 .. m - 1, p \in P PROVE p + 1 \in P
    <3>1. p + 1 \in 1 .. m /\ p + 1 \in 0 .. m /\ (p + 1) - 1 = p
      BY <1>2
    <3>2. \A q \in 1 .. p : order[q] \notin R
      BY <2>2
    <3>3. order[p + 1] \notin R
      <4> SUFFICES ASSUME order[p + 1] \in R PROVE FALSE
        OBVIOUS
      <4>1. PICK k \in DOMAIN edges : edges[k].source = order[p + 1] /\ edges[k].target \in R \cup {0}
        BY <1>5 DEF Stuck
      <4>2. PICK q \in 1 .. (p + 1) - 1 : order[q] = edges[k].target
        BY <1>1, <1>2, <3>1, <4>1 DEF Behind
      <4>3. q \in 1 .. p /\ q \in 1 .. m
        BY <1>2, <3>1
      <4>4. order[q] # 0
        BY <1>2, <4>3
      <4> QED
        BY <3>2, <4>1, <4>2, <4>3, <4>4
    <3>4. \A q \in 1 .. p + 1 : q \in 1 .. p \/ q = p + 1
      BY <3>1
    <3> QED
      BY <3>1, <3>2, <3>3, <3>4
  <2> HIDE DEF P
  <2>3. m \in P
    <3>1. m \in Nat /\ m \in 0 .. m
      BY <1>2
    <3> QED
      BY <2>1, <2>2, <3>1, SmallInduction
  <2>4. \A q \in 1 .. m : order[q] \notin R
    BY <2>3 DEF P
  <2> QED
    BY <1>2, <2>4 DEF ToSet
<1>6. ASSUME Len(order) = N PROVE ~\E R : Stuck(N, edges, R)
  <2> SUFFICES ASSUME NEW R, Stuck(N, edges, R) PROVE FALSE
    OBVIOUS
  <2> QED
    BY <1>4, <1>5, <1>6 DEF Stuck
<1>7. ASSUME Len(order) # N PROVE \E R : Stuck(N, edges, R)
  <2> DEFINE R == (1 .. N) \ ToSet(order)
  <2>1. R # {}
    BY <1>3, <1>4, <1>7
  <2>2. ASSUME NEW i \in R PROVE \E k \in DOMAIN edges : edges[k].source = i /\ edges[k].target \in R \cup {0}
    <3>1. PICK k \in DOMAIN edges : edges[k].source = i /\ edges[k].target \notin ToSet(order)
      BY <1>1
    <3>2. edges[k].target \in 0 .. N
      BY EdgeFacts
    <3> QED
      BY <3>1, <3>2
  <2>3. Stuck(N, edges, R)
    BY <2>1, <2>2 DEF Stuck
  <2> QED
    BY <2>3
<1> QED
  BY <1>4, <1>6, <1>7 DEF order

-----------------------------------------------------------------------------
(* Loading in the load order                                               *)

LoadState(L) == [loaded : Seq(L), keys : SUBSET {KeyOf(lib) : lib \in L}, thrown : BOOLEAN]

\* added[n] is the state when the first n libraries of the load order have been looked at.
Additions(added, L, libraries, loadOrder) ==
  /\ added \in [0 .. Len(loadOrder) -> LoadState(L)]
  /\ added[0] = [loaded |-> << >>, keys |-> {}, thrown |-> FALSE]
  /\ \A n \in 1 .. Len(loadOrder) : added[n] = AddOnce(added[n - 1], libraries[loadOrder[n]])
  /\ AddAll(libraries, loadOrder) = added[Len(loadOrder)]

LEMMA LoadFields ==
    ASSUME NEW L, NEW st \in LoadState(L)
    PROVE  /\ st.loaded \in Seq(L) /\ st.keys \subseteq {KeyOf(lib) : lib \in L} /\ st.thrown \in BOOLEAN
           /\ Len(st.loaded) \in Nat /\ DOMAIN st.loaded = 1 .. Len(st.loaded)
<1>1. st.loaded \in Seq(L) /\ st.keys \subseteq {KeyOf(lib) : lib \in L} /\ st.thrown \in BOOLEAN
  BY DEF LoadState
<1> QED
  BY <1>1, LenProperties

\* What AddOnce does to the three fields.
LEMMA AddOnceFields ==
    ASSUME NEW L, NEW st \in LoadState(L), NEW lib \in L
    PROVE  LET next == AddOnce(st, lib)
               new == ~st.thrown /\ KeyOf(lib) \notin st.keys
           IN /\ next \in LoadState(L)
              /\ ~new => next = st
              /\ new => next.keys = st.keys \cup {KeyOf(lib)}
              /\ new /\ lib.entry => next.loaded = Append(st.loaded, lib) /\ ~next.thrown
              /\ new /\ ~lib.entry => next.loaded = st.loaded /\ next.thrown
<1> DEFINE next == AddOnce(st, lib)
           key == KeyOf(lib)
           keyed == [st EXCEPT !.keys = @ \cup {key}]
<1>1. st.loaded \in Seq(L) /\ st.keys \subseteq {KeyOf(l) : l \in L} /\ st.thrown \in BOOLEAN
  BY LoadFields
<1>2. Append(st.loaded, lib) \in Seq(L) /\ st.keys \cup {key} \subseteq {KeyOf(l) : l \in L}
  BY <1>1, AppendProperties
<1> DEFINE all == {KeyOf(l) : l \in L}
<1> HIDE DEF key, all
<1>3. keyed \in LoadState(L) /\ keyed.loaded = st.loaded /\ keyed.keys = st.keys \cup {key} /\ keyed.thrown = st.thrown
  BY <1>1, <1>2 DEF LoadState, all
<1> HIDE DEF keyed
<1>4. CASE st.thrown \/ key \in st.keys
  BY <1>4 DEF AddOnce, key
<1>5. CASE ~st.thrown /\ key \notin st.keys /\ lib.entry
  <2>1. next = [keyed EXCEPT !.loaded = Append(@, lib)]
    BY <1>5 DEF AddOnce, AddLib, key, keyed
  <2> DEFINE longer == Append(st.loaded, lib)
  <2>2. next = [keyed EXCEPT !.loaded = longer] /\ longer \in Seq(L)
    BY <1>2, <1>3, <2>1
  <2> HIDE DEF longer, next
  <2>3. next \in LoadState(L) /\ next.loaded = longer /\ next.keys = st.keys \cup {key} /\ next.thrown = st.thrown
    BY <1>3, <2>2 DEF LoadState
  <2> QED
    BY <1>5, <2>3 DEF longer, key, next
<1>6. CASE ~st.thrown /\ key \notin st.keys /\ ~lib.entry
  <2>1. next = [keyed EXCEPT !.thrown = TRUE]
    BY <1>6 DEF AddOnce, AddLib, key, keyed
  <2> HIDE DEF next
  <2>2. next \in LoadState(L) /\ next.loaded = st.loaded /\ next.keys = st.keys \cup {key} /\ next.thrown = TRUE
    BY <1>3, <2>1 DEF LoadState
  <2> QED
    BY <1>6, <2>2 DEF key, next
<1> QED
  BY <1>4, <1>5, <1>6 DEF key

\* The libraries are added one after the other.
LEMMA AddSteps ==
    ASSUME NEW L, NEW libraries \in Seq(L), NEW loadOrder \in Seq(1 .. Len(libraries))
    PROVE  \E added : Additions(added, L, libraries, loadOrder)
<1> DEFINE m == Len(loadOrder)
           W == LoadState(L)
           first == [loaded |-> << >>, keys |-> {}, thrown |-> FALSE]
           F(x, n) == AddOnce(x, libraries[loadOrder[n]])
           Solves(g) == g = [n \in 0 .. m |-> IF n = 0 THEN first ELSE F(g[n - 1], n)]
           step == [n \in 1 .. m |-> [x \in W |-> F(x, n)]]
           at == CHOOSE g : Solves(g)
<1>1. m \in Nat /\ first \in W
  BY EmptySeq, LenProperties DEF LoadState
<1>2. ASSUME NEW x \in W, NEW n \in 1 .. m PROVE F(x, n) \in W
  <2>1. loadOrder[n] \in 1 .. Len(libraries)
    BY ElementOfSeq
  <2>2. libraries[loadOrder[n]] \in L
    BY <2>1, ElementOfSeq
  <2> QED
    BY <2>2, AddOnceFields
<1>3. AddAll(libraries, loadOrder) = at[m]
  BY DEF AddAll
<1> HIDE DEF m, W, first, F, at
<1>4. step \in [1 .. m -> [W -> W]] /\ \A n \in 1 .. m : \A x \in W : step[n][x] = F(x, n)
  BY <1>2
<1> HIDE DEF step
<1> PICK g : Loops(g, W, m, first, step)
  BY <1>1, <1>4, LoopExists
<1>5. g \in [0 .. m -> W] /\ g[0] = first /\ \A n \in 1 .. m : g[n] = step[n][g[n - 1]]
  BY DEF Loops
<1>6. Solves(g)
  <2>1. ASSUME NEW n \in 0 .. m PROVE g[n] = IF n = 0 THEN first ELSE F(g[n - 1], n)
    <3>1. CASE n = 0
      BY <1>5, <3>1
    <3>2. CASE n # 0
      <4>1. n \in 1 .. m /\ n - 1 \in 0 .. m
        BY <1>1, <3>2
      <4> QED
        BY <1>4, <1>5, <3>2, <4>1
    <3> QED
      BY <3>1, <3>2
  <2> QED
    BY <1>5, <2>1
<1>7. Solves(at)
  BY <1>6 DEF at
<1>8. at[0] = first /\ \A n \in 1 .. m : at[n] = F(at[n - 1], n)
  <2>1. 0 \in 0 .. m /\ \A n \in 1 .. m : n \in 0 .. m /\ n # 0
    BY <1>1
  <2> QED
    BY <1>7, <2>1
<1>9. at \in [0 .. m -> W]
  <2>1. DOMAIN at = 0 .. m /\ at = [n \in DOMAIN at |-> at[n]]
    BY <1>7
  <2>2. \A n \in 1 .. m : at[n - 1] \in W => at[n] \in W
    BY <1>2, <1>8
  <2> HIDE DEF Solves
  <2> QED
    BY <1>1, <1>8, <2>1, <2>2, LoopStays
<1> QED
  BY <1>3, <1>8, <1>9 DEF F, W, m, first, Additions

\* The key of the library that is n-th in the load order, and of the n-th one loaded.
KeyAt(libraries, loadOrder, n) == KeyOf(libraries[loadOrder[n]])
LoadedKeys(st) == {KeyOf(st.loaded[i]) : i \in DOMAIN st.loaded}
\* The i-th library loaded is one of the first n of the load order, and of each before
\* it a library with the same key is loaded before it.
InPlace(libraries, loadOrder, n, st, i) ==
  /\ st.loaded[i].entry
  /\ \E p \in 1 .. n :
       /\ st.loaded[i] = libraries[loadOrder[p]]
       /\ \A q \in 1 .. p - 1 : \E k \in 1 .. i - 1 : KeyOf(st.loaded[k]) = KeyAt(libraries, loadOrder, q)
Placed(L, libraries, loadOrder, n, st) ==
  /\ st \in LoadState(L)
  /\ LoadedKeys(st) \subseteq st.keys
  /\ ~st.thrown => st.keys = {KeyAt(libraries, loadOrder, p) : p \in 1 .. n} /\ LoadedKeys(st) = st.keys
  /\ st.thrown => \E p \in 1 .. n : ~libraries[loadOrder[p]].entry
  /\ \A i, k \in DOMAIN st.loaded : KeyOf(st.loaded[i]) = KeyOf(st.loaded[k]) => i = k
  /\ \A i \in DOMAIN st.loaded : InPlace(libraries, loadOrder, n, st, i)

\* With one more library of the load order it stays so.
LEMMA PlaceNext ==
    ASSUME NEW L, NEW libraries, NEW loadOrder, NEW n \in Nat, NEW st, Placed(L, libraries, loadOrder, n, st),
           libraries[loadOrder[n + 1]] \in L
    PROVE  Placed(L, libraries, loadOrder, n + 1, AddOnce(st, libraries[loadOrder[n + 1]]))
<1> DEFINE lib == libraries[loadOrder[n + 1]]
           key == KeyOf(lib)
           next == AddOnce(st, lib)
           Keys(k) == {KeyAt(libraries, loadOrder, p) : p \in 1 .. k}
           new == ~st.thrown /\ key \notin st.keys
           m == Len(st.loaded)
<1>1. /\ st \in LoadState(L) /\ LoadedKeys(st) \subseteq st.keys
      /\ ~st.thrown => st.keys = Keys(n) /\ LoadedKeys(st) = st.keys
      /\ st.thrown => \E p \in 1 .. n : ~libraries[loadOrder[p]].entry
      /\ \A i, k \in DOMAIN st.loaded : KeyOf(st.loaded[i]) = KeyOf(st.loaded[k]) => i = k
      /\ \A i \in DOMAIN st.loaded : InPlace(libraries, loadOrder, n, st, i)
  BY DEF Placed
<1>2. st.loaded \in Seq(L) /\ m \in Nat /\ DOMAIN st.loaded = 1 .. m
  BY <1>1, LoadFields
<1>3. /\ next \in LoadState(L)
      /\ ~new => next = st
      /\ new => next.keys = st.keys \cup {key}
      /\ new /\ lib.entry => next.loaded = Append(st.loaded, lib) /\ ~next.thrown
      /\ new /\ ~lib.entry => next.loaded = st.loaded /\ next.thrown
  BY <1>1, AddOnceFields
<1>4. Keys(n + 1) = Keys(n) \cup {key}
  <2>1. \A p \in 1 .. n + 1 : p \in 1 .. n \/ p = n + 1
    OBVIOUS
  <2>2. 1 .. n \subseteq 1 .. n + 1 /\ n + 1 \in 1 .. n + 1
    OBVIOUS
  <2>3. key = KeyAt(libraries, loadOrder, n + 1)
    BY DEF KeyAt
  <2> QED
    BY ONLY <2>1, <2>2, <2>3
<1>5. 1 .. n \subseteq 1 .. n + 1 /\ n + 1 \in 1 .. n + 1 /\ (n + 1) - 1 = n
  OBVIOUS
<1>6. ASSUME NEW i \in DOMAIN st.loaded PROVE InPlace(libraries, loadOrder, n + 1, st, i)
  BY <1>1, <1>5 DEF InPlace
<1> HIDE DEF next, Keys, key, lib
<1>7. CASE ~new
  <2>1. next = st
    BY <1>3, <1>7
  <2>2. ~st.thrown => st.keys = Keys(n + 1)
    BY <1>1, <1>4, <1>7
  <2>3. st.thrown => \E p \in 1 .. n + 1 : ~libraries[loadOrder[p]].entry
    BY <1>1, <1>5
  <2>4. Placed(L, libraries, loadOrder, n + 1, st)
    BY <1>1, <1>6, <2>2, <2>3 DEF Placed, Keys
  <2> QED
    BY <2>1, <2>4 DEF next, lib
<1>8. CASE new /\ ~lib.entry
  <2>1. next.loaded = st.loaded /\ next.keys = st.keys \cup {key} /\ next.thrown
    BY <1>3, <1>8
  <2>2. LoadedKeys(next) = LoadedKeys(st)
    BY <2>1 DEF LoadedKeys
  <2>3. \E p \in 1 .. n + 1 : ~libraries[loadOrder[p]].entry
    BY <1>5, <1>8 DEF lib
  <2>4. \A i \in DOMAIN next.loaded : InPlace(libraries, loadOrder, n + 1, next, i)
    BY <1>6, <2>1 DEF InPlace
  <2>5. Placed(L, libraries, loadOrder, n + 1, next)
    BY <1>1, <1>3, <2>1, <2>2, <2>3, <2>4 DEF Placed
  <2> QED
    BY <2>5 DEF next, lib
<1>9. CASE new /\ lib.entry
  <2>1. next.loaded = Append(st.loaded, lib) /\ next.keys = st.keys \cup {key} /\ ~next.thrown
    BY <1>3, <1>9
  <2>2. lib \in L
    BY DEF lib
  <2>3. /\ DOMAIN next.loaded = 1 .. m + 1 /\ next.loaded[m + 1] = lib
        /\ \A i \in 1 .. m : next.loaded[i] = st.loaded[i]
    BY <1>2, <2>1, <2>2, AppendFacts
  <2>4. \A i \in 1 .. m + 1 : i \in 1 .. m \/ i = m + 1
    BY <1>2
  <2>5. 1 .. m \subseteq 1 .. m + 1 /\ m + 1 \in 1 .. m + 1 /\ (m + 1) - 1 = m /\ m + 1 \notin 1 .. m
    BY <1>2
  <2>6. LoadedKeys(next) = LoadedKeys(st) \cup {key}
    <3>1. ASSUME NEW x \in LoadedKeys(next) PROVE x \in LoadedKeys(st) \cup {key}
      <4>1. PICK i \in 1 .. m + 1 : x = KeyOf(next.loaded[i])
        BY <2>3 DEF LoadedKeys
      <4> QED
        BY <1>2, <2>3, <2>4, <4>1 DEF LoadedKeys, key
    <3>2. ASSUME NEW x \in LoadedKeys(st) PROVE x \in LoadedKeys(next)
      <4>1. PICK i \in 1 .. m : x = KeyOf(st.loaded[i])
        BY <1>2 DEF LoadedKeys
      <4> QED
        BY <2>3, <2>5, <4>1 DEF LoadedKeys
    <3>3. key \in LoadedKeys(next)
      BY <2>3, <2>5 DEF LoadedKeys, key
    <3> QED
      BY <3>1, <3>2, <3>3
  <2>7. next.keys = Keys(n + 1) /\ LoadedKeys(next) = next.keys
    BY <1>1, <1>4, <1>9, <2>1, <2>6
  <2>8. ASSUME NEW i \in 1 .. m + 1, NEW k \in 1 .. m + 1, KeyOf(next.loaded[i]) = KeyOf(next.loaded[k]) PROVE i = k
    <3>1. ASSUME NEW j \in 1 .. m PROVE KeyOf(st.loaded[j]) # key
      BY <1>1, <1>2, <1>9 DEF LoadedKeys
    <3>2. CASE i = m + 1 /\ k \in 1 .. m
      BY <2>3, <2>8, <3>1, <3>2 DEF key
    <3>3. CASE i \in 1 .. m /\ k = m + 1
      BY <2>3, <2>8, <3>1, <3>3 DEF key
    <3>4. CASE i \in 1 .. m /\ k \in 1 .. m
      BY <1>1, <1>2, <2>3, <2>8, <3>4
    <3> QED
      BY <2>4, <3>2, <3>3, <3>4
  <2>9. ASSUME NEW i \in 1 .. m + 1 PROVE InPlace(libraries, loadOrder, n + 1, next, i)
    <3>1. CASE i \in 1 .. m
      <4>1. PICK p \in 1 .. n :
              /\ st.loaded[i] = libraries[loadOrder[p]] /\ st.loaded[i].entry
              /\ \A q \in 1 .. p - 1 : \E k \in 1 .. i - 1 : KeyOf(st.loaded[k]) = KeyAt(libraries, loadOrder, q)
        BY <1>1, <1>2, <3>1 DEF InPlace
      <4>2. p \in 1 .. n + 1 /\ next.loaded[i] = libraries[loadOrder[p]] /\ next.loaded[i].entry
        BY <1>5, <2>3, <3>1, <4>1
      <4>3. ASSUME NEW q \in 1 .. p - 1 PROVE \E k \in 1 .. i - 1 : KeyOf(next.loaded[k]) = KeyAt(libraries, loadOrder, q)
        <5>1. PICK k \in 1 .. i - 1 : KeyOf(st.loaded[k]) = KeyAt(libraries, loadOrder, q)
          BY <4>1
        <5>2. k \in 1 .. m
          BY <1>2, <3>1
        <5> QED
          BY <2>3, <5>1, <5>2
      <4> QED
        BY <4>2, <4>3 DEF InPlace
    <3>2. CASE i = m + 1
      <4>1. next.loaded[i] = libraries[loadOrder[n + 1]] /\ next.loaded[i].entry
        BY <1>9, <2>3, <3>2 DEF lib
      <4>2. ASSUME NEW q \in 1 .. n PROVE \E k \in 1 .. m : KeyOf(next.loaded[k]) = KeyAt(libraries, loadOrder, q)
        <5>1. KeyAt(libraries, loadOrder, q) \in LoadedKeys(st)
          BY <1>1, <1>9 DEF Keys
        <5>2. PICK k \in 1 .. m : KeyOf(st.loaded[k]) = KeyAt(libraries, loadOrder, q)
          BY <1>2, <5>1 DEF LoadedKeys
        <5> QED
          BY <2>3, <5>2
      <4>3. i - 1 = m
        BY <2>5, <3>2
      <4> QED
        BY <1>5, <4>1, <4>2, <4>3 DEF InPlace
    <3> QED
      BY <2>4, <3>1, <3>2
  <2>10. Placed(L, libraries, loadOrder, n + 1, next)
    BY <1>3, <2>1, <2>3, <2>7, <2>8, <2>9 DEF Placed, Keys
  <2> QED
    BY <2>10 DEF next, lib
<1> QED
  BY <1>7, <1>8, <1>9

LEMMA AllPlaced ==
    ASSUME NEW L, NEW libraries \in Seq(L), NEW loadOrder \in Seq(1 .. Len(libraries))
    PROVE  Placed(L, libraries, loadOrder, Len(loadOrder), AddAll(libraries, loadOrder))
<1> DEFINE m == Len(loadOrder)
<1> PICK added : Additions(added, L, libraries, loadOrder)
  BY AddSteps
<1>1. /\ added \in [0 .. m -> LoadState(L)]
      /\ added[0] = [loaded |-> << >>, keys |-> {}, thrown |-> FALSE]
      /\ \A n \in 1 .. m : added[n] = AddOnce(added[n - 1], libraries[loadOrder[n]])
      /\ AddAll(libraries, loadOrder) = added[m]
  BY DEF Additions
<1>2. m \in Nat /\ \A n \in 1 .. m : loadOrder[n] \in 1 .. Len(libraries)
  BY LenProperties, ElementOfSeq
<1>3. \A n \in 1 .. m : libraries[loadOrder[n]] \in L
  BY <1>2, ElementOfSeq
<1> DEFINE P == {n \in 0 .. m : Placed(L, libraries, loadOrder, n, added[n])}
<1> HIDE DEF m
<1>4. 0 \in P
  <2>1. 0 \in 0 .. m /\ added[0] \in LoadState(L)
    <3>1. 0 \in 0 .. m
      BY <1>2
    <3> QED
      BY ONLY <1>1, <3>1
  <2>2. added[0].loaded = << >> /\ added[0].keys = {} /\ added[0].thrown = FALSE
    BY <1>1
  <2>3. DOMAIN added[0].loaded = {} /\ 1 .. 0 = {}
    BY <2>2
  <2>4. LoadedKeys(added[0]) = {}
    BY <2>3 DEF LoadedKeys
  <2>5. Placed(L, libraries, loadOrder, 0, added[0])
    BY <2>1, <2>2, <2>3, <2>4 DEF Placed
  <2> QED
    BY <2>1, <2>5
<1>5. ASSUME NEW n \in 0 .. m - 1, n \in P PROVE n + 1 \in P
  <2>1. n \in Nat /\ n + 1 \in 1 .. m /\ n + 1 \in 0 .. m /\ (n + 1) - 1 = n
    BY <1>2
  <2>2. added[n + 1] = AddOnce(added[n], libraries[loadOrder[n + 1]]) /\ libraries[loadOrder[n + 1]] \in L
    BY <1>1, <1>3, <2>1
  <2>3. Placed(L, libraries, loadOrder, n, added[n])
    BY <1>5
  <2>4. Placed(L, libraries, loadOrder, n + 1, added[n + 1])
    BY <2>1, <2>2, <2>3, PlaceNext
  <2> QED
    BY <2>1, <2>4
<1> HIDE DEF P
<1>6. m \in P
  <2>1. m \in 0 .. m
    BY <1>2
  <2> QED
    BY <1>2, <1>4, <1>5, <2>1, SmallInduction
<1> QED
  BY <1>1, <1>6 DEF P, m

\* What is loaded of libraries with these edges between them.
Loads(libraries, edges, answer) ==
  LET N == Len(libraries)
      st == answer.added
  IN /\ answer.reported <=> \E R : Stuck(N, edges, R)
     /\ answer.reported => st.loaded = << >>
     /\ ~answer.reported /\ ~st.thrown => LoadedKeys(st) = {KeyOf(libraries[m]) : m \in 1 .. N}
     /\ st.thrown => \E m \in 1 .. N : ~libraries[m].entry
     /\ \A i, k \in DOMAIN st.loaded : KeyOf(st.loaded[i]) = KeyOf(st.loaded[k]) => i = k
     /\ \A i \in DOMAIN st.loaded :
          /\ st.loaded[i].entry
          /\ \E m \in 1 .. N :
               /\ st.loaded[i] = libraries[m]
               /\ \A e \in DOMAIN edges : edges[e].source = m =>
                    /\ edges[e].target \in 1 .. N
                    /\ \E k \in 1 .. i - 1 : KeyOf(st.loaded[k]) = KeyOf(libraries[edges[e].target])

LEMMA LibrariesLoad ==
    ASSUME NEW L, NEW libraries \in Seq(L), NEW edges \in Seq(EdgeSet(Len(libraries)))
    PROVE  Loads(libraries, edges, AddInOrder(libraries, OrderBy(libraries, edges)))
<1> DEFINE N == Len(libraries)
           loadOrder == LoadOrder(libraries, edges)
           resolved == OrderBy(libraries, edges)
           answer == AddInOrder(libraries, resolved)
           st == answer.added
           Missing == \E e \in DOMAIN edges : edges[e].target = 0
<1>1. N \in Nat /\ DOMAIN libraries = 1 .. N
  BY LenProperties
<1>2. /\ DOMAIN edges = 1 .. Len(edges)
      /\ \A e \in DOMAIN edges : edges[e].source \in 1 .. N /\ edges[e].target \in 0 .. N
  BY <1>1, EdgeFacts
<1>3. loadOrder = Kahn(edges, Degrees(N, edges))
  BY <1>1 DEF LoadOrder, InDegrees, Degrees
<1>4. loadOrder \in Seq(1 .. N) /\ Behind(edges, loadOrder)
  BY <1>1, <1>3, KahnOrder
<1>5. Len(loadOrder) = N <=> ToSet(loadOrder) = 1 .. N
  BY <1>1, <1>3, OrderIsComplete
<1>6. Len(loadOrder) = N <=> ~\E R : Stuck(N, edges, R)
  BY <1>1, <1>3, OrderIsComplete
<1>7. ASSUME Missing PROVE \E R : Stuck(N, edges, R)
  <2>1. PICK e \in DOMAIN edges : edges[e].target = 0
    BY <1>7
  <2>2. Stuck(N, edges, {edges[e].source})
    BY <1>2, <2>1 DEF Stuck
  <2> QED
    BY <2>2
<1> HIDE DEF loadOrder, N
<1>8. answer.reported = resolved.reported /\ st = AddAll(libraries, resolved.order)
  BY DEF AddInOrder
<1>9. resolved = IF Missing \/ Len(loadOrder) # N THEN [reported |-> TRUE, order |-> << >>]
                 ELSE [reported |-> FALSE, order |-> loadOrder]
  BY DEF OrderBy, OrderOrError, loadOrder, N
<1> HIDE DEF resolved, answer, Missing
<1>10. answer.reported <=> \E R : Stuck(N, edges, R)
  <2>1. CASE Missing \/ Len(loadOrder) # N
    BY <1>6, <1>7, <1>8, <1>9, <2>1
  <2>2. CASE ~(Missing \/ Len(loadOrder) # N)
    BY <1>6, <1>8, <1>9, <2>2
  <2> QED
    BY <2>1, <2>2
<1>11. resolved.order \in Seq(1 .. N)
  BY <1>4, <1>9, EmptySeq
<1> DEFINE o == resolved.order
<1>12. Placed(L, libraries, o, Len(o), st)
  BY <1>8, <1>11, AllPlaced DEF N
<1>13. Len(o) \in Nat /\ DOMAIN o = 1 .. Len(o) /\ \A p \in 1 .. Len(o) : o[p] \in 1 .. N
  BY <1>11, LenProperties, ElementOfSeq
<1> HIDE DEF o, st
<1>14. /\ ~st.thrown => LoadedKeys(st) = {KeyAt(libraries, o, p) : p \in 1 .. Len(o)}
       /\ st.thrown => \E p \in 1 .. Len(o) : ~libraries[o[p]].entry
       /\ \A i, k \in DOMAIN st.loaded : KeyOf(st.loaded[i]) = KeyOf(st.loaded[k]) => i = k
       /\ \A i \in DOMAIN st.loaded : InPlace(libraries, o, Len(o), st, i)
       /\ st \in LoadState(L)
  BY <1>12 DEF Placed
<1>15. ASSUME answer.reported PROVE st.loaded = << >>
  <2>1. Missing \/ Len(loadOrder) # N
    BY <1>8, <1>9, <1>15
  <2>2. o = << >> /\ Len(o) = 0
    BY <1>9, <2>1 DEF o
  <2>3. ~\E i \in DOMAIN st.loaded : TRUE
    BY <1>14, <2>2 DEF InPlace
  <2>4. st.loaded \in Seq(L) /\ Len(st.loaded) \in Nat /\ DOMAIN st.loaded = 1 .. Len(st.loaded)
    BY <1>14, LoadFields
  <2>5. Len(st.loaded) = 0
    <3>1. PICK k : k = Len(st.loaded)
      OBVIOUS
    <3>2. k \in Nat /\ ~(1 \in 1 .. k)
      BY <2>3, <2>4, <3>1
    <3>3. k = 0
      BY <3>2
    <3> QED
      BY <3>1, <3>3
  <2> QED
    BY <2>4, <2>5, EmptySeq
<1>16. ASSUME ~answer.reported PROVE o = loadOrder /\ Len(loadOrder) = N
  BY <1>8, <1>9, <1>16 DEF o
<1>17. ASSUME ~answer.reported, ~st.thrown PROVE LoadedKeys(st) = {KeyOf(libraries[m]) : m \in 1 .. N}
  <2>1. ToSet(o) = 1 .. N
    BY <1>5, <1>16, <1>17
  <2>2. LoadedKeys(st) = {KeyOf(libraries[o[p]]) : p \in DOMAIN o}
    BY <1>13, <1>14, <1>17 DEF KeyAt
  <2>3. {KeyOf(libraries[o[p]]) : p \in DOMAIN o} = {KeyOf(libraries[m]) : m \in ToSet(o)}
    BY DEF ToSet
  <2> QED
    BY <2>1, <2>2, <2>3
<1>18. ASSUME st.thrown PROVE \E m \in 1 .. N : ~libraries[m].entry
  BY <1>13, <1>14, <1>18
<1>19. ASSUME NEW i \in DOMAIN st.loaded
       PROVE  /\ st.loaded[i].entry
              /\ \E m \in 1 .. N :
                   /\ st.loaded[i] = libraries[m]
                   /\ \A e \in DOMAIN edges : edges[e].source = m =>
                        /\ edges[e].target \in 1 .. N
                        /\ \E k \in 1 .. i - 1 : KeyOf(st.loaded[k]) = KeyOf(libraries[edges[e].target])
  <2>1. ~answer.reported
    BY <1>15
  <2>2. Behind(edges, o)
    BY <1>4, <1>16, <2>1
  <2>3. st.loaded[i].entry
    BY <1>14 DEF InPlace
  <2>4. PICK p \in 1 .. Len(o) :
          /\ st.loaded[i] = libraries[o[p]]
          /\ \A q \in 1 .. p - 1 : \E k \in 1 .. i - 1 : KeyOf(st.loaded[k]) = KeyAt(libraries, o, q)
    BY <1>14 DEF InPlace
  <2>5. o[p] \in 1 .. N /\ p \in DOMAIN o
    BY <1>13
  <2>6. ASSUME NEW e \in DOMAIN edges, edges[e].source = o[p]
        PROVE  /\ edges[e].target \in 1 .. N
               /\ \E k \in 1 .. i - 1 : KeyOf(st.loaded[k]) = KeyOf(libraries[edges[e].target])
    <3>1. PICK q \in 1 .. p - 1 : o[q] = edges[e].target
      BY <2>2, <2>5, <2>6 DEF Behind
    <3>2. q \in 1 .. Len(o)
      BY <1>13
    <3>3. edges[e].target \in 1 .. N
      BY <1>13, <3>1, <3>2
    <3> QED
      BY <2>4, <3>1, <3>3 DEF KeyAt
  <2> QED
    BY <2>3, <2>4, <2>5, <2>6
<1> QED
  BY <1>10, <1>14, <1>15, <1>17, <1>18, <1>19 DEF Loads, N, resolved, answer, st

-----------------------------------------------------------------------------
(* What a version text is read as                                          *)

\* The least of some natural numbers, and the greatest of some numbers up to m.
LEMMA LeastOf ==
    ASSUME NEW S \in SUBSET Nat, S # {}
    PROVE  Min(S) \in S /\ \A y \in S : Min(S) <= y
<1> DEFINE T == {n \in Nat : \A y \in S : n <= y}
<1>1. \E x \in S : \A y \in S : x <= y
  <2> SUFFICES ASSUME ~\E x \in S : \A y \in S : x <= y PROVE FALSE
    OBVIOUS
  <2>1. 0 \in T
    OBVIOUS
  <2>2. ASSUME NEW n \in T PROVE n + 1 \in T
    <3>1. n \in Nat /\ n \notin S
      OBVIOUS
    <3>2. ASSUME NEW y \in S PROVE n + 1 <= y
      <4>1. y \in Nat /\ n <= y /\ y # n
        BY <3>1
      <4> QED
        BY <3>1, <4>1
    <3> QED
      BY <3>1, <3>2
  <2>3. T \in SUBSET Nat
    OBVIOUS
  <2> HIDE DEF T
  <2>4. T = Nat
    BY <2>1, <2>2, <2>3, NatSet
  <2>5. PICK x : x \in S
    OBVIOUS
  <2>6. x \in Nat /\ x + 1 \in T
    BY <2>4, <2>5
  <2>7. x + 1 <= x
    BY <2>5, <2>6 DEF T
  <2> QED
    BY <2>6, <2>7
<1> QED
  BY <1>1 DEF Min

LEMMA GreatestOf ==
    ASSUME NEW m \in Nat, NEW S \in SUBSET (1 .. m), S # {}
    PROVE  Max(S) \in S /\ \A y \in S : y <= Max(S)
<1> DEFINE T == {m - y : y \in S}
<1>0. \A y \in S : y \in Nat /\ m - y \in Nat
  <2>1. \A y \in 1 .. m : y \in Nat /\ m - y \in Nat
    OBVIOUS
  <2> QED
    BY <2>1
<1>1. T \in SUBSET Nat /\ T # {}
  BY <1>0
<1>2. Min(T) \in T /\ \A z \in T : Min(T) <= z
  BY <1>1, LeastOf
<1>3. PICK x \in S : Min(T) = m - x
  BY <1>2
<1>4. ASSUME NEW y \in S PROVE y <= x
  <2>1. m - x <= m - y
    BY <1>2, <1>3
  <2>2. x \in Nat /\ y \in Nat
    OBVIOUS
  <2> QED
    BY <1>0, <2>1, <2>2
<1>5. \E z \in S : \A y \in S : z >= y
  BY <1>4
<1>6. Max(S) \in S /\ \A y \in S : Max(S) >= y
  BY <1>5 DEF Max
<1>7. Max(S) \in Nat /\ \A y \in S : y \in Nat
  BY <1>0, <1>6
<1> QED
  BY <1>6, <1>7

LEMMA TrimmedText ==
    ASSUME NEW C, NEW text \in Seq(C)
    PROVE  Trim(text) \in Seq(C)
<1> DEFINE kept == {i \in DOMAIN text : ~IsSpace(text[i])}
           m == Len(text)
<1>1. m \in Nat /\ DOMAIN text = 1 .. m /\ \A i \in 1 .. m : text[i] \in C
  BY LenProperties, ElementOfSeq
<1>2. CASE kept = {}
  BY <1>2, EmptySeq DEF Trim
<1>3. CASE kept # {}
  <2>1. kept \in SUBSET (1 .. m) /\ kept \in SUBSET Nat
    BY <1>1
  <2>2. Min(kept) \in kept
    BY <1>3, <2>1, LeastOf
  <2>3. Max(kept) \in kept
    BY <1>1, <1>3, <2>1, GreatestOf
  <2>4. Trim(text) = SubSeq(text, Min(kept), Max(kept))
    BY <1>3 DEF Trim
  <2> HIDE DEF kept
  <2>5. PICK a, b : a = Min(kept) /\ b = Max(kept)
    OBVIOUS
  <2>6. a \in 1 .. m /\ b \in 1 .. m
    BY <2>1, <2>2, <2>3, <2>5
  <2>7. a \in Int /\ b \in Int /\ \A i \in a .. b : text[i] \in C
    BY <1>1, <2>6
  <2> QED
    BY <2>4, <2>5, <2>7, SubSeqProperties
<1> QED
  BY <1>2, <1>3

LEMMA DigitNumber ==
    ASSUME NEW c, IsDigit(c)
    PROVE  DigitValue(c) \in Nat
<1>1. Len(Digits) = 10 /\ DOMAIN Digits = 1 .. 10
  BY DEF Digits
<1>2. \E i \in DOMAIN Digits : Digits[i] = c
  BY DEF IsDigit, ToSet
<1>3. PICK i \in DOMAIN Digits : DigitValue(c) = i - 1
  BY <1>2 DEF DigitValue
<1> QED
  BY <1>1, <1>3

\* Digits are read as a natural number.
LEMMA DigitsNumber ==
    ASSUME NEW C, NEW digits \in Seq(C), \A i \in 1 .. Len(digits) : IsDigit(digits[i]), NEW next
    PROVE  NumberIn(digits, next).value \in Nat /\ NumberIn(digits, next).next = next
<1> DEFINE m == Len(digits)
           W == Nat
           first == 0
           F(x, n) == x * 10 + DigitValue(digits[n])
           Solves(g) == g = [n \in 0 .. m |-> IF n = 0 THEN first ELSE F(g[n - 1], n)]
           step == [n \in 1 .. m |-> [x \in W |-> F(x, n)]]
           at == CHOOSE g : Solves(g)
<1>1. m \in Nat /\ first \in W
  BY LenProperties
<1>2. ASSUME NEW x \in W, NEW n \in 1 .. m PROVE F(x, n) \in W
  <2>1. DigitValue(digits[n]) \in Nat
    BY <1>2, DigitNumber
  <2> QED
    BY <1>2, <2>1
<1>3. NumberIn(digits, next) = [value |-> at[m], next |-> next]
  BY DEF NumberIn
<1> HIDE DEF m, W, first, F, at
<1>4. step \in [1 .. m -> [W -> W]] /\ \A n \in 1 .. m : \A x \in W : step[n][x] = F(x, n)
  BY <1>2
<1> HIDE DEF step
<1> PICK g : Loops(g, W, m, first, step)
  BY <1>1, <1>4, LoopExists
<1>5. g \in [0 .. m -> W] /\ g[0] = first /\ \A n \in 1 .. m : g[n] = step[n][g[n - 1]]
  BY DEF Loops
<1>6. Solves(g)
  <2>1. ASSUME NEW n \in 0 .. m PROVE g[n] = IF n = 0 THEN first ELSE F(g[n - 1], n)
    <3>1. CASE n = 0
      BY <1>5, <3>1
    <3>2. CASE n # 0
      <4>1. n \in 1 .. m /\ n - 1 \in 0 .. m
        BY <1>1, <3>2
      <4> QED
        BY <1>4, <1>5, <3>2, <4>1
    <3> QED
      BY <3>1, <3>2
  <2> QED
    BY <1>5, <2>1
<1>7. Solves(at)
  BY <1>6 DEF at
<1>8. at[0] = first /\ \A n \in 1 .. m : at[n] = F(at[n - 1], n)
  <2>1. 0 \in 0 .. m /\ \A n \in 1 .. m : n \in 0 .. m /\ n # 0
    BY <1>1
  <2> QED
    BY <1>7, <2>1
<1>9. at \in [0 .. m -> W]
  <2>1. DOMAIN at = 0 .. m /\ at = [n \in DOMAIN at |-> at[n]]
    BY <1>7
  <2>2. \A n \in 1 .. m : at[n - 1] \in W => at[n] \in W
    BY <1>2, <1>8
  <2> HIDE DEF Solves
  <2> QED
    BY <1>1, <1>8, <2>1, <2>2, LoopStays
<1>10. at[m] \in Nat
  <2>1. m \in 0 .. m
    BY <1>1
  <2> QED
    BY <1>9, <2>1 DEF W
<1> QED
  BY <1>3, <1>10

LEMMA NumberRead ==
    ASSUME NEW C, NEW text \in Seq(C), NEW pos \in 1 .. Len(text) + 1
    PROVE  ParseInt(text, pos).value \in Nat /\ ParseInt(text, pos).next \in pos .. Len(text) + 1
<1> DEFINE m == Len(text)
           ends == {i \in pos .. (m + 1) : i = m + 1 \/ ~IsDigit(text[i])}
           S == ends \cup {pos + m}
           r == RunOfDigits(text, pos)
<1>1. m \in Nat /\ \A i \in 1 .. m : text[i] \in C
  BY LenProperties, ElementOfSeq
<1>2. pos \in Nat /\ pos >= 1 /\ pos <= m + 1
  BY <1>1
<1>3. m + 1 \in ends
  BY <1>1, <1>2
<1>4. S \in SUBSET Nat /\ S # {}
  BY <1>1, <1>2
<1>5. r = Min(S)
  BY DEF RunOfDigits
<1>6. r \in S /\ \A y \in S : r <= y
  <2>1. PICK T : T = S
    OBVIOUS
  <2>2. T \in SUBSET Nat /\ T # {}
    BY <1>4, <2>1
  <2> HIDE DEF S
  <2>3. Min(T) \in T /\ \A y \in T : Min(T) <= y
    BY <2>2, LeastOf
  <2> QED
    BY <1>5, <2>1, <2>3
<1> HIDE DEF r
<1>7. r \in Nat /\ r <= m + 1 /\ r >= pos
  BY <1>1, <1>2, <1>3, <1>6
<1>8. ASSUME NEW i \in pos .. r - 1 PROVE i \in 1 .. m /\ IsDigit(text[i])
  <2>1. i \in Nat /\ i < r /\ i \in pos .. m + 1 /\ i \in 1 .. m
    BY <1>1, <1>2, <1>7
  <2>2. i \notin S
    BY <1>6, <1>7, <2>1
  <2> QED
    BY <2>1, <2>2
<1> HIDE DEF S, ends
<1> DEFINE digits == SubSeq(text, pos, r - 1)
<1>9. /\ digits \in Seq(C)
      /\ Len(digits) = IF pos <= r - 1 THEN (r - 1) - pos + 1 ELSE 0
      /\ \A i \in 1 .. (r - 1) - pos + 1 : digits[i] = text[pos + i - 1]
  <2>1. pos \in Int /\ r - 1 \in Int /\ \A i \in pos .. r - 1 : text[i] \in C
    BY <1>1, <1>2, <1>7, <1>8
  <2>2. PICK q : q = r - 1
    OBVIOUS
  <2> QED
    BY <2>1, <2>2, SubSeqProperties
<1> HIDE DEF digits
<1>10. ASSUME NEW i \in 1 .. Len(digits) PROVE IsDigit(digits[i])
  <2>1. i \in 1 .. (r - 1) - pos + 1 /\ pos + i - 1 \in pos .. r - 1
    BY <1>2, <1>7, <1>9
  <2> QED
    BY <1>8, <1>9, <2>1
<1>11. ParseInt(text, pos) = NumberIn(digits, r)
  BY DEF ParseInt, r, digits
<1> QED
  BY <1>1, <1>2, <1>7, <1>9, <1>10, <1>11, DigitsNumber

\* A text is read as a version or not at all.
LEMMA VersionRead ==
    ASSUME NEW C, NEW text \in Seq(C)
    PROVE  ParseVersion(text) \in VersionSet \cup {Nullopt}
<1> DEFINE input == Trim(text)
           m == Len(input)
           major == ParseInt(input, 1)
           minor == ParseInt(input, major.next + 1)
           patch == ParseInt(input, minor.next + 1)
<1>1. ParseVersion(text) = Complete(input, major, minor, patch)
  BY DEF ParseVersion, ParseMajor, ParseMinor, ParsePatch
<1>2. input \in Seq(C) /\ m \in Nat
  BY TrimmedText, LenProperties
<1> HIDE DEF input
<1>3. CASE Holds(input, major.next, ".") /\ Holds(input, minor.next, ".")
  <2>1. 1 \in 1 .. m + 1
    BY <1>2
  <2>2. major.value \in Nat /\ major.next \in 1 .. m + 1
    BY <1>2, <2>1, NumberRead
  <2> HIDE DEF major
  <2>3. PICK p : p = major.next + 1
    OBVIOUS
  <2>4. p \in 1 .. m + 1
    BY <1>2, <1>3, <2>2, <2>3 DEF Holds
  <2>5. minor.value \in Nat /\ minor.next \in p .. m + 1
    BY <1>2, <2>3, <2>4, NumberRead
  <2> HIDE DEF minor
  <2>6. PICK q : q = minor.next + 1
    OBVIOUS
  <2>7. q \in 1 .. m + 1
    BY <1>2, <1>3, <2>4, <2>5, <2>6 DEF Holds
  <2>8. patch.value \in Nat
    BY <1>2, <2>6, <2>7, NumberRead
  <2> HIDE DEF patch
  <2>9. <<major.value, minor.value, patch.value>> \in VersionSet
    BY <2>2, <2>5, <2>8 DEF VersionSet
  <2> QED
    BY <1>1, <2>9 DEF Complete
<1>4. CASE ~(Holds(input, major.next, ".") /\ Holds(input, minor.next, "."))
  BY <1>1, <1>4 DEF Complete
<1> QED
  BY <1>3, <1>4

-----------------------------------------------------------------------------
(* From the dependencies to the edges                                      *)

\* What main hands to AddLibraries for each file that describes itself.
DependencySet == [name : STRING, expression : Seq(STRING)]
LibrarySet ==
  [path : STRING, name : STRING, version : Seq(STRING), dependencies : Seq(DependencySet),
   loads : BOOLEAN, describes : BOOLEAN, entry : BOOLEAN]
VersionsOf(libraries) == [i \in DOMAIN libraries |-> CandidateVersion(libraries[i])]

LEMMA VersionsRead ==
    ASSUME NEW libraries \in Seq(LibrarySet)
    PROVE  VersionsOf(libraries) \in [1 .. Len(libraries) -> VersionSet \cup {Nullopt}]
<1>1. DOMAIN libraries = 1 .. Len(libraries) /\ \A i \in 1 .. Len(libraries) : libraries[i] \in LibrarySet
  BY LenProperties, ElementOfSeq
<1>2. ASSUME NEW i \in 1 .. Len(libraries) PROVE CandidateVersion(libraries[i]) \in VersionSet \cup {Nullopt}
  <2>1. libraries[i].version \in Seq(STRING)
    BY <1>1 DEF LibrarySet
  <2>2. CASE libraries[i].version = << >>
    <3>1. PICK zeros, C : zeros = <<"0", ".", "0", ".", "0">> /\ C = {"0", "."}
      OBVIOUS
    <3>2. zeros \in Seq(C)
      BY <3>1
    <3>3. CandidateVersion(libraries[i]) = ParseVersion(zeros)
      BY <2>2, <3>1 DEF CandidateVersion
    <3> QED
      BY <3>2, <3>3, VersionRead
  <2>3. CASE libraries[i].version # << >>
    <3>1. CandidateVersion(libraries[i]) = ParseVersion(libraries[i].version)
      BY <2>3 DEF CandidateVersion
    <3> QED
      BY <2>1, <3>1, VersionRead
  <2> QED
    BY <2>2, <2>3
<1> QED
  BY <1>1, <1>2 DEF VersionsOf

\* The candidates that the first n entries of the order add.
IsNamed(libraries, k, name) == libraries[k].name = name /\ name # ""
NamedAmong(n, name, libraries, versions, order) ==
  {<<order[p], versions[order[p]]>> : p \in {q \in 1 .. n : IsNamed(libraries, order[q], name)}}

LEMMA NamedFields ==
    ASSUME NEW libraries \in Seq(LibrarySet), NEW versions \in [1 .. Len(libraries) -> VersionSet \cup {Nullopt}],
           NEW found \in Seq(CandidateSet), NEW k \in 1 .. Len(libraries), NEW name
    PROVE  LET next == AddNamed(found, k, name, libraries, versions)
           IN /\ next \in Seq(CandidateSet)
              /\ IsNamed(libraries, k, name) => ToSet(next) = ToSet(found) \cup {<<k, versions[k]>>}
              /\ ~IsNamed(libraries, k, name) => next = found
<1>1. CASE IsNamed(libraries, k, name)
  <2>2. PICK c : c = <<k, versions[k]>>
    OBVIOUS
  <2>3. c \in CandidateSet
    BY <2>2, LenProperties DEF CandidateSet
  <2>4. AddNamed(found, k, name, libraries, versions) = Append(found, c)
    BY <1>1, <2>2 DEF AddNamed, IsNamed
  <2>5. Append(found, c) \in Seq(CandidateSet) /\ ToSet(Append(found, c)) = ToSet(found) \cup {c}
    BY <2>3, AppendFacts
  <2> QED
    BY <1>1, <2>2, <2>4, <2>5
<1>2. CASE ~IsNamed(libraries, k, name)
  BY <1>2 DEF AddNamed, IsNamed
<1> QED
  BY <1>1, <1>2

\* The entries of the order are looked at one after the other.
Namings(found, name, libraries, versions, order) ==
  /\ found \in [0 .. Len(order) -> Seq(CandidateSet)]
  /\ found[0] = << >>
  /\ \A n \in 1 .. Len(order) : found[n] = AddNamed(found[n - 1], order[n], name, libraries, versions)
  /\ CandidatesNamed(name, libraries, versions, order) = found[Len(order)]

LEMMA NamedSteps ==
    ASSUME NEW libraries \in Seq(LibrarySet), NEW versions \in [1 .. Len(libraries) -> VersionSet \cup {Nullopt}],
           NEW order \in Seq(1 .. Len(libraries)), NEW name
    PROVE  \E found : Namings(found, name, libraries, versions, order)
<1> DEFINE m == Len(order)
           W == Seq(CandidateSet)
           first == << >>
           F(x, n) == AddNamed(x, order[n], name, libraries, versions)
           Solves(g) == g = [n \in 0 .. m |-> IF n = 0 THEN first ELSE F(g[n - 1], n)]
           step == [n \in 1 .. m |-> [x \in W |-> F(x, n)]]
           at == CHOOSE g : Solves(g)
<1>1. m \in Nat /\ first \in W
  BY LenProperties, EmptySeq
<1>2. ASSUME NEW x \in W, NEW n \in 1 .. m PROVE F(x, n) \in W
  <2>1. PICK k, y : k = order[n] /\ y = x
    OBVIOUS
  <2>2. k \in 1 .. Len(libraries)
    BY <1>2, <2>1, ElementOfSeq
  <2>3. y \in Seq(CandidateSet)
    BY <1>2, <2>1
  <2>4. AddNamed(y, k, name, libraries, versions) \in Seq(CandidateSet)
    BY <2>2, <2>3, NamedFields
  <2> QED
    BY <2>1, <2>4
<1>3. CandidatesNamed(name, libraries, versions, order) = at[m]
  BY DEF CandidatesNamed
<1> HIDE DEF m, W, first, F, at
<1>4. step \in [1 .. m -> [W -> W]] /\ \A n \in 1 .. m : \A x \in W : step[n][x] = F(x, n)
  BY <1>2
<1> HIDE DEF step
<1> PICK g : Loops(g, W, m, first, step)
  BY <1>1, <1>4, LoopExists
<1>5. g \in [0 .. m -> W] /\ g[0] = first /\ \A n \in 1 .. m : g[n] = step[n][g[n - 1]]
  BY DEF Loops
<1>6. Solves(g)
  <2>1. ASSUME NEW n \in 0 .. m PROVE g[n] = IF n = 0 THEN first ELSE F(g[n - 1], n)
    <3>1. CASE n = 0
      BY <1>5, <3>1
    <3>2. CASE n # 0
      <4>1. n \in 1 .. m /\ n - 1 \in 0 .. m
        BY <1>1, <3>2
      <4> QED
        BY <1>4, <1>5, <3>2, <4>1
    <3> QED
      BY <3>1, <3>2
  <2> QED
    BY <1>5, <2>1
<1>7. Solves(at)
  BY <1>6 DEF at
<1>8. at[0] = first /\ \A n \in 1 .. m : at[n] = F(at[n - 1], n)
  <2>1. 0 \in 0 .. m /\ \A n \in 1 .. m : n \in 0 .. m /\ n # 0
    BY <1>1
  <2> QED
    BY <1>7, <2>1
<1>9. at \in [0 .. m -> W]
  <2>1. DOMAIN at = 0 .. m /\ at = [n \in DOMAIN at |-> at[n]]
    BY <1>7
  <2>2. \A n \in 1 .. m : at[n - 1] \in W => at[n] \in W
    BY <1>2, <1>8
  <2> HIDE DEF Solves
  <2> QED
    BY <1>1, <1>8, <2>1, <2>2, LoopStays
<1> QED
  BY <1>3, <1>8, <1>9 DEF F, W, m, first, Namings

\* The candidates are the libraries of the name.
LEMMA CandidatesFound ==
    ASSUME NEW libraries \in Seq(LibrarySet), NEW versions \in [1 .. Len(libraries) -> VersionSet \cup {Nullopt}],
           NEW order \in Seq(1 .. Len(libraries)), NEW name
    PROVE  LET candidates == CandidatesNamed(name, libraries, versions, order)
           IN /\ candidates \in Seq(CandidateSet)
              /\ ToSet(candidates) = {<<k, versions[k]>> : k \in {i \in ToSet(order) : IsNamed(libraries, i, name)}}
<1> DEFINE m == Len(order)
           N(n) == NamedAmong(n, name, libraries, versions, order)
<1>1. m \in Nat /\ DOMAIN order = 1 .. m /\ \A p \in 1 .. m : order[p] \in 1 .. Len(libraries)
  BY LenProperties, ElementOfSeq
<1> PICK found : Namings(found, name, libraries, versions, order)
  BY NamedSteps
<1>2. /\ found \in [0 .. m -> Seq(CandidateSet)] /\ found[0] = << >>
      /\ \A n \in 1 .. m : found[n] = AddNamed(found[n - 1], order[n], name, libraries, versions)
      /\ CandidatesNamed(name, libraries, versions, order) = found[m]
  BY DEF Namings
<1> DEFINE P == {n \in 0 .. m : ToSet(found[n]) = N(n)}
<1>3. 0 \in P
  <2>1. ToSet(<< >>) = {} /\ 1 .. 0 = {} /\ 0 \in 0 .. m
    BY <1>1 DEF ToSet
  <2> QED
    BY <1>2, <2>1 DEF NamedAmong
<1>4. ASSUME NEW n \in 0 .. m - 1, n \in P PROVE n + 1 \in P
  <2>1. n + 1 \in 1 .. m /\ n + 1 \in 0 .. m /\ (n + 1) - 1 = n /\ n \in 0 .. m
    BY <1>1
  <2>2. PICK k : k = n + 1
    OBVIOUS
  <2>3. /\ found[n] \in Seq(CandidateSet) /\ order[k] \in 1 .. Len(libraries)
        /\ found[k] = AddNamed(found[n], order[k], name, libraries, versions)
    BY <1>1, <1>2, <2>1, <2>2
  <2>4. (\A q \in 1 .. k : q \in 1 .. n \/ q = k) /\ 1 .. n \subseteq 1 .. k /\ k \in 1 .. k
    BY <1>1, <2>2
  <2>5. ToSet(found[n]) = N(n)
    BY <1>4
  <2>6. CASE IsNamed(libraries, order[k], name)
    <3>1. ToSet(found[k]) = ToSet(found[n]) \cup {<<order[k], versions[order[k]]>>}
      <4>1. PICK x, i : x = found[n] /\ i = order[k]
        OBVIOUS
      <4>2. PICK y : y = AddNamed(x, i, name, libraries, versions)
        OBVIOUS
      <4>3. x \in Seq(CandidateSet) /\ i \in 1 .. Len(libraries) /\ IsNamed(libraries, i, name) /\ found[k] = y
        BY <2>3, <2>6, <4>1, <4>2
      <4>4. LET next == AddNamed(x, i, name, libraries, versions)
            IN /\ next \in Seq(CandidateSet)
               /\ IsNamed(libraries, i, name) => ToSet(next) = ToSet(x) \cup {<<i, versions[i]>>}
               /\ ~IsNamed(libraries, i, name) => next = x
        BY ONLY <4>3, libraries \in Seq(LibrarySet), versions \in [1 .. Len(libraries) -> VersionSet \cup {Nullopt}],
                NamedFields
      <4>5. ToSet(y) = ToSet(x) \cup {<<i, versions[i]>>}
        BY ONLY <4>2, <4>3, <4>4
      <4> QED
        BY <4>1, <4>3, <4>5
    <3>2. N(k) = N(n) \cup {<<order[k], versions[order[k]]>>}
      <4>1. {q \in 1 .. k : IsNamed(libraries, order[q], name)} = {q \in 1 .. n : IsNamed(libraries, order[q], name)} \cup {k}
        BY <2>4, <2>6
      <4> QED
        BY <4>1 DEF NamedAmong
    <3> QED
      BY <2>1, <2>2, <2>5, <3>1, <3>2
  <2>7. CASE ~IsNamed(libraries, order[k], name)
    <3>1. found[k] = found[n]
      BY <2>3, <2>7, NamedFields
    <3>2. N(k) = N(n)
      <4>1. {q \in 1 .. k : IsNamed(libraries, order[q], name)} = {q \in 1 .. n : IsNamed(libraries, order[q], name)}
        BY <2>4, <2>7
      <4> QED
        BY <4>1 DEF NamedAmong
    <3> QED
      BY <2>1, <2>2, <2>5, <3>1, <3>2
  <2> QED
    BY <2>6, <2>7
<1> HIDE DEF P
<1>5. m \in 0 .. m
  BY <1>1
<1>6. m \in P
  BY <1>1, <1>3, <1>4, <1>5, SmallInduction
<1>7. ToSet(found[m]) = N(m) /\ found[m] \in Seq(CandidateSet)
  BY <1>2, <1>5, <1>6 DEF P
<1>8. N(m) = {<<k, versions[k]>> : k \in {i \in ToSet(order) : IsNamed(libraries, i, name)}}
  <2> DEFINE positions == {q \in 1 .. m : IsNamed(libraries, order[q], name)}
             named == {i \in ToSet(order) : IsNamed(libraries, i, name)}
  <2>1. \A p \in positions : order[p] \in named
    BY <1>1 DEF ToSet
  <2>2. \A k \in named : \E p \in positions : k = order[p]
    BY <1>1 DEF ToSet
  <2>3. N(m) = {<<order[p], versions[order[p]]>> : p \in positions}
    BY DEF NamedAmong
  <2> HIDE DEF positions, named, N
  <2>4. N(m) = {<<k, versions[k]>> : k \in named}
    BY <2>1, <2>2, <2>3
  <2> QED
    BY <2>4 DEF named
<1> QED
  BY <1>2, <1>7, <1>8

\* The candidate chosen for dependency d of library i.
Chosen(i, d, libraries, versions, order) ==
  LET dep == libraries[i].dependencies[d]
  IN BestMatch(CandidatesNamed(dep.name, libraries, versions, order), ExpressionOf(dep), Parse(ExpressionOf(dep)))

\* The edges of one library: one for each dependency, to a library or to none.
Edged(i, libraries, versions, order) ==
  LET edges == EdgesOf(i, libraries, versions, order)
  IN /\ edges \in Seq(EdgeSet(Len(libraries)))
     /\ DOMAIN edges = DOMAIN libraries[i].dependencies
     /\ \A d \in DOMAIN edges :
          /\ edges[d].source = i
          /\ edges[d].target = IF Chosen(i, d, libraries, versions, order) = Nullopt THEN 0
                               ELSE Chosen(i, d, libraries, versions, order)[1]

LEMMA EdgesFound ==
    ASSUME NEW libraries \in Seq(LibrarySet), NEW versions \in [1 .. Len(libraries) -> VersionSet \cup {Nullopt}],
           NEW order \in Seq(1 .. Len(libraries)), NEW i \in 1 .. Len(libraries)
    PROVE  Edged(i, libraries, versions, order)
<1> DEFINE edges == EdgesOf(i, libraries, versions, order)
           deps == libraries[i].dependencies
           N == Len(libraries)
<1>1. N \in Nat /\ DOMAIN libraries = 1 .. N /\ libraries[i] \in LibrarySet
  BY LenProperties, ElementOfSeq
<1>2. deps \in Seq(DependencySet)
  BY <1>1 DEF LibrarySet
<1>3. Len(deps) \in Nat /\ DOMAIN deps = 1 .. Len(deps)
  BY <1>2, LenProperties
<1>4. edges = [d \in DOMAIN deps |-> Edge(i, Chosen(i, d, libraries, versions, order))]
  BY DEF EdgesOf, Chosen
<1> HIDE DEF edges, deps
<1>5. ASSUME NEW d \in DOMAIN deps, NEW best, best = Chosen(i, d, libraries, versions, order)
      PROVE  best # Nullopt => best[1] \in 1 .. N
  <2> DEFINE dep == deps[d]
  <2> PICK name : name = dep.name
    OBVIOUS
  <2> PICK candidates : candidates = CandidatesNamed(name, libraries, versions, order)
    OBVIOUS
  <2>1. /\ candidates \in Seq(CandidateSet)
        /\ ToSet(candidates) = {<<k, versions[k]>> : k \in {j \in ToSet(order) : IsNamed(libraries, j, name)}}
    BY CandidatesFound
  <2> PICK expression, constraints : expression = ExpressionOf(dep) /\ constraints = Parse(ExpressionOf(dep))
    OBVIOUS
  <2>2. best = BestMatch(candidates, expression, constraints)
    BY <1>5 DEF Chosen, deps
  <2>3. best # Nullopt => \E p \in 1 .. Len(candidates) : best = candidates[p]
    <3>1. IF expression # Wildcard /\ constraints = Nullopt THEN best = Nullopt
          ELSE NewestOf(best, Len(candidates), candidates, expression, constraints)
      BY <2>1, <2>2, BestMatchIsNewest
    <3> QED
      BY <3>1 DEF NewestOf
  <2>4. best # Nullopt => best \in ToSet(candidates)
    BY <2>1, <2>3, LenProperties DEF ToSet
  <2>5. ASSUME best # Nullopt PROVE best[1] \in 1 .. N
    <3>1. PICK k \in {j \in ToSet(order) : IsNamed(libraries, j, name)} : best = <<k, versions[k]>>
      BY <2>1, <2>4, <2>5
    <3>2. k \in 1 .. N /\ best[1] = k
      BY <1>1, <3>1, ElementsOf
    <3> QED
      BY <3>2
  <2> QED
    BY <2>5
<1>6. ASSUME NEW d \in DOMAIN deps
      PROVE  /\ edges[d] \in EdgeSet(N) /\ edges[d].source = i
             /\ edges[d].target = IF Chosen(i, d, libraries, versions, order) = Nullopt THEN 0
                                  ELSE Chosen(i, d, libraries, versions, order)[1]
  <2>1. PICK best : best = Chosen(i, d, libraries, versions, order)
    OBVIOUS
  <2>2. edges[d] = [source |-> i, target |-> IF best = Nullopt THEN 0 ELSE best[1]]
    BY <1>4, <2>1 DEF Edge
  <2>3. (IF best = Nullopt THEN 0 ELSE best[1]) \in 0 .. N
    BY <1>1, <1>5, <2>1
  <2> QED
    BY <2>1, <2>2, <2>3 DEF EdgeSet
<1>7. edges \in Seq(EdgeSet(N)) /\ DOMAIN edges = DOMAIN deps
  <2>1. edges \in [1 .. Len(deps) -> EdgeSet(N)]
    BY <1>3, <1>4, <1>6
  <2> QED
    BY <1>3, <1>4, <2>1, SeqDef
<1> QED
  BY <1>6, <1>7 DEF Edged, edges, deps, N

LEMMA JoinedElements ==
    ASSUME NEW S, NEW s \in Seq(S), NEW t \in Seq(S)
    PROVE  s \o t \in Seq(S) /\ ToSet(s \o t) = ToSet(s) \cup ToSet(t)
<1> DEFINE a == Len(s)
           b == Len(t)
           u == s \o t
<1>1. a \in Nat /\ b \in Nat /\ DOMAIN s = 1 .. a /\ DOMAIN t = 1 .. b
  BY LenProperties
<1>2. /\ u \in Seq(S) /\ Len(u) = a + b
      /\ \A i \in 1 .. a + b : u[i] = IF i <= a THEN s[i] ELSE t[i - a]
  BY ConcatProperties
<1>3. DOMAIN u = 1 .. a + b
  BY <1>2, LenProperties
<1> HIDE DEF u, a, b
<1>4. ASSUME NEW x \in ToSet(u) PROVE x \in ToSet(s) \cup ToSet(t)
  <2>1. PICK i \in 1 .. a + b : x = u[i]
    BY <1>3 DEF ToSet
  <2>2. CASE i <= a
    <3>1. i \in 1 .. a /\ x = s[i]
      BY <1>1, <1>2, <2>1, <2>2
    <3> QED
      BY <1>1, <3>1 DEF ToSet
  <2>3. CASE ~(i <= a)
    <3>1. i - a \in 1 .. b /\ x = t[i - a]
      BY <1>1, <1>2, <2>1, <2>3
    <3> QED
      BY <1>1, <3>1 DEF ToSet
  <2> QED
    BY <2>2, <2>3
<1>5. ASSUME NEW x \in ToSet(s) PROVE x \in ToSet(u)
  <2>1. PICK i \in 1 .. a : x = s[i]
    BY <1>1 DEF ToSet
  <2>2. i \in 1 .. a + b /\ u[i] = x
    BY <1>1, <1>2, <2>1
  <2> QED
    BY <1>3, <2>2 DEF ToSet
<1>6. ASSUME NEW x \in ToSet(t) PROVE x \in ToSet(u)
  <2>1. PICK i \in 1 .. b : x = t[i]
    BY <1>1 DEF ToSet
  <2>2. i + a \in 1 .. a + b /\ ~(i + a <= a) /\ (i + a) - a = i
    BY <1>1
  <2>3. u[i + a] = x
    BY <1>2, <2>1, <2>2
  <2> QED
    BY <1>3, <2>2, <2>3 DEF ToSet
<1> QED
  BY <1>2, <1>4, <1>5, <1>6 DEF u

\* The libraries are looked at one after the other.
Resolutions(resolved, libraries, versions, order) ==
  /\ resolved \in [0 .. Len(libraries) -> Seq(EdgeSet(Len(libraries)))]
  /\ resolved[0] = << >>
  /\ \A n \in 1 .. Len(libraries) : resolved[n] = resolved[n - 1] \o EdgesOf(n, libraries, versions, order)
  /\ ResolvedDependencies(libraries, versions, order) = resolved[Len(libraries)]

LEMMA ResolvedSteps ==
    ASSUME NEW libraries \in Seq(LibrarySet), NEW versions \in [1 .. Len(libraries) -> VersionSet \cup {Nullopt}],
           NEW order \in Seq(1 .. Len(libraries))
    PROVE  \E resolved : Resolutions(resolved, libraries, versions, order)
<1> DEFINE m == Len(libraries)
           W == Seq(EdgeSet(Len(libraries)))
           first == << >>
           F(x, n) == x \o EdgesOf(n, libraries, versions, order)
           Solves(g) == g = [n \in 0 .. m |-> IF n = 0 THEN first ELSE F(g[n - 1], n)]
           step == [n \in 1 .. m |-> [x \in W |-> F(x, n)]]
           at == CHOOSE g : Solves(g)
<1>1. m \in Nat /\ first \in W
  BY LenProperties, EmptySeq
<1>2. ASSUME NEW x \in W, NEW n \in 1 .. m PROVE F(x, n) \in W
  <2>1. Edged(n, libraries, versions, order)
    BY <1>2, EdgesFound
  <2>2. EdgesOf(n, libraries, versions, order) \in Seq(EdgeSet(Len(libraries)))
    BY <2>1 DEF Edged
  <2> QED
    BY <1>2, <2>2, ConcatProperties
<1>3. ResolvedDependencies(libraries, versions, order) = at[m]
  BY DEF ResolvedDependencies
<1> HIDE DEF m, W, first, F, at
<1>4. step \in [1 .. m -> [W -> W]] /\ \A n \in 1 .. m : \A x \in W : step[n][x] = F(x, n)
  BY <1>2
<1> HIDE DEF step
<1> PICK g : Loops(g, W, m, first, step)
  BY <1>1, <1>4, LoopExists
<1>5. g \in [0 .. m -> W] /\ g[0] = first /\ \A n \in 1 .. m : g[n] = step[n][g[n - 1]]
  BY DEF Loops
<1>6. Solves(g)
  <2>1. ASSUME NEW n \in 0 .. m PROVE g[n] = IF n = 0 THEN first ELSE F(g[n - 1], n)
    <3>1. CASE n = 0
      BY <1>5, <3>1
    <3>2. CASE n # 0
      <4>1. n \in 1 .. m /\ n - 1 \in 0 .. m
        BY <1>1, <3>2
      <4> QED
        BY <1>4, <1>5, <3>2, <4>1
    <3> QED
      BY <3>1, <3>2
  <2> QED
    BY <1>5, <2>1
<1>7. Solves(at)
  BY <1>6 DEF at
<1>8. at[0] = first /\ \A n \in 1 .. m : at[n] = F(at[n - 1], n)
  <2>1. 0 \in 0 .. m /\ \A n \in 1 .. m : n \in 0 .. m /\ n # 0
    BY <1>1
  <2> QED
    BY <1>7, <2>1
<1>9. at \in [0 .. m -> W]
  <2>1. DOMAIN at = 0 .. m /\ at = [n \in DOMAIN at |-> at[n]]
    BY <1>7
  <2>2. \A n \in 1 .. m : at[n - 1] \in W => at[n] \in W
    BY <1>2, <1>8
  <2> HIDE DEF Solves
  <2> QED
    BY <1>1, <1>8, <2>1, <2>2, LoopStays
<1> QED
  BY <1>3, <1>8, <1>9 DEF F, W, m, first, Resolutions

\* The edges are those of the dependencies of all libraries.
LEMMA EdgesResolved ==
    ASSUME NEW libraries \in Seq(LibrarySet), NEW versions \in [1 .. Len(libraries) -> VersionSet \cup {Nullopt}],
           NEW order \in Seq(1 .. Len(libraries))
    PROVE  LET edges == ResolvedDependencies(libraries, versions, order)
           IN /\ edges \in Seq(EdgeSet(Len(libraries)))
              /\ ToSet(edges) = UNION {ToSet(EdgesOf(i, libraries, versions, order)) : i \in 1 .. Len(libraries)}
<1> DEFINE m == Len(libraries)
           E(i) == EdgesOf(i, libraries, versions, order)
           U(n) == UNION {ToSet(E(i)) : i \in 1 .. n}
<1>1. m \in Nat
  BY LenProperties
<1> PICK resolved : Resolutions(resolved, libraries, versions, order)
  BY ResolvedSteps
<1>2. /\ resolved \in [0 .. m -> Seq(EdgeSet(m))] /\ resolved[0] = << >>
      /\ \A n \in 1 .. m : resolved[n] = resolved[n - 1] \o E(n)
      /\ ResolvedDependencies(libraries, versions, order) = resolved[m]
  BY DEF Resolutions
<1>3. \A i \in 1 .. m : E(i) \in Seq(EdgeSet(m))
  <2>1. \A i \in 1 .. m : Edged(i, libraries, versions, order)
    BY EdgesFound
  <2> QED
    BY <2>1 DEF Edged
<1> HIDE DEF E, m
<1> DEFINE P == {n \in 0 .. m : ToSet(resolved[n]) = U(n)}
<1>4. 0 \in P
  <2>1. ToSet(<< >>) = {} /\ 1 .. 0 = {} /\ 0 \in 0 .. m
    BY <1>1 DEF ToSet
  <2> QED
    BY <1>2, <2>1
<1>5. ASSUME NEW n \in 0 .. m - 1, n \in P PROVE n + 1 \in P
  <2>1. n + 1 \in 1 .. m /\ n + 1 \in 0 .. m /\ (n + 1) - 1 = n /\ n \in 0 .. m
    BY <1>1
  <2>2. PICK k, s, t : k = n + 1 /\ s = resolved[n] /\ t = E(k)
    OBVIOUS
  <2>3. s \in Seq(EdgeSet(m)) /\ t \in Seq(EdgeSet(m)) /\ resolved[k] = s \o t
    BY <1>2, <1>3, <2>1, <2>2
  <2>4. ToSet(resolved[k]) = ToSet(s) \cup ToSet(t)
    BY <2>3, JoinedElements
  <2>5. 1 .. k = 1 .. n \cup {k}
    BY <1>1, <2>2
  <2>6. ToSet(s) = U(n)
    BY <1>5, <2>2
  <2>7. U(k) = U(n) \cup ToSet(t)
    BY <2>2, <2>5
  <2> QED
    BY <2>1, <2>2, <2>4, <2>6, <2>7
<1> HIDE DEF P
<1>6. m \in 0 .. m
  BY <1>1
<1>7. m \in P
  BY <1>1, <1>4, <1>5, <1>6, SmallInduction
<1> QED
  BY <1>2, <1>6, <1>7 DEF P, E, m

\* The library that dependency d of library i is resolved to, 0 if there is none.
Target(i, d, libraries, order) == EdgesOf(i, libraries, VersionsOf(libraries), order)[d].target
\* The libraries that meet the dependency.
Meeting(dep, libraries, order) ==
  {k \in ToSet(order) : IsNamed(libraries, k, dep.name)
                        /\ Accepts(ExpressionOf(dep), Parse(ExpressionOf(dep)), VersionsOf(libraries)[k])}

\* A dependency is resolved to the newest of the libraries of its name whose version its
\* expression accepts, and stays unresolved exactly if there is none or the expression
\* cannot be read (ResolveLibraryDependencies).
THEOREM DependencyResolved ==
    ASSUME NEW libraries \in Seq(LibrarySet), NEW order \in Seq(1 .. Len(libraries)),
           NEW i \in 1 .. Len(libraries), NEW d \in DOMAIN libraries[i].dependencies
    PROVE  LET dep == libraries[i].dependencies[d]
               unreadable == ExpressionOf(dep) # Wildcard /\ Parse(ExpressionOf(dep)) = Nullopt
               target == Target(i, d, libraries, order)
               versions == VersionsOf(libraries)
           IN /\ target = 0 <=> unreadable \/ Meeting(dep, libraries, order) = {}
              /\ target # 0 =>
                   /\ target \in Meeting(dep, libraries, order)
                   /\ versions[target] # Nullopt =>
                        \A k \in Meeting(dep, libraries, order) :
                          versions[k] # Nullopt => ~Less(versions[target], versions[k])
<1> DEFINE dep == libraries[i].dependencies[d]
           target == Target(i, d, libraries, order)
           meeting == Meeting(dep, libraries, order)
<1> PICK versions : versions = VersionsOf(libraries)
  OBVIOUS
<1> PICK name, expression, constraints :
      name = dep.name /\ expression = ExpressionOf(dep) /\ constraints = Parse(ExpressionOf(dep))
  OBVIOUS
<1> PICK candidates : candidates = CandidatesNamed(name, libraries, versions, order)
  OBVIOUS
<1> PICK best : best = BestMatch(candidates, expression, constraints)
  OBVIOUS
<1> DEFINE unreadable == expression # Wildcard /\ constraints = Nullopt
           m == Len(candidates)
           named == {k \in ToSet(order) : IsNamed(libraries, k, name)}
           accepted == {p \in 1 .. m : Accepts(expression, constraints, candidates[p][2])}
<1>1. versions \in [1 .. Len(libraries) -> VersionSet \cup {Nullopt}]
  BY VersionsRead
<1>2. candidates \in Seq(CandidateSet) /\ ToSet(candidates) = {<<k, versions[k]>> : k \in named}
  <2>1. LET found == CandidatesNamed(name, libraries, versions, order)
        IN /\ found \in Seq(CandidateSet)
           /\ ToSet(found) = {<<k, versions[k]>> : k \in {j \in ToSet(order) : IsNamed(libraries, j, name)}}
    BY ONLY libraries \in Seq(LibrarySet), order \in Seq(1 .. Len(libraries)), <1>1, CandidatesFound
  <2> QED
    BY <2>1
<1>3. DOMAIN candidates = 1 .. m /\ \A p \in 1 .. m : candidates[p] \in CandidateSet /\ candidates[p] # Nullopt
  BY <1>2, LenProperties, ElementOfSeq, CandidateFacts
<1>4. IF unreadable THEN best = Nullopt ELSE NewestOf(best, m, candidates, expression, constraints)
  BY <1>2, BestMatchIsNewest
<1>5. target = IF best = Nullopt THEN 0 ELSE best[1]
  <2>1. Edged(i, libraries, versions, order)
    BY <1>1, EdgesFound
  <2>2. target = IF Chosen(i, d, libraries, versions, order) = Nullopt THEN 0
                 ELSE Chosen(i, d, libraries, versions, order)[1]
    BY <2>1 DEF Target, Edged
  <2>3. Chosen(i, d, libraries, versions, order) = best
    BY DEF Chosen
  <2> QED
    BY <2>2, <2>3
<1>6. meeting = {k \in named : Accepts(expression, constraints, versions[k])}
  BY DEF Meeting
<1>7. \A k \in named : k # 0
  <2>1. \A k \in named : k \in 1 .. Len(libraries)
    BY ElementsOf
  <2> QED
    BY <2>1
<1> HIDE DEF target, meeting, unreadable, named, m, dep
<1>8. ASSUME NEW p \in accepted
      PROVE  \E k \in meeting : candidates[p] = <<k, versions[k]>>
  <2>1. PICK c : c = candidates[p]
    OBVIOUS
  <2>2. c \in ToSet(candidates) /\ Accepts(expression, constraints, c[2])
    BY <1>3, <2>1 DEF ToSet
  <2>3. PICK k \in named : c = <<k, versions[k]>>
    BY <1>2, <2>2
  <2>4. c[2] = versions[k]
    BY <2>3
  <2> QED
    BY <1>6, <2>1, <2>2, <2>3, <2>4
<1>9. ASSUME NEW k \in meeting
      PROVE  \E p \in accepted : candidates[p] = <<k, versions[k]>>
  <2>1. PICK c : c = <<k, versions[k]>>
    OBVIOUS
  <2>2. k \in named /\ Accepts(expression, constraints, versions[k])
    BY <1>6
  <2>3. c \in ToSet(candidates)
    BY <1>2, <2>1, <2>2
  <2>4. PICK p \in 1 .. m : candidates[p] = c
    BY <1>3, <2>3 DEF ToSet
  <2>5. c[2] = versions[k]
    BY <2>1
  <2> QED
    BY <2>1, <2>2, <2>4, <2>5
<1>10. CASE unreadable
  BY <1>4, <1>5, <1>10 DEF unreadable, target, dep
<1>11. CASE ~unreadable
  <2>1. /\ best = Nullopt <=> accepted = {}
        /\ best # Nullopt =>
             /\ \E p \in accepted : best = candidates[p]
             /\ best[2] # Nullopt =>
                  \A p \in accepted : candidates[p][2] # Nullopt => ~Less(best[2], candidates[p][2])
    BY <1>4, <1>11 DEF NewestOf
  <2>2. accepted = {} <=> meeting = {}
    BY <1>8, <1>9
  <2> HIDE DEF accepted
  <2>3. CASE best = Nullopt
    BY <1>5, <1>11, <2>1, <2>2, <2>3 DEF unreadable, target, dep, meeting
  <2>4. CASE best # Nullopt
    <3>1. PICK p \in accepted : best = candidates[p]
      BY <2>1, <2>4
    <3>2. PICK t \in meeting : best = <<t, versions[t]>>
      BY <1>8, <3>1
    <3>3. best[1] = t /\ best[2] = versions[t] /\ t # 0
      BY <1>6, <1>7, <3>2
    <3>4. target = t
      BY <1>5, <2>4, <3>3
    <3>5. ASSUME NEW k \in meeting, versions[t] # Nullopt, versions[k] # Nullopt PROVE ~Less(versions[t], versions[k])
      <4>1. PICK q \in accepted : candidates[q] = <<k, versions[k]>>
        BY <1>9
      <4>2. candidates[q][2] = versions[k]
        BY <4>1
      <4> QED
        BY <2>1, <2>4, <3>3, <3>5, <4>2
    <3> QED
      BY <1>11, <2>1, <2>2, <2>4, <3>3, <3>4, <3>5 DEF unreadable, target, dep, meeting
  <2> QED
    BY <2>3, <2>4
<1> QED
  BY <1>10, <1>11

\* Libraries each of which depends on one of them or has a dependency that is not resolved.
Unloadable(libraries, order, R) ==
  /\ R # {} /\ R \subseteq DOMAIN libraries
  /\ \A i \in R : \E d \in DOMAIN libraries[i].dependencies : Target(i, d, libraries, order) \in R \cup {0}

\* AddLibraries reports an error, and then loads nothing, exactly if some libraries are
\* unloadable: a dependency is missing, cannot be read, is met by no version, or the
\* dependencies are circular.  Otherwise a library is loaded at most once, behind a library
\* with the key of each one it depends on, and only with an entry point; unless one has
\* none, all are loaded (AddLibraries, ResolveLibraryDependencies).
THEOREM ReadableLibrariesLoad ==
    ASSUME NEW libraries \in Seq(LibrarySet), NEW order \in Seq(1 .. Len(libraries))
    PROVE  LET answer == AddReadable(libraries, order)
               st == answer.added
           IN /\ answer.reported <=> \E R : Unloadable(libraries, order, R)
              /\ answer.reported => st.loaded = << >>
              /\ ~answer.reported /\ ~st.thrown => LoadedKeys(st) = {KeyOf(libraries[m]) : m \in DOMAIN libraries}
              /\ st.thrown => \E m \in DOMAIN libraries : ~libraries[m].entry
              /\ \A i, k \in DOMAIN st.loaded : KeyOf(st.loaded[i]) = KeyOf(st.loaded[k]) => i = k
              /\ \A i \in DOMAIN st.loaded :
                   /\ st.loaded[i].entry
                   /\ \E m \in DOMAIN libraries :
                        /\ st.loaded[i] = libraries[m]
                        /\ \A d \in DOMAIN libraries[m].dependencies :
                             LET target == Target(m, d, libraries, order)
                             IN target \in DOMAIN libraries /\ \E k \in 1 .. i - 1 : KeyOf(st.loaded[k]) = KeyOf(libraries[target])
<1> DEFINE N == Len(libraries)
           E(i) == EdgesOf(i, libraries, VersionsOf(libraries), order)
<1> PICK versions, edges, answer, st :
      /\ versions = VersionsOf(libraries) /\ edges = ResolvedDependencies(libraries, versions, order)
      /\ answer = AddReadable(libraries, order) /\ st = answer.added
  OBVIOUS
<1>1. DOMAIN libraries = 1 .. N
  BY LenProperties
<1>2. versions \in [1 .. N -> VersionSet \cup {Nullopt}]
  BY VersionsRead
<1>3. edges \in Seq(EdgeSet(N)) /\ ToSet(edges) = UNION {ToSet(E(i)) : i \in 1 .. N}
  BY <1>2, EdgesResolved
<1>4. ASSUME NEW i \in 1 .. N
      PROVE  /\ DOMAIN E(i) = DOMAIN libraries[i].dependencies
             /\ \A d \in DOMAIN E(i) : E(i)[d].source = i /\ E(i)[d].target = Target(i, d, libraries, order)
  <2>1. Edged(i, libraries, versions, order)
    BY <1>2, EdgesFound DEF N
  <2> QED
    BY <2>1 DEF Edged, Target
<1>5. answer = AddInOrder(libraries, OrderBy(libraries, edges))
  BY DEF AddReadable, ResolveLibraryDependencies, VersionsOf
<1> HIDE DEF E, N
<1>6. ASSUME NEW e \in DOMAIN edges
      PROVE  \E i \in 1 .. N : \E d \in DOMAIN libraries[i].dependencies :
               edges[e].source = i /\ edges[e].target = Target(i, d, libraries, order)
  <2>1. edges[e] \in ToSet(edges)
    BY DEF ToSet
  <2>2. PICK i \in 1 .. N : edges[e] \in ToSet(E(i))
    BY <1>3, <2>1
  <2>3. PICK d \in DOMAIN E(i) : edges[e] = E(i)[d]
    BY <2>2 DEF ToSet
  <2>4. d \in DOMAIN libraries[i].dependencies /\ E(i)[d].source = i /\ E(i)[d].target = Target(i, d, libraries, order)
    BY <1>4
  <2> QED
    BY <2>3, <2>4
<1>7. ASSUME NEW i \in 1 .. N, NEW d \in DOMAIN libraries[i].dependencies
      PROVE  \E e \in DOMAIN edges : edges[e].source = i /\ edges[e].target = Target(i, d, libraries, order)
  <2>1. d \in DOMAIN E(i)
    BY <1>4
  <2>2. E(i)[d] \in ToSet(E(i))
    BY <2>1 DEF ToSet
  <2>3. E(i)[d] \in ToSet(edges)
    BY <1>3, <2>2
  <2>4. PICK e \in DOMAIN edges : edges[e] = E(i)[d]
    BY <2>3 DEF ToSet
  <2> QED
    BY <1>4, <2>1, <2>4
<1>8. ASSUME NEW R PROVE Stuck(N, edges, R) <=> Unloadable(libraries, order, R)
  <2>1. ASSUME Stuck(N, edges, R), NEW i \in R
        PROVE  \E d \in DOMAIN libraries[i].dependencies : Target(i, d, libraries, order) \in R \cup {0}
    <3>1. PICK k \in DOMAIN edges : edges[k].source = i /\ edges[k].target \in R \cup {0}
      BY <2>1 DEF Stuck
    <3>2. PICK j \in 1 .. N : \E d \in DOMAIN libraries[j].dependencies :
            edges[k].source = j /\ edges[k].target = Target(j, d, libraries, order)
      BY <1>6
    <3>3. j = i
      BY <3>1, <3>2
    <3> QED
      BY <3>1, <3>2, <3>3
  <2>2. ASSUME Unloadable(libraries, order, R), NEW i \in R
        PROVE  \E k \in DOMAIN edges : edges[k].source = i /\ edges[k].target \in R \cup {0}
    <3>1. i \in 1 .. N
      BY <1>1, <2>2 DEF Unloadable
    <3>2. PICK d \in DOMAIN libraries[i].dependencies : Target(i, d, libraries, order) \in R \cup {0}
      BY <2>2 DEF Unloadable
    <3> QED
      BY <1>7, <3>1, <3>2
  <2> QED
    BY <1>1, <2>1, <2>2 DEF Stuck, Unloadable
<1>9. /\ answer.reported <=> \E R : Stuck(N, edges, R)
      /\ answer.reported => st.loaded = << >>
      /\ ~answer.reported /\ ~st.thrown => LoadedKeys(st) = {KeyOf(libraries[m]) : m \in 1 .. N}
      /\ st.thrown => \E m \in 1 .. N : ~libraries[m].entry
      /\ \A i, k \in DOMAIN st.loaded : KeyOf(st.loaded[i]) = KeyOf(st.loaded[k]) => i = k
      /\ \A i \in DOMAIN st.loaded :
           /\ st.loaded[i].entry
           /\ \E m \in 1 .. N :
                /\ st.loaded[i] = libraries[m]
                /\ \A e \in DOMAIN edges : edges[e].source = m =>
                     /\ edges[e].target \in 1 .. N
                     /\ \E k \in 1 .. i - 1 : KeyOf(st.loaded[k]) = KeyOf(libraries[edges[e].target])
  <2>1. Loads(libraries, edges, answer)
    BY <1>3, <1>5, LibrariesLoad DEF N
  <2> QED
    BY <2>1 DEF Loads, N
<1>10. ASSUME NEW i \in DOMAIN st.loaded
       PROVE  /\ st.loaded[i].entry
              /\ \E m \in DOMAIN libraries :
                   /\ st.loaded[i] = libraries[m]
                   /\ \A d \in DOMAIN libraries[m].dependencies :
                        /\ Target(m, d, libraries, order) \in DOMAIN libraries
                        /\ \E k \in 1 .. i - 1 : KeyOf(st.loaded[k]) = KeyOf(libraries[Target(m, d, libraries, order)])
  <2>1. PICK m \in 1 .. N :
          /\ st.loaded[i] = libraries[m]
          /\ \A e \in DOMAIN edges : edges[e].source = m =>
               /\ edges[e].target \in 1 .. N
               /\ \E k \in 1 .. i - 1 : KeyOf(st.loaded[k]) = KeyOf(libraries[edges[e].target])
    BY <1>9
  <2>2. ASSUME NEW d \in DOMAIN libraries[m].dependencies
        PROVE  /\ Target(m, d, libraries, order) \in 1 .. N
               /\ \E k \in 1 .. i - 1 : KeyOf(st.loaded[k]) = KeyOf(libraries[Target(m, d, libraries, order)])
    <3>1. PICK e \in DOMAIN edges : edges[e].source = m /\ edges[e].target = Target(m, d, libraries, order)
      BY <1>7
    <3> QED
      BY <2>1, <3>1
  <2> QED
    BY <1>1, <1>9, <2>1, <2>2
<1>11. answer.reported <=> \E R : Unloadable(libraries, order, R)
  BY <1>8, <1>9
<1> QED
  BY <1>1, <1>9, <1>10, <1>11

=============================================================================
