----------------------------- MODULE Heap_proofs -----------------------------
(***************************************************************************)
(* Reference counts add up, and what is owned is not freed, for any number *)
(* of objects, frames and locals and any sequence of instructions.         *)
(***************************************************************************)
EXTENDS Heap, SequenceFacts, FiniteSetTheorems, TLAPS

-----------------------------------------------------------------------------
(* Who owns a count                                                        *)

Held(own, o) == {p \in Places : own[p] = o}
Holders(own, o) == Cardinality(Held(own, o))

\* The places of objects; the others are the roots.
Fields == {FieldP(o) : o \in Objects}
Roots  == Places \ Fields

\* There are finitely many places.
LEMMA PlacesFinite == IsFiniteSet(Places)
<1> USE HeapAssumption
<1>1. IsFiniteSet(1 .. MaxFrames) /\ IsFiniteSet(Locals) /\ IsFiniteSet(Objects)
  BY FS_Interval DEF Locals, Objects
<1>2. IsFiniteSet((1 .. MaxFrames) \X Locals)
  BY <1>1, FS_Product
<1>3. IsFiniteSet({LocalP(f, i) : f \in 1 .. MaxFrames, i \in Locals})
  <2> DEFINE T == {LocalP(f, i) : f \in 1 .. MaxFrames, i \in Locals}
             g == [x \in (1 .. MaxFrames) \X Locals |-> LocalP(x[1], x[2])]
  <2>1. g \in [(1 .. MaxFrames) \X Locals -> T]
    OBVIOUS
  <2>2. ASSUME NEW t \in T PROVE \E x \in (1 .. MaxFrames) \X Locals : g[x] = t
    <3>1. PICK f \in 1 .. MaxFrames, i \in Locals : t = LocalP(f, i)
      OBVIOUS
    <3>2. << f, i >> \in (1 .. MaxFrames) \X Locals
      OBVIOUS
    <3> QED
      BY <3>1, <3>2
  <2> HIDE DEF g, T
  <2>3. g \in Surjection((1 .. MaxFrames) \X Locals, T)
    BY <2>1, <2>2 DEF Surjection
  <2>4. IsFiniteSet(T)
    BY <2>3, <1>2, FS_Surjection
  <2> QED
    BY <2>4 DEF T
<1>4. IsFiniteSet({ExcP(f) : f \in 1 .. MaxFrames})
  <2> DEFINE T == {ExcP(f) : f \in 1 .. MaxFrames}
             g == [f \in 1 .. MaxFrames |-> ExcP(f)]
  <2>1. g \in [1 .. MaxFrames -> T] /\ \A t \in T : \E x \in 1 .. MaxFrames : g[x] = t
    OBVIOUS
  <2> HIDE DEF g, T
  <2>2. g \in Surjection(1 .. MaxFrames, T)
    BY <2>1 DEF Surjection
  <2>3. IsFiniteSet(T)
    BY <2>2, <1>1, FS_Surjection
  <2> QED
    BY <2>3 DEF T
<1>5. IsFiniteSet({FieldP(o) : o \in Objects})
  <2> DEFINE T == {FieldP(o) : o \in Objects}
             g == [o \in Objects |-> FieldP(o)]
  <2>1. g \in [Objects -> T] /\ \A t \in T : \E x \in Objects : g[x] = t
    OBVIOUS
  <2> HIDE DEF g, T
  <2>2. g \in Surjection(Objects, T)
    BY <2>1 DEF Surjection
  <2>3. IsFiniteSet(T)
    BY <2>2, <1>1, FS_Surjection
  <2> QED
    BY <2>3 DEF T
<1>6. IsFiniteSet({StaticP(s) : s \in Statics})
  <2> DEFINE T == {StaticP(s) : s \in Statics}
             g == [s \in Statics |-> StaticP(s)]
  <2>1. g \in [Statics -> T] /\ \A t \in T : \E x \in Statics : g[x] = t
    OBVIOUS
  <2> HIDE DEF g, T
  <2>2. g \in Surjection(Statics, T)
    BY <2>1 DEF Surjection
  <2>3. IsFiniteSet(T)
    BY <2>2, FS_Surjection
  <2> QED
    BY <2>3 DEF T
<1> DEFINE L == {LocalP(f, i) : f \in 1 .. MaxFrames, i \in Locals}
           E == {ExcP(f) : f \in 1 .. MaxFrames}
           F == {FieldP(o) : o \in Objects}
           S == {StaticP(s) : s \in Statics}
<1>7. Places = L \cup E \cup F \cup S
  BY DEF Places
<1>8. IsFiniteSet(L) /\ IsFiniteSet(E) /\ IsFiniteSet(F) /\ IsFiniteSet(S)
  BY <1>3, <1>4, <1>5, <1>6
<1> HIDE DEF L, E, F, S
<1>9. IsFiniteSet(L \cup E)
  BY <1>8, FS_Union
<1>10. IsFiniteSet(L \cup E \cup F)
  BY <1>8, <1>9, FS_Union
<1>11. IsFiniteSet(L \cup E \cup F \cup S)
  BY <1>8, <1>10, FS_Union
<1> QED
  BY <1>7, <1>11

\* So what refers to an object can be counted.
LEMMA HeldFinite ==
    ASSUME NEW own, NEW o
    PROVE  IsFiniteSet(Held(own, o)) /\ Holders(own, o) \in Nat
<1>1. Held(own, o) \subseteq Places
  BY DEF Held
<1> QED
  BY <1>1, PlacesFinite, FS_Subset, FS_CardinalityType DEF Holders

\* A store into a place moves one count.
LEMMA WriteMoves ==
    ASSUME NEW own \in [Places -> Entry], NEW p \in Places, NEW v \in Entry, NEW o
    PROVE  Holders([own EXCEPT ![p] = v], o)
             = Holders(own, o) + (IF v = o THEN 1 ELSE 0) - (IF own[p] = o THEN 1 ELSE 0)
<1> DEFINE new == [own EXCEPT ![p] = v]
           rest == Held(own, o) \ {p}
<1>1. IsFiniteSet(rest) /\ Cardinality(rest) = Holders(own, o) - (IF own[p] = o THEN 1 ELSE 0)
  <2>1. p \in Held(own, o) <=> own[p] = o
    BY DEF Held
  <2>2. IsFiniteSet(Held(own, o)) /\ Holders(own, o) \in Nat
    BY HeldFinite
  <2>3. IsFiniteSet(rest) /\ Cardinality(rest) = IF p \in Held(own, o) THEN Holders(own, o) - 1 ELSE Holders(own, o)
    BY <2>2, FS_RemoveElement DEF Holders
  <2> QED
    BY <2>1, <2>2, <2>3
<1>2. Held(new, o) = IF v = o THEN rest \cup {p} ELSE rest
  BY DEF Held
<1>3. p \notin rest
  OBVIOUS
<1>4. Cardinality(rest \cup {p}) = Cardinality(rest) + 1
  BY <1>1, <1>3, FS_AddElement
<1>5. Holders(own, o) \in Nat
  BY HeldFinite
<1> HIDE DEF rest, new
<1>6. Holders(new, o) = Cardinality(rest) + (IF v = o THEN 1 ELSE 0)
  <2>1. CASE v = o
    BY <2>1, <1>2, <1>4 DEF Holders
  <2>2. CASE v # o
    <3>1. Holders(new, o) = Cardinality(rest)
      BY <2>2, <1>2 DEF Holders
    <3>2. Cardinality(rest) \in Int
      BY <1>1, <1>5
    <3> QED
      BY <2>2, <3>1, <3>2
  <2> QED
    BY <2>1, <2>2
<1>7. Holders(new, o) = Holders(own, o) + (IF v = o THEN 1 ELSE 0) - (IF own[p] = o THEN 1 ELSE 0)
  BY <1>1, <1>5, <1>6
<1> QED
  BY <1>7 DEF new

-----------------------------------------------------------------------------
(* The invariant of a heap                                                 *)

\* "d" is what the counters are ahead of the account in the middle of an
\* instruction.
Deltas == [Objects -> Int]
Zero == [o \in Objects |-> 0]
Plus(d, v, n) == [o \in Objects |-> IF o = v THEN d[o] + n ELSE d[o]]

Known(h, v) == v \in Entry /\ (v \in Objects => h.st[v] # "unused")

Balanced(h, d, o) ==
    /\ h.st[o] = "unused" => h.count[o] = 0 /\ h.spare[o] = 0 /\ o \notin h.short
    /\ o \notin h.short => h.spare[o] >= 0
    /\ o \notin h.short /\ h.st[o] = "freed" => h.count[o] = 0
    /\ o \notin h.short \/ h.st[o] = "live"
         => h.count[o] = Holders(h.own, o) + h.spare[o] + d[o]

Good(h, d) ==
    /\ h \in Heap
    /\ \A p \in Places : Known(h, h.own[p])
    /\ h.fault = "none" => \A o \in Objects : Balanced(h, d, o)

\* What an operation leaves alone: the roots but those of P, that an object
\* exists, and a fault.
Keeps(h, g, P) ==
    /\ \A p \in Roots \ P : g.own[p] = h.own[p]
    /\ \A o \in Objects : h.st[o] # "unused" => g.st[o] # "unused"
    /\ g.fault = "none" => h.fault = "none"

\* No object is allocated.
Unallotted(h, g) == \A o \in Objects : h.st[o] = "unused" => g.st[o] = "unused"

\* One operation after another.
LEMMA KeepsTrans ==
    ASSUME NEW h, NEW g, NEW k, NEW P, NEW Q, Keeps(h, g, P), Keeps(g, k, Q)
    PROVE  Keeps(h, k, P \cup Q)
BY DEF Keeps

\* What was allocated stays allocated, or freed.
LEMMA KeepsKnown ==
    ASSUME NEW h, NEW g, NEW P, Keeps(h, g, P), NEW v, Known(h, v)
    PROVE  Known(g, v)
BY DEF Keeps, Known

\* An object is none of the two null values.
LEMMA ObjectsNat == Objects \subseteq Nat \ {0} /\ Null \notin Objects /\ NoShape \notin Objects
BY HeapAssumption DEF Objects, Null, NoShape

\* Objects are numbered, and there are MaxObjects of them.
LEMMA ObjectsFinite == IsFiniteSet(Objects) /\ Cardinality(Objects) = MaxObjects
BY FS_Interval, HeapAssumption DEF Objects

\* Arithmetic of the outstanding counts.
LEMMA DeltaFacts ==
    ASSUME NEW d \in Deltas
    PROVE  /\ Zero \in Deltas
           /\ \A v, n : n \in Int => Plus(d, v, n) \in Deltas
           /\ \A v, n : v \notin Objects => Plus(d, v, n) = d
           /\ \A v, n, m : n \in Int /\ m \in Int => Plus(Plus(d, v, n), v, m) = Plus(d, v, n + m)
           /\ \A v : Plus(d, v, 0) = d
           /\ \A v, u, n, m : n \in Int /\ m \in Int => Plus(Plus(d, v, n), u, m) = Plus(Plus(d, u, m), v, n)
<1>1. Zero \in Deltas
  BY DEF Zero, Deltas
<1>2. ASSUME NEW v, NEW n \in Int PROVE Plus(d, v, n) \in Deltas
  BY DEF Plus, Deltas
<1>3. ASSUME NEW v, NEW n, v \notin Objects PROVE Plus(d, v, n) = d
  BY <1>3 DEF Plus, Deltas
<1>4. ASSUME NEW v, NEW n \in Int, NEW m \in Int PROVE Plus(Plus(d, v, n), v, m) = Plus(d, v, n + m)
  BY DEF Plus, Deltas
<1>5. ASSUME NEW v PROVE Plus(d, v, 0) = d
  BY DEF Plus, Deltas
<1>6. ASSUME NEW v, NEW u, NEW n \in Int, NEW m \in Int PROVE Plus(Plus(d, v, n), u, m) = Plus(Plus(d, u, m), v, n)
  BY DEF Plus, Deltas
<1> QED
  BY <1>1, <1>2, <1>3, <1>4, <1>5, <1>6

-----------------------------------------------------------------------------
(* Counters                                                                *)

\* What the operations on a counter have in common.
SameObjects(h, g) ==
    /\ g \in Heap
    /\ g.st = h.st /\ g.kind = h.kind /\ g.own = h.own
    /\ g.fault = "none" => h.fault = "none"

\* The counter and the account of objects other than v.
SameBut(h, g, v) ==
    /\ SameObjects(h, g)
    /\ \A o \in Objects : o # v =>
         g.count[o] = h.count[o] /\ g.spare[o] = h.spare[o] /\ (o \in g.short <=> o \in h.short)

\* An operation on counters alone keeps all places.
LEMMA SameKeeps ==
    ASSUME NEW h, NEW g, SameObjects(h, g)
    PROVE  Keeps(h, g, {}) /\ \A v : Known(h, v) => Known(g, v)
BY DEF SameObjects, Keeps, Known

\* Touch writes nothing but the fault; without one the header was not freed.
LEMMA TouchFields ==
    ASSUME NEW h \in Heap, NEW v
    PROVE  LET g == Touch(h, v)
           IN  /\ SameObjects(h, g)
               /\ g.count = h.count /\ g.spare = h.spare /\ g.short = h.short
               /\ v \in Objects /\ g.fault = "none" => h.st[v] # "freed"
BY DEF Touch, SameObjects, Heap, IsObject

\* What Account writes.
LEMMA AccountFields ==
    ASSUME NEW h \in Heap, NEW v \in Objects, NEW n \in Int
    PROVE  LET g == Account(h, v, n)
           IN  /\ SameBut(h, g, v)
               /\ g.count = h.count /\ g.short = h.short
               /\ g.spare[v] = h.spare[v] + n
BY DEF Account, SameBut, SameObjects, Heap, IsObject

\* What Overdraw writes.
LEMMA OverdrawFields ==
    ASSUME NEW h \in Heap, NEW v \in Objects
    PROVE  LET g == Overdraw(h, v)
           IN  /\ SameBut(h, g, v)
               /\ g.count = h.count
               /\ g.spare[v] = h.spare[v] - 1
               /\ v \in g.short <=> v \in h.short \/ h.spare[v] <= 0
<1> DEFINE a == Account(h, v, -1)
<1>1. SameBut(h, a, v) /\ a.count = h.count /\ a.short = h.short /\ a.spare[v] = h.spare[v] - 1
  BY AccountFields DEF Heap
<1>2. Overdraw(h, v) = IF h.spare[v] <= 0 THEN [a EXCEPT !.short = @ \cup {v}] ELSE a
  BY DEF Overdraw, IsObject
<1> HIDE DEF a
<1>3. a \in Heap
  BY <1>1 DEF SameBut, SameObjects
<1> DEFINE g == [a EXCEPT !.short = @ \cup {v}]
<1>4. g \in Heap /\ g.st = a.st /\ g.kind = a.kind /\ g.own = a.own /\ g.fault = a.fault
      /\ g.count = a.count /\ g.spare = a.spare /\ g.short = a.short \cup {v}
  BY <1>3 DEF Heap
<1> HIDE DEF g
<1>5. SameBut(h, g, v)
  BY <1>1, <1>4 DEF SameBut, SameObjects
<1>6. CASE h.spare[v] <= 0
  <2>1. Overdraw(h, v) = g
    BY <1>2, <1>6 DEF g
  <2> QED
    BY <2>1, <1>1, <1>4, <1>5, <1>6
<1>7. CASE ~(h.spare[v] <= 0)
  BY <1>2, <1>1, <1>7
<1> QED
  BY <1>6, <1>7

\* What Take writes.
LEMMA TakeFields ==
    ASSUME NEW h \in Heap, NEW v \in Objects
    PROVE  LET g == Take(h, v)
           IN  /\ SameBut(h, g, v)
               /\ g.count = h.count
               /\ g.spare[v] = h.spare[v] - 1
               /\ v \in g.short <=> v \in h.short \/ (h.count[v] # 0 /\ h.spare[v] <= 0)
<1>1. SameBut(h, Account(h, v, -1), v) /\ Account(h, v, -1).count = h.count
      /\ Account(h, v, -1).spare[v] = h.spare[v] - 1 /\ Account(h, v, -1).short = h.short
  BY AccountFields DEF Heap
<1> QED
  BY <1>1, OverdrawFields DEF Take, IsObject

\* What IncrementReference writes.
LEMMA IncrementFields ==
    ASSUME NEW h \in Heap, NEW v \in Objects
    PROVE  LET g == IncrementReference(h, v)
           IN  /\ SameBut(h, g, v)
               /\ g.spare = h.spare /\ g.short = h.short
               /\ g.count[v] = h.count[v] + 1
               /\ g.fault = "none" => h.st[v] # "freed"
BY DEF IncrementReference, Touch, SameBut, SameObjects, Heap, IsObject

\* What DecrementReference writes: the counter stops at zero, and the
\* account has the count that was not there to take.
LEMMA DecrementFields ==
    ASSUME NEW h \in Heap, NEW v \in Objects
    PROVE  LET g == DecrementReference(h, v)
           IN  /\ SameBut(h, g, v)
               /\ g.short = h.short
               /\ g.fault = "none" => h.st[v] # "freed"
               /\ h.count[v] > 0 => g.count[v] = h.count[v] - 1 /\ g.spare[v] = h.spare[v]
               /\ h.count[v] = 0 => g.count[v] = 0 /\ g.spare[v] = h.spare[v] + 1
<1>1. CASE h.count[v] > 0
  <2> DEFINE t == Touch(h, v)  g == [t EXCEPT !.count[v] = @ - 1]
  <2>1. SameObjects(h, t) /\ t.count = h.count /\ t.spare = h.spare /\ t.short = h.short
        /\ (t.fault = "none" => h.st[v] # "freed")
    BY TouchFields
  <2>2. DecrementReference(h, v) = g
    BY <1>1 DEF DecrementReference, IsObject
  <2> HIDE DEF t
  <2>3. t \in Heap /\ t.count[v] > 0
    BY <1>1, <2>1 DEF SameObjects
  <2>4. g \in Heap /\ g.st = t.st /\ g.kind = t.kind /\ g.own = t.own /\ g.fault = t.fault
        /\ g.count[v] = t.count[v] - 1 /\ (\A o \in Objects : o # v => g.count[o] = t.count[o])
        /\ g.spare = t.spare /\ g.short = t.short
    BY <2>3 DEF Heap
  <2> HIDE DEF g
  <2>5. SameBut(h, g, v)
    BY <2>1, <2>4 DEF SameBut, SameObjects
  <2>6. h.count[v] # 0
    BY <1>1
  <2> QED
    BY <2>1, <2>2, <2>4, <2>5, <2>6
<1>2. CASE ~(h.count[v] > 0)
  <2>1. h.count[v] = 0
    BY <1>2 DEF Heap
  <2>2. DecrementReference(h, v) = Account(Touch(h, v), v, 1)
    BY <2>1 DEF DecrementReference, IsObject
  <2>3. Touch(h, v) \in Heap
    BY TouchFields DEF SameObjects
  <2> DEFINE t == Touch(h, v)  g == Account(t, v, 1)
  <2>4. SameObjects(h, t) /\ t.count = h.count /\ t.spare = h.spare /\ t.short = h.short
        /\ (t.fault = "none" => h.st[v] # "freed")
    BY TouchFields
  <2>5. SameBut(t, g, v) /\ g.count = t.count /\ g.short = t.short /\ g.spare[v] = t.spare[v] + 1
    BY <2>3, AccountFields
  <2> HIDE DEF t, g
  <2>6. SameBut(h, g, v) /\ g.short = h.short /\ (g.fault = "none" => h.st[v] # "freed")
        /\ g.count[v] = 0 /\ g.spare[v] = h.spare[v] + 1
    BY <2>1, <2>4, <2>5 DEF SameBut, SameObjects
  <2> QED
    BY <1>2, <2>1, <2>2, <2>6 DEF t, g
<1> QED
  BY <1>1, <1>2

\* No operation at all.
LEMMA SameRefl == ASSUME NEW h \in Heap PROVE SameObjects(h, h)
BY DEF SameObjects

\* A change of one counter is a change of the account of its object.
LEMMA GoodSame ==
    ASSUME NEW h, NEW d, Good(h, d), NEW g, NEW v \in Objects, SameBut(h, g, v), NEW e \in Deltas,
           \A o \in Objects : o # v => e[o] = d[o],
           g.fault = "none" /\ Balanced(h, d, v) => Balanced(g, e, v)
    PROVE  Good(g, e)
<1>1. g \in Heap /\ \A p \in Places : Known(g, g.own[p])
  BY DEF Good, Known, SameBut, SameObjects
<1>2. ASSUME g.fault = "none", NEW o \in Objects PROVE Balanced(g, e, o)
  <2>1. h.fault = "none" /\ Balanced(h, d, o) /\ Balanced(h, d, v)
    BY <1>2 DEF Good, SameBut, SameObjects
  <2>2. CASE o = v
    BY <1>2, <2>1, <2>2
  <2>3. CASE o # v
    <3>1. g.st = h.st /\ g.own = h.own
      BY DEF SameBut, SameObjects
    <3>2. e[o] = d[o]
      BY <2>3
    <3>3. g.count[o] = h.count[o] /\ g.spare[o] = h.spare[o] /\ (o \in g.short <=> o \in h.short)
      BY <2>3, Zenon DEF SameBut
    <3> QED
      BY <2>1, <3>1, <3>2, <3>3 DEF Balanced
  <2> QED
    BY <2>2, <2>3
<1> QED
  BY <1>1, <1>2 DEF Good

\* Counts given to nobody are outstanding no more.
LEMMA AccountGood ==
    ASSUME NEW h, NEW d \in Deltas, Good(h, d), NEW v, Known(h, v), NEW n \in Nat
    PROVE  Good(Account(h, v, n), Plus(d, v, -n)) /\ SameObjects(h, Account(h, v, n))
<1> DEFINE g == Account(h, v, n)  e == Plus(d, v, -n)
<1>0. h \in Heap
  BY DEF Good
<1>1. CASE v \notin Objects
  <2>1. g = h /\ e = d
    BY <1>1, DeltaFacts DEF Account, IsObject
  <2> HIDE DEF g, e
  <2>2. SameObjects(h, h)
    BY <1>0, SameRefl
  <2>3. Good(g, e) /\ SameObjects(h, g)
    BY <2>1, <2>2
  <2> QED
    BY <2>3 DEF g, e
<1>2. CASE v \in Objects
  <2>1. SameBut(h, g, v) /\ g.count = h.count /\ g.short = h.short /\ g.spare[v] = h.spare[v] + n
    BY <1>0, <1>2, AccountFields
  <2>2. e \in Deltas /\ (\A o \in Objects : o # v => e[o] = d[o]) /\ e[v] = d[v] - n
    BY <1>2 DEF Plus, Deltas
  <2>3. g.st = h.st /\ g.own = h.own
    BY <2>1 DEF SameBut, SameObjects
  <2>4. h.spare[v] \in Int /\ h.count[v] \in Nat /\ Holders(h.own, v) \in Nat /\ d[v] \in Int
    BY <1>0, <1>2, HeldFinite DEF Heap, Deltas
  <2> HIDE DEF g, e
  <2>5. ASSUME Balanced(h, d, v) PROVE Balanced(g, e, v)
    <3>1. h.st[v] # "unused" /\ g.count[v] = h.count[v] /\ g.st[v] = h.st[v]
      BY <1>2, <2>1, <2>3 DEF Known
    <3>2. v \notin h.short => g.spare[v] >= 0
      BY <2>1, <2>4, <2>5 DEF Balanced
    <3>3. Holders(g.own, v) + g.spare[v] + e[v] = Holders(h.own, v) + h.spare[v] + d[v]
      BY <2>1, <2>2, <2>3, <2>4
    <3> QED
      BY <2>1, <2>5, <3>1, <3>2, <3>3 DEF Balanced
  <2>6. Good(g, e)
    BY <1>2, <2>1, <2>2, <2>5, GoodSame
  <2>7. Good(g, e) /\ SameObjects(h, g)
    BY <2>1, <2>6 DEF SameBut
  <2> QED
    BY <2>7 DEF g, e
<1> QED
  BY <1>1, <1>2

\* A count that is used by something that was not given one is outstanding.
LEMMA OverdrawGood ==
    ASSUME NEW h, NEW d \in Deltas, Good(h, d), NEW v, Known(h, v)
    PROVE  Good(Overdraw(h, v), Plus(d, v, 1)) /\ SameObjects(h, Overdraw(h, v))
<1> DEFINE g == Overdraw(h, v)  e == Plus(d, v, 1)
<1>0. h \in Heap
  BY DEF Good
<1>1. CASE v \notin Objects
  <2>1. g = h /\ e = d
    BY <1>1, DeltaFacts DEF Overdraw, Account, IsObject
  <2> HIDE DEF g, e
  <2>2. SameObjects(h, h)
    BY <1>0, SameRefl
  <2>3. Good(g, e) /\ SameObjects(h, g)
    BY <2>1, <2>2
  <2> QED
    BY <2>3 DEF g, e
<1>2. CASE v \in Objects
  <2>1. SameBut(h, g, v) /\ g.count = h.count /\ g.spare[v] = h.spare[v] - 1
        /\ (v \in g.short <=> v \in h.short \/ h.spare[v] <= 0)
    BY <1>0, <1>2, OverdrawFields
  <2>2. e \in Deltas /\ (\A o \in Objects : o # v => e[o] = d[o]) /\ e[v] = d[v] + 1
    BY <1>2 DEF Plus, Deltas
  <2>3. g.st = h.st /\ g.own = h.own
    BY <2>1 DEF SameBut, SameObjects
  <2>4. h.spare[v] \in Int /\ h.count[v] \in Nat /\ Holders(h.own, v) \in Nat /\ d[v] \in Int
        /\ h.st[v] # "unused"
    BY <1>0, <1>2, HeldFinite DEF Heap, Deltas, Known
  <2> HIDE DEF g, e
  <2>5. ASSUME Balanced(h, d, v) PROVE Balanced(g, e, v)
    BY <2>1, <2>2, <2>3, <2>4, <2>5 DEF Balanced
  <2>6. Good(g, e)
    BY <1>2, <2>1, <2>2, <2>5, GoodSame
  <2>7. Good(g, e) /\ SameObjects(h, g)
    BY <2>1, <2>6 DEF SameBut
  <2> QED
    BY <2>7 DEF g, e
<1> QED
  BY <1>1, <1>2

\* IncrementReference gives one count more than places have.
LEMMA IncrementGood ==
    ASSUME NEW h, NEW d \in Deltas, Good(h, d), NEW v, Known(h, v)
    PROVE  Good(IncrementReference(h, v), Plus(d, v, 1)) /\ SameObjects(h, IncrementReference(h, v))
<1> DEFINE g == IncrementReference(h, v)  e == Plus(d, v, 1)
<1>0. h \in Heap
  BY DEF Good
<1>1. CASE v \notin Objects
  <2>1. g = h /\ e = d
    BY <1>1, DeltaFacts DEF IncrementReference, IsObject
  <2> HIDE DEF g, e
  <2>2. SameObjects(h, h)
    BY <1>0, SameRefl
  <2>3. Good(g, e) /\ SameObjects(h, g)
    BY <2>1, <2>2
  <2> QED
    BY <2>3 DEF g, e
<1>2. CASE v \in Objects
  <2>1. SameBut(h, g, v) /\ g.spare = h.spare /\ g.short = h.short /\ g.count[v] = h.count[v] + 1
        /\ (g.fault = "none" => h.st[v] # "freed")
    BY <1>0, <1>2, IncrementFields
  <2>2. e \in Deltas /\ (\A o \in Objects : o # v => e[o] = d[o]) /\ e[v] = d[v] + 1
    BY <1>2 DEF Plus, Deltas
  <2>3. g.st = h.st /\ g.own = h.own
    BY <2>1 DEF SameBut, SameObjects
  <2>4. h.spare[v] \in Int /\ h.count[v] \in Nat /\ Holders(h.own, v) \in Nat /\ d[v] \in Int
        /\ h.st[v] # "unused"
    BY <1>0, <1>2, HeldFinite DEF Heap, Deltas, Known
  <2> HIDE DEF g, e
  <2>5. ASSUME g.fault = "none", Balanced(h, d, v) PROVE Balanced(g, e, v)
    <3>1. g.count[v] = h.count[v] + 1 /\ g.spare[v] = h.spare[v] /\ g.st[v] = h.st[v] /\ h.st[v] # "freed"
      BY <2>1, <2>3, <2>5
    <3>2. Holders(g.own, v) + g.spare[v] + e[v] = (Holders(h.own, v) + h.spare[v] + d[v]) + 1
      BY <2>2, <2>3, <2>4, <3>1
    <3> QED
      BY <2>1, <2>4, <2>5, <3>1, <3>2 DEF Balanced
  <2>6. Good(g, e)
    BY <1>2, <2>1, <2>2, <2>5, GoodSame
  <2>7. Good(g, e) /\ SameObjects(h, g)
    BY <2>1, <2>6 DEF SameBut
  <2> QED
    BY <2>7 DEF g, e
<1> QED
  BY <1>1, <1>2

\* A counter loses one, or where it is zero the account gains one.
LEMMA DecrementEffect ==
    ASSUME NEW h, NEW d \in Deltas, Good(h, d), NEW v \in Objects, h.st[v] # "unused",
           NEW g, SameBut(h, g, v), g.short = h.short, g.fault = "none" => h.st[v] # "freed",
           h.count[v] > 0 => g.count[v] = h.count[v] - 1 /\ g.spare[v] = h.spare[v],
           h.count[v] = 0 => g.count[v] = 0 /\ g.spare[v] = h.spare[v] + 1
    PROVE  Good(g, Plus(d, v, -1))
<1> DEFINE e == Plus(d, v, -1)
<1>1. e \in Deltas /\ (\A o \in Objects : o # v => e[o] = d[o]) /\ e[v] = d[v] - 1
  BY DEF Plus, Deltas
<1>2. g.st = h.st /\ g.own = h.own
  BY DEF SameBut, SameObjects
<1>3. h.spare[v] \in Int /\ h.count[v] \in Nat /\ Holders(h.own, v) \in Nat /\ d[v] \in Int
  BY HeldFinite DEF Good, Heap, Deltas
<1> HIDE DEF e
<1>4. ASSUME g.fault = "none", Balanced(h, d, v) PROVE Balanced(g, e, v)
  BY <1>1, <1>2, <1>3, <1>4 DEF Balanced
<1>5. Good(g, e)
  BY <1>1, <1>4, GoodSame
<1> QED
  BY <1>5 DEF e

\* DecrementReference takes one.
LEMMA DecrementGood ==
    ASSUME NEW h, NEW d \in Deltas, Good(h, d), NEW v, Known(h, v)
    PROVE  Good(DecrementReference(h, v), Plus(d, v, -1)) /\ SameObjects(h, DecrementReference(h, v))
<1> DEFINE g == DecrementReference(h, v)
<1>1. h \in Heap
  BY DEF Good
<1>2. CASE v \notin Objects
  <2>1. g = h /\ Plus(d, v, -1) = d
    BY <1>2, DeltaFacts DEF DecrementReference, IsObject
  <2> HIDE DEF g
  <2>2. Good(g, Plus(d, v, -1)) /\ SameObjects(h, g)
    BY <1>1, <2>1, SameRefl
  <2> QED
    BY <2>2 DEF g
<1>3. CASE v \in Objects
  <2>1. SameBut(h, g, v) /\ g.short = h.short /\ (g.fault = "none" => h.st[v] # "freed")
        /\ (h.count[v] > 0 => g.count[v] = h.count[v] - 1 /\ g.spare[v] = h.spare[v])
        /\ (h.count[v] = 0 => g.count[v] = 0 /\ g.spare[v] = h.spare[v] + 1)
    BY <1>1, <1>3, DecrementFields
  <2>2. h.st[v] # "unused"
    BY <1>3 DEF Known
  <2> HIDE DEF g
  <2>3. Good(g, Plus(d, v, -1)) /\ SameObjects(h, g)
    BY <1>3, <2>1, <2>2, DecrementEffect DEF SameBut
  <2> QED
    BY <2>3 DEF g
<1> QED
  BY <1>2, <1>3

\* A release of a reference that owned no count.
LEMMA TakeDecrementGood ==
    ASSUME NEW h, NEW d \in Deltas, Good(h, d), NEW v, Known(h, v)
    PROVE  /\ Good(DecrementReference(Take(h, v), v), d)
           /\ SameObjects(h, Take(h, v)) /\ SameObjects(h, DecrementReference(Take(h, v), v))
<1> DEFINE t == Take(h, v)  g == DecrementReference(t, v)
<1>0. h \in Heap
  BY DEF Good
<1>1. CASE v \notin Objects
  <2>1. t = h
    BY <1>1 DEF Take, Overdraw, Account, IsObject
  <2>2. g = t
    BY <1>1 DEF DecrementReference, IsObject
  <2> HIDE DEF g, t
  <2>3. SameObjects(h, h)
    BY <1>0, SameRefl
  <2>4. Good(g, d) /\ SameObjects(h, t) /\ SameObjects(h, g)
    BY <2>1, <2>2, <2>3
  <2> QED
    BY <2>4 DEF g, t
<1>2. CASE v \in Objects
  <2>1. SameBut(h, t, v) /\ t.count = h.count /\ t.spare[v] = h.spare[v] - 1
        /\ (v \in t.short <=> v \in h.short \/ (h.count[v] # 0 /\ h.spare[v] <= 0))
    BY <1>0, <1>2, TakeFields
  <2>2. t \in Heap
    BY <2>1 DEF SameBut, SameObjects
  <2>3. SameBut(t, g, v) /\ g.short = t.short /\ (g.fault = "none" => t.st[v] # "freed")
        /\ (t.count[v] > 0 => g.count[v] = t.count[v] - 1 /\ g.spare[v] = t.spare[v])
        /\ (t.count[v] = 0 => g.count[v] = 0 /\ g.spare[v] = t.spare[v] + 1)
    <3> HIDE DEF t
    <3> QED
      BY <2>2, <1>2, DecrementFields
  <2> HIDE DEF g, t
  <2>4. SameBut(h, g, v)
    BY <2>1, <2>3 DEF SameBut, SameObjects
  <2>5. g.st = h.st /\ g.own = h.own /\ t.st = h.st
    BY <2>1, <2>4 DEF SameBut, SameObjects
  <2>6. h.spare[v] \in Int /\ h.count[v] \in Nat /\ Holders(h.own, v) \in Nat /\ d[v] \in Int
        /\ h.st[v] # "unused"
    BY <1>0, <1>2, HeldFinite DEF Heap, Deltas, Known
  <2>7. ASSUME g.fault = "none", Balanced(h, d, v) PROVE Balanced(g, d, v)
    BY <2>1, <2>3, <2>5, <2>6, <2>7 DEF Balanced
  <2>8. Good(g, d)
    BY <1>2, <2>4, <2>7, GoodSame
  <2>9. Good(g, d) /\ SameObjects(h, t) /\ SameObjects(h, g)
    BY <2>1, <2>4, <2>8 DEF SameBut
  <2> QED
    BY <2>9 DEF g, t
<1> QED
  BY <1>1, <1>2

-----------------------------------------------------------------------------
(* Stores and frees                                                        *)

\* A heap is its seven fields.
LEMMA HeapExt ==
    ASSUME NEW a \in Heap, NEW b \in Heap, a.st = b.st, a.kind = b.kind, a.count = b.count,
           a.own = b.own, a.spare = b.spare, a.short = b.short, a.fault = b.fault
    PROVE  a = b
BY DEF Heap

\* What a write to a place changes.
LEMMA WriteFields ==
    ASSUME NEW h \in Heap, NEW p \in Places, NEW v \in Entry
    PROVE  LET g == Write(h, p, v)
           IN  /\ g \in Heap
               /\ g.st = h.st /\ g.kind = h.kind /\ g.count = h.count
               /\ g.spare = h.spare /\ g.short = h.short /\ g.fault = h.fault
               /\ g.own = [h.own EXCEPT ![p] = v]
BY DEF Write, Heap

\* A store gives the new value an owner and takes one from the old value.
LEMMA WriteGood ==
    ASSUME NEW h, NEW d \in Deltas, Good(h, d), NEW p \in Places, NEW v, Known(h, v)
    PROVE  /\ Good(Write(h, p, v), Plus(Plus(d, h.own[p], 1), v, -1))
           /\ Keeps(h, Write(h, p, v), {p})
<1> DEFINE g == Write(h, p, v)  old == h.own[p]  e == Plus(Plus(d, old, 1), v, -1)
<1>1. h \in Heap /\ v \in Entry
  BY DEF Good, Known
<1>2. /\ g \in Heap
      /\ g.st = h.st /\ g.count = h.count /\ g.spare = h.spare /\ g.short = h.short /\ g.fault = h.fault
      /\ g.own = [h.own EXCEPT ![p] = v]
  BY <1>1, WriteFields
<1>3. h.own \in [Places -> Entry]
  BY <1>1 DEF Heap
<1> HIDE DEF g
<1>4. Keeps(h, g, {p})
  BY <1>2, <1>3 DEF Keeps, Roots
<1>5. \A q \in Places : Known(g, g.own[q])
  BY <1>2, <1>3 DEF Good, Known
<1>6. ASSUME NEW o \in Objects, Balanced(h, d, o) PROVE Balanced(g, e, o)
  <2>1. Holders(g.own, o) = Holders(h.own, o) + (IF v = o THEN 1 ELSE 0) - (IF old = o THEN 1 ELSE 0)
    <3>1. Holders([h.own EXCEPT ![p] = v], o)
            = Holders(h.own, o) + (IF v = o THEN 1 ELSE 0) - (IF h.own[p] = o THEN 1 ELSE 0)
      BY <1>1, <1>3, WriteMoves
    <3> QED
      BY <1>2, <3>1
  <2>2. e[o] = d[o] + (IF old = o THEN 1 ELSE 0) - (IF v = o THEN 1 ELSE 0)
    BY DEF Plus, Deltas
  <2>3. Holders(h.own, o) \in Int /\ d[o] \in Int /\ h.spare[o] \in Int
    BY <1>1, HeldFinite DEF Heap, Deltas
  <2> HIDE DEF e, old
  <2>4. Holders(g.own, o) + h.spare[o] + e[o] = Holders(h.own, o) + h.spare[o] + d[o]
    BY <2>1, <2>2, <2>3
  <2> QED
    BY <1>2, <1>6, <2>4 DEF Balanced
<1> HIDE DEF e
<1>7. Good(g, e)
  BY <1>2, <1>5, <1>6 DEF Good
<1> QED
  BY <1>4, <1>7 DEF g, e

\* What freeing the dying objects changes.
LEMMA FreedFields ==
    ASSUME NEW h \in Heap, NEW dying
    PROVE  LET g == Freed(h, dying)
           IN  /\ g \in Heap
               /\ g.kind = h.kind /\ g.count = h.count /\ g.own = h.own
               /\ g.spare = h.spare /\ g.short = h.short /\ g.fault = h.fault
               /\ \A o \in Objects : g.st[o] = IF o \in dying THEN "freed" ELSE h.st[o]
BY DEF Freed, Heap

\* A root that may have been counted ahead of the account is an owner.
RootHolders(own, o) == Cardinality({p \in Roots : own[p] = o})
RootSafe(h, d) ==
    \A o \in Objects : o \notin h.short => d[o] + RootHolders(h.own, o) >= 0

\* A field does not refer to a freed object, unless that lost a count.
LEMMA NoFieldOfFreed ==
    ASSUME NEW h, NEW d \in Deltas, Good(h, d), h.fault = "none", RootSafe(h, d),
           NEW o \in Objects, h.st[o] = "freed", o \notin h.short, NEW p \in Fields \cap Places
    PROVE  h.own[p] # o
<1> SUFFICES ASSUME h.own[p] = o PROVE FALSE
  OBVIOUS
<1> DEFINE R == {q \in Roots : h.own[q] = o}  F == {q \in Fields \cap Places : h.own[q] = o}
<1>1. Held(h.own, o) = R \cup F /\ R \cap F = {} /\ p \in F
  BY DEF Held, Roots
<1>2. IsFiniteSet(Held(h.own, o)) /\ Holders(h.own, o) \in Nat
  BY HeldFinite
<1>3. IsFiniteSet(R) /\ IsFiniteSet(F)
  BY <1>1, <1>2, FS_Subset
<1>4. Cardinality(R) \in Nat /\ Cardinality(F) \in Nat /\ Cardinality(F) # 0
  BY <1>1, <1>3, FS_CardinalityType, FS_EmptySet
<1>5. Holders(h.own, o) = Cardinality(R) + Cardinality(F)
  <2>1. Cardinality(R \cup F) = Cardinality(R) + Cardinality(F) - Cardinality(R \cap F)
    BY <1>3, FS_Union
  <2>2. Cardinality(R \cap F) = 0
    BY <1>1, FS_EmptySet
  <2> HIDE DEF R, F
  <2> QED
    BY <1>1, <1>4, <2>1, <2>2 DEF Holders
<1>6. d[o] + Cardinality(R) >= 0
  BY DEF RootSafe, RootHolders
<1> HIDE DEF R, F
<1>7. Balanced(h, d, o)
  BY DEF Good
<1>8. h.count[o] = 0 /\ h.spare[o] >= 0 /\ h.count[o] = Holders(h.own, o) + h.spare[o] + d[o]
  BY <1>7 DEF Balanced
<1>9. h.spare[o] \in Int /\ d[o] \in Int
  BY DEF Good, Heap, Deltas
<1> QED
  BY <1>4, <1>5, <1>6, <1>8, <1>9

-----------------------------------------------------------------------------
(* DestroyInstance and TerminateInstance                                   *)

States == [h : Heap, next : Entry, dying : SUBSET Objects, noShape : BOOLEAN]

\* Released has nothing more to do.
Done(w) == w.next \notin Objects \/ w.next \in w.dying \/ w.h.fault # "none"

\* The round that w is in came from h.
Follows(w, h) ==
    /\ w \in States
    /\ w.h.st = h.st /\ w.h.short = h.short
    /\ \A p \in Roots : w.h.own[p] = h.own[p]
    /\ w.h.fault = "none" => h.fault = "none"
    /\ Known(w.h, w.next)
    /\ \A o \in w.dying : h.st[o] = "live"

\* Once the dying are freed, the account is off by the reference that is to be
\* released, which is to a dying object only if that lost a count before.
Loop(w, h, d) ==
    /\ Follows(w, h)
    /\ Good(Freed(w.h, w.dying), Plus(d, w.next, 1))
    /\ w.h.fault = "none" /\ w.next \in w.dying => w.next \in h.short

\* The field of an object is a place and no root.
LEMMA FieldPlaces ==
    ASSUME NEW v \in Objects
    PROVE  FieldP(v) \in Places \cap Fields /\ FieldP(v) \notin Roots
BY DEF Places, Fields, Roots

\* One call of DestroyInstance and TerminateInstance has a type.
LEMMA RoundTypes ==
    ASSUME NEW w \in States
    PROVE  ReleaseNext(w) \in States
<1> DEFINE v == w.next  h == DecrementReference(w.h, v)
<1>1. w.h \in Heap /\ w.next \in Entry /\ w.dying \in SUBSET Objects /\ w.noShape \in BOOLEAN
  BY DEF States
<1>2. CASE ~IsObject(v) \/ v \in w.dying
  BY <1>2 DEF ReleaseNext
<1>3. CASE ~(~IsObject(v) \/ v \in w.dying)
  <2>1. v \in Objects
    BY <1>3 DEF IsObject
  <2>2. h \in Heap
    BY <1>1, <2>1, DecrementFields DEF SameBut, SameObjects
  <2>3. FieldP(v) \in Places
    BY <2>1, FieldPlaces
  <2> DEFINE k == [h EXCEPT !.fault = "null_shape"]  f == [h EXCEPT !.own[FieldP(v)] = Null]
  <2> HIDE DEF h
  <2>4. k \in Heap
    BY <2>2 DEF Heap
  <2>5. f \in Heap
    <3>1. Null \in Entry
      BY DEF Entry, Value
    <3>2. Write(h, FieldP(v), Null) \in Heap
      BY <2>2, <2>3, <3>1, WriteFields
    <3> QED
      BY <3>2 DEF Write
  <2>6. h.own[FieldP(v)] \in Entry /\ Null \in Entry
    BY <2>2, <2>3 DEF Heap, Entry, Value
  <2>7. \/ ReleaseNext(w) = [w EXCEPT !.h = h, !.next = Null]
        \/ ReleaseNext(w) = [w EXCEPT !.h = k, !.next = Null]
        \/ ReleaseNext(w) = [h |-> f, next |-> h.own[FieldP(v)],
                             dying |-> w.dying \cup {v}, noShape |-> h.kind[v] = "array"]
    BY <1>3 DEF ReleaseNext, h
  <2> HIDE DEF k, f
  <2>8. [w EXCEPT !.h = h, !.next = Null] \in States /\ [w EXCEPT !.h = k, !.next = Null] \in States
    BY <2>2, <2>4, <2>6 DEF States
  <2>9. [h |-> f, next |-> h.own[FieldP(v)], dying |-> w.dying \cup {v}, noShape |-> h.kind[v] = "array"] \in States
    BY <1>1, <2>1, <2>5, <2>6 DEF States
  <2> QED
    BY <2>7, <2>8, <2>9
<1> QED
  BY <1>2, <1>3

\* The calls, as a sequence of rounds: the recursive function that
\* Released is defined with exists.
LEMMA ReleasedRounds ==
    ASSUME NEW w \in States
    PROVE  \E after \in [Nat -> States] :
              /\ after[0] = w
              /\ \A n \in Nat : after[n + 1] = ReleaseNext(after[n])
              /\ Released(w) = after[MaxObjects + 1]
<1> DEFINE step == [n \in Nat |-> [x \in States |-> ReleaseNext(x)]]
<1>1. step \in [Nat -> [States -> States]] /\ \A n \in Nat, x \in States : step[n][x] = ReleaseNext(x)
  BY RoundTypes
<1> HIDE DEF step
<1>2. PICK g \in [Nat -> States] : g[0] = w /\ \A n \in Nat : g[n + 1] = step[n][g[n]]
  <2>1. \E g : Iterates(g, States, w, step)
    BY <1>1, Recursion
  <2> QED
    BY <2>1 DEF Iterates
<1>3. ASSUME NEW n \in Nat, n # 0 PROVE g[n] = ReleaseNext(g[n - 1])
  <2>1. n - 1 \in Nat /\ (n - 1) + 1 = n
    BY <1>3
  <2> QED
    BY <1>1, <1>2, <2>1
<1> DEFINE after == CHOOSE f : f = [n \in Nat |-> IF n = 0 THEN w ELSE ReleaseNext(f[n - 1])]
<1>4. g = [n \in Nat |-> IF n = 0 THEN w ELSE ReleaseNext(g[n - 1])]
  BY <1>2, <1>3
<1>5. after = [n \in Nat |-> IF n = 0 THEN w ELSE ReleaseNext(after[n - 1])]
  BY <1>4
<1>6. Released(w) = after[MaxObjects + 1]
  BY DEF Released
<1> HIDE DEF after
<1>7. after[0] = w
  BY <1>5
<1>8. ASSUME NEW n \in Nat PROVE after[n + 1] = ReleaseNext(after[n])
  <2>1. n + 1 \in Nat /\ n + 1 # 0 /\ (n + 1) - 1 = n
    OBVIOUS
  <2> QED
    BY <1>5, <2>1
<1> DEFINE S == {n \in Nat : after[n] \in States}
<1>9. S = Nat
  <2>1. 0 \in S /\ \A n \in S : n + 1 \in S
    BY <1>7, <1>8, RoundTypes
  <2> HIDE DEF S
  <2> QED
    BY <2>1, NatSet DEF S
<1>10. after \in [Nat -> States]
  BY <1>5, <1>9
<1> QED
  BY <1>6, <1>7, <1>8, <1>10

\* An object that lost its last count dies, and what its field refers to is
\* the next to be released.
LEMMA Dies ==
    ASSUME NEW h \in Heap, NEW d \in Deltas, NEW k \in Heap, NEW dying \in SUBSET Objects,
           NEW v \in Objects, v \notin dying, NEW noShape \in BOOLEAN,
           k.st = h.st, k.short = h.short, \A p \in Roots : k.own[p] = h.own[p],
           k.fault = "none", h.fault = "none", \A o \in dying : h.st[o] = "live",
           h.st[v] = "live", k.count[v] = 0, Good(Freed(k, dying), d), RootSafe(h, d)
    PROVE  Loop([h |-> Write(k, FieldP(v), Null), next |-> k.own[FieldP(v)],
                 dying |-> dying \cup {v}, noShape |-> noShape], h, d)
<1> DEFINE p == FieldP(v)  u == k.own[p]  now == dying \cup {v}
           free == Freed(k, dying)  gone == Freed(k, now)  g == Write(k, p, Null)
           w == [h |-> g, next |-> u, dying |-> now, noShape |-> noShape]
<1>1. p \in Places /\ p \in Fields /\ p \notin Roots
  BY FieldPlaces
<1>2. u \in Entry /\ Null \in Entry /\ now \in SUBSET Objects /\ Null \notin Objects
  BY <1>1, ObjectsNat DEF Heap, Entry, Value
<1>3. /\ g \in Heap /\ g.st = k.st /\ g.kind = k.kind /\ g.count = k.count /\ g.spare = k.spare
      /\ g.short = k.short /\ g.fault = k.fault /\ g.own = [k.own EXCEPT ![p] = Null]
  BY <1>1, <1>2, WriteFields
<1>4. /\ free \in Heap /\ free.count = k.count /\ free.own = k.own /\ free.spare = k.spare
      /\ free.short = k.short /\ free.fault = k.fault
      /\ \A o \in Objects : free.st[o] = IF o \in dying THEN "freed" ELSE k.st[o]
  BY FreedFields
<1>5. /\ gone \in Heap /\ gone.kind = k.kind /\ gone.count = k.count /\ gone.own = k.own /\ gone.spare = k.spare
      /\ gone.short = k.short /\ gone.fault = k.fault
      /\ \A o \in Objects : gone.st[o] = IF o \in now THEN "freed" ELSE k.st[o]
  BY FreedFields
<1>6. Good(gone, d)
  <2>0. Good(free, d)
    OBVIOUS
  <2>1. \A q \in Places : Known(gone, gone.own[q])
    <3> HIDE DEF gone, free
    <3>1. \A q \in Places : Known(free, free.own[q])
      BY <2>0 DEF Good
    <3> QED
      BY <1>4, <1>5, <3>1 DEF Known
  <2>2. ASSUME NEW o \in Objects PROVE Balanced(gone, d, o)
    <3> HIDE DEF gone, free
    <3>1. Balanced(free, d, o)
      BY <1>4, <2>0 DEF Good
    <3>2. CASE o = v
      <4>1. free.st[v] = "live" /\ gone.st[v] = "freed"
        BY <1>4, <1>5
      <4> QED
        BY <1>4, <1>5, <3>1, <3>2, <4>1 DEF Balanced
    <3>3. CASE o # v
      <4>1. gone.st[o] = free.st[o]
        BY <1>4, <1>5, <3>3
      <4> QED
        BY <1>4, <1>5, <3>1, <4>1 DEF Balanced
    <3> QED
      BY <3>2, <3>3
  <2> QED
    BY <1>5, <2>1, <2>2 DEF Good
<1> HIDE DEF gone, free, g, p
<1>7. Known(k, u) /\ Known(gone, u)
  <2>1. Known(gone, gone.own[p])
    BY <1>1, <1>6 DEF Good
  <2> QED
    BY <1>2, <1>5, <2>1 DEF Known
<1>8. Freed(g, now) = Write(gone, p, Null)
  <2> DEFINE a == Freed(g, now)  b == Write(gone, p, Null)
  <2>1. /\ a \in Heap /\ a.kind = g.kind /\ a.count = g.count /\ a.own = g.own
        /\ a.spare = g.spare /\ a.short = g.short /\ a.fault = g.fault
        /\ \A o \in Objects : a.st[o] = IF o \in now THEN "freed" ELSE g.st[o]
    BY <1>3, FreedFields
  <2>2. /\ b \in Heap
        /\ b.st = gone.st /\ b.kind = gone.kind /\ b.count = gone.count
        /\ b.spare = gone.spare /\ b.short = gone.short /\ b.fault = gone.fault
        /\ b.own = [gone.own EXCEPT ![p] = Null]
    BY <1>1, <1>2, <1>5, WriteFields
  <2> HIDE DEF a, b, now
  <2>3. a.st = b.st
    BY <1>3, <1>5, <2>1, <2>2 DEF Heap
  <2>4. a = b
    BY <1>3, <1>5, <2>1, <2>2, <2>3, HeapExt
  <2> QED
    BY <2>4 DEF a, b
<1>9. Good(Freed(g, now), Plus(d, u, 1))
  <2>1. Known(gone, Null)
    BY <1>2 DEF Known
  <2>2. Good(Write(gone, p, Null), Plus(Plus(d, gone.own[p], 1), Null, -1))
    BY <1>1, <1>6, <2>1, WriteGood
  <2>3. gone.own[p] = u
    BY <1>5
  <2>4. Plus(d, u, 1) \in Deltas
    BY DeltaFacts
  <2>5. Plus(Plus(d, u, 1), Null, -1) = Plus(d, u, 1)
    BY <1>2, <2>4, DeltaFacts
  <2> QED
    BY <1>8, <2>2, <2>3, <2>5
<1>10. u \in now => u \in h.short
  <2> SUFFICES ASSUME u \in now, u \notin h.short PROVE FALSE
    OBVIOUS
  <2>1. u \in Objects /\ gone.st[u] = "freed" /\ gone.fault = "none" /\ u \notin gone.short
    BY <1>2, <1>5
  <2>2. RootSafe(gone, d)
    <3>1. ASSUME NEW o \in Objects PROVE RootHolders(gone.own, o) = RootHolders(h.own, o)
      <4>1. {q \in Roots : gone.own[q] = o} = {q \in Roots : h.own[q] = o}
        BY <1>5
      <4> QED
        BY <4>1 DEF RootHolders
    <3> QED
      BY <1>5, <3>1 DEF RootSafe
  <2>3. gone.own[p] # u
    BY <1>1, <1>6, <2>1, <2>2, NoFieldOfFreed
  <2> QED
    BY <2>3, <1>5
<1>11. Follows(w, h)
  <2>1. w \in States
    BY <1>2, <1>3 DEF States
  <2>2. \A q \in Roots : g.own[q] = h.own[q]
    BY <1>1, <1>3 DEF Heap, Roots
  <2>3. \A o \in now : h.st[o] = "live"
    OBVIOUS
  <2>4. Known(g, u)
    BY <1>3, <1>7 DEF Known
  <2>5. w.h = g /\ w.next = u /\ w.dying = now
    OBVIOUS
  <2> HIDE DEF w, u, now
  <2> QED
    BY <1>3, <2>1, <2>2, <2>3, <2>4, <2>5 DEF Follows
<1>12. w.h = g /\ w.next = u /\ w.dying = now
  OBVIOUS
<1>13. Loop(w, h, d)
  <2> HIDE DEF w, u, now
  <2> QED
    BY <1>9, <1>10, <1>11, <1>12 DEF Loop
<1> QED
  BY <1>13 DEF w, g, p

\* A round, once the reference has been taken back.
LEMMA RoundReleases ==
    ASSUME NEW w, NEW h \in Heap, NEW d \in Deltas, Follows(w, h),
           w.next \in Objects, w.next \notin w.dying,
           Good(Freed(DecrementReference(w.h, w.next), w.dying), d), RootSafe(h, d)
    PROVE  /\ Loop(ReleaseNext(w), h, d)
           /\ Done(ReleaseNext(w)) \/ Cardinality(ReleaseNext(w).dying) = Cardinality(w.dying) + 1
<1> DEFINE v == w.next  k == DecrementReference(w.h, v)
<1>1. w \in States /\ w.h \in Heap /\ w.dying \in SUBSET Objects /\ w.noShape \in BOOLEAN /\ v \in Objects
  BY DEF Follows, States
<1>2. SameBut(w.h, k, v) /\ k.short = w.h.short /\ (k.fault = "none" => w.h.st[v] # "freed")
  BY <1>1, DecrementFields
<1>3. /\ k \in Heap /\ k.st = h.st /\ k.short = h.short /\ \A p \in Roots : k.own[p] = h.own[p]
      /\ k.fault = "none" => w.h.fault = "none" /\ h.fault = "none"
  BY <1>2 DEF SameBut, SameObjects, Follows
<1>4. k.fault = "none" => h.st[v] = "live" /\ \A o \in w.dying : h.st[o] = "live"
  <2>1. h.st[v] # "unused"
    BY <1>1 DEF Follows, Known
  <2> QED
    BY <1>1, <1>2, <1>3, <2>1 DEF Follows, Heap
<1>5. Good(Freed(k, w.dying), d) /\ v \notin w.dying
  OBVIOUS
<1>6. ReleaseNext(w) \in States
  BY <1>1, RoundTypes
<1>7. Null \notin Objects /\ Null \in Entry /\ Plus(d, Null, 1) = d
  BY ObjectsNat, DeltaFacts DEF Entry, Value
<1>8. ASSUME NEW m \in Heap, m.st = k.st, m.own = k.own, m.short = k.short,
             m.fault = "none" => k.fault = "none",
             ReleaseNext(w) = [w EXCEPT !.h = m, !.next = Null], Good(Freed(m, w.dying), d)
      PROVE  Loop(ReleaseNext(w), h, d) /\ Done(ReleaseNext(w))
  <2> DEFINE x == ReleaseNext(w)
  <2>1. x \in States /\ x.h = m /\ x.next = Null /\ x.dying = w.dying
    BY <1>1, <1>6, <1>8 DEF States
  <2> HIDE DEF x
  <2>2. Follows(x, h)
    BY <1>3, <1>4, <1>7, <1>8, <2>1 DEF Follows, Known
  <2>3. Loop(x, h, d)
    <3>1. Good(Freed(x.h, x.dying), Plus(d, x.next, 1))
      BY <1>7, <1>8, <2>1
    <3>2. x.next \notin x.dying
      BY <1>1, <1>7, <2>1
    <3> QED
      BY <2>2, <3>1, <3>2 DEF Loop
  <2> QED
    BY <1>7, <2>1, <2>3 DEF Done, x
<1> HIDE DEF k
<1>9. CASE k.fault # "none" \/ k.count[v] > 0
  <2>1. ReleaseNext(w) = [w EXCEPT !.h = k, !.next = Null]
    BY <1>1, <1>5, <1>9 DEF ReleaseNext, k, IsObject
  <2> QED
    BY <1>3, <1>5, <1>8, <2>1
<1>10. CASE ~(k.fault # "none" \/ k.count[v] > 0) /\ w.noShape
  <2> DEFINE m == [k EXCEPT !.fault = "null_shape"]
  <2>1. ReleaseNext(w) = [w EXCEPT !.h = m, !.next = Null]
    BY <1>1, <1>5, <1>10 DEF ReleaseNext, k, IsObject
  <2>2. m \in Heap /\ m.st = k.st /\ m.own = k.own /\ m.short = k.short /\ m.fault # "none"
    BY <1>3 DEF Heap
  <2> HIDE DEF m
  <2>3. Good(Freed(m, w.dying), d)
    <3> DEFINE a == Freed(m, w.dying)  b == Freed(k, w.dying)
    <3>1. a \in Heap /\ a.own = m.own /\ a.fault = m.fault
          /\ \A o \in Objects : a.st[o] = IF o \in w.dying THEN "freed" ELSE m.st[o]
      BY <2>2, FreedFields
    <3>2. b \in Heap /\ b.own = k.own
          /\ \A o \in Objects : b.st[o] = IF o \in w.dying THEN "freed" ELSE k.st[o]
      BY <1>3, FreedFields
    <3>3. Good(b, d)
      BY <1>5
    <3> HIDE DEF a, b
    <3>4. \A p \in Places : Known(b, b.own[p])
      BY <3>3 DEF Good
    <3>5. \A p \in Places : Known(a, a.own[p])
      BY <2>2, <3>1, <3>2, <3>4 DEF Known
    <3>6. Good(a, d)
      BY <2>2, <3>1, <3>5 DEF Good
    <3> QED
      BY <3>6 DEF a
  <2> QED
    BY <1>8, <2>1, <2>2, <2>3
<1>11. CASE ~(k.fault # "none" \/ k.count[v] > 0) /\ ~w.noShape
  <2> DEFINE x == [h |-> Write(k, FieldP(v), Null), next |-> k.own[FieldP(v)],
                   dying |-> w.dying \cup {v}, noShape |-> k.kind[v] = "array"]
  <2>1. ReleaseNext(w) = x
    BY <1>1, <1>5, <1>11 DEF ReleaseNext, k, IsObject, Write
  <2>2. k.fault = "none" /\ k.count[v] = 0
    BY <1>1, <1>3, <1>11 DEF Heap
  <2>3. Loop(x, h, d)
    <3>1. (k.kind[v] = "array") \in BOOLEAN
      OBVIOUS
    <3> HIDE DEF v
    <3> QED
      BY <1>1, <1>3, <1>4, <1>5, <2>2, <3>1, Dies
  <2>4. Cardinality(x.dying) = Cardinality(w.dying) + 1
    <3>1. IsFiniteSet(w.dying)
      <4>1. IsFiniteSet(Objects)
        BY ObjectsFinite
      <4> QED
        BY <1>1, <4>1, FS_Subset
    <3> QED
      BY <1>5, <3>1, FS_AddElement
  <2> HIDE DEF x
  <2> QED
    BY <2>1, <2>3, <2>4
<1> QED
  BY <1>9, <1>10, <1>11

\* A round keeps the invariant of the rounds, and is the last one or has one
\* more object dying.
LEMMA LoopStep ==
    ASSUME NEW w, NEW h \in Heap, NEW d \in Deltas, Loop(w, h, d), RootSafe(h, d)
    PROVE  /\ Loop(ReleaseNext(w), h, d)
           /\ Done(w) => Done(ReleaseNext(w))
           /\ ~Done(w) => \/ Done(ReleaseNext(w))
                          \/ Cardinality(ReleaseNext(w).dying) = Cardinality(w.dying) + 1
<1> DEFINE v == w.next
<1>1. w \in States /\ w.h \in Heap /\ w.dying \in SUBSET Objects /\ Known(w.h, v)
  BY DEF Loop, Follows, States
<1>2. CASE v \notin Objects \/ v \in w.dying
  <2>1. ReleaseNext(w) = w /\ Done(w)
    BY <1>2 DEF ReleaseNext, IsObject, Done
  <2> QED
    BY <2>1
<1>3. CASE v \in Objects /\ v \notin w.dying
  <2> DEFINE k == DecrementReference(w.h, v)  a == Freed(w.h, w.dying)  b == Freed(k, w.dying)
             e == Plus(d, v, 1)
  <2>1. /\ SameBut(w.h, k, v) /\ k.short = w.h.short /\ (k.fault = "none" => w.h.st[v] # "freed")
        /\ (w.h.count[v] > 0 => k.count[v] = w.h.count[v] - 1 /\ k.spare[v] = w.h.spare[v])
        /\ (w.h.count[v] = 0 => k.count[v] = 0 /\ k.spare[v] = w.h.spare[v] + 1)
    BY <1>1, <1>3, DecrementFields
  <2> HIDE DEF k
  <2>2. k \in Heap /\ k.st = w.h.st /\ k.kind = w.h.kind /\ k.own = w.h.own /\ (k.fault = "none" => w.h.fault = "none")
    BY <2>1 DEF SameBut, SameObjects
  <2>3. /\ a \in Heap /\ a.kind = w.h.kind /\ a.count = w.h.count /\ a.own = w.h.own
        /\ a.spare = w.h.spare /\ a.short = w.h.short /\ a.fault = w.h.fault
        /\ \A o \in Objects : a.st[o] = IF o \in w.dying THEN "freed" ELSE w.h.st[o]
    BY <1>1, FreedFields
  <2>4. /\ b \in Heap /\ b.kind = k.kind /\ b.count = k.count /\ b.own = k.own
        /\ b.spare = k.spare /\ b.short = k.short /\ b.fault = k.fault
        /\ \A o \in Objects : b.st[o] = IF o \in w.dying THEN "freed" ELSE k.st[o]
    BY <2>2, FreedFields
  <2>5. Good(a, e) /\ e \in Deltas
    BY DeltaFacts DEF Loop
  <2> HIDE DEF a, b
  <2>6. a.st = b.st
    BY <2>2, <2>3, <2>4 DEF Heap
  <2>7. SameBut(a, b, v)
    BY <2>1, <2>2, <2>3, <2>4, <2>6 DEF SameBut, SameObjects
  <2>8. a.st[v] # "unused" /\ (b.fault = "none" => a.st[v] # "freed")
    BY <1>1, <1>3, <2>1, <2>3, <2>4 DEF Known
  <2> HIDE DEF e, v
  <2>9. Good(b, Plus(e, v, -1))
    BY <1>3, <2>1, <2>3, <2>4, <2>5, <2>7, <2>8, DecrementEffect
  <2>10. Plus(e, v, -1) = d
    <3>1. Plus(Plus(d, v, 1), v, -1) = Plus(d, v, 1 + -1) /\ 1 + -1 = 0 /\ Plus(d, v, 0) = d
      BY DeltaFacts
    <3> QED
      BY <3>1 DEF e
  <2>11. Good(Freed(DecrementReference(w.h, w.next), w.dying), d)
    BY <2>9, <2>10 DEF b, k, v
  <2>12. Follows(w, h) /\ w.next \in Objects /\ w.next \notin w.dying
    BY <1>3 DEF Loop, v
  <2>13. Loop(ReleaseNext(w), h, d)
        /\ (Done(ReleaseNext(w)) \/ Cardinality(ReleaseNext(w).dying) = Cardinality(w.dying) + 1)
    BY <2>11, <2>12, RoundReleases
  <2>14. Done(w) => Done(ReleaseNext(w))
    <3> SUFFICES ASSUME Done(w) PROVE Done(ReleaseNext(w))
      OBVIOUS
    <3>1. w.h.fault # "none"
      BY <1>3 DEF Done, v
    <3>2. k.fault # "none"
      BY <2>2, <3>1
    <3>3. ReleaseNext(w) = [w EXCEPT !.h = k, !.next = Null]
      BY <1>3, <3>2 DEF ReleaseNext, k, v, IsObject
    <3>4. ReleaseNext(w).h = k
      BY <1>1, <3>3 DEF States
    <3> QED
      BY <3>2, <3>4 DEF Done
  <2> QED
    BY <2>13, <2>14
<1> QED
  BY <1>2, <1>3

\* As many rounds as there are objects, and one more, are enough.
LEMMA RoundsEnd ==
    ASSUME NEW w \in States, NEW h \in Heap, NEW d \in Deltas, RootSafe(h, d),
           Loop(ReleaseNext(w), h, d),
           Done(ReleaseNext(w)) \/ Cardinality(ReleaseNext(w).dying) >= 1
    PROVE  Loop(Released(w), h, d) /\ Done(Released(w))
<1>1. PICK after \in [Nat -> States] : /\ after[0] = w
                                       /\ \A n \in Nat : after[n + 1] = ReleaseNext(after[n])
                                       /\ Released(w) = after[MaxObjects + 1]
  BY ReleasedRounds
<1> DEFINE Reached(n) == Loop(after[n], h, d) /\ (Done(after[n]) \/ Cardinality(after[n].dying) >= n)
           S == {n \in Nat : Reached(n + 1)}
<1>2. 0 \in S
  <2>1. after[0 + 1] = ReleaseNext(w) /\ 0 + 1 = 1
    BY <1>1
  <2> QED
    BY <2>1
<1>3. ASSUME NEW n \in S PROVE n + 1 \in S
  <2> DEFINE x == after[n + 1]
  <2>1. Loop(x, h, d) /\ (Done(x) \/ Cardinality(x.dying) >= n + 1) /\ n \in Nat
    OBVIOUS
  <2>2. after[(n + 1) + 1] = ReleaseNext(x)
    BY <1>1
  <2>3. Cardinality(x.dying) \in Nat
    <3>1. x.dying \in SUBSET Objects
      BY <2>1 DEF Loop, Follows, States
    <3>2. IsFiniteSet(Objects)
      BY ObjectsFinite
    <3> HIDE DEF x
    <3> QED
      BY <3>1, <3>2, FS_Subset, FS_CardinalityType
  <2> HIDE DEF x
  <2>4. /\ Loop(ReleaseNext(x), h, d)
        /\ Done(x) => Done(ReleaseNext(x))
        /\ ~Done(x) => Done(ReleaseNext(x)) \/ Cardinality(ReleaseNext(x).dying) = Cardinality(x.dying) + 1
    BY <2>1, LoopStep
  <2>5. Done(ReleaseNext(x)) \/ Cardinality(ReleaseNext(x).dying) >= (n + 1) + 1
    BY <2>1, <2>3, <2>4
  <2> QED
    BY <2>1, <2>2, <2>4, <2>5
<1>4. S = Nat
  <2> HIDE DEF Reached
  <2>1. S \in SUBSET Nat
    OBVIOUS
  <2> HIDE DEF S
  <2> QED
    BY <1>2, <1>3, <2>1, NatSet
<1>5. Reached(MaxObjects + 1)
  <2>1. MaxObjects \in S
    BY <1>4, HeapAssumption
  <2> QED
    BY <2>1
<1> DEFINE z == after[MaxObjects + 1]
<1>6. Done(z)
  <2> SUFFICES ASSUME ~Done(z) PROVE FALSE
    OBVIOUS
  <2>1. Cardinality(z.dying) >= MaxObjects + 1
    BY <1>5
  <2>2. z.dying \in SUBSET Objects
    BY <1>5 DEF Loop, Follows, States
  <2>3. IsFiniteSet(Objects) /\ Cardinality(Objects) = MaxObjects
    BY ObjectsFinite
  <2> HIDE DEF z
  <2>4. Cardinality(z.dying) <= MaxObjects /\ Cardinality(z.dying) \in Nat
    BY <2>2, <2>3, FS_Subset, FS_CardinalityType
  <2> QED
    BY <2>1, <2>4, HeapAssumption
<1> QED
  BY <1>1, <1>5, <1>6

\* After the last round the dying objects are freed, and the books balance.
LEMMA LoopEnd ==
    ASSUME NEW w, NEW h \in Heap, NEW d \in Deltas, Loop(w, h, d), Done(w)
    PROVE  /\ Good(Freed(w.h, w.dying), d) /\ Keeps(h, Freed(w.h, w.dying), {})
           /\ Unallotted(h, Freed(w.h, w.dying))
<1> DEFINE g == Freed(w.h, w.dying)  v == w.next  e == Plus(d, v, 1)
<1>1. w.h \in Heap /\ w.dying \in SUBSET Objects
  BY DEF Loop, Follows, States
<1>2. /\ g \in Heap /\ g.own = w.h.own /\ g.short = w.h.short /\ g.fault = w.h.fault
      /\ \A o \in Objects : g.st[o] = IF o \in w.dying THEN "freed" ELSE w.h.st[o]
  BY <1>1, FreedFields
<1>3. Good(g, e)
  BY DEF Loop
<1> HIDE DEF g
<1>4. Keeps(h, g, {})
  <2>1. \A p \in Roots : g.own[p] = h.own[p]
    BY <1>2 DEF Loop, Follows
  <2>2. \A o \in Objects : h.st[o] # "unused" => g.st[o] # "unused"
    BY <1>2 DEF Loop, Follows
  <2>3. g.fault = "none" => h.fault = "none"
    BY <1>2 DEF Loop, Follows
  <2> QED
    BY <2>1, <2>2, <2>3 DEF Keeps
<1>5. ASSUME g.fault = "none", NEW o \in Objects PROVE Balanced(g, d, o)
  <2>1. Balanced(g, e, o)
    BY <1>3, <1>5 DEF Good
  <2>2. CASE o # v
    <3>1. e[o] = d[o]
      BY <2>2 DEF Plus
    <3> QED
      BY <2>1, <3>1 DEF Balanced
  <2>3. CASE o = v
    <3>1. v \in w.dying /\ v \in h.short
      BY <1>2, <1>5, <2>3 DEF Done, Loop
    <3>2. g.st[v] = "freed" /\ v \in g.short
      BY <1>2, <2>3, <3>1 DEF Loop, Follows
    <3> QED
      BY <2>1, <2>3, <3>2 DEF Balanced
  <2> QED
    BY <2>2, <2>3
<1>6. Good(g, d)
  BY <1>3, <1>5 DEF Good
<1>7. Unallotted(h, g)
  BY <1>2 DEF Loop, Follows, Unallotted
<1> QED
  BY <1>4, <1>6, <1>7 DEF g

\* DestroyInstance takes one count and keeps the books, whatever it frees.
LEMMA DestroyGood ==
    ASSUME NEW h \in Heap, NEW d \in Deltas, NEW v, Known(h, v),
           Good(DecrementReference(h, v), d), RootSafe(h, d)
    PROVE  /\ Good(DestroyInstance(h, v), d) /\ Keeps(h, DestroyInstance(h, v), {})
           /\ Unallotted(h, DestroyInstance(h, v))
<1> DEFINE w == [h |-> h, next |-> v, dying |-> {}, noShape |-> FALSE]
           k == DecrementReference(h, v)
<1>1. w \in States /\ w.h = h /\ w.next = v /\ w.dying = {}
  BY DEF States, Known
<1>2. DestroyInstance(h, v) = Freed(Released(w).h, Released(w).dying)
  BY DEF DestroyInstance
<1> HIDE DEF w
<1>3. Follows(w, h)
  BY <1>1 DEF Follows
<1>4. Loop(ReleaseNext(w), h, d) /\ (Done(ReleaseNext(w)) \/ Cardinality(ReleaseNext(w).dying) >= 1)
  <2>1. Freed(k, {}) = k
    <3> DEFINE a == Freed(k, {})
    <3>1. k \in Heap
      BY DEF Good
    <3>2. /\ a \in Heap /\ a.kind = k.kind /\ a.count = k.count /\ a.own = k.own
          /\ a.spare = k.spare /\ a.short = k.short /\ a.fault = k.fault
          /\ \A o \in Objects : a.st[o] = IF o \in {} THEN "freed" ELSE k.st[o]
      BY <3>1, FreedFields
    <3> HIDE DEF a, k
    <3>3. a.st = k.st
      BY <3>1, <3>2 DEF Heap
    <3>4. a = k
      BY <3>1, <3>2, <3>3, HeapExt
    <3> QED
      BY <3>4 DEF a
  <2>2. CASE v \in Objects
    <3>1. Good(Freed(DecrementReference(w.h, w.next), w.dying), d)
      BY <1>1, <2>1
    <3>2. w.next \in Objects /\ w.next \notin w.dying
      BY <1>1, <2>2
    <3>3. Loop(ReleaseNext(w), h, d)
          /\ (Done(ReleaseNext(w)) \/ Cardinality(ReleaseNext(w).dying) = Cardinality(w.dying) + 1)
      BY <1>3, <3>1, <3>2, RoundReleases
    <3>4. Cardinality(w.dying) = 0
      BY <1>1, FS_EmptySet
    <3> QED
      BY <3>3, <3>4
  <2>3. CASE v \notin Objects
    <3>1. ReleaseNext(w) = w /\ Done(w)
      BY <1>1, <2>3 DEF ReleaseNext, IsObject, Done
    <3>2. k = h /\ Plus(d, v, 1) = d
      BY <2>3, DeltaFacts DEF DecrementReference, IsObject
    <3>3. Good(Freed(w.h, w.dying), Plus(d, w.next, 1))
      BY <1>1, <2>1, <3>2
    <3>4. Loop(w, h, d)
      BY <1>1, <1>3, <3>3 DEF Loop
    <3> QED
      BY <3>1, <3>4
  <2> QED
    BY <2>2, <2>3
<1>5. Loop(Released(w), h, d) /\ Done(Released(w))
  BY <1>1, <1>4, RoundsEnd
<1>6. Good(Freed(Released(w).h, Released(w).dying), d) /\ Keeps(h, Freed(Released(w).h, Released(w).dying), {})
      /\ Unallotted(h, Freed(Released(w).h, Released(w).dying))
  BY <1>5, LoopEnd
<1> QED
  BY <1>2, <1>6

\* TerminateInstance of an object nobody counts keeps the books.
LEMMA TerminateGood ==
    ASSUME NEW h, NEW d \in Deltas, Good(h, d), RootSafe(h, d), h.fault = "none",
           NEW v \in Objects, h.st[v] = "live", h.count[v] = 0
    PROVE  Good(TerminateInstance(h, v), d) /\ Keeps(h, TerminateInstance(h, v), {})
<1> DEFINE w == [h |-> Write(h, FieldP(v), Null), next |-> h.own[FieldP(v)],
                 dying |-> {} \cup {v}, noShape |-> h.kind[v] = "array"]
<1>1. h \in Heap
  BY DEF Good
<1>2. TerminateInstance(h, v) = Freed(Released(w).h, Released(w).dying)
  <2>1. {} \cup {v} = {v}
    OBVIOUS
  <2> QED
    BY <2>1 DEF TerminateInstance, Write
<1>3. Freed(h, {}) = h
  <2> DEFINE a == Freed(h, {})
  <2>1. /\ a \in Heap /\ a.kind = h.kind /\ a.count = h.count /\ a.own = h.own
        /\ a.spare = h.spare /\ a.short = h.short /\ a.fault = h.fault
        /\ \A o \in Objects : a.st[o] = IF o \in {} THEN "freed" ELSE h.st[o]
    BY <1>1, FreedFields
  <2> HIDE DEF a
  <2>2. a.st = h.st
    BY <1>1, <2>1 DEF Heap
  <2>3. a = h
    BY <1>1, <2>1, <2>2, HeapExt
  <2> QED
    BY <2>3 DEF a
<1>4. Loop(w, h, d)
  <2>1. Good(Freed(h, {}), d) /\ v \notin {} /\ {} \in SUBSET Objects /\ (h.kind[v] = "array") \in BOOLEAN
        /\ (\A o \in {} : h.st[o] = "live") /\ \A p \in Roots : h.own[p] = h.own[p]
    BY <1>3
  <2> QED
    BY <1>1, <2>1, Dies
<1>5. w.dying = {v}
  OBVIOUS
<1> HIDE DEF w
<1>6. w \in States
  BY <1>4 DEF Loop, Follows
<1>7. Loop(ReleaseNext(w), h, d) /\ (Done(ReleaseNext(w)) \/ Cardinality(ReleaseNext(w).dying) >= 1)
  <2>1. Cardinality(w.dying) = 1
    BY <1>5, FS_Singleton
  <2>2. /\ Loop(ReleaseNext(w), h, d)
        /\ Done(w) => Done(ReleaseNext(w))
        /\ ~Done(w) => Done(ReleaseNext(w)) \/ Cardinality(ReleaseNext(w).dying) = Cardinality(w.dying) + 1
    BY <1>1, <1>4, LoopStep
  <2> QED
    BY <2>1, <2>2
<1>8. Loop(Released(w), h, d) /\ Done(Released(w))
  BY <1>1, <1>6, <1>7, RoundsEnd
<1>9. Good(Freed(Released(w).h, Released(w).dying), d) /\ Keeps(h, Freed(Released(w).h, Released(w).dying), {})
  BY <1>1, <1>8, LoopEnd
<1> QED
  BY <1>2, <1>9

-----------------------------------------------------------------------------
(* Values                                                                  *)

\* What refers to an object from a root can be counted.
LEMMA RootHoldersNat ==
    ASSUME NEW own, NEW o
    PROVE  /\ RootHolders(own, o) \in Nat
           /\ \A p \in Roots : own[p] = o => RootHolders(own, o) > 0
<1> DEFINE R == {p \in Roots : own[p] = o}
<1>1. IsFiniteSet(R)
  <2>1. R \subseteq Places
    BY DEF Roots
  <2> QED
    BY <2>1, PlacesFinite, FS_Subset
<1>2. Cardinality(R) \in Nat /\ (Cardinality(R) = 0 <=> R = {})
  BY <1>1, FS_CardinalityType, FS_EmptySet
<1>3. ASSUME NEW p \in Roots, own[p] = o PROVE R # {}
  BY <1>3
<1> QED
  BY <1>2, <1>3 DEF RootHolders

\* With nothing outstanding any object may be released.
LEMMA ZeroSafe ==
    ASSUME NEW h PROVE RootSafe(h, Zero) /\ Zero \in Deltas
<1>1. \A o \in Objects : RootHolders(h.own, o) >= 0 /\ RootHolders(h.own, o) \in Nat
  BY RootHoldersNat
<1> QED
  BY <1>1 DEF RootSafe, Zero, Deltas

\* A read of a header keeps the books.
LEMMA TouchGood ==
    ASSUME NEW h, NEW d \in Deltas, Good(h, d), NEW v \in Objects
    PROVE  Good(Touch(h, v), d)
<1> DEFINE t == Touch(h, v)
<1>1. SameObjects(h, t) /\ t.count = h.count /\ t.spare = h.spare /\ t.short = h.short
  BY TouchFields DEF Good
<1> HIDE DEF t
<1>2. SameBut(h, t, v)
  BY <1>1 DEF SameBut
<1>3. Balanced(h, d, v) => Balanced(t, d, v)
  BY <1>1 DEF Balanced, SameObjects
<1>4. Good(t, d)
  BY <1>2, <1>3, GoodSame
<1> QED
  BY <1>4 DEF t

\* CollectInstance keeps the books: it takes no count away, so it may free
\* only what no place counts.
LEMMA CollectGood ==
    ASSUME NEW h, Good(h, Zero), NEW v, Known(h, v)
    PROVE  Good(CollectInstance(h, v), Zero) /\ Keeps(h, CollectInstance(h, v), {})
<1> DEFINE t == Touch(h, v)
<1>1. h \in Heap /\ RootSafe(t, Zero) /\ Zero \in Deltas
  BY ZeroSafe DEF Good
<1>2. SameObjects(h, t) /\ (v \in Objects /\ t.fault = "none" => h.st[v] # "freed")
  BY <1>1, TouchFields
<1>3. Keeps(h, t, {}) /\ Keeps(h, h, {})
  BY <1>2, SameKeeps DEF Keeps
<1>4. CASE v \notin Objects
  BY <1>3, <1>4 DEF CollectInstance, IsObject
<1>5. CASE v \in Objects
  <2>1. Good(t, Zero)
    BY <1>1, <1>5, TouchGood
  <2>2. CollectInstance(h, v) = IF t.fault # "none" \/ t.count[v] > 0 THEN t ELSE TerminateInstance(t, v)
    BY <1>5 DEF CollectInstance, IsObject
  <2> HIDE DEF t
  <2>3. CASE t.fault # "none" \/ t.count[v] > 0
    BY <1>3, <2>1, <2>2, <2>3
  <2>4. CASE ~(t.fault # "none" \/ t.count[v] > 0)
    <3>1. t.fault = "none" /\ t.count[v] = 0
      BY <1>5, <2>1, <2>4 DEF Good, Heap
    <3>2. t.st[v] = "live"
      BY <1>2, <1>5, <2>1, <3>1 DEF Good, Heap, SameObjects, Known
    <3>3. Good(TerminateInstance(t, v), Zero) /\ Keeps(t, TerminateInstance(t, v), {})
      BY <1>1, <1>5, <2>1, <3>1, <3>2, TerminateGood
    <3>4. Keeps(h, TerminateInstance(t, v), {} \cup {}) /\ {} \cup {} = {}
      BY <1>3, <3>3, KeepsTrans
    <3> QED
      BY <2>2, <2>4, <3>3, <3>4
  <2> QED
    BY <2>3, <2>4
<1> QED
  BY <1>4, <1>5

\* What is not checked once undefined behaviour ended the program.
LEMMA FaultGood ==
    ASSUME NEW h, NEW d, Good(h, d), NEW e
    PROVE  LET g == [h EXCEPT !.fault = "null_shape"] IN Good(g, e) /\ Keeps(h, g, {}) /\ g.fault # "none"
<1> DEFINE g == [h EXCEPT !.fault = "null_shape"]
<1>1. g \in Heap /\ g.st = h.st /\ g.own = h.own /\ g.fault = "null_shape"
  BY DEF Good, Heap
<1> HIDE DEF g
<1>2. Good(g, e) /\ Keeps(h, g, {})
  BY <1>1 DEF Good, Keeps, Known
<1> QED
  BY <1>1, <1>2 DEF g

\* The discard of an operand keeps the books.
LEMMA DiscardGood ==
    ASSUME NEW h, Good(h, Zero), NEW v, Known(h, v)
    PROVE  Good(DiscardValue(h, v), Zero) /\ Keeps(h, DiscardValue(h, v), {})
BY FaultGood, CollectGood DEF DiscardValue

\* An entry that is released as if it owned a count.
LEMMA ReleaseTakenGood ==
    ASSUME NEW h, Good(h, Zero), NEW v, Known(h, v)
    PROVE  Good(ReleaseValue(Take(h, v), v), Zero) /\ Keeps(h, ReleaseValue(Take(h, v), v), {})
<1> DEFINE t == Take(h, v)
<1>1. Good(DecrementReference(t, v), Zero) /\ SameObjects(h, t)
  BY ZeroSafe, TakeDecrementGood
<1>2. t \in Heap /\ Keeps(h, t, {}) /\ Known(t, v)
  BY <1>1, SameKeeps DEF SameObjects
<1>3. CASE v = NoShape
  <2>1. t = h
    BY <1>3, ObjectsNat DEF Take, Overdraw, Account, IsObject
  <2>2. ReleaseValue(t, v) = [h EXCEPT !.fault = "null_shape"]
    BY <1>3, <2>1 DEF ReleaseValue
  <2> QED
    BY <2>2, FaultGood
<1>4. CASE v # NoShape
  <2>1. ReleaseValue(t, v) = DestroyInstance(t, v)
    BY <1>4 DEF ReleaseValue
  <2>2. RootSafe(t, Zero) /\ Zero \in Deltas
    BY ZeroSafe
  <2> HIDE DEF t
  <2>3. Good(DestroyInstance(t, v), Zero) /\ Keeps(t, DestroyInstance(t, v), {})
    BY <1>1, <1>2, <2>2, DestroyGood
  <2>4. Keeps(h, DestroyInstance(t, v), {} \cup {}) /\ {} \cup {} = {}
    BY <1>2, <2>3, KeepsTrans
  <2> QED
    BY <2>1, <2>3, <2>4 DEF t
<1> QED
  BY <1>3, <1>4

\* AllocateInstance takes an object that nothing refers to.
LEMMA AllocateGood ==
    ASSUME NEW h, NEW d \in Deltas, Good(h, d), NEW kind \in Kinds,
           \E o \in Objects : h.st[o] = "unused"
    PROVE  LET a == AllocateInstance(h, kind)
           IN  /\ a.o \in Objects /\ Good(a.h, d) /\ Keeps(h, a.h, {}) /\ Known(a.h, a.o)
               /\ a.h.own = h.own /\ a.h.fault = h.fault
               /\ \A v : Known(h, v) => Known(a.h, v) /\ v # a.o
<1> DEFINE U == {x \in Objects : h.st[x] = "unused"}  o == Min(U)
           g == [h EXCEPT !.st[o] = "live", !.kind[o] = kind]
<1>1. o \in U
  <2>1. U \subseteq Nat /\ U # {}
    BY ObjectsNat
  <2>2. PICK x \in U : \A y \in U : ~(<< y, x >> \in OpToRel(<, Nat))
    BY <2>1, NatLessThanWellFounded, WFMin
  <2>3. \A y \in U : x <= y
    <3>1. \A y \in U : ~(y < x)
      BY <2>1, <2>2 DEF OpToRel
    <3> QED
      BY <2>1, <3>1
  <2> HIDE DEF U
  <2> QED
    BY <2>3 DEF Min
<1>2. AllocateInstance(h, kind) = [o |-> o, h |-> g]
  BY DEF AllocateInstance
<1> HIDE DEF o
<1>3. h \in Heap /\ o \in Objects /\ h.st[o] = "unused"
  BY <1>1 DEF Good
<1>4. /\ g \in Heap /\ g.st = [h.st EXCEPT ![o] = "live"] /\ g.count = h.count /\ g.own = h.own
      /\ g.spare = h.spare /\ g.short = h.short /\ g.fault = h.fault
  BY <1>3 DEF Heap, Kinds
<1> HIDE DEF g
<1>5. h.st \in [Objects -> {"unused", "live", "freed"}]
  BY <1>3 DEF Heap
<1>6. Known(g, o) /\ \A v : Known(h, v) => Known(g, v) /\ v # o
  BY <1>3, <1>4, <1>5 DEF Known, Entry, Value
<1>7. Keeps(h, g, {})
  BY <1>4, <1>5 DEF Keeps
<1>8. Good(g, d)
  <2>1. \A p \in Places : Known(g, g.own[p])
    BY <1>4, <1>6 DEF Good
  <2>2. ASSUME g.fault = "none", NEW x \in Objects PROVE Balanced(g, d, x)
    <3>1. Balanced(h, d, x)
      BY <1>4, <2>2 DEF Good
    <3>2. CASE x = o
      BY <1>3, <1>4, <1>5, <3>1, <3>2 DEF Balanced
    <3>3. CASE x # o
      <4>1. g.st[x] = h.st[x]
        BY <1>4, <1>5, <3>3
      <4> QED
        BY <1>4, <3>1, <4>1 DEF Balanced
    <3> QED
      BY <3>2, <3>3
  <2> QED
    BY <1>4, <2>1, <2>2 DEF Good
<1> QED
  BY <1>2, <1>3, <1>4, <1>6, <1>7, <1>8

-----------------------------------------------------------------------------
(* Places                                                                  *)

\* A place gives up "old" for "v", which is stored as "u".
LEMMA DeltaSwap ==
    ASSUME NEW d \in Deltas, NEW old, NEW v, NEW u, u = v \/ (u \notin Objects /\ v \notin Objects)
    PROVE  Plus(Plus(Plus(Plus(d, old, -1), v, 1), old, 1), u, -1) = d
BY DEF Plus, Deltas

\* The field of an object is not a root.
LEMMA KeepsField ==
    ASSUME NEW h, NEW g, NEW o \in Objects, Keeps(h, g, {FieldP(o)})
    PROVE  Keeps(h, g, {})
BY FieldPlaces DEF Keeps

\* What is stored for a value.
LEMMA StoredKnown ==
    ASSUME NEW h, NEW v, Known(h, v)
    PROVE  LET u == IF v = NoShape THEN Null ELSE v
           IN  Known(h, u) /\ (u = v \/ (u \notin Objects /\ v \notin Objects))
BY ObjectsNat DEF Known, Entry, Value

\* CallStackFrame::SetLocal keeps the books and the other roots.
LEMMA SetLocalGood ==
    ASSUME NEW h, Good(h, Zero), NEW p \in Roots, NEW v, Known(h, v)
    PROVE  /\ Good(SetLocal(h, p, v), Zero) /\ Keeps(h, SetLocal(h, p, v), {p})
           /\ Unallotted(h, SetLocal(h, p, v))
<1> DEFINE old == h.own[p]  g == DestroyInstance(h, old)  i == IncrementReference(g, v)
           u == IF v = NoShape THEN Null ELSE v
           d1 == Plus(Zero, old, -1)  d2 == Plus(d1, v, 1)
<1>1. p \in Places /\ h \in Heap /\ Known(h, old) /\ Zero \in Deltas
  BY ZeroSafe DEF Roots, Good
<1>2. d1 \in Deltas /\ d2 \in Deltas
  BY <1>1, DeltaFacts
<1>3. Good(DecrementReference(h, old), d1)
  BY <1>1, DecrementGood
<1>4. RootSafe(h, d1)
  <2>1. ASSUME NEW o \in Objects PROVE d1[o] + RootHolders(h.own, o) >= 0
    <3>1. RootHolders(h.own, o) \in Nat /\ (o = old => RootHolders(h.own, o) > 0)
      BY RootHoldersNat
    <3>2. d1[o] = IF o = old THEN -1 ELSE 0
      BY DEF Plus, Zero
    <3> HIDE DEF d1, old
    <3> QED
      BY <3>1, <3>2
  <2> QED
    BY <2>1 DEF RootSafe
<1> HIDE DEF d1
<1>5. Good(g, d1) /\ Keeps(h, g, {}) /\ Unallotted(h, g)
  BY <1>1, <1>2, <1>3, <1>4, DestroyGood
<1> HIDE DEF g
<1>6. Known(g, v) /\ g.own[p] = old
  BY <1>5, KeepsKnown DEF Keeps
<1>7. Good(i, d2) /\ SameObjects(g, i)
  BY <1>2, <1>5, <1>6, IncrementGood
<1> HIDE DEF i, d2
<1>8. Known(i, v) /\ Keeps(g, i, {}) /\ i.own[p] = old
  BY <1>6, <1>7, SameKeeps DEF SameObjects
<1>9. Known(i, u) /\ (u = v \/ (u \notin Objects /\ v \notin Objects))
  BY <1>8, StoredKnown
<1> HIDE DEF u
<1>10. Good(Write(i, p, u), Plus(Plus(d2, old, 1), u, -1)) /\ Keeps(i, Write(i, p, u), {p})
  <2>1. Good(Write(i, p, u), Plus(Plus(d2, i.own[p], 1), u, -1)) /\ Keeps(i, Write(i, p, u), {p})
    BY <1>1, <1>2, <1>7, <1>9, WriteGood
  <2> QED
    BY <1>8, <2>1
<1>11. Plus(Plus(d2, old, 1), u, -1) = Zero
  <2> HIDE DEF old
  <2> QED
    BY <1>1, <1>9, DeltaSwap DEF d1, d2
<1>12. SetLocal(h, p, v) = Write(i, p, u)
  BY DEF SetLocal, i, g, u
<1>13. Keeps(h, Write(i, p, u), {p})
  <2>1. Keeps(h, i, {} \cup {})
    BY <1>5, <1>8, KeepsTrans
  <2>2. Keeps(h, Write(i, p, u), ({} \cup {}) \cup {p})
    BY <1>10, <2>1, KeepsTrans
  <2>3. ({} \cup {}) \cup {p} = {p}
    OBVIOUS
  <2> QED
    BY <2>2, <2>3
<1>14. Unallotted(h, Write(i, p, u))
  <2>1. Write(i, p, u).st = i.st
    BY <1>1, <1>7, <1>9, WriteFields DEF Known, SameObjects
  <2> QED
    BY <1>5, <1>7, <2>1 DEF Unallotted, SameObjects
<1> QED
  BY <1>10, <1>11, <1>12, <1>13, <1>14

\* ObjectInstance::SetField and SetElement keep the books and the roots.
LEMMA SetFieldGood ==
    ASSUME NEW h, Good(h, Zero), NEW o \in Objects, NEW v, Known(h, v)
    PROVE  Good(SetField(h, o, v), Zero) /\ Keeps(h, SetField(h, o, v), {})
<1> DEFINE p == FieldP(o)  old == h.own[p]  g == DecrementReference(h, old)  i == IncrementReference(g, v)
           u == IF v = NoShape THEN Null ELSE v
           d1 == Plus(Zero, old, -1)  d2 == Plus(d1, v, 1)
<1>1. p \in Places /\ h \in Heap /\ Known(h, old) /\ Zero \in Deltas
  BY ZeroSafe, FieldPlaces DEF Good
<1>2. d1 \in Deltas /\ d2 \in Deltas
  BY <1>1, DeltaFacts
<1>3. Good(g, d1) /\ SameObjects(h, g)
  BY <1>1, DecrementGood
<1> HIDE DEF g, d1, p
<1>4. Known(g, v) /\ Keeps(h, g, {}) /\ g.own[p] = old
  BY <1>3, SameKeeps DEF SameObjects
<1>5. Good(i, d2) /\ SameObjects(g, i)
  BY <1>2, <1>3, <1>4, IncrementGood
<1> HIDE DEF i, d2
<1>6. Known(i, v) /\ Keeps(g, i, {}) /\ i.own[p] = old
  BY <1>4, <1>5, SameKeeps DEF SameObjects
<1>7. Known(i, u) /\ (u = v \/ (u \notin Objects /\ v \notin Objects))
  BY <1>6, StoredKnown
<1> HIDE DEF u
<1>8. Good(Write(i, p, u), Plus(Plus(d2, old, 1), u, -1)) /\ Keeps(i, Write(i, p, u), {p})
  <2>1. Good(Write(i, p, u), Plus(Plus(d2, i.own[p], 1), u, -1)) /\ Keeps(i, Write(i, p, u), {p})
    BY <1>1, <1>2, <1>5, <1>7, WriteGood
  <2> QED
    BY <1>6, <2>1
<1>9. Plus(Plus(d2, old, 1), u, -1) = Zero
  <2> HIDE DEF old
  <2> QED
    BY <1>1, <1>7, DeltaSwap DEF d1, d2
<1>10. SetField(h, o, v) = Write(i, p, u)
  BY DEF SetField, i, g, u, p
<1>11. Keeps(h, Write(i, p, u), {})
  <2>1. Keeps(h, i, {} \cup {})
    BY <1>4, <1>6, KeepsTrans
  <2>2. Keeps(i, Write(i, p, u), {})
    BY <1>8, KeepsField DEF p
  <2>3. Keeps(h, Write(i, p, u), ({} \cup {}) \cup {})
    BY <2>1, <2>2, KeepsTrans
  <2>4. ({} \cup {}) \cup {} = {}
    OBVIOUS
  <2> QED
    BY <2>3, <2>4
<1> QED
  BY <1>8, <1>9, <1>10, <1>11

\* A static field is a root.
LEMMA StaticPlaces ==
    ASSUME NEW s \in Statics PROVE StaticP(s) \in Roots
BY DEF Places, Roots, Fields, StaticP, FieldP

\* GarbageCollector::SetStaticField keeps the books and the other roots.
LEMMA SetStaticFieldGood ==
    ASSUME NEW h, Good(h, Zero), NEW s \in Statics, NEW v \in Objects, Known(h, v)
    PROVE  Good(SetStaticField(h, s, v), Zero) /\ Keeps(h, SetStaticField(h, s, v), {StaticP(s)})
<1> DEFINE p == StaticP(s)
           old == h.own[p]  g == DestroyInstance(h, old)  i == IncrementReference(g, v)
           j == IncrementReference(i, v)  k == Account(j, v, 1)
           d1 == Plus(Zero, old, -1)  d2 == Plus(d1, v, 1)  d3 == Plus(d2, v, 1)
<1>1. p \in Roots /\ p \in Places /\ h \in Heap /\ Known(h, old) /\ Zero \in Deltas
  BY ZeroSafe, StaticPlaces DEF Roots, Good
<1>2. d1 \in Deltas /\ d2 \in Deltas /\ d3 \in Deltas
  BY <1>1, DeltaFacts
<1>3. Good(DecrementReference(h, old), d1)
  BY <1>1, DecrementGood
<1>4. RootSafe(h, d1)
  <2>1. ASSUME NEW o \in Objects PROVE d1[o] + RootHolders(h.own, o) >= 0
    <3>1. RootHolders(h.own, o) \in Nat /\ (o = old => RootHolders(h.own, o) > 0)
      BY <1>1, RootHoldersNat
    <3>2. d1[o] = IF o = old THEN -1 ELSE 0
      BY DEF Plus, Zero
    <3> HIDE DEF d1, old
    <3> QED
      BY <3>1, <3>2
  <2> QED
    BY <2>1 DEF RootSafe
<1> HIDE DEF d1, p
<1>5. Good(g, d1) /\ Keeps(h, g, {})
  BY <1>1, <1>2, <1>3, <1>4, DestroyGood
<1> HIDE DEF g
<1>6. Known(g, v) /\ g.own[p] = old
  BY <1>1, <1>5, KeepsKnown DEF Keeps
<1>7. Good(i, d2) /\ SameObjects(g, i)
  BY <1>2, <1>5, <1>6, IncrementGood
<1> HIDE DEF i, d2
<1>8. Known(i, v) /\ Keeps(g, i, {}) /\ i.own[p] = old
  BY <1>6, <1>7, SameKeeps DEF SameObjects
<1>9. Good(j, d3) /\ SameObjects(i, j)
  BY <1>2, <1>7, <1>8, IncrementGood
<1> HIDE DEF j, d3
<1>10. Known(j, v) /\ Keeps(i, j, {}) /\ j.own[p] = old
  BY <1>8, <1>9, SameKeeps DEF SameObjects
<1>11. Good(k, Plus(d3, v, -1)) /\ SameObjects(j, k)
  <2>1. 1 \in Nat
    OBVIOUS
  <2> HIDE DEF k
  <2> QED
    BY <1>2, <1>9, <1>10, <2>1, AccountGood DEF k
<1> HIDE DEF k
<1>12. Plus(d3, v, -1) = d2
  <2>1. Plus(Plus(d2, v, 1), v, -1) = Plus(d2, v, 1 + -1) /\ 1 + -1 = 0 /\ Plus(d2, v, 0) = d2
    BY <1>2, DeltaFacts
  <2> QED
    BY <2>1 DEF d3
<1>13. Known(k, v) /\ Keeps(j, k, {}) /\ k.own[p] = old
  BY <1>10, <1>11, SameKeeps DEF SameObjects
<1>14. Good(Write(k, p, v), Plus(Plus(d2, old, 1), v, -1)) /\ Keeps(k, Write(k, p, v), {p})
  <2>1. Good(Write(k, p, v), Plus(Plus(d2, k.own[p], 1), v, -1)) /\ Keeps(k, Write(k, p, v), {p})
    BY <1>1, <1>2, <1>11, <1>12, <1>13, WriteGood
  <2> QED
    BY <1>13, <2>1
<1>15. Plus(Plus(d2, old, 1), v, -1) = Zero
  <2> HIDE DEF old
  <2> QED
    BY <1>1, DeltaSwap DEF d1, d2
<1>16. SetStaticField(h, s, v) = Write(k, p, v)
  BY DEF SetStaticField, k, j, i, g, p
<1>17. Keeps(h, Write(k, p, v), {p})
  <2>1. Keeps(h, i, {} \cup {})
    BY <1>5, <1>8, KeepsTrans
  <2>2. Keeps(i, k, {} \cup {})
    BY <1>10, <1>13, KeepsTrans
  <2>3. Keeps(h, k, ({} \cup {}) \cup ({} \cup {}))
    BY <2>1, <2>2, KeepsTrans
  <2>4. Keeps(h, Write(k, p, v), (({} \cup {}) \cup ({} \cup {})) \cup {p})
    BY <1>14, <2>3, KeepsTrans
  <2>5. (({} \cup {}) \cup ({} \cup {})) \cup {p} = {p}
    OBVIOUS
  <2> QED
    BY <2>4, <2>5
<1> QED
  BY <1>14, <1>15, <1>16, <1>17 DEF p

\* The places of a frame are roots.
LEMMA FramePlaceRoots ==
    ASSUME NEW f \in 1 .. MaxFrames
    PROVE  ExcP(f) \in Roots /\ \A i \in Locals : LocalP(f, i) \in Roots
BY DEF Places, Roots, Fields, ExcP, LocalP, FieldP

\* CurrentException is written without a count.
LEMMA SetExceptionGood ==
    ASSUME NEW h, NEW d \in Deltas, Good(h, d), NEW f \in 1 .. MaxFrames, NEW v, Known(h, v)
    PROVE  LET g == SetException(h, f, v)
           IN  Good(g, Plus(d, v, -1)) /\ Keeps(h, g, {ExcP(f)}) /\ g.own[ExcP(f)] = v
<1> DEFINE p == ExcP(f)  old == h.own[p]  k == Account(h, old, 1)  d1 == Plus(d, old, -1)
<1>1. p \in Places /\ h \in Heap /\ Known(h, old) /\ d1 \in Deltas
  BY FramePlaceRoots, DeltaFacts DEF Roots, Good
<1>2. Good(k, d1) /\ SameObjects(h, k)
  <2>1. 1 \in Nat
    OBVIOUS
  <2> HIDE DEF k
  <2> QED
    BY <1>1, <2>1, AccountGood DEF k
<1> HIDE DEF k, p
<1>3. k \in Heap /\ Known(k, v) /\ Keeps(h, k, {}) /\ k.own[p] = old
  BY <1>2, SameKeeps DEF SameObjects
<1>4. Good(Write(k, p, v), Plus(Plus(d1, k.own[p], 1), v, -1)) /\ Keeps(k, Write(k, p, v), {p})
  BY <1>1, <1>2, <1>3, WriteGood
<1>5. Plus(Plus(d1, k.own[p], 1), v, -1) = Plus(d, v, -1)
  <2>1. Plus(Plus(d, old, -1), old, 1) = Plus(d, old, -1 + 1) /\ -1 + 1 = 0 /\ Plus(d, old, 0) = d
    BY DeltaFacts
  <2> HIDE DEF old
  <2> QED
    BY <1>3, <2>1 DEF d1
<1>6. Keeps(h, Write(k, p, v), {p})
  <2>1. Keeps(h, Write(k, p, v), {} \cup {p}) /\ {} \cup {p} = {p}
    BY <1>3, <1>4, KeepsTrans
  <2> QED
    BY <2>1
<1>7. Write(k, p, v).own[p] = v
  <2>1. Write(k, p, v).own = [k.own EXCEPT ![p] = v]
    BY <1>1, <1>3, WriteFields DEF Known
  <2>2. k.own \in [Places -> Entry]
    BY <1>3 DEF Heap
  <2> QED
    BY <1>1, <2>1, <2>2
<1>8. SetException(h, f, v) = Write(k, p, v)
  BY DEF SetException, k, p
<1> QED
  BY <1>4, <1>5, <1>6, <1>7, <1>8 DEF p

-----------------------------------------------------------------------------
(* Drains                                                                  *)

\* The heaps that an instruction which leaves the account even may make of h.
Reach(h, P) == {g \in Heap : Good(g, Zero) /\ Keeps(h, g, P)}

\* Balanced heaps that leave the roots but those of P alone, one after
\* another.
LEMMA ReachFacts ==
    ASSUME NEW h, NEW P
    PROVE  /\ Good(h, Zero) => h \in Reach(h, P)
           /\ \A g, k, Q : g \in Reach(h, P) /\ Good(k, Zero) /\ Keeps(g, k, Q) /\ Q \subseteq P => k \in Reach(h, P)
<1>1. Good(h, Zero) => h \in Reach(h, P)
  BY DEF Reach, Good, Keeps
<1>2. ASSUME NEW g, NEW k, NEW Q, g \in Reach(h, P), Good(k, Zero), Keeps(g, k, Q), Q \subseteq P
      PROVE  k \in Reach(h, P)
  <2>1. Keeps(h, k, P \cup Q) /\ P \cup Q = P
    BY <1>2, KeepsTrans DEF Reach
  <2> QED
    BY <1>2, <2>1 DEF Reach, Good
<1> QED
  BY <1>1, <1>2

\* DrainEvalReferences keeps the books and the roots: what it releases is
\* borrowed, so the count is taken from the account.
LEMMA DrainEvalGood ==
    ASSUME NEW h, Good(h, Zero), NEW eval \in Seq(Entry), \A i \in 1 .. Len(eval) : Known(h, eval[i])
    PROVE  Good(DrainEval(h, eval), Zero) /\ Keeps(h, DrainEval(h, eval), {})
<1> DEFINE m == Len(eval)  W == Reach(h, {})
           Body(g, n) == LET v == eval[Len(eval) + 1 - n]
                         IN  IF g.fault # "none" THEN g ELSE ReleaseValue(Take(g, v), v)
           step == [n \in 0 .. m - 1 |-> [g \in W |-> Body(g, n + 1)]]
<1>1. m \in Nat
  BY LenProperties
<1>2. ASSUME NEW g \in W, NEW n \in 0 .. m - 1 PROVE Body(g, n + 1) \in W
  <2>1. Len(eval) + 1 - (n + 1) \in 1 .. Len(eval)
    BY <1>1
  <2> DEFINE v == eval[Len(eval) + 1 - (n + 1)]
  <2>2. Known(h, v)
    BY <2>1
  <2>3. Known(g, v) /\ Good(g, Zero)
    BY <2>2, KeepsKnown DEF Reach
  <2> HIDE DEF v
  <2>4. Good(ReleaseValue(Take(g, v), v), Zero) /\ Keeps(g, ReleaseValue(Take(g, v), v), {})
    BY <2>3, ReleaseTakenGood
  <2>5. ReleaseValue(Take(g, v), v) \in W
    BY <2>4, ReachFacts
  <2> QED
    BY <2>5 DEF v
<1> HIDE DEF Body, W
<1>3. step \in [0 .. m - 1 -> [W -> W]] /\ h \in W
  BY <1>2, ReachFacts DEF W
<1>4. \A n \in 0 .. m - 1, g \in W : step[n][g] = Body(g, n + 1)
  OBVIOUS
<1> HIDE DEF step, m
<1>5. PICK g : g \in [0 .. m -> W] /\ g[0] = h /\ \A n \in 0 .. m - 1 : g[n + 1] = step[n][g[n]]
  <2>1. \E g : IteratesTo(g, W, m, h, step)
    BY <1>1, <1>3, FiniteRecursion
  <2> QED
    BY <2>1 DEF IteratesTo
<1> DEFINE after == CHOOSE f : f = [n \in 0 .. m |-> IF n = 0 THEN h ELSE Body(f[n - 1], n)]
<1>6. g = [n \in 0 .. m |-> IF n = 0 THEN h ELSE Body(g[n - 1], n)]
  <2>1. ASSUME NEW n \in 0 .. m, n # 0 PROVE g[n] = Body(g[n - 1], n)
    <3>1. n - 1 \in 0 .. m - 1 /\ n - 1 \in 0 .. m /\ (n - 1) + 1 = n
      BY <1>1, <2>1
    <3> QED
      BY <1>4, <1>5, <3>1
  <2> QED
    BY <1>5, <2>1
<1>7. after = [n \in 0 .. m |-> IF n = 0 THEN h ELSE Body(after[n - 1], n)]
  BY <1>6
<1>8. DrainEval(h, eval) = after[m]
  BY DEF DrainEval, Body, m
<1> HIDE DEF after
<1> DEFINE S == {n \in Nat : n <= m => after[n] \in W}
<1>9. S = Nat
  <2>1. 0 \in S
    BY <1>1, <1>3, <1>7
  <2>2. ASSUME NEW n \in S PROVE n + 1 \in S
    <3> SUFFICES ASSUME n + 1 <= m PROVE after[n + 1] \in W
      OBVIOUS
    <3>1. n \in 0 .. m - 1 /\ n + 1 \in 0 .. m /\ n + 1 # 0 /\ (n + 1) - 1 = n /\ n <= m
      BY <1>1
    <3>2. after[n] \in W
      BY <3>1
    <3>3. after[n + 1] = Body(after[n], n + 1)
      BY <1>7, <3>1
    <3> QED
      BY <1>2, <3>1, <3>2, <3>3
  <2> HIDE DEF S
  <2> QED
    BY <2>1, <2>2, NatSet DEF S
<1>10. after[m] \in W
  BY <1>1, <1>9
<1> QED
  BY <1>8, <1>10 DEF W, Reach

FramePlaces(f) == {LocalP(f, i) : i \in Locals} \cup {ExcP(f)}

\* The locals of the frame do not refer to an object any more.
LEMMA DrainLocalsGood ==
    ASSUME NEW h, Good(h, Zero), NEW f \in 1 .. MaxFrames
    PROVE  LET g == DrainLocals(h, f)
           IN  /\ Good(g, Zero) /\ Keeps(h, g, FramePlaces(f))
               /\ g.own[ExcP(f)] = h.own[ExcP(f)]
               /\ g.fault = "none" => \A i \in Locals : g.own[LocalP(f, i)] = Null
<1> DEFINE m == MaxLocal + 1  P == {LocalP(f, i) : i \in Locals}  W == Reach(h, P)
           Body(g, n) == LET p == LocalP(f, n - 1)
                         IN  IF g.fault # "none" THEN g ELSE DestroyInstance(Write(g, p, Null), g.own[p])
           step == [n \in 0 .. m - 1 |-> [g \in W |-> Body(g, n + 1)]]
<1>1. m \in Nat /\ Locals = 0 .. m - 1
  BY HeapAssumption DEF Locals
<1>2. ASSUME NEW g \in W, NEW n \in 0 .. m - 1
      PROVE  LET k == Body(g, n + 1)
             IN  /\ k \in W /\ Keeps(g, k, {LocalP(f, n)})
                 /\ g.fault = "none" => k.own[LocalP(f, n)] = Null
  <2> DEFINE p == LocalP(f, (n + 1) - 1)  old == g.own[p]  w == Write(g, p, Null)
             k == DestroyInstance(w, old)
  <2>1. (n + 1) - 1 = n /\ n \in Locals
    BY <1>1
  <2>2. p \in Roots /\ p \in Places /\ p \in P
    BY <2>1, FramePlaceRoots DEF Roots
  <2>3. Good(g, Zero) /\ g \in Heap /\ Zero \in Deltas
    BY ZeroSafe DEF Reach
  <2>4. Known(g, Null) /\ Null \notin Objects /\ Known(g, old)
    BY <2>2, <2>3, ObjectsNat DEF Known, Entry, Value, Good
  <2> HIDE DEF p
  <2>5. Good(w, Plus(Plus(Zero, old, 1), Null, -1)) /\ Keeps(g, w, {p})
    BY <2>2, <2>3, <2>4, WriteGood
  <2>6. w.own[p] = Null
    <3>1. w.own = [g.own EXCEPT ![p] = Null] /\ g.own \in [Places -> Entry]
      BY <2>2, <2>3, <2>4, WriteFields DEF Known, Heap
    <3> QED
      BY <2>2, <3>1
  <2>7. Plus(Plus(Zero, old, 1), Null, -1) = Plus(Zero, old, 1) /\ Plus(Zero, old, 1) \in Deltas
        /\ Plus(Plus(Zero, old, 1), old, -1) = Zero
    <3>1. Plus(Zero, old, 1) \in Deltas
      BY <2>3, DeltaFacts
    <3>2. Plus(Plus(Zero, old, 1), old, -1) = Plus(Zero, old, 1 + -1) /\ 1 + -1 = 0 /\ Plus(Zero, old, 0) = Zero
      BY <2>3, DeltaFacts
    <3> QED
      BY <2>4, <3>1, <3>2, DeltaFacts
  <2> HIDE DEF w, old
  <2>8. Known(w, old) /\ w \in Heap /\ RootSafe(w, Zero)
    BY <2>4, <2>5, KeepsKnown, ZeroSafe DEF Good
  <2>9. Good(DecrementReference(w, old), Zero)
    BY <2>5, <2>7, <2>8, DecrementGood
  <2>10. Good(k, Zero) /\ Keeps(w, k, {})
    BY <2>3, <2>8, <2>9, DestroyGood
  <2> HIDE DEF k
  <2>11. Keeps(g, k, {p})
    <3>1. Keeps(g, k, {p} \cup {}) /\ {p} \cup {} = {p}
      BY <2>5, <2>10, KeepsTrans
    <3> QED
      BY <3>1
  <2>12. k.own[p] = Null
    BY <2>2, <2>6, <2>10 DEF Keeps
  <2>13. k \in W
    BY <2>2, <2>10, <2>11, ReachFacts
  <2>14. Body(g, n + 1) = IF g.fault # "none" THEN g ELSE k
    BY DEF k, w, old, p
  <2>15. p = LocalP(f, n)
    BY <2>1 DEF p
  <2>16. Keeps(g, g, {p})
    BY DEF Keeps
  <2> HIDE DEF Body, W
  <2> QED
    BY <2>11, <2>12, <2>13, <2>14, <2>15, <2>16
<1> HIDE DEF Body, W
<1>3. step \in [0 .. m - 1 -> [W -> W]] /\ h \in W
  BY <1>2, ReachFacts DEF W
<1>4. \A n \in 0 .. m - 1, g \in W : step[n][g] = Body(g, n + 1)
  OBVIOUS
<1> HIDE DEF step, m
<1>5. PICK g : g \in [0 .. m -> W] /\ g[0] = h /\ \A n \in 0 .. m - 1 : g[n + 1] = step[n][g[n]]
  <2>1. \E g : IteratesTo(g, W, m, h, step)
    BY <1>1, <1>3, FiniteRecursion
  <2> QED
    BY <2>1 DEF IteratesTo
<1> DEFINE after == CHOOSE t : t = [n \in 0 .. m |-> IF n = 0 THEN h ELSE Body(t[n - 1], n)]
<1>6. g = [n \in 0 .. m |-> IF n = 0 THEN h ELSE Body(g[n - 1], n)]
  <2>1. ASSUME NEW n \in 0 .. m, n # 0 PROVE g[n] = Body(g[n - 1], n)
    <3>1. n - 1 \in 0 .. m - 1 /\ n - 1 \in 0 .. m /\ (n - 1) + 1 = n
      BY <1>1, <2>1
    <3> QED
      BY <1>4, <1>5, <3>1
  <2> QED
    BY <1>5, <2>1
<1>7. after = [n \in 0 .. m |-> IF n = 0 THEN h ELSE Body(after[n - 1], n)]
  BY <1>6
<1>8. DrainLocals(h, f) = after[m]
  BY DEF DrainLocals, Body, m
<1> HIDE DEF after
<1> DEFINE Drained(n) == after[n].fault = "none" => \A i \in 0 .. n - 1 : after[n].own[LocalP(f, i)] = Null
           S == {n \in Nat : n <= m => after[n] \in W /\ Drained(n)}
<1>9. S = Nat
  <2>1. 0 \in S
    BY <1>1, <1>3, <1>7
  <2>2. ASSUME NEW n \in S PROVE n + 1 \in S
    <3> SUFFICES ASSUME n + 1 <= m PROVE after[n + 1] \in W /\ Drained(n + 1)
      OBVIOUS
    <3>1. n \in Nat /\ n \in 0 .. m - 1 /\ n + 1 \in 0 .. m /\ n + 1 # 0 /\ (n + 1) - 1 = n /\ n <= m
      BY <1>1
    <3>2. after[n] \in W /\ Drained(n)
      BY <3>1
    <3>3. after[n + 1] = Body(after[n], n + 1)
      BY <1>7, <3>1
    <3>4. /\ after[n + 1] \in W /\ Keeps(after[n], after[n + 1], {LocalP(f, n)})
          /\ after[n].fault = "none" => after[n + 1].own[LocalP(f, n)] = Null
      BY <1>2, <3>1, <3>2, <3>3
    <3>5. ASSUME after[n + 1].fault = "none", NEW i \in 0 .. (n + 1) - 1
          PROVE  after[n + 1].own[LocalP(f, i)] = Null
      <4>1. after[n].fault = "none"
        BY <3>4, <3>5 DEF Keeps
      <4>2. CASE i = n
        BY <3>4, <4>1, <4>2
      <4>3. CASE i # n
        <5>1. i \in 0 .. n - 1 /\ i \in Locals
          BY <1>1, <3>1, <4>3
        <5>2. after[n].own[LocalP(f, i)] = Null
          BY <3>2, <4>1, <5>1
        <5>3. LocalP(f, i) \in Roots \ {LocalP(f, n)}
          BY <4>3, <5>1, FramePlaceRoots DEF LocalP
        <5> QED
          BY <3>4, <5>2, <5>3 DEF Keeps
      <4> QED
        BY <4>2, <4>3
    <3> QED
      BY <3>4, <3>5
  <2> HIDE DEF S
  <2> QED
    BY <2>1, <2>2, NatSet DEF S
<1>10. after[m] \in W /\ Drained(m)
  <2>1. m \in S /\ m <= m
    BY <1>1, <1>9
  <2> QED
    BY <2>1
<1>11. Keeps(h, after[m], P) /\ Good(after[m], Zero)
  BY <1>10 DEF W, Reach
<1>12. Keeps(h, after[m], FramePlaces(f))
  BY <1>11 DEF Keeps, FramePlaces
<1>13. after[m].own[ExcP(f)] = h.own[ExcP(f)]
  <2>1. ExcP(f) \in Roots \ P
    BY FramePlaceRoots DEF ExcP, LocalP
  <2> QED
    BY <1>11, <2>1 DEF Keeps
<1>14. after[m].fault = "none" => \A i \in Locals : after[m].own[LocalP(f, i)] = Null
  BY <1>1, <1>10
<1> QED
  BY <1>8, <1>11, <1>12, <1>13, <1>14

-----------------------------------------------------------------------------
(* Frames                                                                  *)

KnownEval(h, e) == e \in Seq(Entry) /\ \A i \in 1 .. Len(e) : Known(h, e[i])

KnownFrame(h, fr) == fr \in Frame /\ Known(h, fr.ctor) /\ KnownEval(h, fr.eval)

KnownFrames(h, fs) == fs \in Seq(Frame) /\ \A f \in 1 .. Len(fs) : KnownFrame(h, fs[f])

\* No place of a frame that has been left, or is not entered yet, refers to an
\* object.
Beyond(h, depth) ==
    h.fault = "none" => \A f \in 1 .. MaxFrames : f > depth => \A p \in FramePlaces(f) : h.own[p] = Null

\* Eval stacks whose entries are allocated.
LEMMA EvalFacts ==
    ASSUME NEW h
    PROVE  /\ KnownEval(h, << >>)
           /\ \A v : Known(h, v) => KnownEval(h, << v >>)
           /\ \A a, b : KnownEval(h, a) /\ KnownEval(h, b) => KnownEval(h, a \o b)
           /\ \A a, n : KnownEval(h, a) /\ n \in 0 .. Len(a) => KnownEval(h, SubSeq(a, 1, n))
<1>1. KnownEval(h, << >>)
  BY DEF KnownEval
<1>2. ASSUME NEW v, Known(h, v) PROVE KnownEval(h, << v >>)
  BY <1>2 DEF KnownEval, Known
<1>3. ASSUME NEW a, NEW b, KnownEval(h, a), KnownEval(h, b) PROVE KnownEval(h, a \o b)
  <2>1. a \o b \in Seq(Entry) /\ Len(a \o b) = Len(a) + Len(b)
        /\ \A i \in 1 .. Len(a) + Len(b) : (a \o b)[i] = IF i <= Len(a) THEN a[i] ELSE b[i - Len(a)]
    BY <1>3, ConcatProperties DEF KnownEval
  <2>2. Len(a) \in Nat /\ Len(b) \in Nat
    BY <1>3, LenProperties DEF KnownEval
  <2>3. ASSUME NEW i \in 1 .. Len(a \o b) PROVE Known(h, (a \o b)[i])
    <3>1. CASE i <= Len(a)
      BY <1>3, <2>1, <2>2, <3>1 DEF KnownEval
    <3>2. CASE ~(i <= Len(a))
      <4>1. i - Len(a) \in 1 .. Len(b)
        BY <2>1, <2>2, <3>2
      <4> QED
        BY <1>3, <2>1, <2>2, <3>2, <4>1 DEF KnownEval
    <3> QED
      BY <3>1, <3>2
  <2> QED
    BY <2>1, <2>3 DEF KnownEval
<1>4. ASSUME NEW a, NEW n, KnownEval(h, a), n \in 0 .. Len(a) PROVE KnownEval(h, SubSeq(a, 1, n))
  <2>1. a \in Seq(Entry) /\ Len(a) \in Nat /\ n \in Int /\ \A i \in 1 .. n : a[i] \in Entry
    BY <1>4, LenProperties, ElementOfSeq DEF KnownEval
  <2>2. /\ SubSeq(a, 1, n) \in Seq(Entry)
        /\ Len(SubSeq(a, 1, n)) = IF 1 <= n THEN n - 1 + 1 ELSE 0
        /\ \A i \in 1 .. n - 1 + 1 : SubSeq(a, 1, n)[i] = a[1 + i - 1]
    BY <2>1, SubSeqProperties
  <2>3. ASSUME NEW i \in 1 .. Len(SubSeq(a, 1, n)) PROVE Known(h, SubSeq(a, 1, n)[i])
    <3>1. i \in 1 .. n /\ i \in 1 .. Len(a) /\ 1 + i - 1 = i
      BY <1>4, <2>1, <2>2
    <3>2. SubSeq(a, 1, n)[i] = a[i]
      BY <2>1, <2>2, <3>1
    <3> QED
      BY <1>4, <3>1, <3>2 DEF KnownEval
  <2> QED
    BY <2>2, <2>3 DEF KnownEval
<1> QED
  BY <1>1, <1>2, <1>3, <1>4

\* An entry is popped.
LEMMA FrontKnown ==
    ASSUME NEW h, NEW a, KnownEval(h, a), a # << >>
    PROVE  KnownEval(h, Front(a)) /\ Len(Front(a)) = Len(a) - 1
<1>1. /\ Front(a) \in Seq(Entry) /\ Len(a) > 0 /\ Len(a) \in Nat /\ Len(Front(a)) = Len(a) - 1
      /\ \A i \in 1 .. Len(a) - 1 : Front(a)[i] = a[i]
  BY FrontLast, LenProperties DEF KnownEval
<1>2. ASSUME NEW i \in 1 .. Len(Front(a)) PROVE Known(h, Front(a)[i])
  <2>1. i \in 1 .. Len(a) - 1 /\ i \in 1 .. Len(a)
    BY <1>1
  <2> QED
    BY <1>1, <2>1 DEF KnownEval
<1> QED
  BY <1>1, <1>2 DEF KnownEval

\* The entries of all frames stay allocated.
LEMMA KeepsFrames ==
    ASSUME NEW h, NEW g, NEW P, Keeps(h, g, P)
    PROVE  /\ \A e : KnownEval(h, e) => KnownEval(g, e)
           /\ \A fs : KnownFrames(h, fs) => KnownFrames(g, fs)
<1>1. ASSUME NEW e, KnownEval(h, e) PROVE KnownEval(g, e)
  BY <1>1, KeepsKnown DEF KnownEval
<1>2. ASSUME NEW fr, KnownFrame(h, fr) PROVE KnownFrame(g, fr)
  BY <1>1, <1>2, KeepsKnown DEF KnownFrame
<1> QED
  BY <1>1, <1>2 DEF KnownFrames

\* A frame is replaced; an operator, so that it stays closed where it is used.
Replaced(fs, n, fr) == [fs EXCEPT ![n] = fr]

LEMMA FrameReplaced ==
    ASSUME NEW h, NEW fs, KnownFrames(h, fs), NEW n \in 1 .. Len(fs), NEW fr, KnownFrame(h, fr)
    PROVE  KnownFrames(h, Replaced(fs, n, fr)) /\ Len(Replaced(fs, n, fr)) = Len(fs)
<1>1. fs \in Seq(Frame) /\ fr \in Frame
  BY DEF KnownFrames, KnownFrame
<1>2. /\ Replaced(fs, n, fr) \in Seq(Frame) /\ Len(Replaced(fs, n, fr)) = Len(fs)
      /\ \A i \in 1 .. Len(fs) : Replaced(fs, n, fr)[i] = IF i = n THEN fr ELSE fs[i]
  BY <1>1, ExceptSeq DEF Replaced
<1> QED
  BY <1>2 DEF KnownFrames

\* A frame is entered.
LEMMA FrameAppended ==
    ASSUME NEW h, NEW fs, KnownFrames(h, fs), NEW fr, KnownFrame(h, fr)
    PROVE  KnownFrames(h, Append(fs, fr)) /\ Len(Append(fs, fr)) = Len(fs) + 1
<1>1. fs \in Seq(Frame) /\ fr \in Frame
  BY DEF KnownFrames, KnownFrame
<1>2. /\ Append(fs, fr) \in Seq(Frame) /\ Len(Append(fs, fr)) = Len(fs) + 1
      /\ \A i \in 1 .. Len(fs) : Append(fs, fr)[i] = fs[i]
      /\ Append(fs, fr)[Len(fs) + 1] = fr
      /\ Len(fs) \in Nat
  BY <1>1, AppendProperties, LenProperties
<1>3. ASSUME NEW i \in 1 .. Len(fs) + 1 PROVE KnownFrame(h, Append(fs, fr)[i])
  <2>1. CASE i = Len(fs) + 1
    BY <1>2, <2>1
  <2>2. CASE i # Len(fs) + 1
    <3>1. i \in 1 .. Len(fs)
      BY <1>2, <2>2
    <3> QED
      BY <1>2, <3>1 DEF KnownFrames
  <2> QED
    BY <2>1, <2>2
<1> QED
  BY <1>2, <1>3 DEF KnownFrames

\* A frame is left.
LEMMA FrameRemoved ==
    ASSUME NEW h, NEW fs, KnownFrames(h, fs), fs # << >>
    PROVE  /\ KnownFrames(h, Front(fs)) /\ Len(Front(fs)) = Len(fs) - 1
           /\ \A i \in 1 .. Len(fs) - 1 : Front(fs)[i] = fs[i]
<1>1. /\ Front(fs) \in Seq(Frame) /\ Len(fs) > 0 /\ Len(fs) \in Nat /\ Len(Front(fs)) = Len(fs) - 1
      /\ \A i \in 1 .. Len(fs) - 1 : Front(fs)[i] = fs[i]
  BY FrontLast, LenProperties DEF KnownFrames
<1>2. ASSUME NEW i \in 1 .. Len(Front(fs)) PROVE KnownFrame(h, Front(fs)[i])
  <2>1. i \in 1 .. Len(fs) - 1 /\ i \in 1 .. Len(fs)
    BY <1>1
  <2> QED
    BY <1>1, <2>1 DEF KnownFrames
<1> QED
  BY <1>1, <1>2 DEF KnownFrames

\* Frames that are not entered keep their places null.
LEMMA BeyondKept ==
    ASSUME NEW h, NEW g, NEW P, NEW n, Beyond(h, n), Keeps(h, g, P),
           \A f \in 1 .. MaxFrames : f > n => FramePlaces(f) \cap P = {}
    PROVE  Beyond(g, n)
<1>1. ASSUME g.fault = "none", NEW f \in 1 .. MaxFrames, f > n, NEW p \in FramePlaces(f)
      PROVE  g.own[p] = Null
  <2>1. p \in Roots \ P
    BY <1>1, FramePlaceRoots DEF FramePlaces
  <2>2. h.fault = "none" /\ g.own[p] = h.own[p]
    BY <1>1, <2>1 DEF Keeps
  <2> QED
    BY <1>1, <2>2 DEF Beyond
<1> QED
  BY <1>1 DEF Beyond

-----------------------------------------------------------------------------
(* The invariant                                                           *)

\* Between instructions the account is even.  After Terminate nothing is left.
HeapInv ==
    /\ TypeOK
    /\ \A l \in Literals : Known(heap, interned[l])
    /\ KnownFrames(heap, frames)
    /\ frames # << >> => Good(heap, Zero) /\ Beyond(heap, Len(frames))
    /\ frames = << >> => /\ \A p \in Places : heap.own[p] = Null
                         /\ \A o \in Objects : heap.st[o] # "live"

\* The states of the theorems' conclusion.
LEMMA HeapInvProperties == HeapInv => TypeOK /\ RefCountExact /\ OwnedAlive
<1> SUFFICES ASSUME HeapInv PROVE RefCountExact /\ OwnedAlive
  BY DEF HeapInv
<1>1. CASE frames = << >>
  <2>1. RefCountExact
    BY <1>1 DEF HeapInv, RefCountExact
  <2>2. OwnedAlive
    BY <1>1, ObjectsNat DEF HeapInv, OwnedAlive
  <2> QED
    BY <2>1, <2>2
<1>2. CASE frames # << >>
  <2>1. Good(heap, Zero)
    BY <1>2 DEF HeapInv
  <2>2. ASSUME heap.fault = "none", NEW o \in Objects
        PROVE  /\ heap.st[o] = "live" => heap.count[o] = Owners(o) + heap.spare[o]
               /\ \A p \in Places : heap.own[p] = o => heap.st[o] = "live" \/ o \in heap.short
    <3>1. Balanced(heap, Zero, o) /\ heap \in Heap /\ \A p \in Places : Known(heap, heap.own[p])
      BY <2>1, <2>2 DEF Good
    <3>2. Owners(o) = Holders(heap.own, o) /\ Zero[o] = 0
      BY DEF Owners, Holders, Held, Zero
    <3>3. heap.count[o] \in Nat /\ heap.spare[o] \in Int /\ Holders(heap.own, o) \in Nat
          /\ heap.st[o] \in {"unused", "live", "freed"}
      BY <3>1, HeldFinite DEF Heap
    <3>4. heap.st[o] = "live" => heap.count[o] = Owners(o) + heap.spare[o]
      BY <3>1, <3>2, <3>3 DEF Balanced
    <3>5. ASSUME NEW p \in Places, heap.own[p] = o, heap.st[o] # "live", o \notin heap.short PROVE FALSE
      <4>1. heap.st[o] = "freed"
        BY <3>1, <3>3, <3>5 DEF Known
      <4>2. heap.count[o] = 0 /\ heap.spare[o] >= 0 /\ heap.count[o] = Holders(heap.own, o) + heap.spare[o]
        BY <3>1, <3>2, <3>3, <3>5, <4>1 DEF Balanced
      <4>3. Holders(heap.own, o) = 0
        BY <3>3, <4>2
      <4>4. Held(heap.own, o) = {}
        BY <4>3, HeldFinite, FS_EmptySet DEF Holders
      <4> QED
        BY <3>5, <4>4 DEF Held
    <3> QED
      BY <3>4, <3>5
  <2> QED
    BY <2>2 DEF RefCountExact, OwnedAlive
<1> QED
  BY <1>1, <1>2

\* The virtual machine starts with balanced books.
LEMMA HeapInvInit == Init => HeapInv
<1> SUFFICES ASSUME Init PROVE HeapInv
  OBVIOUS
<1>1. Null \in Value /\ Null \in Entry /\ Null \notin Objects
  BY ObjectsNat DEF Value, Entry
<1>2. /\ heap.st = [o \in Objects |-> "unused"] /\ heap.kind = [o \in Objects |-> "object"]
      /\ heap.count = [o \in Objects |-> 0] /\ heap.own = [p \in Places |-> Null]
      /\ heap.spare = [o \in Objects |-> 0] /\ heap.short = {} /\ heap.fault = "none"
  BY DEF Init
<1>3. heap \in Heap
  BY <1>1 DEF Init, Heap, Kinds
<1>4. NoFrame \in Frame /\ KnownFrame(heap, NoFrame)
  BY <1>1, EvalFacts DEF NoFrame, Frame, KnownFrame, Known
<1>5. frames \in Seq(Frame) /\ Len(frames) = 1 /\ frames # << >> /\ frames[1] = NoFrame
  BY <1>4 DEF Init
<1>6. KnownFrames(heap, frames)
  BY <1>4, <1>5 DEF KnownFrames
<1>7. TypeOK /\ \A l \in Literals : Known(heap, interned[l])
  BY <1>1, <1>3, <1>5, HeapAssumption DEF Init, TypeOK, Known
<1>8. Good(heap, Zero)
  <2>1. \A p \in Places : Known(heap, heap.own[p])
    BY <1>1, <1>2 DEF Known
  <2>2. ASSUME NEW o \in Objects PROVE Balanced(heap, Zero, o)
    <3>1. Held(heap.own, o) = {}
      BY <1>1, <1>2 DEF Held
    <3>2. Holders(heap.own, o) = 0
      BY <3>1, FS_EmptySet DEF Holders
    <3>3. heap.st[o] = "unused" /\ heap.count[o] = 0 /\ heap.spare[o] = 0 /\ o \notin heap.short /\ Zero[o] = 0
      BY <1>2 DEF Zero
    <3> QED
      BY <3>2, <3>3 DEF Balanced
  <2> QED
    BY <1>3, <2>1, <2>2 DEF Good
<1>9. Beyond(heap, Len(frames))
  <2>1. \A f \in 1 .. MaxFrames : \A p \in FramePlaces(f) : p \in Places
    BY FramePlaceRoots DEF FramePlaces, Roots
  <2> QED
    BY <1>2, <2>1 DEF Beyond
<1> QED
  BY <1>5, <1>6, <1>7, <1>8, <1>9 DEF HeapInv

\* What every instruction finds.
LEMMA Found ==
    ASSUME HeapInv, Depth > 0
    PROVE  /\ frames # << >> /\ frames \in Seq(Frame) /\ Depth \in 1 .. MaxFrames /\ Depth \in Nat
           /\ heap \in Heap /\ Good(heap, Zero) /\ Beyond(heap, Depth) /\ Zero \in Deltas
           /\ KnownFrames(heap, frames) /\ KnownFrame(heap, Top) /\ KnownEval(heap, Eval)
           /\ Len(Eval) \in Nat
           /\ \A p \in Places : Known(heap, heap.own[p])
<1>1. frames \in Seq(Frame) /\ Len(frames) \in Nat /\ Len(frames) <= MaxFrames
  BY LenProperties DEF HeapInv, TypeOK
<1>2. frames # << >> /\ Depth \in 1 .. MaxFrames /\ Depth \in Nat /\ Depth \in 1 .. Len(frames)
  BY <1>1, HeapAssumption DEF Depth
<1>3. Good(heap, Zero) /\ Beyond(heap, Depth) /\ KnownFrames(heap, frames)
  BY <1>2 DEF HeapInv, Depth
<1>4. KnownFrame(heap, Top)
  BY <1>2, <1>3 DEF KnownFrames, Top
<1>5. KnownEval(heap, Eval) /\ Len(Eval) \in Nat
  BY <1>4, LenProperties DEF KnownFrame, Eval, KnownEval
<1> QED
  BY <1>1, <1>2, <1>3, <1>4, <1>5, ZeroSafe DEF Good

\* An operand is allocated, or null.
LEMMA ArgKnown ==
    ASSUME HeapInv, Depth > 0, NEW k \in 1 .. Len(Eval)
    PROVE  Known(heap, Arg(k)) /\ Arg(k) \in Entry
<1>1. KnownEval(heap, Eval) /\ Len(Eval) \in Nat
  BY Found
<1>2. Len(Eval) + 1 - k \in 1 .. Len(Eval)
  BY <1>1
<1> QED
  BY <1>1, <1>2 DEF KnownEval, Arg, Known

\* What an instruction has to establish.
LEMMA Concluded ==
    ASSUME HeapInv, frames # << >>, steps < MaxSteps, steps' = steps + 1,
           Good(heap', Zero), Beyond(heap', Len(frames')),
           KnownFrames(heap', frames'), Len(frames') \in 1 .. MaxFrames,
           interned' \in [Literals -> Value], \A l \in Literals : Known(heap', interned'[l])
    PROVE  HeapInv'
<1>1. heap' \in Heap /\ frames' \in Seq(Frame) /\ Len(frames') <= MaxFrames /\ frames' # << >>
  BY DEF Good, KnownFrames
<1>2. steps' \in 0 .. MaxSteps
  BY HeapAssumption DEF HeapInv, TypeOK
<1>3. TypeOK'
  BY <1>1, <1>2 DEF TypeOK
<1> QED
  BY <1>1, <1>3 DEF HeapInv

\* The table of strings does not change.
LEMMA InternedKept ==
    ASSUME HeapInv, NEW h, NEW P, Keeps(heap, h, P), UNCHANGED interned
    PROVE  interned' \in [Literals -> Value] /\ \A l \in Literals : Known(h, interned'[l])
BY KeepsKnown DEF HeapInv, TypeOK

\* The places an instruction stores into.
Writable(P) == P \subseteq FramePlaces(Depth) \cup {StaticP(s) : s \in Statics}

\* An instruction writes no place of a frame that is not entered.
LEMMA BeyondWritable ==
    ASSUME HeapInv, Depth > 0, NEW h, NEW P, Writable(P), Keeps(heap, h, P)
    PROVE  Beyond(h, Depth)
<1>1. Beyond(heap, Depth) /\ Depth \in Nat
  BY Found
<1>2. \A f \in 1 .. MaxFrames : f > Depth => FramePlaces(f) \cap P = {}
  BY <1>1 DEF Writable, FramePlaces, LocalP, ExcP, StaticP
<1> QED
  BY <1>1, <1>2, BeyondKept

\* An instruction that stays in the frame.
LEMMA StepInv ==
    ASSUME HeapInv, steps < MaxSteps, steps' = steps + 1,
           NEW h, NEW k \in Nat, NEW pushed, NEW P, Good(h, Zero), Keeps(heap, h, P), Writable(P),
           KnownEval(h, pushed), Step(h, k, pushed),
           interned' \in [Literals -> Value], \A l \in Literals : Known(h, interned'[l])
    PROVE  HeapInv'
<1>1. Depth > 0 /\ heap' = h /\ Len(Eval) >= k
      /\ frames' = [frames EXCEPT ![Depth].eval = SubSeq(@, 1, Len(@) - k) \o pushed]
  BY DEF Step, Running
<1>2. /\ frames # << >> /\ Depth \in 1 .. MaxFrames /\ Depth \in Nat
      /\ KnownFrames(heap, frames) /\ KnownFrame(heap, Top) /\ KnownEval(heap, Eval) /\ Len(Eval) \in Nat
  BY <1>1, Found
<1> DEFINE e == SubSeq(Eval, 1, Len(Eval) - k) \o pushed  fr == [Top EXCEPT !.eval = e]
<1>3. KnownFrames(h, frames) /\ KnownEval(h, Eval) /\ KnownFrame(h, Top)
  <2>1. Depth \in 1 .. Len(frames)
    BY <1>2 DEF Depth
  <2> QED
    BY <1>2, <2>1, KeepsFrames DEF KnownFrames, Top
<1>4. KnownEval(h, e)
  <2>1. Len(Eval) - k \in 0 .. Len(Eval)
    BY <1>1, <1>2
  <2> QED
    BY <1>3, <2>1, EvalFacts
<1>5. frames' = Replaced(frames, Depth, fr)
  BY <1>1, <1>2 DEF Replaced, Top, Eval
<1> HIDE DEF e
<1>6. KnownFrame(h, fr)
  <2>1. fr \in Frame /\ fr.ctor = Top.ctor /\ fr.eval = e
    BY <1>3, <1>4 DEF KnownFrame, Frame, KnownEval
  <2> QED
    BY <1>3, <1>4, <2>1 DEF KnownFrame
<1> HIDE DEF fr
<1>7. KnownFrames(h, frames') /\ Len(frames') = Depth
  <2>1. Depth \in 1 .. Len(frames)
    BY <1>2 DEF Depth
  <2>2. KnownFrames(h, Replaced(frames, Depth, fr)) /\ Len(Replaced(frames, Depth, fr)) = Len(frames)
    BY <1>3, <1>6, <2>1, FrameReplaced
  <2> QED
    BY <1>5, <2>2 DEF Depth
<1>8. Beyond(h, Len(frames'))
  BY <1>1, <1>7, BeyondWritable
<1> QED
  BY <1>1, <1>2, <1>7, <1>8, Concluded

\* The places instructions write.
LEMMA WritableFacts ==
    /\ Writable({}) /\ Writable(FramePlaces(Depth)) /\ Writable({ExcP(Depth)})
    /\ \A i \in Locals : Writable({LocalP(Depth, i)})
    /\ \A s \in Statics : Writable({StaticP(s)})
BY DEF Writable, FramePlaces

\* The same for a heap known to be reached.
LEMMA StepReach ==
    ASSUME HeapInv, steps < MaxSteps, steps' = steps + 1,
           NEW P, NEW h \in Reach(heap, P), NEW k \in Nat, NEW pushed, Writable(P),
           KnownEval(h, pushed), Step(h, k, pushed), UNCHANGED interned
    PROVE  HeapInv'
<1>1. Good(h, Zero) /\ Keeps(heap, h, P)
  BY DEF Reach
<1>2. interned' \in [Literals -> Value] /\ \A l \in Literals : Known(h, interned'[l])
  BY <1>1, InternedKept
<1> QED
  BY <1>1, <1>2, StepInv

\* What is known of a heap that is reached.
LEMMA ReachKnown ==
    ASSUME NEW h, NEW P, NEW g \in Reach(h, P)
    PROVE  /\ \A v : Known(h, v) => Known(g, v)
           /\ Good(g, Zero) /\ Keeps(h, g, P)
BY KeepsKnown DEF Reach

\* Touch is one of the operations.
LEMMA TouchReach ==
    ASSUME NEW h, NEW P, NEW g \in Reach(h, P), NEW v \in Objects
    PROVE  Touch(g, v) \in Reach(h, P)
<1>1. Good(g, Zero) /\ g \in Heap
  BY DEF Reach
<1>2. Good(Touch(g, v), Zero)
  BY <1>1, ZeroSafe, TouchGood
<1>3. Keeps(g, Touch(g, v), {})
  BY <1>1, TouchFields, SameKeeps
<1> QED
  BY <1>2, <1>3, ReachFacts

\* DiscardValue and CollectInstance are.
LEMMA DiscardReach ==
    ASSUME NEW h, NEW P, NEW g \in Reach(h, P), NEW v, Known(h, v)
    PROVE  DiscardValue(g, v) \in Reach(h, P) /\ CollectInstance(g, v) \in Reach(h, P)
<1>1. Good(g, Zero) /\ Known(g, v)
  BY ReachKnown
<1>2. /\ Good(DiscardValue(g, v), Zero) /\ Keeps(g, DiscardValue(g, v), {})
      /\ Good(CollectInstance(g, v), Zero) /\ Keeps(g, CollectInstance(g, v), {})
  BY <1>1, DiscardGood, CollectGood
<1> QED
  BY <1>2, ReachFacts

\* SetField is.
LEMMA SetFieldReach ==
    ASSUME NEW h, NEW P, NEW g \in Reach(h, P), NEW o \in Objects, NEW v, Known(h, v)
    PROVE  SetField(g, o, v) \in Reach(h, P)
<1>1. Good(g, Zero) /\ Known(g, v)
  BY ReachKnown
<1>2. Good(SetField(g, o, v), Zero) /\ Keeps(g, SetField(g, o, v), {})
  BY <1>1, SetFieldGood
<1> QED
  BY <1>2, ReachFacts

-----------------------------------------------------------------------------
(* Instructions                                                            *)

\* Loads and DUP borrow: they change no count.
LEMMA LoadsInv ==
    ASSUME HeapInv, steps < MaxSteps, steps' = steps + 1
    PROVE  /\ LoadConstNull => HeapInv'
           /\ \A i \in Locals : LoadLocal(i) => HeapInv'
           /\ \A s \in Statics : LoadStaticField(s) => HeapInv'
           /\ Dup => HeapInv'
<1>0. ASSUME NEW pushed, Step(heap, 0, pushed), UNCHANGED interned,
             Depth > 0 => KnownEval(heap, pushed)
      PROVE  HeapInv'
  <2>1. Depth > 0
    BY <1>0 DEF Step, Running
  <2>2. heap \in Reach(heap, {}) /\ Writable({}) /\ KnownEval(heap, pushed)
    BY <1>0, <2>1, Found, ReachFacts, WritableFacts
  <2>3. 0 \in Nat
    OBVIOUS
  <2> QED
    BY <1>0, <2>2, <2>3, StepReach
<1>1. ASSUME LoadConstNull PROVE HeapInv'
  <2>1. Known(heap, NoShape)
    BY ObjectsNat DEF Known, Entry
  <2>2. KnownEval(heap, << NoShape >>)
    BY <2>1, EvalFacts
  <2> QED
    BY <1>0, <1>1, <2>2 DEF LoadConstNull
<1>2. ASSUME NEW i \in Locals, LoadLocal(i) PROVE HeapInv'
  <2>1. ASSUME Depth > 0 PROVE KnownEval(heap, << heap.own[LocalP(Depth, i)] >>)
    <3>1. LocalP(Depth, i) \in Places
      BY <2>1, Found, FramePlaceRoots DEF Roots
    <3>2. Known(heap, heap.own[LocalP(Depth, i)])
      BY <2>1, <3>1, Found
    <3> QED
      BY <3>2, EvalFacts
  <2> QED
    BY <1>0, <1>2, <2>1 DEF LoadLocal
<1>3. ASSUME NEW s \in Statics, LoadStaticField(s) PROVE HeapInv'
  <2>1. ASSUME Depth > 0 PROVE KnownEval(heap, << heap.own[StaticP(s)] >>)
    <3>1. StaticP(s) \in Places
      BY StaticPlaces DEF Roots
    <3>2. Known(heap, heap.own[StaticP(s)])
      BY <2>1, <3>1, Found
    <3> QED
      BY <3>2, EvalFacts
  <2> QED
    BY <1>0, <1>3, <2>1 DEF LoadStaticField
<1>4. ASSUME Dup PROVE HeapInv'
  <2>1. ASSUME Depth > 0 PROVE KnownEval(heap, << Arg(1) >>)
    <3>1. 1 \in 1 .. Len(Eval)
      <4>1. Eval # << >> /\ KnownEval(heap, Eval) /\ Len(Eval) \in Nat
        BY <1>4, <2>1, Found DEF Dup
      <4> QED
        BY <4>1, EmptySeq DEF KnownEval
    <3>2. Known(heap, Arg(1))
      BY <2>1, <3>1, ArgKnown
    <3> QED
      BY <3>2, EvalFacts
  <2> QED
    BY <1>0, <1>4, <2>1 DEF Dup
<1> QED
  BY <1>1, <1>2, <1>3, <1>4

\* The last entry, where there is one.
LEMMA LastArg ==
    ASSUME HeapInv, Depth > 0, Eval # << >>
    PROVE  Known(heap, Arg(1)) /\ Arg(1) \in Entry
<1>1. KnownEval(heap, Eval) /\ Len(Eval) \in Nat
  BY Found
<1>2. 1 \in 1 .. Len(Eval)
  BY <1>1, EmptySeq DEF KnownEval
<1> QED
  BY <1>2, ArgKnown

\* The last two.
LEMMA LastArgs ==
    ASSUME HeapInv, Depth > 0, Len(Eval) >= 2
    PROVE  Known(heap, Arg(1)) /\ Known(heap, Arg(2))
<1>1. Len(Eval) \in Nat
  BY Found
<1>2. 1 \in 1 .. Len(Eval) /\ 2 \in 1 .. Len(Eval)
  BY <1>1
<1> QED
  BY <1>2, ArgKnown

\* LOAD_CONST of a string, interned before or now.
LEMMA LoadConstStringInv ==
    ASSUME HeapInv, steps < MaxSteps, steps' = steps + 1, NEW l \in Literals, LoadConstString(l)
    PROVE  HeapInv'
<1>1. Depth > 0
  BY DEF LoadConstString, Step, Running
<1>2. Good(heap, Zero) /\ Zero \in Deltas /\ Known(heap, interned[l]) /\ interned \in [Literals -> Value]
  BY <1>1, Found DEF HeapInv, TypeOK
<1>3. 0 \in Nat /\ Writable({})
  BY WritableFacts
<1>4. CASE Step(heap, 0, << interned[l] >>) /\ UNCHANGED interned
  <2>1. heap \in Reach(heap, {}) /\ KnownEval(heap, << interned[l] >>)
    BY <1>2, ReachFacts, EvalFacts
  <2> QED
    BY <1>3, <1>4, <2>1, StepReach
<1> DEFINE a == AllocateInstance(heap, "object")
<1>5. CASE CanAllocate /\ Step(a.h, 0, << a.o >>) /\ interned' = [interned EXCEPT ![l] = a.o]
  <2>1. \E o \in Objects : heap.st[o] = "unused"
    BY <1>5 DEF CanAllocate
  <2>2. "object" \in Kinds
    BY DEF Kinds
  <2>3. a.o \in Objects /\ Good(a.h, Zero) /\ Keeps(heap, a.h, {}) /\ Known(a.h, a.o)
        /\ \A v : Known(heap, v) => Known(a.h, v)
    BY <1>2, <2>1, <2>2, AllocateGood
  <2> HIDE DEF a
  <2>4. interned' \in [Literals -> Value]
    BY <1>2, <1>5, <2>3 DEF Value
  <2>5. \A m \in Literals : Known(a.h, interned'[m])
    BY <1>2, <1>5, <2>3 DEF HeapInv
  <2>6. KnownEval(a.h, << a.o >>)
    BY <2>3, EvalFacts
  <2> QED
    BY <1>3, <1>5, <2>3, <2>4, <2>5, <2>6, StepInv
<1> QED
  BY <1>4, <1>5 DEF LoadConstString

\* STORELOCAL.
LEMMA StoreLocalInv ==
    ASSUME HeapInv, steps < MaxSteps, steps' = steps + 1, NEW i \in Locals, StoreLocal(i)
    PROVE  HeapInv'
<1> DEFINE p == LocalP(Depth, i)  h == SetLocal(heap, p, Arg(1))
<1>1. Depth > 0 /\ Eval # << >> /\ Step(h, 1, << >>) /\ UNCHANGED interned
  BY DEF StoreLocal, Step, Running
<1>2. Good(heap, Zero) /\ Known(heap, Arg(1)) /\ p \in Roots
  BY <1>1, Found, LastArg, FramePlaceRoots
<1>3. Good(h, Zero) /\ Keeps(heap, h, {p})
  BY <1>2, SetLocalGood
<1> HIDE DEF h
<1>4. h \in Reach(heap, {p})
  BY <1>3 DEF Reach, Good
<1>5. Writable({p}) /\ KnownEval(h, << >>) /\ 1 \in Nat
  BY WritableFacts, EvalFacts
<1> HIDE DEF p
<1> QED
  BY <1>1, <1>4, <1>5, StepReach

\* POP.
LEMMA PopInv ==
    ASSUME HeapInv, steps < MaxSteps, steps' = steps + 1, Pop
    PROVE  HeapInv'
<1> DEFINE h == DiscardValue(heap, Arg(1))
<1>1. Depth > 0 /\ Eval # << >> /\ Step(h, 1, << >>) /\ UNCHANGED interned
  BY DEF Pop, Step, Running
<1>2. heap \in Reach(heap, {}) /\ Known(heap, Arg(1))
  BY <1>1, Found, LastArg, ReachFacts
<1>3. h \in Reach(heap, {})
  BY <1>2, DiscardReach
<1>4. Writable({}) /\ KnownEval(h, << >>) /\ 1 \in Nat
  BY WritableFacts, EvalFacts
<1> HIDE DEF h
<1> QED
  BY <1>1, <1>3, <1>4, StepReach

\* LOADFIELD.
LEMMA LoadFieldInv ==
    ASSUME HeapInv, steps < MaxSteps, steps' = steps + 1, LoadField
    PROVE  HeapInv'
<1> DEFINE o == Arg(1)  h == DiscardValue(Touch(heap, o), o)  v == heap.own[FieldP(o)]
<1>1. Eval # << >> /\ o \in Objects /\ Step(h, 1, << v >>) /\ UNCHANGED interned
  BY DEF LoadField, IsObject
<1>2. Depth > 0
  BY <1>1 DEF Step, Running
<1>3. heap \in Reach(heap, {}) /\ Known(heap, o)
  BY <1>1, <1>2, Found, LastArg, ReachFacts
<1>4. Touch(heap, o) \in Reach(heap, {})
  BY <1>1, <1>3, TouchReach
<1>5. h \in Reach(heap, {})
  BY <1>3, <1>4, DiscardReach
<1>6. Known(heap, v)
  BY <1>1, <1>2, Found, FieldPlaces
<1> HIDE DEF h, v
<1>7. KnownEval(h, << v >>) /\ Writable({}) /\ 1 \in Nat
  BY <1>5, <1>6, ReachKnown, EvalFacts, WritableFacts
<1> QED
  BY <1>1, <1>5, <1>7, StepReach

\* STOREFIELD.
LEMMA StoreFieldInv ==
    ASSUME HeapInv, steps < MaxSteps, steps' = steps + 1, StoreField
    PROVE  HeapInv'
<1> DEFINE o == Arg(2)  v == Arg(1)  stored == SetField(Touch(heap, o), o, v)
           first == DiscardValue(stored, v)
           h == IF first.fault # "none" THEN first ELSE DiscardValue(first, o)
<1>1. Len(Eval) >= 2 /\ o \in Objects /\ Step(h, 2, << >>) /\ UNCHANGED interned
  BY DEF StoreField, IsObject
<1>2. Depth > 0
  BY <1>1 DEF Step, Running
<1>3. heap \in Reach(heap, {}) /\ Known(heap, o) /\ Known(heap, v)
  BY <1>1, <1>2, Found, LastArgs, ReachFacts
<1>4. Touch(heap, o) \in Reach(heap, {})
  BY <1>1, <1>3, TouchReach
<1>5. stored \in Reach(heap, {})
  BY <1>1, <1>3, <1>4, SetFieldReach
<1> HIDE DEF stored
<1>6. first \in Reach(heap, {})
  BY <1>3, <1>5, DiscardReach
<1> HIDE DEF first
<1>7. h \in Reach(heap, {})
  BY <1>3, <1>6, DiscardReach
<1> HIDE DEF h
<1>8. KnownEval(h, << >>) /\ Writable({}) /\ 2 \in Nat
  BY EvalFacts, WritableFacts
<1> QED
  BY <1>1, <1>7, <1>8, StepReach

\* STORESTATICFIELD.
LEMMA StoreStaticFieldInv ==
    ASSUME HeapInv, steps < MaxSteps, steps' = steps + 1, NEW s \in Statics, StoreStaticField(s)
    PROVE  HeapInv'
<1> DEFINE v == Arg(1)  stored == SetStaticField(heap, s, v)  P == {StaticP(s)}
           h == IF stored.fault # "none" THEN stored ELSE CollectInstance(stored, v)
<1>1. Eval # << >> /\ v \in Objects /\ Step(h, 1, << >>) /\ UNCHANGED interned
  BY DEF StoreStaticField, IsObject
<1>2. Depth > 0
  BY <1>1 DEF Step, Running
<1>3. Good(heap, Zero) /\ Known(heap, v)
  BY <1>1, <1>2, Found, LastArg
<1>4. Good(stored, Zero) /\ Keeps(heap, stored, P)
  BY <1>1, <1>3, SetStaticFieldGood
<1> HIDE DEF stored
<1>5. stored \in Reach(heap, P)
  BY <1>4 DEF Reach, Good
<1>6. h \in Reach(heap, P)
  BY <1>3, <1>5, DiscardReach
<1> HIDE DEF h
<1>7. KnownEval(h, << >>) /\ Writable(P) /\ 1 \in Nat
  BY EvalFacts, WritableFacts
<1> HIDE DEF P
<1> QED
  BY <1>1, <1>6, <1>7, StepReach

\* NEWARRAY.
LEMMA NewArrayInv ==
    ASSUME HeapInv, steps < MaxSteps, steps' = steps + 1, NewArray
    PROVE  HeapInv'
<1> DEFINE a == AllocateInstance(heap, "array")  v == Arg(1)  stored == SetField(a.h, a.o, v)
           h == DiscardValue(stored, v)
<1>1. Eval # << >> /\ CanAllocate /\ Step(h, 1, << a.o >>) /\ UNCHANGED interned
  BY DEF NewArray
<1>2. Depth > 0
  BY <1>1 DEF Step, Running
<1>3. Good(heap, Zero) /\ Zero \in Deltas /\ Known(heap, v)
  BY <1>1, <1>2, Found, LastArg
<1>4. a.o \in Objects /\ Good(a.h, Zero) /\ Keeps(heap, a.h, {}) /\ Known(a.h, a.o) /\ Known(a.h, v)
  <2>1. "array" \in Kinds /\ \E o \in Objects : heap.st[o] = "unused"
    BY <1>1 DEF Kinds, CanAllocate
  <2> HIDE DEF v
  <2> QED
    BY <1>3, <2>1, AllocateGood
<1> HIDE DEF a, v
<1>5. a.h \in Reach(a.h, {})
  BY <1>4, ReachFacts
<1>6. stored \in Reach(a.h, {})
  BY <1>4, <1>5, SetFieldReach
<1> HIDE DEF stored
<1>7. h \in Reach(a.h, {})
  BY <1>4, <1>6, DiscardReach
<1> HIDE DEF h
<1>8. h \in Reach(heap, {})
  <2>1. a.h \in Reach(heap, {})
    BY <1>4 DEF Reach, Good
  <2> QED
    BY <1>7, <2>1, ReachKnown, ReachFacts
<1>9. KnownEval(h, << a.o >>) /\ Writable({}) /\ 1 \in Nat
  BY <1>4, <1>7, ReachKnown, EvalFacts, WritableFacts
<1> QED
  BY <1>1, <1>8, <1>9, StepReach

\* LOADARRAYELEMENT ends the program.
LEMMA LoadArrayElementInv ==
    ASSUME HeapInv, steps < MaxSteps, steps' = steps + 1, LoadArrayElement
    PROVE  HeapInv'
<1> DEFINE h == [heap EXCEPT !.fault = "null_shape"]
<1>1. Step(h, 1, << >>) /\ UNCHANGED interned
  BY DEF LoadArrayElement
<1>2. Depth > 0
  BY <1>1 DEF Step, Running
<1>3. Good(h, Zero) /\ Keeps(heap, h, {})
  BY <1>2, Found, FaultGood
<1> HIDE DEF h
<1>4. h \in Reach(heap, {})
  BY <1>3 DEF Reach, Good
<1>5. KnownEval(h, << >>) /\ Writable({}) /\ 1 \in Nat
  BY EvalFacts, WritableFacts
<1> QED
  BY <1>1, <1>4, <1>5, StepReach

\* STOREARRAYELEMENT.
LEMMA StoreArrayElementInv ==
    ASSUME HeapInv, steps < MaxSteps, steps' = steps + 1, StoreArrayElement
    PROVE  HeapInv'
<1> DEFINE o == Arg(2)  v == Arg(1)  stored == SetField(Touch(heap, o), o, v)
           h == DiscardValue(stored, v)
<1>1. Len(Eval) >= 2 /\ o \in Objects /\ Step(h, 2, << >>) /\ UNCHANGED interned
  BY DEF StoreArrayElement, IsObject
<1>2. Depth > 0
  BY <1>1 DEF Step, Running
<1>3. heap \in Reach(heap, {}) /\ Known(heap, o) /\ Known(heap, v)
  BY <1>1, <1>2, Found, LastArgs, ReachFacts
<1>4. Touch(heap, o) \in Reach(heap, {})
  BY <1>1, <1>3, TouchReach
<1>5. stored \in Reach(heap, {})
  BY <1>1, <1>3, <1>4, SetFieldReach
<1> HIDE DEF stored
<1>6. h \in Reach(heap, {})
  BY <1>3, <1>5, DiscardReach
<1> HIDE DEF h
<1>7. KnownEval(h, << >>) /\ Writable({}) /\ 2 \in Nat
  BY EvalFacts, WritableFacts
<1> QED
  BY <1>1, <1>6, <1>7, StepReach

\* The length of an array.
LEMMA ArrayLengthInv ==
    ASSUME HeapInv, steps < MaxSteps, steps' = steps + 1, ArrayLength
    PROVE  HeapInv'
<1> DEFINE o == Arg(1)  h == CollectInstance(Touch(heap, o), o)
<1>1. Eval # << >> /\ o \in Objects /\ Step(h, 1, << >>) /\ UNCHANGED interned
  BY DEF ArrayLength, IsObject
<1>2. Depth > 0
  BY <1>1 DEF Step, Running
<1>3. heap \in Reach(heap, {}) /\ Known(heap, o)
  BY <1>1, <1>2, Found, LastArg, ReachFacts
<1>4. Touch(heap, o) \in Reach(heap, {})
  BY <1>1, <1>3, TouchReach
<1>5. h \in Reach(heap, {})
  BY <1>3, <1>4, DiscardReach
<1> HIDE DEF h
<1>6. KnownEval(h, << >>) /\ Writable({}) /\ 1 \in Nat
  BY EvalFacts, WritableFacts
<1> QED
  BY <1>1, <1>5, <1>6, StepReach

-----------------------------------------------------------------------------
(* Calls                                                                   *)

\* An instruction that stays in the frame and replaces the record of it.
LEMMA FrameInv ==
    ASSUME HeapInv, Depth > 0, steps < MaxSteps, steps' = steps + 1,
           NEW P, Writable(P), Good(heap', Zero), Keeps(heap, heap', P),
           NEW fr, KnownFrame(heap', fr), frames' = Replaced(frames, Depth, fr), UNCHANGED interned
    PROVE  HeapInv'
<1>1. frames # << >> /\ Depth \in 1 .. MaxFrames /\ KnownFrames(heap, frames)
  BY Found
<1>2. KnownFrames(heap', frames)
  BY <1>1, KeepsFrames
<1>3. KnownFrames(heap', frames') /\ Len(frames') = Depth
  <2>1. Depth \in 1 .. Len(frames)
    BY <1>1 DEF Depth
  <2>2. KnownFrames(heap', Replaced(frames, Depth, fr)) /\ Len(Replaced(frames, Depth, fr)) = Len(frames)
    BY <1>2, <2>1, FrameReplaced
  <2> QED
    BY <2>2 DEF Depth
<1>4. Beyond(heap', Len(frames'))
  BY <1>3, BeyondWritable
<1>5. interned' \in [Literals -> Value] /\ \A l \in Literals : Known(heap', interned'[l])
  BY InternedKept
<1> QED
  BY <1>1, <1>3, <1>4, <1>5, Concluded

\* The caller, with the argument popped.
LEMMA CallerKnown ==
    ASSUME HeapInv, Depth > 0, Eval # << >>, NEW h, NEW P, Keeps(heap, h, P)
    PROVE  LET fs == [frames EXCEPT ![Depth].eval = Front(@)]
           IN  KnownFrames(h, fs) /\ Len(fs) = Depth
<1> DEFINE fr == [Top EXCEPT !.eval = Front(Eval)]
<1>1. Depth \in 1 .. MaxFrames /\ KnownFrames(heap, frames) /\ KnownFrame(heap, Top) /\ KnownEval(heap, Eval)
      /\ frames \in Seq(Frame)
  BY Found
<1>2. [frames EXCEPT ![Depth].eval = Front(@)] = Replaced(frames, Depth, fr)
  BY <1>1 DEF Replaced, Top, Eval
<1>3. KnownFrames(h, frames) /\ KnownEval(h, Eval) /\ Depth \in 1 .. Len(frames)
  BY <1>1, KeepsFrames DEF Depth
<1>4. KnownEval(h, Front(Eval)) /\ KnownFrame(h, Top)
  BY <1>3, FrontKnown DEF KnownFrames, Top
<1>5. KnownFrame(h, fr)
  <2>1. fr \in Frame /\ fr.ctor = Top.ctor /\ fr.eval = Front(Eval)
    BY <1>4 DEF KnownFrame, Frame, KnownEval
  <2> QED
    BY <1>4, <2>1 DEF KnownFrame
<1> HIDE DEF fr
<1>6. KnownFrames(h, Replaced(frames, Depth, fr)) /\ Len(Replaced(frames, Depth, fr)) = Len(frames)
  BY <1>3, <1>5, FrameReplaced
<1> QED
  BY <1>2, <1>6 DEF Depth

\* A call enters a frame whose places the callee has been given.
LEMMA EnterInv ==
    ASSUME HeapInv, Depth > 0, Depth < MaxFrames, Eval # << >>, steps < MaxSteps, steps' = steps + 1,
           Good(heap', Zero), Keeps(heap, heap', FramePlaces(Depth + 1)),
           NEW fr, KnownFrame(heap', fr),
           frames' = Append([frames EXCEPT ![Depth].eval = Front(@)], fr), UNCHANGED interned
    PROVE  HeapInv'
<1>1. frames # << >> /\ Depth \in 1 .. MaxFrames /\ Depth \in Nat /\ Beyond(heap, Depth)
  BY Found
<1> DEFINE fs == [frames EXCEPT ![Depth].eval = Front(@)]
<1>2. KnownFrames(heap', fs) /\ Len(fs) = Depth
  BY CallerKnown
<1> HIDE DEF fs
<1>3. KnownFrames(heap', frames') /\ Len(frames') = Depth + 1
  <2>1. frames' = Append(fs, fr)
    BY DEF fs
  <2> QED
    BY <1>2, <2>1, FrameAppended
<1>4. Beyond(heap', Len(frames'))
  <2>1. Beyond(heap, Depth + 1)
    BY <1>1, HeapAssumption DEF Beyond
  <2>2. \A f \in 1 .. MaxFrames : f > Depth + 1 => FramePlaces(f) \cap FramePlaces(Depth + 1) = {}
    BY <1>1 DEF FramePlaces, LocalP, ExcP
  <2>3. Beyond(heap', Depth + 1)
    BY <2>1, <2>2, BeyondKept
  <2> QED
    BY <1>3, <2>3
<1>5. interned' \in [Literals -> Value] /\ \A l \in Literals : Known(heap', interned'[l])
  BY InternedKept
<1>6. Len(frames') \in 1 .. MaxFrames
  BY <1>1, <1>3, HeapAssumption
<1> QED
  BY <1>1, <1>3, <1>4, <1>5, <1>6, Concluded

\* A smaller set of places.
LEMMA KeepsWeaker ==
    ASSUME NEW h, NEW g, NEW P, NEW Q, P \subseteq Q, Keeps(h, g, P) PROVE Keeps(h, g, Q)
BY DEF Keeps

\* A new frame refers to nothing but the object it constructs.
LEMMA NewFrameKnown ==
    ASSUME NEW h, NEW v \in Value, Known(h, v)
    PROVE  KnownFrame(h, [NoFrame EXCEPT !.ctor = v]) /\ KnownFrame(h, NoFrame)
<1> DEFINE fr == [NoFrame EXCEPT !.ctor = v]
<1>1. NoFrame \in Frame /\ NoFrame.eval = << >> /\ NoFrame.ctor = Null /\ Known(h, Null)
  BY ObjectsNat DEF NoFrame, Frame, Value, Entry, Known
<1>2. fr \in Frame /\ fr.eval = << >> /\ fr.ctor = v
  BY <1>1 DEF NoFrame, Frame, Value
<1> HIDE DEF fr
<1>3. KnownFrame(h, fr) /\ KnownFrame(h, NoFrame)
  BY <1>1, <1>2, EvalFacts DEF KnownFrame
<1> QED
  BY <1>3 DEF fr

\* CALLMETHODSYMBOL: the argument moves to a counted local.
LEMMA CallMethodInv ==
    ASSUME HeapInv, steps < MaxSteps, steps' = steps + 1, CallMethod
    PROVE  HeapInv'
<1> DEFINE p == LocalP(Depth + 1, 0)
<1>1. Depth > 0 /\ Depth < MaxFrames /\ Eval # << >> /\ heap' = SetLocal(heap, p, Arg(1))
      /\ frames' = Append([frames EXCEPT ![Depth].eval = Front(@)], NoFrame) /\ UNCHANGED interned
  BY DEF CallMethod, CanCall, Running
<1>2. Depth + 1 \in 1 .. MaxFrames /\ 0 \in Locals
  BY <1>1, Found, HeapAssumption DEF Locals
<1>3. p \in Roots /\ {p} \subseteq FramePlaces(Depth + 1)
  BY <1>2, FramePlaceRoots DEF FramePlaces
<1>4. Good(heap, Zero) /\ Known(heap, Arg(1))
  BY <1>1, Found, LastArg
<1>5. Good(heap', Zero) /\ Keeps(heap, heap', {p})
  BY <1>1, <1>3, <1>4, SetLocalGood
<1> HIDE DEF p
<1>6. Keeps(heap, heap', FramePlaces(Depth + 1))
  BY <1>3, <1>5, KeepsWeaker
<1>7. KnownFrame(heap', NoFrame)
  <2>1. Null \in Value /\ Known(heap', Null)
    BY ObjectsNat DEF Value, Entry, Known
  <2> QED
    BY <2>1, NewFrameKnown
<1> QED
  BY <1>1, <1>5, <1>6, <1>7, EnterInv

\* NEWOBJECT: two counts for the object, of which a local owns one and
\* nobody the other; none for the argument of the constructor.
LEMMA NewObjectInv ==
    ASSUME HeapInv, steps < MaxSteps, steps' = steps + 1, NewObject
    PROVE  HeapInv'
<1> DEFINE a == AllocateInstance(heap, "object")
           once == IncrementReference(a.h, a.o)  twice == IncrementReference(once, a.o)
           p == LocalP(Depth + 1, 0)  q == LocalP(Depth + 1, 1)
           held == Write(twice, p, a.o)  this == Account(held, a.o, 1)
           arg == IF Arg(1) = NoShape THEN Null ELSE Arg(1)
           given == Write(this, q, arg)  h == Overdraw(given, arg)
           fr == [NoFrame EXCEPT !.ctor = a.o]
           d1 == Plus(Zero, a.o, 1)
<1>1. Depth > 0 /\ Depth < MaxFrames /\ Eval # << >> /\ CanAllocate /\ heap.fault = "none" /\ heap' = h
      /\ frames' = Append([frames EXCEPT ![Depth].eval = Front(@)], fr) /\ UNCHANGED interned
  BY DEF NewObject, CanCall, Running
<1>2. Depth + 1 \in 1 .. MaxFrames /\ 0 \in Locals /\ 1 \in Locals /\ Depth + 1 > Depth
  BY <1>1, Found, HeapAssumption DEF Locals
<1>3. p \in Roots /\ p \in Places /\ q \in Roots /\ q \in Places /\ p # q
      /\ p \in FramePlaces(Depth + 1) /\ q \in FramePlaces(Depth + 1)
  BY <1>2, FramePlaceRoots DEF FramePlaces, Roots, LocalP
<1>4. Good(heap, Zero) /\ Zero \in Deltas /\ Known(heap, Arg(1)) /\ Beyond(heap, Depth)
  BY <1>1, Found, LastArg
<1>5. heap.own[p] = Null /\ heap.own[q] = Null
  BY <1>1, <1>2, <1>3, <1>4 DEF Beyond
<1>6. Known(heap, arg) /\ Null \notin Objects /\ 1 \in Nat
  BY <1>4, StoredKnown, ObjectsNat
<1> HIDE DEF p, q, arg
<1>7. a.o \in Objects /\ Good(a.h, Zero) /\ Keeps(heap, a.h, {}) /\ Known(a.h, a.o) /\ a.h.own = heap.own
  <2>1. "object" \in Kinds /\ \E o \in Objects : heap.st[o] = "unused"
    BY <1>1 DEF Kinds, CanAllocate
  <2> QED
    BY <1>4, <2>1, AllocateGood
<1> HIDE DEF a
<1>8. Good(once, d1) /\ SameObjects(a.h, once) /\ d1 \in Deltas
  BY <1>4, <1>7, IncrementGood, DeltaFacts
<1> HIDE DEF d1, once
<1>9. Known(once, a.o) /\ Keeps(a.h, once, {})
  BY <1>7, <1>8, SameKeeps
<1>10. Good(twice, Plus(d1, a.o, 1)) /\ SameObjects(once, twice) /\ Plus(d1, a.o, 1) \in Deltas
  BY <1>8, <1>9, IncrementGood, DeltaFacts
<1> HIDE DEF twice
<1>11. Known(twice, a.o) /\ Keeps(once, twice, {}) /\ twice.own = heap.own /\ twice \in Heap
  BY <1>7, <1>8, <1>9, <1>10, SameKeeps DEF SameObjects
<1>12. Good(held, d1) /\ Keeps(twice, held, {p}) /\ held.own[q] = Null /\ Known(held, a.o)
  <2>1. Good(held, Plus(Plus(Plus(d1, a.o, 1), twice.own[p], 1), a.o, -1)) /\ Keeps(twice, held, {p})
    BY <1>3, <1>10, <1>11, WriteGood
  <2>2. Plus(Plus(Plus(d1, a.o, 1), Null, 1), a.o, -1) = d1
    <3>1. Plus(Plus(d1, a.o, 1), Null, 1) = Plus(d1, a.o, 1)
      BY <1>6, <1>10, DeltaFacts
    <3>2. Plus(Plus(d1, a.o, 1), a.o, -1) = Plus(d1, a.o, 1 + -1) /\ 1 + -1 = 0 /\ Plus(d1, a.o, 0) = d1
      BY <1>8, DeltaFacts
    <3> QED
      BY <3>1, <3>2
  <2>3. twice.own[p] = Null /\ held.own[q] = Null
    BY <1>3, <1>5, <1>11, <2>1 DEF Keeps
  <2> QED
    BY <1>11, <2>1, <2>2, <2>3, KeepsKnown
<1> HIDE DEF held
<1>13. Good(this, Zero) /\ SameObjects(held, this)
  <2>1. Good(this, Plus(d1, a.o, -1)) /\ SameObjects(held, this)
    BY <1>6, <1>8, <1>12, AccountGood
  <2>2. Plus(Plus(Zero, a.o, 1), a.o, -1) = Plus(Zero, a.o, 1 + -1) /\ 1 + -1 = 0 /\ Plus(Zero, a.o, 0) = Zero
    BY <1>4, DeltaFacts
  <2>3. Plus(d1, a.o, -1) = Zero
    BY <2>2 DEF d1
  <2> QED
    BY <2>1, <2>3
<1> HIDE DEF this
<1>14. Keeps(held, this, {}) /\ this.own[q] = Null
  BY <1>12, <1>13, SameKeeps DEF SameObjects
<1>15. Keeps(heap, this, {p})
  <2>1. Keeps(heap, once, {} \cup {})
    BY <1>7, <1>9, KeepsTrans
  <2>2. Keeps(heap, twice, ({} \cup {}) \cup {})
    BY <1>11, <2>1, KeepsTrans
  <2>3. Keeps(heap, held, (({} \cup {}) \cup {}) \cup {p})
    BY <1>12, <2>2, KeepsTrans
  <2>4. Keeps(heap, this, ((({} \cup {}) \cup {}) \cup {p}) \cup {})
    BY <1>14, <2>3, KeepsTrans
  <2>5. ((({} \cup {}) \cup {}) \cup {p}) \cup {} = {p}
    OBVIOUS
  <2> QED
    BY <2>4, <2>5
<1>16. Known(this, arg) /\ Known(this, a.o)
  BY <1>6, <1>12, <1>14, <1>15, KeepsKnown
<1>17. Good(given, Plus(Plus(Zero, Null, 1), arg, -1)) /\ Keeps(this, given, {q})
  <2>1. Good(given, Plus(Plus(Zero, this.own[q], 1), arg, -1)) /\ Keeps(this, given, {q})
    BY <1>3, <1>4, <1>13, <1>16, WriteGood
  <2> QED
    BY <1>14, <2>1
<1>18. Plus(Plus(Zero, Null, 1), arg, -1) = Plus(Zero, arg, -1) /\ Plus(Zero, arg, -1) \in Deltas
       /\ Plus(Plus(Zero, arg, -1), arg, 1) = Zero
  <2>1. Plus(Plus(Zero, arg, -1), arg, 1) = Plus(Zero, arg, -1 + 1) /\ -1 + 1 = 0 /\ Plus(Zero, arg, 0) = Zero
    BY <1>4, DeltaFacts
  <2> QED
    BY <1>4, <1>6, <2>1, DeltaFacts
<1> HIDE DEF given
<1>19. Known(given, arg)
  BY <1>16, <1>17, KeepsKnown
<1>20. Good(h, Zero) /\ SameObjects(given, h)
  BY <1>17, <1>18, <1>19, OverdrawGood
<1> HIDE DEF h
<1>21. Keeps(given, h, {})
  BY <1>20, SameKeeps
<1>22. Keeps(heap, h, FramePlaces(Depth + 1)) /\ Known(h, a.o)
  <2>1. Keeps(heap, given, {p} \cup {q})
    BY <1>15, <1>17, KeepsTrans
  <2>2. Keeps(heap, h, ({p} \cup {q}) \cup {})
    BY <1>21, <2>1, KeepsTrans
  <2>3. ({p} \cup {q}) \cup {} \subseteq FramePlaces(Depth + 1)
    BY <1>3
  <2>4. Keeps(heap, h, FramePlaces(Depth + 1))
    BY <2>2, <2>3, KeepsWeaker
  <2>5. Known(h, a.o)
    BY <1>16, <1>17, <1>21, KeepsKnown
  <2> QED
    BY <2>4, <2>5
<1>23. KnownFrame(h, fr)
  <2>1. a.o \in Value
    BY <1>7 DEF Value
  <2> QED
    BY <1>22, <2>1, NewFrameKnown
<1> HIDE DEF fr
<1> QED
  BY <1>1, <1>20, <1>22, <1>23, EnterInv

\* The drained frame owns nothing.
LEMMA LeaveGood ==
    ASSUME NEW h, Good(h, Zero), NEW eval, KnownEval(h, eval), Depth \in 1 .. MaxFrames
    PROVE  LET g == Leave(h, eval)
           IN  /\ Good(g, Zero) /\ Keeps(h, g, FramePlaces(Depth))
               /\ g.fault = "none" => \A p \in FramePlaces(Depth) : g.own[p] = Null
<1> DEFINE e == DrainEval(h, eval)  k == DrainLocals(e, Depth)  x == SetException(k, Depth, Null)
           g == Leave(h, eval)
<1>1. Good(e, Zero) /\ Keeps(h, e, {})
  BY DrainEvalGood DEF KnownEval
<1> HIDE DEF e
<1>2. /\ Good(k, Zero) /\ Keeps(e, k, FramePlaces(Depth))
      /\ k.fault = "none" => \A i \in Locals : k.own[LocalP(Depth, i)] = Null
  BY <1>1, DrainLocalsGood
<1> HIDE DEF k
<1>3. Keeps(h, k, FramePlaces(Depth))
  <2>1. Keeps(h, k, {} \cup FramePlaces(Depth)) /\ {} \cup FramePlaces(Depth) = FramePlaces(Depth)
    BY <1>1, <1>2, KeepsTrans
  <2> QED
    BY <2>1
<1>4. Known(k, Null) /\ Zero \in Deltas /\ Null \notin Objects
  BY ObjectsNat, ZeroSafe DEF Known, Entry, Value
<1>5. Good(x, Plus(Zero, Null, -1)) /\ Keeps(k, x, {ExcP(Depth)}) /\ x.own[ExcP(Depth)] = Null
  BY <1>2, <1>4, SetExceptionGood
<1>6. Plus(Zero, Null, -1) = Zero
  BY <1>4, DeltaFacts
<1> HIDE DEF x
<1>7. Keeps(h, x, FramePlaces(Depth))
  <2>1. Keeps(h, x, FramePlaces(Depth) \cup {ExcP(Depth)})
    BY <1>3, <1>5, KeepsTrans
  <2>2. FramePlaces(Depth) \cup {ExcP(Depth)} = FramePlaces(Depth)
    BY DEF FramePlaces
  <2> QED
    BY <2>1, <2>2
<1>8. ASSUME x.fault = "none", NEW p \in FramePlaces(Depth) PROVE x.own[p] = Null
  <2>1. CASE p = ExcP(Depth)
    BY <1>5, <2>1
  <2>2. CASE p # ExcP(Depth)
    <3>1. PICK i \in Locals : p = LocalP(Depth, i)
      BY <2>2 DEF FramePlaces
    <3>2. p \in Roots \ {ExcP(Depth)}
      BY <2>2, <3>1, FramePlaceRoots
    <3> QED
      BY <1>2, <1>5, <1>8, <3>1, <3>2 DEF Keeps
  <2> QED
    BY <2>1, <2>2
<1>9. g = IF k.fault # "none" THEN k ELSE x
  BY DEF Leave, k, e, x
<1> HIDE DEF g
<1>10. /\ Good(g, Zero) /\ Keeps(h, g, FramePlaces(Depth))
       /\ g.fault = "none" => \A p \in FramePlaces(Depth) : g.own[p] = Null
  BY <1>2, <1>3, <1>5, <1>6, <1>7, <1>8, <1>9
<1> QED
  BY <1>10 DEF g

\* The caller goes on: the result is pushed, and the second count of a
\* constructed object is taken back.
LEMMA BackToCallerInv ==
    ASSUME HeapInv, Depth > 1, steps < MaxSteps, steps' = steps + 1,
           NEW h, Good(h, Zero), Keeps(heap, h, FramePlaces(Depth)),
           h.fault = "none" => \A p \in FramePlaces(Depth) : h.own[p] = Null,
           NEW returnsValue \in BOOLEAN, BackToCaller(h, returnsValue)
    PROVE  HeapInv'
<1> DEFINE ctor == Top.ctor
           result == IF ctor # Null THEN << ctor >> ELSE IF returnsValue THEN << Null >> ELSE << >>
           back == DecrementReference(Take(h, ctor), ctor)
           g == IF h.fault # "none" THEN h ELSE back
           e == frames[Depth - 1].eval \o result
           fr == [frames[Depth - 1] EXCEPT !.eval = e]
<1>1. /\ heap' = g /\ UNCHANGED interned
      /\ frames' = [Front(frames) EXCEPT ![Depth - 1].eval = @ \o result]
  BY DEF BackToCaller
<1>2. /\ Depth > 0 /\ frames # << >> /\ Depth \in 1 .. MaxFrames /\ Depth \in Nat /\ Beyond(heap, Depth)
      /\ KnownFrames(heap, frames) /\ KnownFrame(heap, Top) /\ frames \in Seq(Frame)
  <2>1. Depth \in Nat
    BY LenProperties DEF HeapInv, TypeOK, Depth
  <2>2. Depth > 0
    BY <2>1
  <2> QED
    BY <2>2, Found
<1>3. Known(h, ctor) /\ KnownFrames(h, frames) /\ Known(h, Null)
  BY <1>2, KeepsFrames, KeepsKnown, ObjectsNat DEF KnownFrame, Known, Entry, Value
<1>4. KnownEval(h, result)
  BY <1>3, EvalFacts
<1> HIDE DEF ctor, result
<1>5. Good(back, Zero) /\ SameObjects(h, back)
  BY <1>3, ZeroSafe, TakeDecrementGood
<1> HIDE DEF back
<1>6. Good(g, Zero) /\ Keeps(h, g, {}) /\ g.own = h.own
  <2>1. Keeps(h, back, {}) /\ Keeps(h, h, {})
    BY <1>5, SameKeeps DEF Keeps
  <2> QED
    BY <1>5, <2>1 DEF SameObjects
<1> HIDE DEF g
<1>7. Keeps(heap, g, FramePlaces(Depth))
  <2>1. Keeps(heap, g, FramePlaces(Depth) \cup {}) /\ FramePlaces(Depth) \cup {} = FramePlaces(Depth)
    BY <1>6, KeepsTrans
  <2> QED
    BY <2>1
<1>8. /\ KnownFrames(g, Front(frames)) /\ Len(Front(frames)) = Depth - 1
      /\ Front(frames)[Depth - 1] = frames[Depth - 1]
      /\ KnownFrame(g, frames[Depth - 1]) /\ KnownEval(g, e) /\ Front(frames) \in Seq(Frame)
  <2>1. KnownFrames(g, frames) /\ KnownEval(g, result)
    BY <1>3, <1>4, <1>6, KeepsFrames
  <2>2. /\ KnownFrames(g, Front(frames)) /\ Len(Front(frames)) = Len(frames) - 1
        /\ \A i \in 1 .. Len(frames) - 1 : Front(frames)[i] = frames[i]
    BY <1>2, <2>1, FrameRemoved
  <2>3. Depth - 1 \in 1 .. Len(frames) - 1 /\ Depth - 1 \in 1 .. Len(frames)
    BY <1>2 DEF Depth
  <2>4. KnownFrame(g, frames[Depth - 1])
    BY <2>1, <2>3 DEF KnownFrames
  <2>5. KnownEval(g, e)
    BY <2>1, <2>4, EvalFacts DEF KnownFrame
  <2> QED
    BY <2>2, <2>3, <2>4, <2>5 DEF Depth, KnownFrames
<1>9. frames' = [Front(frames) EXCEPT ![Depth - 1] = fr]
  <2> DEFINE fs == Front(frames)  n == Depth - 1
  <2>1. fs \in Seq(Frame) /\ fs[n] = frames[n] /\ n \in 1 .. Len(fs)
    BY <1>2, <1>8
  <2>2. frames' = [fs EXCEPT ![n].eval = @ \o result]
    BY <1>1
  <2> HIDE DEF fs, n
  <2>3. [fs EXCEPT ![n].eval = @ \o result] = [fs EXCEPT ![n] = [fs[n] EXCEPT !.eval = fs[n].eval \o result]]
    BY <2>1
  <2> QED
    BY <2>1, <2>2, <2>3 DEF fs, n
<1> HIDE DEF e
<1>10. KnownFrame(g, fr)
  <2>1. fr \in Frame /\ fr.ctor = frames[Depth - 1].ctor /\ fr.eval = e
    BY <1>8 DEF KnownFrame, Frame, KnownEval
  <2> QED
    BY <1>8, <2>1 DEF KnownFrame
<1> HIDE DEF fr
<1>11. KnownFrames(g, frames') /\ Len(frames') = Depth - 1
  <2> DEFINE fs == Front(frames)  n == Depth - 1
  <2>1. KnownFrames(g, fs) /\ n \in 1 .. Len(fs) /\ frames' = Replaced(fs, n, fr) /\ Len(fs) = n
    BY <1>2, <1>8, <1>9 DEF Replaced
  <2> HIDE DEF fs
  <2>2. KnownFrames(g, frames') /\ Len(frames') = Len(fs)
    <3> HIDE DEF n
    <3> QED
      BY <1>10, <2>1, FrameReplaced
  <2> QED
    BY <2>1, <2>2
<1>12. Beyond(g, Depth - 1)
  <2>1. \A f \in 1 .. MaxFrames : f > Depth => FramePlaces(f) \cap FramePlaces(Depth) = {}
    BY <1>2 DEF FramePlaces, LocalP, ExcP
  <2>2. Beyond(g, Depth)
    BY <1>2, <1>7, <2>1, BeyondKept
  <2>3. ASSUME g.fault = "none", NEW f \in 1 .. MaxFrames, f > Depth - 1, NEW p \in FramePlaces(f)
        PROVE  g.own[p] = Null
    <3>1. h.fault = "none"
      BY <1>6, <2>3 DEF Keeps
    <3>2. CASE f = Depth
      BY <1>6, <2>3, <3>1, <3>2
    <3>3. CASE f # Depth
      <4>1. f > Depth
        BY <1>2, <2>3, <3>3
      <4> QED
        BY <2>2, <2>3, <4>1 DEF Beyond
    <3> QED
      BY <3>2, <3>3
  <2> QED
    BY <2>3 DEF Beyond
<1>13. interned' \in [Literals -> Value] /\ \A l \in Literals : Known(g, interned'[l])
  BY <1>1, <1>7, InternedKept
<1>14. Len(frames') \in 1 .. MaxFrames
  BY <1>2, <1>11, HeapAssumption
<1> QED
  BY <1>1, <1>2, <1>6, <1>11, <1>12, <1>13, <1>14, Concluded

\* RETURN.
LEMMA ReturnInv ==
    ASSUME HeapInv, steps < MaxSteps, steps' = steps + 1, NEW returnsValue \in BOOLEAN, Return(returnsValue)
    PROVE  HeapInv'
<1>1. Depth > 1 /\ Depth > 0 /\ BackToCaller(Leave(heap, Eval), returnsValue)
  BY DEF Return, Running
<1>2. Good(heap, Zero) /\ KnownEval(heap, Eval) /\ Depth \in 1 .. MaxFrames
  BY <1>1, Found
<1> DEFINE h == Leave(heap, Eval)
<1>3. /\ Good(h, Zero) /\ Keeps(heap, h, FramePlaces(Depth))
      /\ h.fault = "none" => \A p \in FramePlaces(Depth) : h.own[p] = Null
  BY <1>2, LeaveGood
<1> HIDE DEF h
<1> QED
  BY <1>1, <1>3, BackToCallerInv DEF h

\* A count that nobody owns.
LEMMA ExtraCount ==
    ASSUME NEW h, Good(h, Zero), NEW v, Known(h, v)
    PROVE  LET g == Account(IncrementReference(h, v), v, 1) IN Good(g, Zero) /\ Keeps(h, g, {})
<1> DEFINE k == IncrementReference(h, v)  g == Account(k, v, 1)
<1>1. Zero \in Deltas /\ 1 \in Nat
  BY ZeroSafe
<1>2. Good(k, Plus(Zero, v, 1)) /\ SameObjects(h, k) /\ Plus(Zero, v, 1) \in Deltas
  BY <1>1, IncrementGood, DeltaFacts
<1> HIDE DEF k
<1>3. Keeps(h, k, {}) /\ Known(k, v)
  BY <1>2, SameKeeps
<1>4. Good(g, Plus(Plus(Zero, v, 1), v, -1)) /\ SameObjects(k, g)
  BY <1>1, <1>2, <1>3, AccountGood
<1>5. Plus(Plus(Zero, v, 1), v, -1) = Zero
  <2>1. Plus(Plus(Zero, v, 1), v, -1) = Plus(Zero, v, 1 + -1) /\ 1 + -1 = 0 /\ Plus(Zero, v, 0) = Zero
    BY <1>1, DeltaFacts
  <2> QED
    BY <2>1
<1> HIDE DEF g
<1>6. Keeps(h, g, {})
  <2>1. Keeps(k, g, {})
    BY <1>4, SameKeeps
  <2>2. Keeps(h, g, {} \cup {}) /\ {} \cup {} = {}
    BY <1>3, <2>1, KeepsTrans
  <2> QED
    BY <2>2
<1> QED
  BY <1>4, <1>5, <1>6 DEF g, k

\* A native call: the slots it is given are drained, and the result is pushed.
LEMMA CallNativeInv ==
    ASSUME HeapInv, steps < MaxSteps, steps' = steps + 1, NEW which \in {"arg", "new", "null"}, CallNative(which)
    PROVE  HeapInv'
<1> DEFINE p == LocalP(Depth + 1, 0)
           called == SetLocal(heap, p, Arg(1))
           a == IF which = "new" THEN AllocateInstance(called, "object")
                ELSE [o |-> IF which = "arg" /\ Arg(1) # NoShape THEN Arg(1) ELSE Null, h |-> called]
           placed == Account(IncrementReference(a.h, a.o), a.o, 1)
           drained == DrainLocals(placed, Depth + 1)
           left == IF placed.fault # "none" THEN placed ELSE drained
           e == Append(Front(Eval), a.o)
           fr == [Top EXCEPT !.eval = e]
<1>1. /\ Depth > 0 /\ Depth < MaxFrames /\ Eval # << >> /\ heap' = left /\ UNCHANGED interned
      /\ which = "new" => CanAllocate
      /\ frames' = [frames EXCEPT ![Depth].eval = Append(Front(@), a.o)]
  BY DEF CallNative, CanCall, Running
<1>2. /\ Depth \in Nat /\ Depth + 1 \in 1 .. MaxFrames /\ Depth \in 1 .. MaxFrames /\ 0 \in Locals /\ frames # << >>
      /\ frames \in Seq(Frame) /\ KnownFrames(heap, frames) /\ KnownFrame(heap, Top) /\ KnownEval(heap, Eval)
      /\ Beyond(heap, Depth) /\ Good(heap, Zero) /\ Zero \in Deltas
  BY <1>1, Found, HeapAssumption DEF Locals
<1>3. p \in Roots /\ {p} \subseteq FramePlaces(Depth + 1) /\ p # ExcP(Depth + 1) /\ ExcP(Depth + 1) \in Roots
      /\ ExcP(Depth + 1) \in FramePlaces(Depth + 1)
  BY <1>2, FramePlaceRoots DEF FramePlaces, LocalP, ExcP
<1>4. Known(heap, Arg(1)) /\ Null \notin Objects /\ \A h : Known(h, Null)
  BY <1>1, LastArg, ObjectsNat DEF Known, Entry, Value
<1>5. Good(called, Zero) /\ Keeps(heap, called, {p}) /\ Unallotted(heap, called)
  BY <1>2, <1>3, <1>4, SetLocalGood
<1> HIDE DEF p, called
<1>6. Good(a.h, Zero) /\ Keeps(called, a.h, {}) /\ Known(a.h, a.o)
  <2>1. CASE which = "new"
    <3>1. "object" \in Kinds /\ \E o \in Objects : called.st[o] = "unused"
      BY <1>1, <1>5, <2>1 DEF Kinds, CanAllocate, Unallotted
    <3>2. a = AllocateInstance(called, "object")
      BY <2>1
    <3> HIDE DEF a
    <3> QED
      BY <1>2, <1>5, <3>1, <3>2, AllocateGood
  <2>2. CASE which # "new"
    <3>1. a.h = called /\ (a.o = Null \/ a.o = Arg(1))
      BY <2>2
    <3>2. Known(called, Arg(1)) /\ Known(called, Null)
      BY <1>4, <1>5, KeepsKnown
    <3>3. Keeps(called, called, {})
      BY DEF Keeps
    <3> HIDE DEF a
    <3> QED
      BY <1>5, <3>1, <3>2, <3>3
  <2> QED
    BY <2>1, <2>2
<1> HIDE DEF a
<1>7. Good(placed, Zero) /\ Keeps(a.h, placed, {})
  BY <1>6, ExtraCount
<1> HIDE DEF placed
<1>10. Keeps(heap, placed, {p}) /\ Known(placed, a.o)
  <2>1. Known(placed, a.o)
    BY <1>6, <1>7, KeepsKnown
  <2>2. Keeps(heap, a.h, {p} \cup {})
    BY <1>5, <1>6, KeepsTrans
  <2>3. Keeps(heap, placed, ({p} \cup {}) \cup {})
    BY <1>7, <2>2, KeepsTrans
  <2>4. ({p} \cup {}) \cup {} = {p}
    OBVIOUS
  <2> QED
    BY <2>1, <2>3, <2>4
<1>11. /\ Good(drained, Zero) /\ Keeps(placed, drained, FramePlaces(Depth + 1))
       /\ drained.own[ExcP(Depth + 1)] = placed.own[ExcP(Depth + 1)]
       /\ drained.fault = "none" => \A i \in Locals : drained.own[LocalP(Depth + 1, i)] = Null
  BY <1>2, <1>7, DrainLocalsGood
<1> HIDE DEF drained
<1>12. Keeps(heap, placed, FramePlaces(Depth + 1)) /\ Keeps(heap, drained, FramePlaces(Depth + 1))
  <2>1. Keeps(heap, placed, FramePlaces(Depth + 1))
    BY <1>3, <1>10, KeepsWeaker
  <2>2. Keeps(heap, drained, FramePlaces(Depth + 1) \cup FramePlaces(Depth + 1))
    BY <1>11, <2>1, KeepsTrans
  <2>3. FramePlaces(Depth + 1) \cup FramePlaces(Depth + 1) = FramePlaces(Depth + 1)
    OBVIOUS
  <2> QED
    BY <2>1, <2>2, <2>3
<1>13. Good(left, Zero) /\ Keeps(heap, left, FramePlaces(Depth + 1)) /\ Known(left, a.o)
  <2>1. Known(drained, a.o)
    BY <1>10, <1>11, KeepsKnown
  <2> QED
    BY <1>7, <1>10, <1>11, <1>12, <2>1
<1>14. ASSUME left.fault = "none", NEW q \in FramePlaces(Depth + 1) PROVE left.own[q] = Null
  <2>1. left = drained /\ placed.fault = "none" /\ drained.fault = "none" /\ heap.fault = "none"
    BY <1>14, <1>12 DEF Keeps
  <2>2. placed.own[ExcP(Depth + 1)] = Null
    <3>1. placed.own[ExcP(Depth + 1)] = heap.own[ExcP(Depth + 1)]
      BY <1>3, <1>10 DEF Keeps
    <3>2. heap.own[ExcP(Depth + 1)] = Null
      BY <1>2, <1>3, <2>1 DEF Beyond
    <3> QED
      BY <3>1, <3>2
  <2> QED
    BY <1>11, <2>1, <2>2 DEF FramePlaces
<1> HIDE DEF left
<1>15. Beyond(left, Depth)
  <2>1. \A f \in 1 .. MaxFrames : f > Depth + 1 => FramePlaces(f) \cap FramePlaces(Depth + 1) = {}
    BY <1>2 DEF FramePlaces, LocalP, ExcP
  <2>2. Beyond(heap, Depth + 1)
    BY <1>2, HeapAssumption DEF Beyond
  <2>3. Beyond(left, Depth + 1)
    BY <1>13, <2>1, <2>2, BeyondKept
  <2>4. \A f \in 1 .. MaxFrames : f > Depth => f > Depth + 1 \/ f = Depth + 1
    BY <1>2
  <2> QED
    BY <1>14, <2>3, <2>4 DEF Beyond
<1>16. KnownFrame(left, Top) /\ KnownEval(left, Eval) /\ KnownFrames(left, frames) /\ Depth \in 1 .. Len(frames)
  BY <1>2, <1>13, KeepsFrames, KeepsKnown DEF KnownFrame, Depth
<1>17. KnownEval(left, e)
  <2>1. KnownEval(left, Front(Eval)) /\ KnownEval(left, << a.o >>)
    BY <1>1, <1>13, <1>16, FrontKnown, EvalFacts
  <2>2. e = Front(Eval) \o << a.o >>
    BY <1>13, <2>1 DEF KnownEval, Known
  <2> QED
    BY <2>1, <2>2, EvalFacts
<1>18. frames' = Replaced(frames, Depth, fr)
  BY <1>1, <1>2 DEF Replaced, Top, Eval
<1> HIDE DEF e
<1>19. KnownFrame(left, fr)
  <2>1. fr \in Frame /\ fr.ctor = Top.ctor /\ fr.eval = e
    BY <1>16, <1>17 DEF KnownFrame, Frame, KnownEval
  <2> QED
    BY <1>16, <1>17, <2>1 DEF KnownFrame
<1> HIDE DEF fr
<1>20. KnownFrames(left, frames') /\ Len(frames') = Depth
  <2>1. KnownFrames(left, Replaced(frames, Depth, fr)) /\ Len(Replaced(frames, Depth, fr)) = Len(frames)
    BY <1>16, <1>19, FrameReplaced
  <2> QED
    BY <1>18, <2>1 DEF Depth
<1>21. interned' \in [Literals -> Value] /\ \A l \in Literals : Known(left, interned'[l])
  BY <1>1, <1>13, InternedKept
<1> QED
  BY <1>1, <1>2, <1>13, <1>15, <1>20, <1>21, Concluded

-----------------------------------------------------------------------------
(* Exceptions                                                              *)

\* The record of the frame that runs, with another eval stack.
LEMMA TopKnown ==
    ASSUME HeapInv, Depth > 0, NEW h, NEW P, Keeps(heap, h, P),
           NEW fr \in Frame, KnownEval(h, fr.eval), fr.ctor = Top.ctor
    PROVE  KnownFrame(h, fr)
<1>1. KnownFrame(h, Top)
  BY Found, KeepsFrames, KeepsKnown DEF KnownFrame
<1> QED
  BY <1>1 DEF KnownFrame

\* THROW: the count of the exception is that of CurrentException.
LEMMA ThrowInv ==
    ASSUME HeapInv, steps < MaxSteps, steps' = steps + 1, Throw
    PROVE  HeapInv'
<1> DEFINE v == Arg(1)  k == IncrementReference(heap, v)  h == SetException(k, Depth, v)
           fr == [Top EXCEPT !.eval = Front(Eval), !.raised = TRUE]
<1>1. /\ Depth > 0 /\ Eval # << >> /\ heap' = h /\ UNCHANGED interned
      /\ frames' = [frames EXCEPT ![Depth].eval = Front(@), ![Depth].raised = TRUE]
  BY DEF Throw, Running
<1>2. /\ Depth \in 1 .. MaxFrames /\ Good(heap, Zero) /\ Zero \in Deltas /\ Known(heap, v)
      /\ frames \in Seq(Frame) /\ KnownEval(heap, Eval) /\ KnownFrame(heap, Top)
  BY <1>1, Found, LastArg
<1> HIDE DEF v
<1>3. Good(k, Plus(Zero, v, 1)) /\ SameObjects(heap, k) /\ Plus(Zero, v, 1) \in Deltas
  BY <1>2, IncrementGood, DeltaFacts
<1> HIDE DEF k
<1>4. Keeps(heap, k, {}) /\ Known(k, v)
  BY <1>2, <1>3, SameKeeps
<1>5. Good(h, Plus(Plus(Zero, v, 1), v, -1)) /\ Keeps(k, h, {ExcP(Depth)})
  BY <1>2, <1>3, <1>4, SetExceptionGood
<1>6. Plus(Plus(Zero, v, 1), v, -1) = Zero
  <2>1. Plus(Plus(Zero, v, 1), v, -1) = Plus(Zero, v, 1 + -1) /\ 1 + -1 = 0 /\ Plus(Zero, v, 0) = Zero
    BY <1>2, DeltaFacts
  <2> QED
    BY <2>1
<1> HIDE DEF h
<1>7. Keeps(heap, h, {ExcP(Depth)})
  <2>1. Keeps(heap, h, {} \cup {ExcP(Depth)}) /\ {} \cup {ExcP(Depth)} = {ExcP(Depth)}
    BY <1>4, <1>5, KeepsTrans
  <2> QED
    BY <2>1
<1>8. KnownFrame(h, fr)
  <2>1. KnownEval(h, Front(Eval))
    BY <1>1, <1>2, <1>7, FrontKnown, KeepsFrames
  <2>2. fr \in Frame /\ fr.eval = Front(Eval) /\ fr.ctor = Top.ctor
    BY <1>2, <2>1 DEF KnownFrame, KnownEval, Frame
  <2> HIDE DEF fr
  <2> QED
    BY <1>1, <1>7, <2>1, <2>2, TopKnown
<1>9. frames' = Replaced(frames, Depth, fr)
  <2>1. Depth \in 1 .. Len(frames) /\ frames[Depth] \in Frame /\ frames[Depth] = Top
    BY <1>2 DEF Depth, Top
  <2> QED
    BY <1>1, <1>2, <2>1 DEF Replaced, Eval, Frame
<1> HIDE DEF fr
<1>10. Writable({ExcP(Depth)})
  BY WritableFacts
<1> QED
  BY <1>1, <1>5, <1>6, <1>7, <1>8, <1>9, <1>10, FrameInv

\* RETHROW: one more count that nobody owns.
LEMMA RethrowInv ==
    ASSUME HeapInv, steps < MaxSteps, steps' = steps + 1, Rethrow
    PROVE  HeapInv'
<1> DEFINE v == heap.own[ExcP(Depth)]  k == IncrementReference(heap, v)  h == Account(k, v, 1)
           fr == [Top EXCEPT !.raised = TRUE]
<1>1. /\ Depth > 0 /\ heap' = h /\ UNCHANGED interned
      /\ frames' = [frames EXCEPT ![Depth].raised = TRUE]
  BY DEF Rethrow, Running
<1>2. /\ Depth \in 1 .. MaxFrames /\ Good(heap, Zero) /\ Zero \in Deltas
      /\ frames \in Seq(Frame) /\ KnownEval(heap, Eval) /\ KnownFrame(heap, Top)
      /\ \A p \in Places : Known(heap, heap.own[p])
  BY <1>1, Found
<1>3. Known(heap, v)
  BY <1>2, FramePlaceRoots DEF Roots
<1> HIDE DEF v
<1>4. Good(h, Zero) /\ Keeps(heap, h, {})
  BY <1>2, <1>3, ExtraCount DEF h, k
<1> HIDE DEF h
<1>5. KnownFrame(h, fr)
  <2>1. KnownEval(h, Eval)
    BY <1>2, <1>4, KeepsFrames
  <2>2. fr \in Frame /\ fr.eval = Eval /\ fr.ctor = Top.ctor
    BY <1>2 DEF KnownFrame, Eval, Frame
  <2> HIDE DEF fr
  <2> QED
    BY <1>1, <1>4, <2>1, <2>2, TopKnown
<1>6. frames' = Replaced(frames, Depth, fr)
  <2>1. Depth \in 1 .. Len(frames) /\ frames[Depth] \in Frame /\ frames[Depth] = Top
    BY <1>2 DEF Depth, Top
  <2> QED
    BY <1>1, <1>2, <2>1 DEF Replaced, Eval, Frame
<1> HIDE DEF fr
<1>7. Writable({})
  BY WritableFacts
<1> QED
  BY <1>1, <1>4, <1>5, <1>6, <1>7, FrameInv

\* The exception is counted again, the eval stack drained.
LEMMA DispatchedGood ==
    ASSUME HeapInv, Depth > 0
    PROVE  Good(Dispatched, Zero) /\ Keeps(heap, Dispatched, {}) /\ Known(Dispatched, heap.own[ExcP(Depth)])
<1> DEFINE v == heap.own[ExcP(Depth)]  drained == DrainEval(heap, Eval)
           g == Account(IncrementReference(drained, v), v, 1)
<1>1. /\ Depth \in 1 .. MaxFrames /\ Good(heap, Zero) /\ KnownEval(heap, Eval)
      /\ \A p \in Places : Known(heap, heap.own[p])
  BY Found
<1>2. Known(heap, v)
  BY <1>1, FramePlaceRoots DEF Roots
<1> HIDE DEF v
<1>3. Good(drained, Zero) /\ Keeps(heap, drained, {})
  BY <1>1, DrainEvalGood DEF KnownEval
<1> HIDE DEF drained
<1>4. Known(drained, v)
  BY <1>2, <1>3, KeepsKnown
<1>5. Good(g, Zero) /\ Keeps(drained, g, {})
  BY <1>3, <1>4, ExtraCount
<1>6. Dispatched = IF drained.fault # "none" THEN drained ELSE g
  BY DEF Dispatched, g, drained, v
<1> HIDE DEF g
<1>7. Keeps(heap, g, {})
  <2>1. Keeps(heap, g, {} \cup {}) /\ {} \cup {} = {}
    BY <1>3, <1>5, KeepsTrans
  <2> QED
    BY <2>1
<1>8. Good(Dispatched, Zero) /\ Keeps(heap, Dispatched, {})
  BY <1>3, <1>5, <1>6, <1>7
<1>9. Known(Dispatched, v)
  BY <1>2, <1>8, KeepsKnown
<1> QED
  BY <1>8, <1>9 DEF v

\* HandleExceptionInFrame with a handler.
LEMMA HandleExceptionInv ==
    ASSUME HeapInv, steps < MaxSteps, steps' = steps + 1, HandleException
    PROVE  HeapInv'
<1> DEFINE v == heap.own[ExcP(Depth)]  h == Dispatched
           fr == [Top EXCEPT !.eval = << v >>, !.raised = FALSE]
<1>1. /\ Depth > 0 /\ heap' = h /\ UNCHANGED interned
      /\ frames' = [frames EXCEPT ![Depth].eval = << v >>, ![Depth].raised = FALSE]
  BY DEF HandleException
<1>2. /\ Depth \in 1 .. MaxFrames /\ frames \in Seq(Frame) /\ KnownFrame(heap, Top)
  BY <1>1, Found
<1>3. Good(h, Zero) /\ Keeps(heap, h, {}) /\ Known(h, v)
  BY <1>1, DispatchedGood
<1> HIDE DEF h, v
<1>4. KnownEval(h, << v >>)
  BY <1>3, EvalFacts
<1>5. KnownFrame(h, fr)
  <2>1. fr \in Frame /\ fr.eval = << v >> /\ fr.ctor = Top.ctor
    BY <1>2, <1>4 DEF KnownFrame, KnownEval, Frame
  <2> HIDE DEF fr
  <2> QED
    BY <1>1, <1>3, <1>4, <2>1, TopKnown
<1>6. frames' = Replaced(frames, Depth, fr)
  <2>1. Depth \in 1 .. Len(frames) /\ frames[Depth] \in Frame /\ frames[Depth] = Top
    BY <1>2 DEF Depth, Top
  <2> QED
    BY <1>1, <1>2, <2>1 DEF Replaced, Frame
<1> HIDE DEF fr
<1>7. Writable({})
  BY WritableFacts
<1> QED
  BY <1>1, <1>3, <1>5, <1>6, <1>7, FrameInv

\* HandleExceptionInFrame without one: the frame is drained and left.
LEMMA LeaveWithExceptionInv ==
    ASSUME HeapInv, steps < MaxSteps, steps' = steps + 1,
           NEW returnsValue \in BOOLEAN, LeaveWithException(returnsValue)
    PROVE  HeapInv'
<1> DEFINE gone == Dispatched  left == Leave(gone, << >>)
           h == IF gone.fault # "none" THEN gone ELSE left
<1>1. Depth > 1 /\ BackToCaller(h, returnsValue)
  BY DEF LeaveWithException
<1>2. Depth > 0 /\ Depth \in 1 .. MaxFrames
  <2>1. Depth > 0
    BY <1>1, LenProperties DEF HeapInv, TypeOK, Depth
  <2> QED
    BY <2>1, Found
<1>3. Good(gone, Zero) /\ Keeps(heap, gone, {})
  BY <1>2, DispatchedGood
<1> HIDE DEF gone
<1>4. /\ Good(left, Zero) /\ Keeps(gone, left, FramePlaces(Depth))
      /\ left.fault = "none" => \A p \in FramePlaces(Depth) : left.own[p] = Null
  BY <1>2, <1>3, EvalFacts, LeaveGood
<1> HIDE DEF left
<1>5. Keeps(heap, gone, FramePlaces(Depth)) /\ Keeps(heap, left, FramePlaces(Depth))
  <2>1. Keeps(heap, left, {} \cup FramePlaces(Depth)) /\ {} \cup FramePlaces(Depth) = FramePlaces(Depth)
    BY <1>3, <1>4, KeepsTrans
  <2>2. Keeps(heap, gone, FramePlaces(Depth))
    BY <1>3, KeepsWeaker
  <2> QED
    BY <2>1, <2>2
<1>6. /\ Good(h, Zero) /\ Keeps(heap, h, FramePlaces(Depth))
      /\ h.fault = "none" => \A p \in FramePlaces(Depth) : h.own[p] = Null
  BY <1>3, <1>4, <1>5
<1> HIDE DEF h
<1> QED
  BY <1>1, <1>6, BackToCallerInv

\* END_CATCH.
LEMMA EndCatchInv ==
    ASSUME HeapInv, steps < MaxSteps, steps' = steps + 1, EndCatch
    PROVE  HeapInv'
<1> DEFINE v == heap.own[ExcP(Depth)]  x == SetException(heap, Depth, Null)  h == CollectInstance(x, v)
<1>1. Depth > 0 /\ heap' = h /\ UNCHANGED << frames, interned >>
  BY DEF EndCatch, Running
<1>2. /\ Depth \in 1 .. MaxFrames /\ Good(heap, Zero) /\ KnownFrames(heap, frames) /\ frames # << >>
      /\ \A p \in Places : Known(heap, heap.own[p])
  BY <1>1, Found
<1>3. Known(heap, v) /\ Known(heap, Null) /\ Null \notin Objects /\ Zero \in Deltas
  BY <1>2, FramePlaceRoots, ObjectsNat, ZeroSafe DEF Roots, Known, Entry, Value
<1> HIDE DEF v
<1>4. Good(x, Zero) /\ Keeps(heap, x, {ExcP(Depth)})
  <2>1. Good(x, Plus(Zero, Null, -1)) /\ Keeps(heap, x, {ExcP(Depth)})
    BY <1>2, <1>3, SetExceptionGood
  <2>2. Plus(Zero, Null, -1) = Zero
    BY <1>3, DeltaFacts
  <2> QED
    BY <2>1, <2>2
<1> HIDE DEF x
<1>5. Good(h, Zero) /\ Keeps(x, h, {})
  <2>1. Known(x, v)
    BY <1>3, <1>4, KeepsKnown
  <2> QED
    BY <1>4, <2>1, CollectGood
<1> HIDE DEF h
<1>6. Keeps(heap, h, {ExcP(Depth)})
  <2>1. Keeps(heap, h, {ExcP(Depth)} \cup {}) /\ {ExcP(Depth)} \cup {} = {ExcP(Depth)}
    BY <1>4, <1>5, KeepsTrans
  <2> QED
    BY <2>1
<1>7. KnownFrames(h, frames) /\ Writable({ExcP(Depth)})
  BY <1>2, <1>6, KeepsFrames, WritableFacts
<1>8. Beyond(h, Depth)
  BY <1>1, <1>6, <1>7, BeyondWritable
<1>9. interned' \in [Literals -> Value] /\ \A l \in Literals : Known(h, interned'[l])
  BY <1>1, <1>6, InternedKept
<1>10. Beyond(heap', Len(frames')) /\ KnownFrames(heap', frames') /\ Len(frames') \in 1 .. MaxFrames
  BY <1>1, <1>2, <1>7, <1>8 DEF Depth
<1> QED
  BY <1>1, <1>2, <1>5, <1>9, <1>10, Concluded

\* Everything is freed and no place is left.
LEMMA TerminateInv ==
    ASSUME HeapInv, steps < MaxSteps, steps' = steps + 1, Terminate
    PROVE  HeapInv'
<1> DEFINE live == {o \in Objects : heap.st[o] = "live"}  g == Freed(heap, live)
           none == [p \in Places |-> Null]
<1>1. heap' = [g EXCEPT !.own = none] /\ frames' = << >> /\ UNCHANGED interned
  BY DEF Terminate
<1>2. heap \in Heap
  BY DEF HeapInv, TypeOK
<1>3. g \in Heap /\ \A o \in Objects : g.st[o] = IF o \in live THEN "freed" ELSE heap.st[o]
  BY <1>2, FreedFields
<1>4. none \in [Places -> Entry]
  BY DEF Entry, Value
<1>5. \A o \in Objects : g.st[o] # "live" /\ (heap.st[o] # "unused" => g.st[o] # "unused")
  BY <1>3
<1> HIDE DEF g
<1>6. heap' \in Heap /\ heap'.st = g.st /\ heap'.own = none
  BY <1>1, <1>3, <1>4 DEF Heap
<1>7. TypeOK'
  <2>1. frames' \in Seq(Frame) /\ Len(frames') <= MaxFrames
    BY <1>1, HeapAssumption
  <2>2. interned' \in [Literals -> Value] /\ steps' \in 0 .. MaxSteps
    BY <1>1, HeapAssumption DEF HeapInv, TypeOK
  <2> QED
    BY <1>6, <2>1, <2>2 DEF TypeOK
<1>8. \A l \in Literals : Known(heap', interned'[l])
  BY <1>1, <1>5, <1>6 DEF HeapInv, Known
<1>9. KnownFrames(heap', frames')
  BY <1>1 DEF KnownFrames
<1>10. (\A p \in Places : heap'.own[p] = Null) /\ \A o \in Objects : heap'.st[o] # "live"
  BY <1>5, <1>6
<1> QED
  BY <1>1, <1>7, <1>8, <1>9, <1>10 DEF HeapInv

-----------------------------------------------------------------------------
(* The theorems                                                            *)

\* Every instruction keeps the books.
LEMMA HeapInvNext == HeapInv /\ [Next]_vars => HeapInv'
<1> SUFFICES ASSUME HeapInv, [Next]_vars PROVE HeapInv'
  OBVIOUS
<1>1. CASE Next
  <2>1. steps < MaxSteps /\ steps' = steps + 1
    BY <1>1 DEF Next
  <2>2. CASE LoadConstNull \/ Dup \/ (\E i \in Locals : LoadLocal(i)) \/ (\E s \in Statics : LoadStaticField(s))
    BY <2>1, <2>2, LoadsInv
  <2>3. CASE \E l \in Literals : LoadConstString(l)
    BY <2>1, <2>3, LoadConstStringInv
  <2>4. CASE \E i \in Locals : StoreLocal(i)
    BY <2>1, <2>4, StoreLocalInv
  <2>5. CASE Pop
    BY <2>1, <2>5, PopInv
  <2>6. CASE LoadField
    BY <2>1, <2>6, LoadFieldInv
  <2>7. CASE StoreField
    BY <2>1, <2>7, StoreFieldInv
  <2>8. CASE \E s \in Statics : StoreStaticField(s)
    BY <2>1, <2>8, StoreStaticFieldInv
  <2>9. CASE NewArray
    BY <2>1, <2>9, NewArrayInv
  <2>10. CASE LoadArrayElement
    BY <2>1, <2>10, LoadArrayElementInv
  <2>11. CASE StoreArrayElement
    BY <2>1, <2>11, StoreArrayElementInv
  <2>12. CASE ArrayLength
    BY <2>1, <2>12, ArrayLengthInv
  <2>13. CASE CallMethod
    BY <2>1, <2>13, CallMethodInv
  <2>14. CASE NewObject
    BY <2>1, <2>14, NewObjectInv
  <2>15. CASE \E v \in BOOLEAN : Return(v)
    BY <2>1, <2>15, ReturnInv
  <2>16. CASE \E v \in BOOLEAN : LeaveWithException(v)
    BY <2>1, <2>16, LeaveWithExceptionInv
  <2>17. CASE \E which \in {"arg", "new", "null"} : CallNative(which)
    BY <2>1, <2>17, CallNativeInv
  <2>18. CASE Throw
    BY <2>1, <2>18, ThrowInv
  <2>19. CASE Rethrow
    BY <2>1, <2>19, RethrowInv
  <2>20. CASE HandleException
    BY <2>1, <2>20, HandleExceptionInv
  <2>21. CASE EndCatch
    BY <2>1, <2>21, EndCatchInv
  <2>22. CASE Terminate
    BY <2>1, <2>22, TerminateInv
  <2> QED
    BY <1>1, <2>2, <2>3, <2>4, <2>5, <2>6, <2>7, <2>8, <2>9, <2>10, <2>11, <2>12, <2>13, <2>14, <2>15,
       <2>16, <2>17, <2>18, <2>19, <2>20, <2>21, <2>22 DEF Next
<1>2. CASE UNCHANGED vars
  BY <1>2 DEF vars, HeapInv, TypeOK
<1> QED
  BY <1>1, <1>2

\* The books balance in every state: what the instructions do to counters,
\* places and the account is inductive (VirtualMachine::ProcessCode on
\* references, with GarbageCollector and CallStackFrame).
THEOREM HeapInvariant == Spec => []HeapInv
<1>1. Init => HeapInv
  BY HeapInvInit
<1>2. HeapInv /\ [Next]_vars => HeapInv'
  BY HeapInvNext
<1> QED
  BY <1>1, <1>2, PTL DEF Spec

\* The heap, the frames and the table of interned strings have their types.
THEOREM HeapTypeCorrect == Spec => []TypeOK
<1>1. HeapInv => TypeOK
  BY HeapInvProperties
<1> QED
  BY <1>1, HeapInvariant, PTL

\* The counter of a live object is the places that refer to it and the counts
\* that the account says nobody owns (ReferencesCounter, from AllocateInstance
\* to TerminateInstance).
THEOREM CountsExact == Spec => []RefCountExact
<1>1. HeapInv => RefCountExact
  BY HeapInvProperties
<1> QED
  BY <1>1, HeapInvariant, PTL

\* DestroyInstance, CollectInstance and the drains free no object that a
\* local, a field, a static field or a current exception refers to, but those
\* that lost a count nobody was to take.
THEOREM OwnedNotFreed == Spec => []OwnedAlive
<1>1. HeapInv => OwnedAlive
  BY HeapInvProperties
<1> QED
  BY <1>1, HeapInvariant, PTL
=============================================================================
