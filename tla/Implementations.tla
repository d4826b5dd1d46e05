--------------------------- MODULE Implementations ---------------------------
(***************************************************************************)
(* Which method of a class answers a call through an interface: the table  *)
(* TypeBinder fills when a class has been typed, SemanticValidator checks  *)
(* and completes, and CALLINTERFACE reads.  A table is keyed by the member *)
(* of the declared interface; all the constructions of a generic interface *)
(* share that key.                                                         *)
(***************************************************************************)
EXTENDS Types, Functions, TLC

\* The accessors a property declares are calls of their own.
Call(i, m) == [interface |-> i, member |-> m, part |-> "call"]
Getter(i, p) == [interface |-> i, member |-> p, part |-> "get"]
Setter(i, p) == [interface |-> i, member |-> p, part |-> "set"]
Answer(m, part) == [member |-> m, part |-> part]

RECURSIVE SubstituteInterfaceType(_, _)
SubstituteInterfaceType(t, generic) ==
  CASE t.kind = "parameter" -> SubstituteIn(generic, t)
    [] t.kind = "generic" -> [t EXCEPT !.args = [i \in DOMAIN t.args |-> SubstituteInterfaceType(t.args[i], generic)]]
    [] t.kind = "array" -> ArrayType(SubstituteInterfaceType(t.of, generic))
    [] OTHER -> t

(***************************************************************************)
(* IsInterfaceImplementationMatching: the result may be more derived, the  *)
(* parameters are equal.  Neither linking nor accessibility is compared.   *)
(***************************************************************************)
MethodMatchesByCount(m, c, generic) ==
  m.name = c.name /\ Len(m.params) = Len(c.params)
    /\ IsAssignableTo(SubstituteInterfaceType(m.returns, generic), c.returns)
MethodMatches(m, c, generic) ==
  /\ m.name = c.name
  /\ Len(m.params) = Len(c.params)
  /\ IsAssignableTo(SubstituteInterfaceType(m.returns, generic), c.returns)
  /\ \A i \in DOMAIN m.params : AreTypesEqual(SubstituteInterfaceType(m.params[i], generic), c.params[i])
PropertyMatches(p, c, generic) ==
  /\ p.name = c.name
  /\ AreTypesEqual(SubstituteInterfaceType(p.returns, generic), c.returns)
  /\ p.getter => c.getter
  /\ p.setter => c.setter

\* What a call finds already in the table, or the first member that matches.
MatchedMethod(class, table, i, m, generic) ==
  IF Call(i, m) \in DOMAIN table THEN table[Call(i, m)].member
  ELSE FirstOf(Symbols[class].methods, LAMBDA c : MethodMatches(m, c, generic))
MatchedProperty(class, table, i, p, generic) ==
  CASE p.getter /\ Getter(i, p) \in DOMAIN table -> table[Getter(i, p)].member
    [] ~(p.getter /\ Getter(i, p) \in DOMAIN table) /\ p.setter /\ Setter(i, p) \in DOMAIN table ->
         table[Setter(i, p)].member
    [] OTHER -> FirstOf(Symbols[class].properties, LAMBDA c : PropertyMatches(p, c, generic))

EnterMethod(table, i, m, c) == (Call(i, m) :> Answer(c, "call")) @@ table
EnterProperty(table, i, p, c) ==
  (IF p.getter /\ c.getter THEN Getter(i, p) :> Answer(c, "get") ELSE <<>>)
    @@ (IF p.setter /\ c.setter THEN Setter(i, p) :> Answer(c, "set") ELSE <<>>) @@ table

(***************************************************************************)
(* BindInterfaceImplementations: the bases of the interface first.         *)
(***************************************************************************)
BindMembers(class, interface, table) ==
  LET i == interface.name
      Enter(t, m) == LET c == MatchedMethod(class, t, i, m, interface)
                     IN IF c = Null THEN t ELSE EnterMethod(t, i, m, c)
      EnterBoth(t, p) == LET c == MatchedProperty(class, t, i, p, interface)
                         IN IF c = Null THEN t ELSE EnterProperty(t, i, p, c)
  IN FoldLeft(EnterBoth, FoldLeft(Enter, table, Symbols[i].methods), Symbols[i].properties)

RECURSIVE BindInterfaceImplementationsInternal(_, _, _)
BindInterfaceImplementationsInternal(class, interface, at) ==
  IF interface \in at.visited THEN at
  ELSE LET Base(b) == IF b.kind = "generic" THEN SubstituteInterfaceType(b, interface) ELSE b
           bases == FoldLeft(LAMBDA a, b : BindInterfaceImplementationsInternal(class, Base(b), a),
                             [at EXCEPT !.visited = @ \cup {interface}], Symbols[interface.name].interfaces)
       IN [bases EXCEPT !.table = BindMembers(class, interface, @)]

BindInterfaceImplementations(class, interface, table) ==
  BindInterfaceImplementationsInternal(class, interface, [table |-> table, visited |-> {}]).table

\* VisitClassDeclaration, VisitStructDeclaration: once the members are typed.  The
\* members of an interface that is declared later have no types yet and match nothing.
BindClass(class, typed) ==
  FoldLeft(LAMBDA t, i : IF i.name \in typed THEN BindInterfaceImplementations(class, i, t) ELSE t,
           <<>>, Symbols[class].interfaces)

(***************************************************************************)
(* ValidateInterfaceImplementations: a member without an answer and an     *)
(* answer that does not match are reported; otherwise the table is filled. *)
(***************************************************************************)
RECURSIVE CollectInterfaces(_, _)
CollectInterfaces(t, out) ==
  FoldLeft(LAMBDA o, i : IF i \in ToSet(o) THEN o ELSE CollectInterfaces(i, Append(o, i)),
           out, IF t.kind = "named" THEN Symbols[t.name].interfaces ELSE <<>>)

ValidateMethod(class, interface, at, m) ==
  LET c == MatchedMethod(class, at.table, interface.name, m, interface)
  IN IF c = Null \/ ~MethodMatches(m, c, interface) THEN [at EXCEPT !.errors = @ + 1]
     ELSE [at EXCEPT !.table = EnterMethod(@, interface.name, m, c)]
ValidateProperty(class, interface, at, p) ==
  LET c == MatchedProperty(class, at.table, interface.name, p, interface)
  IN IF c = Null \/ ~PropertyMatches(p, c, interface) THEN [at EXCEPT !.errors = @ + 1]
     ELSE [at EXCEPT !.table = EnterProperty(@, interface.name, p, c)]

ValidateInterfaceImplementations(class, table) ==
  FoldLeft(LAMBDA at, i : FoldLeft(LAMBDA a, p : ValidateProperty(class, i, a, p),
                                   FoldLeft(LAMBDA a, m : ValidateMethod(class, i, a, m), at, Symbols[i.name].methods),
                                   Symbols[i.name].properties),
           [table |-> table, errors |-> 0], CollectInterfaces(Named(class), <<>>))

\* TypeSymbol::FindInterfaceImplementation, of an object whose class is class; the
\* tables of the interfaces themselves are empty.
FindInterfaceImplementation(table, call) == IF call \in DOMAIN table THEN table[call] ELSE Null
=============================================================================
