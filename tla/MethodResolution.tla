--------------------------- MODULE MethodResolution ---------------------------
(***************************************************************************)
(* How ExpressionBinder chooses the method of an invocation and the type   *)
(* arguments of a generic one.  A method is a member (Types) whose own     *)
(* type parameters are TypeParameter(method, i); `this' is not one of its  *)
(* parameters.                                                             *)
(***************************************************************************)
EXTENDS Types

\* A failed step of the inference.
Failed == <<[kind |-> "failed"]>>

(***************************************************************************)
(* SubstituteTypeParameters with the receiver's type arguments and those   *)
(* of the method.                                                          *)
(***************************************************************************)
SubstituteMethodTypeParameter(t, method, typeArgs) ==
  IF t.kind = "parameter" /\ t.owner = method /\ t.index <= Len(typeArgs) THEN typeArgs[t.index] ELSE t

RECURSIVE Substitute(_, _, _, _)
Substitute(t, generic, method, typeArgs) ==
  CASE t.kind = "parameter" -> SubstituteMethodTypeParameter(SubstituteIn(generic, t), method, typeArgs)
    [] t.kind = "generic" -> [t EXCEPT !.args = [i \in DOMAIN t.args |-> Substitute(t.args[i], generic, method, typeArgs)]]
    [] t.kind = "array" -> ArrayType(Substitute(t.of, generic, method, typeArgs))
    [] OTHER -> t

(***************************************************************************)
(* Inference: known holds the arguments found so far (Null where there is  *)
(* none), or is Failed.                                                    *)
(***************************************************************************)
Infer(known, i, concrete) ==
  CASE known[i] = Null -> [known EXCEPT ![i] = concrete]
    [] known[i] # Null /\ AreTypesEqual(known[i], concrete) -> known
    [] OTHER -> Failed

\* The first constructed interface of a declared type that has the name of the pattern.
ImplementedAs(concrete, name) ==
  FirstOf(Symbols[concrete.name].interfaces, LAMBDA i : i.kind = "generic" /\ i.name = name)

RECURSIVE TryInferTypeArgument(_, _, _, _, _)
TryInferTypeArgument(pattern, concrete, method, generic, known) ==
  LET resolved == SubstituteIn(generic, pattern)
      Each(patterns, concretes) ==
        FoldLeftDomain(LAMBDA k, i : IF k = Failed THEN k
                                     ELSE TryInferTypeArgument(patterns[i], concretes[i], method, generic, k),
                       known, patterns)
      implemented == ImplementedAs(concrete, resolved.name)
      signature == Symbols[resolved.name].signature
  IN CASE resolved.kind = "parameter" ->
            IF resolved.owner = method THEN Infer(known, resolved.index, concrete) ELSE known
       [] resolved.kind = "generic" /\ resolved.name = "IEnumerable" /\ concrete.kind = "array" ->
            TryInferTypeArgument(resolved.args[1], concrete.of, method, generic, known)
       [] resolved.kind = "generic" /\ concrete.kind = "generic" ->
            IF concrete.name = resolved.name THEN Each(resolved.args, concrete.args) ELSE known
       [] resolved.kind = "generic" /\ concrete.kind = "named" ->
            IF implemented = Null THEN known ELSE Each(resolved.args, implemented.args)
       [] resolved.kind = "generic" /\ concrete.kind = "delegate" /\ Symbols[resolved.name].kind = "delegate" ->
            LET inReturn == TryInferTypeArgument(SubstituteIn(resolved, signature.returns), concrete.returns,
                                                 method, generic, known)
            IN IF inReturn = Failed \/ Len(signature.params) # Len(concrete.params) THEN inReturn
               ELSE FoldLeftDomain(LAMBDA k, i : IF k = Failed THEN k
                                     ELSE TryInferTypeArgument(SubstituteIn(resolved, signature.params[i]),
                                                               concrete.params[i], method, generic, k),
                                   inReturn, signature.params)
       [] resolved.kind = "array" /\ concrete.kind = "array" ->
            TryInferTypeArgument(resolved.of, concrete.of, method, generic, known)
       [] OTHER -> known

\* The parameters of an instance method are counted as if `this' came first.
Start(m) == IF m.linking = "instance" THEN 1 ELSE 0
InferMethodTypeArguments(m, args, generic) ==
  IF Len(args) + Start(m) # Len(m.params) THEN Failed
  ELSE LET found == FoldLeftDomain(LAMBDA k, i : IF k = Failed THEN k
                                     ELSE TryInferTypeArgument(m.params[i + Start(m)], args[i], m.name, generic, k),
                                   [i \in DOMAIN m.typeParameters |-> Null], args)
       IN IF found = Failed \/ Null \in ToSet(found) THEN Failed ELSE found

(***************************************************************************)
(* The type arguments of an open generic class, from the arguments of one  *)
(* of its static methods.                                                  *)
(***************************************************************************)
RECURSIVE TryInferClassTypeArgument(_, _, _, _)
TryInferClassTypeArgument(pattern, concrete, class, known) ==
  CASE pattern.kind = "parameter" ->
         IF pattern.owner = class THEN Infer(known, pattern.index, concrete) ELSE known
    [] pattern.kind = "array" ->
         IF concrete.kind # "array" THEN Failed
         ELSE TryInferClassTypeArgument(pattern.of, concrete.of, class, known)
    [] pattern.kind = "generic" ->
         IF concrete.kind # "generic" \/ concrete.name # pattern.name THEN Failed
         ELSE FoldLeftDomain(LAMBDA k, i : IF k = Failed THEN k
                               ELSE TryInferClassTypeArgument(pattern.args[i], concrete.args[i], class, k),
                             known, pattern.args)
    [] OTHER -> known

InferClassTypeArguments(class, m, args) ==
  IF Len(args) + Start(m) # Len(m.params) THEN Failed
  ELSE LET found == FoldLeftDomain(LAMBDA k, i : IF k = Failed THEN k
                                     ELSE TryInferClassTypeArgument(m.params[i + Start(m)], args[i], class, k),
                                   [i \in 1..Symbols[class].typeParameters |-> Null], args)
       IN IF found = Failed \/ Null \in ToSet(found) THEN Failed ELSE found

(***************************************************************************)
(* One candidate.  The result is the sequence of type arguments, or Failed.*)
(***************************************************************************)
TypeImplementsInterface(t, iface) ==
  \E i \in IF Declared(t) THEN ToSet(Symbols[t.name].interfaces) ELSE {} :
    i = iface \/ (i.kind = "generic" /\ i.name = iface.name)
TypeSatisfiesConstraint(arg, constraint) ==
  IF IsInterface(constraint) THEN TypeImplementsInterface(arg, constraint) ELSE IsAssignableTo(constraint, arg)

MatchGenericMethodArguments(m, args, generic, typeArgs) ==
  /\ Len(args) = Len(m.params)
  /\ \A i \in DOMAIN args :
       LET param == Substitute(m.params[i], generic, m.name, typeArgs)
       IN param = AnyType \/ IsAssignableTo(param, args[i])

TypeArguments(m, args, generic, explicit) ==
  CASE m.typeParameters = <<>> -> <<>>
    [] m.typeParameters # <<>> /\ explicit # <<>> -> explicit
    [] OTHER -> InferMethodTypeArguments(m, args, generic)
BreaksConstraint(m, typeArgs) ==
  \E i \in DOMAIN typeArgs : \E c \in m.typeParameters[i] : ~TypeSatisfiesConstraint(typeArgs[i], c)
Considered(m, name, typeArgs) ==
  m.name = name /\ typeArgs # Failed /\ Len(typeArgs) = Len(m.typeParameters)

TryMatchMethodUnconstrained(m, name, args, generic, explicit) ==
  LET typeArgs == TypeArguments(m, args, generic, explicit)
  IN IF Considered(m, name, typeArgs) /\ MatchGenericMethodArguments(m, args, generic, typeArgs)
     THEN typeArgs ELSE Failed
TryMatchMethod(m, name, args, generic, explicit) ==
  LET typeArgs == TypeArguments(m, args, generic, explicit)
  IN IF /\ Considered(m, name, typeArgs)
        /\ ~BreaksConstraint(m, typeArgs)
        /\ MatchGenericMethodArguments(m, args, generic, typeArgs)
     THEN typeArgs ELSE Failed

\* The error about a constraint is reported while candidates are tried, also
\* when a later one matches.
Reports(m, name, args, generic, explicit) ==
  LET typeArgs == TypeArguments(m, args, generic, explicit)
  IN Considered(m, name, typeArgs) /\ BreaksConstraint(m, typeArgs)

\* What ResolveMethod writes into the node, and whether an error was reported.
Resolved(m, typeArgs, receiver, extension, reported) ==
  [method |-> m, typeArgs |-> typeArgs, receiver |-> receiver, extension |-> extension, reported |-> reported]

FindMethodOverload(candidates, name, args, generic, explicit) ==
  LET at == SelectInSeq(candidates, LAMBDA c : TryMatchMethod(c, name, args, generic, explicit) # Failed)
  IN IF at = 0 THEN Null
     ELSE Resolved(candidates[at], TryMatchMethod(candidates[at], name, args, generic, explicit), generic, FALSE,
                   \E i \in 1..(at - 1) : Reports(candidates[i], name, args, generic, explicit))

\* The methods of an open generic class, tried with inferred class arguments.
FindOnOpenClass(class, name, args, explicit) ==
  LET Attempt(m) ==
        LET inferred == InferClassTypeArguments(class, m, args)
            generic == IF inferred = Failed THEN Null ELSE GenericType(class, inferred)
        IN IF inferred = Failed /\ m.linking # "static" THEN Null
           ELSE FindMethodOverload(<<m>>, name, args, generic, explicit)
      found == FirstOf(Symbols[class].methods, LAMBDA m : Attempt(m) # Null)
  IN IF found = Null THEN Null ELSE Attempt(found)

\* Step 1: the receiver's type, where the constraints of a type parameter are
\* searched in order.
OnReceiver(current, constraints, name, args, explicit) ==
  CASE current.kind = "parameter" ->
         LET InConstraint(c) == FindMethodOverload(Symbols[c.name].methods, name, args, Null, explicit)
             c == FirstOf(constraints, LAMBDA d : d.kind = "named" /\ InConstraint(d) # Null)
         IN IF c = Null THEN Null ELSE [InConstraint(c) EXCEPT !.receiver = c]
    [] current.kind = "named" /\ Symbols[current.name].typeParameters > 0 ->
         FindOnOpenClass(current.name, name, args, explicit)
    [] current.kind = "generic" -> FindMethodOverload(Symbols[current.name].methods, name, args, current, explicit)
    [] current.kind = "nullptr" -> Null
    [] OTHER -> FindMethodOverload(Declaration(current).methods, name, args, Null, explicit)

IsExtensionMethodCandidate(m, receiver, args) ==
  m.linking = "static" /\ receiver # Null /\ Len(m.params) = Len(args) + 1
    /\ \A i \in DOMAIN m.params : IsAssignableTo(m.params[i], (<<receiver>> \o args)[i])

\* Steps 2 and 3: the static methods of the program and the method the scope
\* finds take the receiver as their first argument.
ResolveMethod(current, constraints, static, name, args, explicit, statics, scope) ==
  LET own == OnReceiver(current, constraints, name, args, explicit)
      candidateArgs == IF static \/ current = Null THEN args ELSE <<current>> \o args
      other == FindMethodOverload(statics \o scope, name, candidateArgs,
                                  IF current.kind = "generic" THEN current ELSE Null, explicit)
      chosen == CASE own # Null -> own
                  [] own = Null /\ other # Null ->
                       [other EXCEPT !.extension = ~static,
                                     !.receiver = IF @ = Null THEN current ELSE @]
                  [] OTHER -> Null
  IN CASE chosen = Null -> Null
       [] chosen # Null /\ static /\ chosen.method.linking = "instance" -> Null
       [] chosen # Null /\ ~static /\ ~chosen.extension /\ chosen.method.linking = "static" ->
            IF IsExtensionMethodCandidate(chosen.method, current, args)
            THEN [chosen EXCEPT !.extension = TRUE] ELSE Null
       [] OTHER -> chosen
=============================================================================
