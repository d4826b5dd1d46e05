-------------------------------- MODULE Types --------------------------------
(***************************************************************************)
(* The type symbols of the semantic model and the questions SemanticModel, *)
(* TypeSymbol and GenericTypeSymbol answer about them.  A declared type is *)
(* known by its name; a constructed, an array and a delegate type by their *)
(* parts, which is what AreTypesEqual compares.                            *)
(***************************************************************************)
EXTENDS Integers, SequencesExt, FiniteSetsExt

\* The declared types: name |-> [kind, byValue, typeParameters (their number),
\* interfaces (a sequence of types), operators, indexators, constructors, fields,
\* properties, methods (sequences of members), signature (of a delegate), size].
CONSTANT Symbols

Null == [kind |-> "nullptr"]
Named(n) == [kind |-> "named", name |-> n]
GenericType(n, args) == [kind |-> "generic", name |-> n, args |-> args]
ArrayType(t) == [kind |-> "array", of |-> t]
DelegateType(ret, params) == [kind |-> "delegate", returns |-> ret, params |-> params]
TypeParameter(owner, i) == [kind |-> "parameter", owner |-> owner, index |-> i]

\* A member: its declaring type, its parameters without `this', its accessors.
Member(owner, name, linking, typeParameters, params, ret) ==
  [owner |-> owner, name |-> name, linking |-> linking, typeParameters |-> typeParameters, params |-> params,
   returns |-> ret, getter |-> TRUE, setter |-> TRUE]

AnyType == Named("any")
Void == Named("void")
NullType == Named("null")
Boolean == Named("bool")
Integer == Named("int")
Double == Named("double")
Char == Named("char")
String == Named("string")
Byte == Named("byte")
NativeInteger == Named("nint")

\* GetTypeSymbol kinds: the declaration behind a type.
Declaration(t) == Symbols[IF t.kind = "array" THEN "Array" ELSE t.name]
Declared(t) == t.kind \in {"named", "generic"}
IsInterface(t) == t.kind = "named" /\ Symbols[t.name].kind = "interface"
ByReference(t) == ~(Declared(t) /\ Symbols[t.name].byValue)
SubstituteTypeParameters(generic, p) ==
  IF generic.kind = "generic" /\ p.owner = generic.name THEN generic.args[p.index] ELSE Null

\* AreTypesEqual
AreTypesEqual(left, right) == left # Null /\ right # Null /\ left = right

IsPrimitiveType(t) == t \in {Boolean, Integer, Double, Char, String, Named("Array"), NativeInteger}

(***************************************************************************)
(* Interfaces.  A constructed type has no interface list of its own, so    *)
(* the walk ends at a constructed interface.                               *)
(***************************************************************************)
Interfaces(t) == IF t.kind = "named" THEN ToSet(Symbols[t.name].interfaces) ELSE {}

RECURSIVE CollectAllInterfaces(_, _)
CollectAllInterfaces(t, visited) ==
  FoldSet(LAMBDA i, seen : IF i \in seen THEN seen ELSE CollectAllInterfaces(i, seen \cup {i}),
          visited, Interfaces(t))
GetAllInterfaces(t) == CollectAllInterfaces(t, {})

MatchesInterfaceByName(target, candidate, source) ==
  candidate.kind = "generic" /\ candidate.name = target.name
MatchesInterface(target, candidate, source) ==
  /\ candidate.kind = "generic" /\ candidate.name = target.name
  /\ \A i \in DOMAIN target.args :
       AreTypesEqual(target.args[i],
                     IF candidate.args[i].kind = "parameter" /\ source.kind = "generic"
                     THEN SubstituteTypeParameters(source, candidate.args[i])
                     ELSE candidate.args[i])

IsConstructedInterfaceImplemented(target, source) ==
  LET walked == {source} \cup (IF source.kind = "generic" THEN {Named(source.name)} ELSE {})
                         \cup (IF source.kind = "array" THEN {Named("Array")} ELSE {})
  IN /\ Symbols[target.name].kind = "interface"
     /\ \/ \E t \in walked : \E i \in GetAllInterfaces(t) : MatchesInterface(target, i, source)
        \/ source.kind = "array" /\ target.name = "IEnumerable" /\ AreTypesEqual(target.args[1], source.of)

\* One level of substitution, as the signature of a delegate needs.
SubstituteIn(generic, t) ==
  IF t.kind = "parameter" /\ SubstituteTypeParameters(generic, t) # Null
  THEN SubstituteTypeParameters(generic, t) ELSE t

SameSignature(target, source, subst(_)) ==
  /\ AreTypesEqual(subst(target.returns), source.returns)
  /\ Len(target.params) = Len(source.params)
  /\ \A i \in DOMAIN target.params : AreTypesEqual(subst(target.params[i]), source.params[i])

IsAssignableTo(target, source) ==
  /\ target # Null /\ source # Null
  /\ \/ AreTypesEqual(target, source)
     \/ target = AnyType
     \/ /\ source = NullType /\ ByReference(target)
     \/ /\ source # NullType
        /\ \/ /\ IsInterface(target)
              /\ \/ \E i \in GetAllInterfaces(source) : AreTypesEqual(target, i)
                 \/ source.kind = "array" /\ \E i \in GetAllInterfaces(Named("Array")) : AreTypesEqual(target, i)
           \/ target.kind = "generic" /\ IsConstructedInterfaceImplemented(target, source)
           \/ /\ target.kind = "generic" /\ Symbols[target.name].kind = "delegate" /\ source.kind = "delegate"
              /\ SameSignature(Symbols[target.name].signature, source, LAMBDA t : SubstituteIn(target, t))
           \/ /\ target.kind = "delegate" /\ source.kind = "delegate"
              /\ SameSignature(target, source, LAMBDA t : t)

(***************************************************************************)
(* Members by the types of the arguments: the first one whose parameters   *)
(* accept them (FindConstructor, FindMethod, FindOperator, FindIndexator). *)
(***************************************************************************)
ParamPredicate(param, arg) == param = AnyType \/ IsAssignableTo(param, arg)
Accepts(params, args) ==
  Len(params) = Len(args) /\ \A i \in DOMAIN params : ParamPredicate(params[i], args[i])

FirstOf(members, Test(_)) ==
  LET found == SelectInSeq(members, Test) IN IF found = 0 THEN Null ELSE members[found]

FindConstructor(t, args) == FirstOf(Declaration(t).constructors, LAMBDA m : Accepts(m.params, args))
FindOperator(t, op, args) ==
  IF t.kind # "named" THEN Null
  ELSE FirstOf(Symbols[t.name].operators, LAMBDA m : m.name = op /\ Accepts(m.params, args))
FindConversion(t, args, ret) ==
  IF t.kind # "named" THEN Null
  ELSE FirstOf(Symbols[t.name].operators, LAMBDA m : m.name = "as" /\ m.returns = ret /\ Accepts(m.params, args))
FindField(t, name) == FirstOf(Declaration(t).fields, LAMBDA f : f.name = name)
FindProperty(t, name) == FirstOf(Declaration(t).properties, LAMBDA f : f.name = name)

\* GenericTypeSymbol::FindIndexator asks for equal types.  Its predicate is a
\* static object that keeps the `this' of the first call, first.
FindIndexator(t, args, first) ==
  IF t.kind = "generic"
  THEN FirstOf(Declaration(t).indexators,
               LAMBDA m : /\ Len(m.params) = Len(args)
                          /\ \A i \in DOMAIN args :
                               \/ m.params[i] = AnyType
                               \/ AreTypesEqual(IF m.params[i].kind = "parameter"
                                                THEN SubstituteTypeParameters(first, m.params[i])
                                                ELSE m.params[i], args[i]))
  ELSE FirstOf(Declaration(t).indexators, LAMBDA m : Accepts(m.params, args))

\* SubstituteType: the type of a field, a property or a result seen from a constructed type.
SubstituteType(t, within) ==
  CASE t.kind = "parameter" -> SubstituteIn(within, t)
    [] t.kind = "array" /\ t.of.kind = "parameter" /\ within.kind = "generic" ->
         ArrayType(SubstituteTypeParameters(within, t.of))
    [] OTHER -> t
=============================================================================
