------------------------------- MODULE Members -------------------------------
(***************************************************************************)
(* DeclarationCollector: the symbols of a unit's declarations, and what it *)
(* reports of members that stand where they must not.                      *)
(*                                                                         *)
(* A member's node is a record of its kind, its modifiers and what the     *)
(* rules look at: name, operator token (op), number of parameters, body,   *)
(* and the accessors of a property or an indexer.  An owner is the symbol  *)
(* of a type, of a namespace or of the unit; its lists (Fields, Methods,   *)
(* Operators, Constructors, Properties, Indexators) are the symbols of     *)
(* each kind in `members`.  at is the index of the member in its owner.    *)
(***************************************************************************)
EXTENDS Integers, Sequences, SequencesExt

TypeKinds == {"class", "struct", "interface", "enum", "delegate"}
IsType(owner) == owner.kind \in TypeKinds
IsSpace(owner) == owner.kind \in {"namespace", "unit"}

(***************************************************************************)
(* Symbols.                                                                *)
(***************************************************************************)
SetAccesibility(sym, modifier) ==
  CASE modifier = "public" -> [sym EXCEPT !.public = TRUE]
    [] modifier = "private" -> [sym EXCEPT !.public = FALSE]
    [] modifier = "static" -> [sym EXCEPT !.static = TRUE]
    [] OTHER -> sym
Symbol(kind, name, op, at, modifiers) ==
  FoldLeft(SetAccesibility,
           [kind |-> kind, name |-> name, op |-> op, at |-> at, public |-> FALSE, static |-> FALSE, abstract |-> FALSE,
            slots |-> <<>>],
           modifiers)
SymbolOf(node, at) == Symbol(node.kind, node.name, node.op, at, node.modifiers)

\* The parameters' slots behind "this"; an indexer counts the other way round.
ParameterSlots(sym, node) ==
  LET base == IF sym.static # (sym.kind = "indexator") THEN 0 ELSE 1
  IN [sym EXCEPT !.slots = [i \in 1..node.params |-> base + i - 1]]

\* A type keeps its members, but no type declared in it: that one gets no parent.
OnSymbolDeclared(owner, sym) ==
  IF IsType(owner) /\ sym.kind \in TypeKinds THEN owner ELSE [owner EXCEPT !.members = Append(@, sym)]
Declare(owner, sym) == OnSymbolDeclared(owner, sym)

Report(owner, at, rules) == [owner EXCEPT !.errors = @ \cup {<<at, rule>> : rule \in rules}]
Rule(broken, name) == IF broken THEN {name} ELSE {}

ListOf(owner, kind) == SelectSeq(owner.members, LAMBDA m : m.kind = kind)
HasAccessOperator(owner) == \E m \in ToSet(ListOf(owner, "operator")) : m.op = "."
InStaticType(owner, sym) == ~sym.static /\ owner.static

(***************************************************************************)
(* One member after the other.  The rules are tested when the member is    *)
(* met, on what the owner holds by then, the member included.              *)
(***************************************************************************)
FieldRulesAlone(owner, sym) ==
  CASE ~IsType(owner) -> {"outside"}
    [] owner.kind = "interface" -> {"in interface"}
    [] OTHER -> Rule(InStaticType(owner, sym), "instance in static type")
FieldRules(owner, sym) ==
  CASE ~IsType(owner) -> {"outside"}
    [] owner.kind = "interface" -> {"in interface"}
    [] OTHER -> Rule(InStaticType(owner, sym), "instance in static type")
                  \cup Rule(HasAccessOperator(owner) /\ sym.public, "public field")
FieldDeclared(owner, sym) == Report(owner, sym.at, FieldRules(owner, sym))
VisitField(owner, sym) == FieldDeclared(Declare(owner, sym), sym)

\* The slots are given before a method of a namespace becomes static.
MethodRules(owner, sym, node) ==
  (IF IsSpace(owner) THEN {} ELSE Rule(InStaticType(owner, sym), "instance in static type"))
    \cup Rule(~node.body /\ owner.kind # "interface", "no body")
MethodDeclared(owner, sym, node) == Report(Declare(owner, sym), sym.at, MethodRules(owner, sym, node))
VisitMethod(owner, sym, node) ==
  MethodDeclared(owner, IF IsSpace(owner) THEN [ParameterSlots(sym, node) EXCEPT !.static = TRUE] ELSE ParameterSlots(sym, node), node)

OperatorRules(owner, sym, node) ==
  Rule(~sym.public, "not public")
    \cup Rule(sym.op # "." /\ ~sym.static, "not static")
    \cup (IF IsType(owner) THEN Rule(owner.static /\ sym.op # ".", "in static type") ELSE {"outside"})
    \cup Rule(~node.body, "no body")
    \cup (IF IsType(owner) /\ sym.op = "."
          THEN Rule(Len(SelectSeq(ListOf(owner, "operator"), LAMBDA m : m.op = ".")) > 1, "second access operator")
                 \cup Rule(\E f \in ToSet(ListOf(owner, "field")) : f.public, "public field")
                 \cup Rule(node.params # 1, "parameters")
          ELSE {})
OperatorDeclared(owner, sym, node) == Report(owner, sym.at, OperatorRules(owner, sym, node))
VisitOperator(owner, sym, node) == OperatorDeclared(Declare(owner, sym), sym, node)

ConstructorRules(owner, sym, node) ==
  IF ~IsType(owner) THEN {"outside"}
  ELSE Rule(sym.name # "init" /\ sym.name # owner.name, "name") \cup Rule(sym.static, "static") \cup Rule(~node.body, "no body")
VisitConstructor(owner, sym, node) == Report(Declare(owner, sym), sym.at, ConstructorRules(owner, sym, node))

\* An accessor is "none", "auto" (without a body) or "body".
IsAutoProperty(owner, node) == owner.kind # "interface" /\ "auto" \in {node.getter, node.setter}
BackingField(sym) == [sym EXCEPT !.kind = "field", !.public = FALSE, !.op = "backing"]
PropertyRules(owner, sym) ==
  IF ~IsType(owner) THEN {"outside"} ELSE Rule(InStaticType(owner, sym), "instance in static type")
PropertyDeclared(owner, sym, node) == IF IsAutoProperty(owner, node) THEN Declare(owner, BackingField(sym)) ELSE owner
VisitProperty(owner, sym, node) ==
  Report(PropertyDeclared(Declare(owner, sym), sym, node), sym.at, PropertyRules(owner, sym))

VisitIndexator(owner, sym, node) ==
  Report(Declare(owner, sym), sym.at, PropertyRules(owner, sym) \cup Rule({node.getter, node.setter} = {"none"}, "no accessor"))

\* A type in a type is declared, but finds no parent.
VisitNested(owner, sym) == Report(Declare(owner, sym), sym.at, Rule(IsType(owner), "no owner"))

VisitMember(owner, node, at) ==
  CASE node.kind = "field" -> VisitField(owner, SymbolOf(node, at))
    [] node.kind = "method" -> VisitMethod(owner, SymbolOf(node, at), node)
    [] node.kind = "operator" -> VisitOperator(owner, ParameterSlots(SymbolOf(node, at), node), node)
    [] node.kind = "constructor" -> VisitConstructor(owner, ParameterSlots(SymbolOf(node, at), node), node)
    [] node.kind = "property" -> VisitProperty(owner, SymbolOf(node, at), node)
    [] node.kind = "indexator" -> VisitIndexator(owner, ParameterSlots(SymbolOf(node, at), node), node)
    [] node.kind \in TypeKinds -> VisitNested(owner, SymbolOf(node, at))

(***************************************************************************)
(* Owners.                                                                 *)
(***************************************************************************)
MembersOf(owner, nodes) ==
  FoldLeft(LAMBDA o, i : VisitMember(o, nodes[i], i), owner, [i \in DOMAIN nodes |-> i])
Owner(kind, name, static) == [kind |-> kind, name |-> name, static |-> static, members |-> <<>>, errors |-> {}]

\* A class or a struct whose objects can exist and that declares no constructor gets one.
DefaultConstructor == Symbol("constructor", "init", "", 0, <<"public">>)
AddDefaultConstructor(owner) ==
  IF ~owner.static /\ ListOf(owner, "constructor") = <<>> THEN Declare(owner, DefaultConstructor) ELSE owner
\* The members of an interface are public, its methods (also operators and constructors) abstract.
OpenMembers(owner) ==
  [owner EXCEPT !.members = [i \in DOMAIN @ |->
     [@[i] EXCEPT !.public = TRUE, !.abstract = @ \/ owner.members[i].kind \in {"method", "operator", "constructor"}]]]
VisitType(kind, name, static, nodes) ==
  LET owner == MembersOf(Owner(kind, name, static), nodes)
  IN IF kind = "interface" THEN OpenMembers(owner) ELSE AddDefaultConstructor(owner)

\* TypeBinder declares the members that have a node once more, into the same lists, and
\* ExpressionBinder those that are not of an interface again.
HasNode(sym) == sym.at # 0 /\ sym.op # "backing"
Redeclare(owner, syms) == FoldLeft(Declare, owner, syms)
Analyzed(owner, syms) ==
  IF owner.kind = "interface" THEN Redeclare(owner, syms) ELSE Redeclare(Redeclare(owner, syms), syms)

(***************************************************************************)
(* Enums.  An initializer is "none", "other" or a number literal, of which *)
(* `leading` are the decimal digits it starts with; a field that is        *)
(* reported is left out.                                                   *)
(***************************************************************************)
ReadEnumFieldValue(initializer) == initializer.leading
AddEnumField(enum, name, value) == [enum EXCEPT !.values = Append(@, <<name, value>>), !.previous = value]
VisitEnumField(enum, field, i, flags) ==
  CASE field.initializer.kind # "none" /\ (flags \/ field.initializer.kind = "other") -> [enum EXCEPT !.errors = @ \cup {i}]
    [] field.initializer.kind = "number" /\ ~flags -> AddEnumField(enum, field.name, ReadEnumFieldValue(field.initializer))
    [] field.initializer.kind = "none" /\ flags -> AddEnumField(enum, field.name, 2 ^ (i - 1))
    [] OTHER -> AddEnumField(enum, field.name, IF i = 1 THEN 0 ELSE enum.previous + 1)
VisitEnum(fields, flags) ==
  FoldLeft(LAMBDA enum, i : VisitEnumField(enum, fields[i], i, flags), [values |-> <<>>, previous |-> 0, errors |-> {}],
           [i \in DOMAIN fields |-> i])
=============================================================================
