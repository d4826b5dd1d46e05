------------------------------- MODULE MCNames -------------------------------
(***************************************************************************)
(* Declarations with up to three members, in every order, and three units  *)
(* whose names hide each other.                                            *)
(***************************************************************************)
EXTENDS Jobs

\* What the collector and the type binder make of an input (CollectedOf, BoundOf),
\* parameters so that TLC does not unfold them.
CONSTANTS CollectedFor(_), BoundFor(_)

CM == INSTANCE Members

(***************************************************************************)
(* Members.                                                                *)
(***************************************************************************)
Node(kind, name, op, modifiers, params, body, getter, setter) ==
  [kind |-> kind, name |-> name, op |-> op, modifiers |-> modifiers, params |-> params, body |-> body,
   getter |-> getter, setter |-> setter]
Bare(kind, name, modifiers, body) == Node(kind, name, "", modifiers, 0, body, "none", "none")
Property(getter, setter, modifiers) == Node("property", "p", "", modifiers, 0, FALSE, getter, setter)
Operator(op, modifiers, params, body) == Node("operator", "op", op, modifiers, params, body, "none", "none")
MemberNodes ==
  {Bare("field", "f", m, FALSE) : m \in {<<>>, <<"public">>, <<"public", "static">>, <<"public", "private">>}}
    \cup {Node("method", "m", "", m, 2, body, "none", "none") : m \in {<<>>, <<"static">>}, body \in BOOLEAN}
    \cup {Operator(".", <<"public">>, n, TRUE) : n \in {1, 2}}
    \cup {Operator("+", m, 2, body) : m \in {<<"public", "static">>, <<"static">>}, body \in BOOLEAN} \cup {Operator("+", <<"public">>, 2, TRUE)}
    \cup {Bare("constructor", n, <<>>, TRUE) : n \in {"init", "C", "D"}}
    \cup {Bare("constructor", "C", <<"static">>, TRUE), Bare("constructor", "C", <<>>, FALSE), Bare("class", "N", <<>>, FALSE)}
    \cup {Property("auto", "none", m) : m \in {<<"public">>, <<"static">>}} \cup {Property("body", "auto", <<>>), Property("body", "none", <<>>)}
    \cup {Node("indexator", "this", "", <<>>, 1, FALSE, g, "none") : g \in {"none", "body"}}
Triples == {m \in MemberNodes : m.kind \in {"field", "operator", "property"}}
Collect ==
  Asked("Collect") /\ \E kind \in {"class", "struct", "interface", "unit"}, static \in BOOLEAN :
    /\ static => kind \in {"class", "struct"}
    /\ \E nodes \in UpTo(2, MemberNodes) \cup (IF kind = "class" THEN [1..3 -> Triples] ELSE {}) :
         job' = [part |-> "members", kind |-> kind, static |-> static, nodes |-> nodes]

Initializer(kind, value) == [kind |-> kind, leading |-> value]
EnumField(i) == [name |-> "x", initializer |-> i]
EnumFields == {EnumField(i) : i \in {Initializer("none", 0), Initializer("other", 0), Initializer("number", 7), Initializer("number", 0)}}
CollectEnum == Asked("CollectEnum") /\ \E fields \in UpTo(4, EnumFields), flags \in BOOLEAN :
  job' = [part |-> "enum", fields |-> fields, flags |-> flags]

(***************************************************************************)
(* Which declarations the language's rules allow, as sets of members.      *)
(***************************************************************************)
IsStatic(node) == "static" \in ToSet(node.modifiers)
IsPublic(node) == \E i \in DOMAIN node.modifiers : node.modifiers[i] = "public" /\ \A k \in DOMAIN node.modifiers : k > i => node.modifiers[k] # "private"
IsAccess(node) == node.kind = "operator" /\ node.op = "."
AllowedAlone(kind, static, node) ==
  /\ kind = "unit" => node.kind \in {"method", "class"}
  /\ kind # "unit" => node.kind # "class"
  /\ kind = "interface" => node.kind # "field"
  /\ static /\ ~IsStatic(node) => node.kind = "constructor" \/ IsAccess(node)
  /\ node.kind = "operator" => IsPublic(node) /\ (IsAccess(node) \/ (IsStatic(node) /\ ~static))
  /\ node.kind = "constructor" => node.name \in {"init", "C"} /\ ~IsStatic(node)
  /\ node.kind \in {"operator", "constructor"} \/ (node.kind = "method" /\ kind # "interface") => node.body
  /\ IsAccess(node) => node.params = 1
  /\ node.kind = "indexator" => {node.getter, node.setter} # {"none"}
AllowedTogether(nodes) ==
  \A i, k \in DOMAIN nodes : i # k /\ IsAccess(nodes[i]) => ~IsAccess(nodes[k]) /\ ~(nodes[k].kind = "field" /\ IsPublic(nodes[k]))
Allowed(kind, static, nodes) ==
  (\A i \in DOMAIN nodes : AllowedAlone(kind, static, nodes[i])) /\ AllowedTogether(nodes)

CollectedOwner(owner, analyzed) == [owner |-> owner, listed |-> analyzed.members]
CollectedMembers(owner) == CollectedOwner(owner, CM!Analyzed(owner, SelectSeq(owner.members, CM!HasNode)))
CollectedOf(j) ==
  CASE j.part = "enum" -> CM!VisitEnum(j.fields, j.flags)
    [] j.part = "members" /\ j.kind = "unit" -> CollectedMembers(CM!MembersOf(CM!Owner("unit", "", FALSE), j.nodes))
    [] OTHER -> CollectedMembers(CM!VisitType(j.kind, "C", j.static, j.nodes))

\* The value a field has when nothing is reported: one flag each, or counted from the
\* nearest initializer before it.
EnumValue(fields, flags, i) ==
  LET given == {k \in 1..i : fields[k].initializer.kind = "number"}
  IN IF flags THEN 2 ^ (i - 1) ELSE IF given = {} THEN i - 1 ELSE fields[Max(given)].initializer.leading + i - Max(given)

MembersWithNode(c) == SelectSeq(c.owner.members, CM!HasNode)
Accessors(node) == {node.getter, node.setter}

\* The collector reports a declaration exactly if its members break a rule of the language,
\* in whatever order they stand (VisitFieldDeclaration to VisitIndexatorDeclaration: the rule
\* against public fields beside an access operator is tested from both sides).  Of an
\* accepted one every member is listed once by the collector, the type binder and, outside
\* of interfaces, the expression binder, a class or struct has a constructor unless it is
\* static, auto properties have a
\* private field linked as they are, the members of interfaces are public and their methods
\* abstract, and methods outside of types are static; enum values count on from the nearest
\* initializer (VisitEnumDeclaration).
MembersPlaced ==
  /\ job.part = "members" =>
       LET c == CollectedFor(job)
           nodes == job.nodes
           listed == ToSet(c.owner.members)
       IN /\ c.owner.errors = {} <=> Allowed(job.kind, job.static, nodes)
          /\ c.owner.errors = {} =>
               /\ [i \in DOMAIN MembersWithNode(c) |-> MembersWithNode(c)[i].at] = [i \in DOMAIN nodes |-> i]
               /\ c.listed = c.owner.members \o MembersWithNode(c) \o (IF job.kind = "interface" THEN <<>> ELSE MembersWithNode(c))
               /\ job.kind \in {"class", "struct"} /\ ~job.static => \E m \in listed : m.kind = "constructor"
               /\ {m.at : m \in {n \in listed : n.op = "backing"}} =
                    {i \in DOMAIN nodes : nodes[i].kind = "property" /\ "auto" \in Accessors(nodes[i]) /\ job.kind # "interface"}
               /\ \A m \in listed : m.op = "backing" => ~m.public /\ m.static = IsStatic(nodes[m.at])
               /\ job.kind = "interface" => \A m \in listed : m.public /\ (m.kind = "method" => m.abstract)
               /\ job.kind = "unit" => \A m \in listed : m.kind = "method" => m.static
               /\ \A m \in listed : m.kind \in {"method", "operator", "constructor"} /\ job.kind # "unit" =>
                    m.slots = [i \in DOMAIN m.slots |-> IF m.static THEN i - 1 ELSE i]
  /\ job.part = "enum" =>
       LET c == CollectedFor(job)
           fields == job.fields
       IN /\ c.errors = {i \in DOMAIN fields : fields[i].initializer.kind = "other" \/ (job.flags /\ fields[i].initializer.kind # "none")}
          /\ c.errors = {} => c.values = [i \in DOMAIN fields |-> <<fields[i].name, EnumValue(fields, job.flags, i)>>]
(***************************************************************************)
(* Names.  Unit "given" declares types in namespace n1, unit "other" in n3 *)
(* and n1.n3; the probe is a type name in the method m of class C.         *)
(***************************************************************************)
TypeName(n) == [form |-> "name", name |-> n]
Qualified(left, n) == [form |-> "qualified", left |-> left, name |-> n]
InN1(n) == Qualified(TypeName("n1"), n)
Generic(of, args) == [form |-> "generic", of |-> of, args |-> args]
Global(kind, name, params) == [kind |-> kind, name |-> name, unit |-> 0, at |-> 0, public |-> TRUE, params |-> params]
GlobalTypes ==
  [int |-> Global("primitive", "int", <<>>), Task |-> Global("class", "Task", <<>>),
   ValueTask |-> Global("class", "ValueTask", <<"T">>), IThrowable |-> Global("interface", "IThrowable", <<>>)]

Declares(kind, name, public, params, bases, members) ==
  [kind |-> kind, name |-> name, public |-> public, params |-> params, wheres |-> <<>>, bases |-> bases, members |-> members]
Method(name, params, async, types, caught) ==
  [name |-> name, params |-> params, wheres |-> <<>>, async |-> async, types |-> types, caught |-> caught]
Unit(space, usings, decls) == [space |-> space, usings |-> usings, decls |-> decls]

Given(public, wheres, bases) ==
  Unit(<<"n1">>, <<>>,
       << Declares("class", "A", public, <<>>, <<>>, <<>>), Declares("interface", "I", TRUE, <<>>, <<>>, <<>>),
          [Declares("class", "G", TRUE, <<"T">>, <<>>, <<>>) EXCEPT !.wheres = wheres],
          Declares("class", "X", TRUE, <<>>, bases, <<>>), Declares("class", "E", TRUE, <<>>, <<TypeName("IThrowable")>>, <<>>) >>)
Other(space) == Unit(space, <<>>, << Declares("class", "A", TRUE, <<>>, <<>>, <<>>) >>)
Probing(space, usings, own, params, members) ==
  Unit(space, usings, own \o << Declares("class", "C", TRUE, params, <<>>, members) >>)

Own(kind) == << Declares(kind, "A", FALSE, <<>>, <<>>, <<>>) >>
Imports == {<<>>, << <<"n1">> >>, << <<"n3">>, <<"n1">> >>, << <<"n1">>, <<"n3">> >>, << <<"n1">>, <<"n1">> >>, << <<"nz">> >>}
Hidings ==     \* what is called A around the probe: parameters of C, of m, members of C
  { << <<>>, <<>>, <<>> >>, << <<"A">>, <<>>, <<>> >>, << <<>>, <<"A">>, <<>> >>,
    << <<"A">>, <<>>, << Method("A", <<>>, FALSE, <<>>, <<>>) >> >>, << <<"T">>, <<"A">>, << Method("A", <<>>, FALSE, <<>>, <<>>) >> >> }
Probes == {TypeName(n) : n \in {"A", "T", "Self", "auto", "m", "Z", "int", "n1", "X"}}
            \cup {InN1("A"), InN1("Z"), Qualified(InN1("n3"), "A"), Qualified(TypeName("A"), "A"),
                 [form |-> "array", of |-> TypeName("A")], [form |-> "nullable", of |-> TypeName("A")]}
\* The unit that comes first in unordered sets, where two of a namespace declare A.
HashOrders(space, own) == {<<1, 2, 3>>} \cup (IF space = <<"n1">> /\ own # <<>> THEN {<<2, 1, 3>>} ELSE {})
BindNames ==
  Asked("BindNames") /\ \E space \in {<<>>, <<"n1">>, <<"n2">>}, usings \in Imports, own \in {<<>>, Own("class"), Own("struct")},
                           hiding \in Hidings, public \in BOOLEAN, nested \in {<<"n3">>, <<"n1", "n3">>}, probe \in Probes :
    /\ nested # <<"n3">> => probe.form = "qualified" /\ hiding[1] = <<>>
    /\ \E order \in HashOrders(space, own) :
       job' = [part |-> "names", probe |-> probe, order |-> order,
               units |-> << Given(public, <<>>, <<>>),
                            Probing(space, usings, own, hiding[1], << Method("m", hiding[2], FALSE, <<probe>>, <<>>) >> \o hiding[3]),
                            Other(nested) >>]

\* TypeUses of G<T> with and without a constraint, of exceptions and of results of async methods,
\* bound before or after the unit that declares them.
Use(async, types, caught) == Probing(<<"n2">>, <<>>, <<>>, <<>>, << Method("m", <<>>, async, types, caught) >>)
TypeUses ==
  {Use(FALSE, <<Generic(InN1("G"), args)>>, <<>>) : args \in {<<InN1("X")>>, <<TypeName("int")>>, <<InN1("X"), InN1("X")>>, <<TypeName("Z")>>}}
    \cup {Use(FALSE, <<TypeName("int")>>, <<ref>>) : ref \in {InN1("E"), InN1("A"), TypeName("IThrowable"), TypeName("Z")}}
    \cup {Use(TRUE, <<ref>>, <<>>) : ref \in {TypeName("Task"), TypeName("int"), TypeName("ValueTask"), Generic(TypeName("ValueTask"), <<TypeName("int")>>)}}
Where(param) == << [param |-> param, types |-> <<TypeName("I")>>] >>
BindUses ==
  Asked("BindUses") /\ \E use \in TypeUses, wheres \in {<<>>, Where("T"), Where("S")}, bases \in {<<>>, <<TypeName("I")>>, <<TypeName("A")>>},
                          first \in BOOLEAN :
    job' = [part |-> "uses", order |-> <<1, 2>>, wheres |-> wheres, bases |-> bases, first |-> first, use |-> use.decls[1].members[1],
            units |-> IF first THEN <<use, Given(TRUE, wheres, bases)>> ELSE <<Given(TRUE, wheres, bases), use>>]

NB == INSTANCE Names WITH
  Units <- job.units, Globals <- GlobalTypes,
  HashOrder <- FlattenSeq([i \in DOMAIN job.order |-> [d \in DOMAIN job.units[job.order[i]].decls |-> <<job.order[i], d>>]])
BoundOf(j) == NB!Bind

(***************************************************************************)
(* What a name may mean: the levels around the probe from the inside out,  *)
(* each the symbols that it gives the name.  Imports are one level, in     *)
(* whatever order they are.                                                *)
(***************************************************************************)
ProbeUnit == job.units[2]
ClassC == NB!SymbolOf(2, Len(ProbeUnit.decls))
DeclsNamed(u, name) == {NB!SymbolOf(u, d) : d \in {k \in DOMAIN job.units[u].decls : job.units[u].decls[k].name = name}}
InSpace(path, name) == UNION {DeclsNamed(u, name) : u \in {v \in DOMAIN job.units : job.units[v].space = path}}
Imported(name) == UNION {InSpace(path, name) : path \in ToSet(ProbeUnit.usings)}
Levels(name, c, m) ==
  << {NB!Parameter(NB!MemberOwner(ClassC, m), p) : p \in ToSet(m.params) \cap {name}},
     {NB!MemberOwner(ClassC, k) : k \in {x \in ToSet(c.members) : x.name = name}},
     {NB!Parameter(ClassC, p) : p \in ToSet(c.params) \cap {name}},
     DeclsNamed(2, name),
     IF ProbeUnit.space = <<>> THEN {} ELSE InSpace(ProbeUnit.space, name),
     IF ProbeUnit.space = <<name>> THEN {NB!NamespaceSymbol(ProbeUnit.space)} ELSE {},
     Imported(name),
     {GlobalTypes[g] : g \in DOMAIN GlobalTypes \cap {name}} >>
Meanings(levels) ==
  LET given == {i \in DOMAIN levels : levels[i] # {}} IN IF given = {} THEN {NB!Null} ELSE levels[Min(given)]
MeaningsOf(name) == Meanings(Levels(name, Last(ProbeUnit.decls), Last(ProbeUnit.decls).members[1]))
\* Only imports give the name, and more than one namespace.
Contested(name) == MeaningsOf(name) = Imported(name) /\ Cardinality({job.units[s.unit].space : s \in Imported(name)}) > 1

\* What binding a probe may come to: pairs of a type and errors.
OfSymbol(sym) ==
  CASE sym = NB!Null -> <<NB!Null, {"not found"}>>
    [] sym.kind \in {"member", "namespace"} -> <<NB!Null, {"not a type"}>>
    [] sym.kind = "parameter" -> <<sym, {}>>
    [] OTHER -> <<sym, IF sym.public \/ sym.unit = 2 THEN {} ELSE {"inaccessible"}>>
OfName(n) ==
  CASE n = "auto" -> {<<NB!AnyType, {}>>}
    [] n = "Self" -> {<< IF ClassC.params = <<>> THEN ClassC
                         ELSE [kind |-> "generic", of |-> ClassC, args |-> [i \in DOMAIN ClassC.params |-> NB!Parameter(ClassC, ClassC.params[i])]],
                         {} >>}
    [] OTHER -> {OfSymbol(sym) : sym \in MeaningsOf(n)} \cup (IF Contested(n) THEN {<<NB!Null, {"ambiguous"}>>} ELSE {})
OfQualified(path, name) ==
  CASE ~\E u \in DOMAIN job.units : IsPrefix(path, job.units[u].space) -> {<<NB!Null, {"not a namespace"}>>}
    [] OTHER -> IF InSpace(path, name) = {} THEN {<<NB!Null, {"not in namespace"}>>} ELSE {<<s, {}>> : s \in InSpace(path, name)}
OfProbe(ref) ==
  CASE ref.form = "name" -> OfName(ref.name)
    [] ref.form = "qualified" /\ ref.left.form = "name" -> OfQualified(<<ref.left.name>>, ref.name)
    [] ref.form = "qualified" /\ ref.left.form # "name" -> OfQualified(<<ref.left.left.name, ref.left.name>>, ref.name)
    [] ref.form = "array" -> {<<IF of[1] = NB!Null THEN NB!Null ELSE [kind |-> "array", of |-> of[1]], of[2]>> : of \in OfName(ref.of.name)}
    [] ref.form = "nullable" -> {<<NB!Null, of[2]>> : of \in OfName(ref.of.name)}
\* Using directives are tested in their order.
UsingErrors ==
  LET usings == ProbeUnit.usings
      spaces == {job.units[u].space : u \in DOMAIN job.units}
      imported == {i \in DOMAIN usings : usings[i] \in spaces}
  IN {"no namespace" : i \in DOMAIN usings \ imported}
       \cup {"already imported" : i \in {k \in imported : \E h \in 1..(k - 1) : usings[h] = usings[k]}}
\* A class of the unit's namespace may not have the name of an imported symbol other than
\* itself; outside of a namespace it hides the import.
TakenErrors ==
  LET own == {s \in DeclsNamed(2, "A") : s.kind = "class"}
      others == Imported("A") \ own
  IN IF own = {} \/ others = {} \/ ProbeUnit.space = <<>> THEN {{}}
     ELSE IF own \subseteq Imported("A") THEN {{}, {"name taken"}} ELSE {{"name taken"}}

Implements(j) == j.bases = <<TypeName("I")>>
UseErrors(use) ==
  LET ref == use.types[1]
      known == ~job.first
      Argument(arg) == CASE arg = TypeName("Z") -> {"not found", "argument"}
                         [] arg = InN1("X") -> IF known /\ job.wheres = Where("T") /\ ~Implements(job) THEN {"constraint"} ELSE {}
                         [] OTHER -> IF known /\ job.wheres = Where("T") THEN {"constraint"} ELSE {}
      Caught(r) == CASE r = InN1("E") -> IF known THEN {} ELSE {"caught"}
                     [] r = TypeName("IThrowable") -> {}
                     [] r = TypeName("Z") -> {"not found", "caught"}
                     [] OTHER -> {"caught"}
  IN CASE use.caught # <<>> -> Caught(use.caught[1])
       [] use.async -> IF ref \in {TypeName("Task"), Generic(TypeName("ValueTask"), <<TypeName("int")>>)} THEN {} ELSE {"async result"}
       [] OTHER -> IF Len(ref.args) # 1 THEN {"number of arguments"} ELSE Argument(ref.args[1])
DeclarationErrors ==
  (IF job.wheres = Where("S") THEN {"no such parameter"} ELSE {}) \cup (IF job.bases = <<TypeName("A")>> THEN {"base"} ELSE {})

\* A type name means the nearest declaration that carries it, counting type parameters of
\* the method, members and type parameters of the class, the unit, its namespace, what it
\* imports and the global scope; it must be a type, and a private one is accessible in its
\* own file only, unless it is qualified, when the accessibility is not looked at
\* (VisitIdentifierNameType, VisitQualifiedNameType).  Where a namespace has two declarations
\* of a name, each of them may come first out of the unordered sets, and any is allowed; so is
\* any of a name that several imported namespaces have, or the report that it is ambiguous,
\* for which ImportNamespace collects these names (Lookup finds one of the symbols all the
\* same, and the report is never reached).  Constraints, interfaces and exception types are
\* enforced exactly as the declarations bound so far say: a constraint that is declared later
\* is not tested, an exception class that is declared later is refused (VisitGenericType,
\* VisitTryStatement).
NamesResolved ==
  /\ job.part = "names" =>
       LET b == BoundFor(job)
       IN \E outcome \in OfProbe(job.probe), taken \in TakenErrors :
            b.types[1] = outcome[1] /\ ToSet(b.errors) = outcome[2] \cup UsingErrors \cup taken
  /\ job.part = "uses" => ToSet(BoundFor(job).errors) = UseErrors(job.use) \cup DeclarationErrors
=============================================================================
