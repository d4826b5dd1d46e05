-------------------------------- MODULE Names --------------------------------
(***************************************************************************)
(* TypeBinder: the types that the type names of a program stand for, after *)
(* the collector has declared every unit.                                  *)
(*                                                                         *)
(* A unit is [space (its namespace, a path of names, or <<>>), usings      *)
(* (paths), decls]; a declaration [kind, name, public, params, wheres,     *)
(* bases, members]; a member [name, params, wheres, async, types (of the   *)
(* result and the parameters), caught (the types of catch clauses)].       *)
(*                                                                         *)
(* A type name is [form |-> "name", name], [form |-> "qualified", left,    *)
(* name], [form |-> "generic", of, args], [form |-> "array", of] or        *)
(* [form |-> "nullable", of].                                              *)
(***************************************************************************)
EXTENDS Integers, Sequences, SequencesExt, FiniteSets, TLC

CONSTANTS
  Units,        \* the units in the order of the syntax tree
  Globals,      \* [name -> symbol]: the types of the global scope
  HashOrder     \* the declarations, <<unit, at>>, in the order of iteration of unordered sets

Null == [kind |-> "nullptr"]
AnyType == [kind |-> "any"]

(***************************************************************************)
(* Symbols of declarations, and the tree of namespaces.                    *)
(***************************************************************************)
TypeKinds == {"class", "struct", "interface", "enum", "delegate", "primitive"}
SymbolOf(u, d) ==
  LET decl == Units[u].decls[d]
  IN [kind |-> decl.kind, name |-> decl.name, unit |-> u, at |-> d, public |-> decl.public, params |-> decl.params]
Parameter(owner, name) == [kind |-> "parameter", name |-> name, owner |-> owner]
\* A type parameter is the one parameter of itself.
TypeParameters(sym) ==
  CASE sym.kind = "parameter" -> <<sym>>
    [] sym.kind \in TypeKinds -> [i \in DOMAIN sym.params |-> Parameter(sym, sym.params[i])]
    [] OTHER -> <<>>

Nodes == UNION {{SubSeq(Units[u].space, 1, n) : n \in DOMAIN Units[u].space} : u \in DOMAIN Units}
NodeMembers(node) ==
  FlattenSeq([u \in DOMAIN Units |->
    IF Units[u].space = node THEN [d \in DOMAIN Units[u].decls |-> SymbolOf(u, d)] ELSE <<>>])

\* The members of a namespace as an unordered_set of pointers yields them.
UnorderedMembers(node) ==
  LET symbols == [i \in DOMAIN HashOrder |-> SymbolOf(HashOrder[i][1], HashOrder[i][2])]
  IN SelectSeq(symbols, LAMBDA s : Units[s.unit].space = node)

(***************************************************************************)
(* Scopes, the innermost last: names declared in it, the namespace whose   *)
(* members it also finds, its owner, the names imports have made ambiguous.*)
(***************************************************************************)
Scope(names, node, owner) == [names |-> names, node |-> node, owner |-> owner, ambiguous |-> {}]
NoNames == [n \in {} |-> Null]
DeclareSymbol(scope, sym) == [scope EXCEPT !.names = (sym.name :> sym) @@ @]
DeclareAll(scope, syms) == FoldLeft(DeclareSymbol, scope, syms)

InNode(node, name) == SelectSeq(NodeMembers(node), LAMBDA m : m.name = name)
\* Mutant of InScope: members of the namespace before what the scope declares.
InScopeNodeFirst(scope, name) ==
  IF scope.node # <<>> /\ InNode(scope.node, name) # <<>> THEN InNode(scope.node, name)
  ELSE IF name \in DOMAIN scope.names THEN <<scope.names[name]>> ELSE <<>>
InScope(scope, name) ==
  IF name \in DOMAIN scope.names THEN <<scope.names[name]>>
  ELSE IF scope.node # <<>> THEN InNode(scope.node, name) ELSE <<>>
Nearer(found, inScope) == IF inScope = <<>> THEN found ELSE inScope[1]
Lookup(scopes, name) == FoldLeft(LAMBDA found, scope : Nearer(found, InScope(scope, name)), Null, scopes)

CheckNameDeclared(scopes, sym) ==
  \E i \in DOMAIN scopes : sym.name \in DOMAIN scopes[i].names /\ scopes[i].names[sym.name] # sym
OwnerTypes(scopes) == SelectSeq(scopes, LAMBDA s : s.owner.kind \in TypeKinds)

\* A private type is accessible in its own file, a type parameter inside its owner.
IsSymbolAccessible(sym, scopes, unit) ==
  CASE sym.kind = "parameter" -> \E i \in DOMAIN scopes : scopes[i].owner = sym.owner
    [] sym.kind = "primitive" -> TRUE
    [] OTHER -> sym.public \/ sym.unit = unit

(***************************************************************************)
(* Types.  b is what the binder has found: errors, the types bound, the    *)
(* interfaces of declarations and the constraints of type parameters.      *)
(***************************************************************************)
Unbound == [errors |-> <<>>, types |-> <<>>, interfaces |-> {}, constraints |-> {}]
Error(b, message) == [b EXCEPT !.errors = Append(@, message)]
Result(b, type) == [b |-> b, type |-> type]

Self(b, owners) ==
  IF owners = <<>> \/ Last(owners).owner.kind \notin {"class", "struct"} THEN Result(Error(b, "self"), Null)
  ELSE Result(b, IF Last(owners).owner.params = <<>> THEN Last(owners).owner
                 ELSE [kind |-> "generic", of |-> Last(owners).owner, args |-> TypeParameters(Last(owners).owner)])
IsAmbiguousName(scopes, name) == \E i \in DOMAIN scopes : name \in scopes[i].ambiguous
IdentifierName(b, name, sym, scopes, unit) ==
  CASE sym = Null -> Result(Error(b, IF IsAmbiguousName(scopes, name) THEN "ambiguous" ELSE "not found"), Null)
    [] sym.kind \in {"member", "namespace"} -> Result(Error(b, "not a type"), Null)
    [] OTHER -> Result(IF IsSymbolAccessible(sym, scopes, unit) THEN b ELSE Error(b, "inaccessible"), sym)
VisitIdentifierNameType(b, name, scopes, unit) ==
  CASE name = "auto" -> Result(b, AnyType)
    [] name = "Self" -> Self(b, OwnerTypes(scopes))
    [] OTHER -> IdentifierName(b, name, Lookup(scopes, name), scopes, unit)

\* The node that the left side of a qualified name stands for, or <<>>.
NodeNamed(sym, path) == IF sym.kind = "namespace" THEN sym.node ELSE IF path \in Nodes THEN path ELSE <<>>
RECURSIVE ResolveNamespaceType(_, _)
ResolveNamespaceType(ref, scopes) ==
  CASE ref.form = "name" -> NodeNamed(Lookup(scopes, ref.name), <<ref.name>>)
    [] ref.form = "qualified" ->
         LET parent == ResolveNamespaceType(ref.left, scopes)
         IN IF parent # <<>> /\ Append(parent, ref.name) \in Nodes THEN Append(parent, ref.name) ELSE <<>>
    [] OTHER -> <<>>
\* Every member of a namespace is a type here; of several of a name any may come first.
QualifiedName(b, node, name) ==
  CASE node = <<>> -> Result(Error(b, "not a namespace"), Null)
    [] node # <<>> /\ InNode(node, name) = <<>> -> Result(Error(b, "not in namespace"), Null)
    [] OTHER -> Result(b, SelectSeq(UnorderedMembers(node), LAMBDA m : m.name = name)[1])

\* Interfaces a type is known to implement by now; of a constructed type those of its declaration.
TypeImplementsInterface(b, arg, interface) ==
  \E pair \in b.interfaces :
    /\ pair[1] = IF arg.kind = "generic" THEN arg.of ELSE arg
    /\ interface \in {pair[2], IF pair[2].kind = "generic" THEN pair[2].of ELSE pair[2]}
TypeSatisfiesConstraint(b, arg, constraint) ==
  IF constraint.kind = "interface" THEN TypeImplementsInterface(b, arg, constraint)
  ELSE arg = constraint \/ TypeImplementsInterface(b, arg, constraint)
ConstraintsOf(b, param) == {pair[2] : pair \in {p \in b.constraints : p[1] = param}}
AddArgument(bound, param) ==
  IF bound.type = Null THEN Error(bound.b, "argument")
  ELSE IF \A c \in ConstraintsOf(bound.b, param) : TypeSatisfiesConstraint(bound.b, bound.type, c)
  THEN bound.b ELSE Error(bound.b, "constraint")

RECURSIVE VisitType(_, _, _, _)
\* The arguments are only visited when their number fits.
AppendArgument(acc, bound, param) == [b |-> AddArgument(bound, param), args |-> Append(acc.args, bound.type)]
VisitArguments(b, ref, params, scopes, unit) ==
  FoldLeft(LAMBDA acc, i : AppendArgument(acc, VisitType(acc.b, ref.args[i], scopes, unit), params[i]),
           [b |-> b, args |-> <<>>], [i \in DOMAIN ref.args |-> i])
Constructed(of, bound) == Result(bound.b, [kind |-> "generic", of |-> of, args |-> bound.args])
VisitGenericType(of, ref, scopes, unit) ==
  CASE of.type = Null -> of
    [] of.type # Null /\ Len(ref.args) # Len(TypeParameters(of.type)) ->
         Result(Error(of.b, "number of arguments"), [kind |-> "generic", of |-> of.type, args |-> <<>>])
    [] OTHER -> Constructed(of.type, VisitArguments(of.b, ref, TypeParameters(of.type), scopes, unit))
\* The node of a nullable type is left without a symbol.
VisitType(b, ref, scopes, unit) ==
  CASE ref.form = "name" -> VisitIdentifierNameType(b, ref.name, scopes, unit)
    [] ref.form = "qualified" -> QualifiedName(b, ResolveNamespaceType(ref.left, scopes), ref.name)
    [] ref.form = "generic" -> VisitGenericType(VisitType(b, ref.of, scopes, unit), ref, scopes, unit)
    [] ref.form = "array" ->
         LET of == VisitType(b, ref.of, scopes, unit)
         IN IF of.type = Null THEN of ELSE Result(of.b, [kind |-> "array", of |-> of.type])
    [] ref.form = "nullable" -> Result(VisitType(b, ref.of, scopes, unit).b, Null)

(***************************************************************************)
(* Declarations.                                                           *)
(***************************************************************************)
AddConstraint(bound, param) ==
  IF bound.type = Null THEN Error(bound.b, "constraint type") ELSE [bound.b EXCEPT !.constraints = @ \cup {<<param, bound.type>>}]
BindWhereClause(b, owner, names, where, scopes, unit) ==
  IF where.param \notin ToSet(names) THEN Error(b, "no such parameter")
  ELSE FoldLeft(LAMBDA acc, ref : AddConstraint(VisitType(acc, ref, scopes, unit), Parameter(owner, where.param)), b, where.types)
BindWhereClauses(b, owner, names, wheres, scopes, unit) ==
  FoldLeft(LAMBDA acc, where : BindWhereClause(acc, owner, names, where, scopes, unit), b, wheres)

IsValidAsyncReturnType(type) ==
  type = Globals["Task"] \/ (type.kind = "generic" /\ type.of = Globals["ValueTask"])
Keep(bound) == [bound.b EXCEPT !.types = Append(@, bound.type)]
\* A member's own type (of the result of a method, of a field or a property), then its
\* parameters' types, then its body, here its catch clauses.
AsyncResult(b, member) ==
  IF member.async /\ ~IsValidAsyncReturnType(Last(b.types)) THEN Error(b, "async result") ELSE b
Catch(b, type) ==
  IF type # Globals["IThrowable"] /\ ~TypeImplementsInterface(b, type, Globals["IThrowable"])
  THEN Error(Keep(Result(b, type)), "caught") ELSE Keep(Result(b, type))
VisitCaught(bound) == Catch(bound.b, IF bound.type = Null THEN AnyType ELSE bound.type)
VisitTypes(b, member, refs, scopes, unit) ==
  FoldLeft(LAMBDA acc, i : (IF i = 1 THEN AsyncResult(Keep(VisitType(acc, refs[i], scopes, unit)), member)
                            ELSE Keep(VisitType(acc, refs[i], scopes, unit))),
           b, [i \in DOMAIN refs |-> i])
VisitBody(b, member, scopes, unit) ==
  FoldLeft(LAMBDA acc, ref : VisitCaught(VisitType(acc, ref, scopes, unit)), b, member.caught)
MemberOwner(owner, member) == [kind |-> "member", name |-> member.name, owner |-> owner]
InMember(b, member, sym, scopes, unit) ==
  VisitBody(VisitTypes(BindWhereClauses(b, sym, member.params, member.wheres, scopes, unit), member, member.types, scopes, unit),
            member, scopes, unit)
VisitMember(b, sym, member, scopes, unit) ==
  InMember(b, member, sym,
           Append(scopes, DeclareAll(Scope(NoNames, <<>>, sym), [i \in DOMAIN member.params |-> Parameter(sym, member.params[i])])),
           unit)

AddBase(bound, sym) ==
  CASE bound.type = Null -> bound.b
    [] bound.type # Null /\ (IF bound.type.kind = "generic" THEN bound.type.of ELSE bound.type).kind = "interface" ->
         [bound.b EXCEPT !.interfaces = @ \cup {<<sym, bound.type>>}]
    [] OTHER -> Error(bound.b, "base")
VisitBases(b, sym, bases, scopes, unit) ==
  FoldLeft(LAMBDA acc, ref : AddBase(VisitType(acc, ref, scopes, unit), sym), b, bases)

\* The members are declared after the bases are bound, over type parameters of the same name.
VisitMembers(b, sym, members, scopes, unit) ==
  FoldLeft(LAMBDA acc, member : VisitMember(acc, MemberOwner(sym, member), member, scopes, unit), b, members)
WithMembers(scopes, sym, members) ==
  [scopes EXCEPT ![Len(scopes)] = DeclareAll(@, [i \in DOMAIN members |-> MemberOwner(sym, members[i])])]
InDeclaration(b, sym, decl, scopes, unit) ==
  VisitMembers(VisitBases(BindWhereClauses(b, sym, decl.params, decl.wheres, scopes, unit), sym, decl.bases, scopes, unit),
               sym, decl.members, WithMembers(scopes, sym, decl.members), unit)
\* Only classes and enums are tested for a name that is taken.
NameTaken(b, sym, scopes) ==
  IF sym.kind \in {"class", "enum"} /\ CheckNameDeclared(scopes, sym) THEN Error(b, "name taken") ELSE b
VisitDeclaration(b, sym, decl, scopes, unit) ==
  InDeclaration(NameTaken(b, sym, scopes), sym, decl, Append(scopes, DeclareAll(Scope(NoNames, <<>>, sym), TypeParameters(sym))), unit)

(***************************************************************************)
(* Units.                                                                  *)
(***************************************************************************)
\* A name the scope has already is left, and is ambiguous if another namespace gave it.
ImportSymbol(scope, node, sym) ==
  IF sym.name \notin DOMAIN scope.names THEN DeclareSymbol(scope, sym)
  ELSE IF scope.names[sym.name] \in ToSet(NodeMembers(node)) THEN scope
  ELSE [scope EXCEPT !.ambiguous = @ \cup {sym.name}]
ImportMembers(scope, node) ==
  FoldLeft(LAMBDA acc, sym : ImportSymbol(acc, node, sym), scope, UnorderedMembers(node))
ImportNamespace(imported, node) ==
  IF node \in imported.nodes THEN [imported EXCEPT !.b = Error(@, "already imported")]
  ELSE [imported EXCEPT !.scope = ImportMembers(@, node), !.nodes = @ \cup {node}]
VisitUsingDirective(imported, path) ==
  IF path \in Nodes THEN ImportNamespace(imported, path) ELSE [imported EXCEPT !.b = Error(@, "no namespace")]
NamespaceSymbol(path) == [kind |-> "namespace", name |-> path, node |-> path]

NoOwner == [kind |-> "none"]
Declared(u) == [d \in DOMAIN Units[u].decls |-> SymbolOf(u, d)]
\* The scopes of a unit: the global one, the unit's with its imports, its namespace's.
UnitScopes(u, imports) ==
  IF Units[u].space = <<>> THEN << Scope(Globals, <<>>, NoOwner), DeclareAll(imports, Declared(u)) >>
  ELSE << Scope(Globals, <<>>, NoOwner),
          IF Len(Units[u].space) = 1
          THEN [imports EXCEPT !.names = (Units[u].space[1] :> NamespaceSymbol(Units[u].space)) @@ @] ELSE imports,
          DeclareAll(Scope(NoNames, Units[u].space, NoOwner), Declared(u)) >>
InUnit(b, u, scopes) ==
  FoldLeft(LAMBDA acc, d : VisitDeclaration(acc, SymbolOf(u, d), Units[u].decls[d], scopes, u), b, [d \in DOMAIN Units[u].decls |-> d])
AfterUsings(imported, u) == InUnit(imported.b, u, UnitScopes(u, imported.scope))
VisitCompilationUnit(b, u) ==
  AfterUsings(FoldLeft(VisitUsingDirective, [b |-> b, scope |-> Scope(NoNames, <<>>, NoOwner), nodes |-> {}], Units[u].usings), u)

\* TypeBinder over the tree.
Bind == FoldLeft(VisitCompilationUnit, Unbound, [u \in DOMAIN Units |-> u])
=============================================================================
