--------------------------- MODULE MCDeclarations ---------------------------
(***************************************************************************)
(* A small world of types, with assignments and calls in it; classes that  *)
(* implement interfaces; and methods whose variables are used in blocks,   *)
(* loops, handlers and lambdas.                                            *)
(***************************************************************************)
EXTENDS Jobs

(***************************************************************************)
(* Assignability and the resolution of calls, against the subtype relation *)
(* the declarations generate.                                              *)
(***************************************************************************)

\* The method a call is bound to, of two candidates of which the second takes anything:
\* FoundMethod, as a parameter so that TLC does not unfold it in its statistics.
CONSTANT Found(_, _, _)

T(i) == [kind |-> "parameter", owner |-> "f", index |-> i]
Of(class, i) == [kind |-> "parameter", owner |-> class, index |-> i]
N(n) == [kind |-> "named", name |-> n]
G(n, args) == [kind |-> "generic", name |-> n, args |-> args]
A(t) == [kind |-> "array", of |-> t]
D(ret, params) == [kind |-> "delegate", returns |-> ret, params |-> params]

Opaque(kind, byValue, typeParameters, interfaces) ==
  [kind |-> kind, byValue |-> byValue, typeParameters |-> typeParameters, interfaces |-> interfaces, methods |-> <<>>]

\* interface IPrintable; IEnumerable<T>; IPair<T, U>; delegate U Func<T, U>(T);
\* class Animal : IPrintable; class Dog : IEnumerable<int>, IPrintable;
\* class List<T> : IEnumerable<T>; class Box<T>; Array implements IPrintable.
World ==
  ("any" :> Opaque("class", FALSE, 0, <<>>)) @@ ("null" :> Opaque("class", FALSE, 0, <<>>)) @@
  ("int" :> Opaque("struct", TRUE, 0, <<>>)) @@ ("string" :> Opaque("class", FALSE, 0, <<N("IPrintable")>>)) @@
  ("Array" :> Opaque("class", FALSE, 0, <<N("IPrintable")>>)) @@
  ("IPrintable" :> Opaque("interface", FALSE, 0, <<>>)) @@
  ("IEnumerable" :> Opaque("interface", FALSE, 1, <<>>)) @@
  ("INamed" :> Opaque("interface", FALSE, 0, <<N("IPrintable")>>)) @@
  ("Func" :> (("signature" :> D(Of("Func", 2), <<Of("Func", 1)>>)) @@ Opaque("delegate", FALSE, 2, <<>>))) @@
  ("Animal" :> Opaque("class", FALSE, 0, <<N("INamed")>>)) @@
  ("Dog" :> Opaque("class", FALSE, 0, <<G("IEnumerable", <<N("int")>>), N("IPrintable")>>)) @@
  ("List" :> Opaque("class", FALSE, 1, <<G("IEnumerable", <<Of("List", 1)>>)>>)) @@
  ("Point" :> Opaque("struct", TRUE, 0, <<G("IEnumerable", <<A(N("int"))>>)>>))

\* The world in which class List<T> declares the given methods.
R(methods) == INSTANCE MethodResolution WITH Symbols <- [World EXCEPT !["List"].methods = methods]

Atoms == {N("int"), N("string"), N("Animal"), N("Dog"), N("Point"), N("IPrintable"), N("INamed")}
Level1 == Atoms \cup {A(t) : t \in Atoms} \cup {G(n, <<t>>) : n \in {"List", "IEnumerable"}, t \in Atoms}
Universe == Level1 \cup {N("any"), N("null"), D(N("int"), <<N("string")>>), D(N("Dog"), <<N("Dog")>>)}
              \cup {G("Func", <<t, u>>) : t, u \in {N("int"), N("string"), N("Dog")}}
              \cup {G("IEnumerable", <<A(N("int"))>>), G("List", <<G("List", <<N("int")>>)>>),
                    G("IEnumerable", <<G("List", <<N("int")>>)>>), A(A(N("int")))}

(***************************************************************************)
(* The subtype relation: everything the declarations promise.              *)
(***************************************************************************)
RECURSIVE Inst(_, _)
Inst(t, of) ==
  CASE t.kind = "parameter" -> of.args[t.index]
    [] t.kind = "generic" -> [t EXCEPT !.args = [i \in DOMAIN t.args |-> Inst(t.args[i], of)]]
    [] t.kind = "array" -> A(Inst(t.of, of))
    [] OTHER -> t
Direct(t) ==
  CASE t.kind \in {"named", "generic"} -> {Inst(i, t) : i \in ToSet(World[t.name].interfaces)}
    [] t.kind = "array" -> ToSet(World["Array"].interfaces) \cup {G("IEnumerable", <<t.of>>)}
    [] OTHER -> {}
RECURSIVE Supertypes(_)
Supertypes(t) == {t} \cup UNION {Supertypes(u) : u \in Direct(t)}
Signature(t) ==
  IF t.kind = "generic" THEN D(t.args[2], <<t.args[1]>>) ELSE t
IsDelegate(t) == t.kind = "delegate" \/ (t.kind = "generic" /\ t.name = "Func")
Subtype(s, t) ==
  \/ t \in Supertypes(s) \cup {N("any")}
  \/ s = N("null") /\ t \notin {N("int"), N("Point")}
  \/ IsDelegate(s) /\ IsDelegate(t) /\ Signature(s) = Signature(t)

(***************************************************************************)
(* Calls of f with two candidates: a static method of the program, called  *)
(* by its name or as an extension of a List<int>; a method of List<int>;   *)
(* a static method of the open class List.                                 *)
(***************************************************************************)
Patterns == {T(1), T(2), A(T(1)), G("List", <<T(1)>>), G("IEnumerable", <<T(2)>>), G("Func", <<T(1), T(2)>>),
             Of("List", 1), N("IPrintable")}
Arguments == {N("int"), N("Dog"), A(N("int")), G("List", <<N("int")>>), G("IEnumerable", <<N("int")>>),
              D(N("Dog"), <<N("int")>>), N("null"), N("Animal")}
Bounds == {<<>>, <<{}, {}>>, <<{N("IPrintable")}, {}>>, <<{N("INamed")}, {N("IPrintable")}>>}
Nothing == [kind |-> "nullptr"]
listOfInt == G("List", <<N("int")>>)
Calls ==
  {[current |-> Nothing, static |-> TRUE, linking |-> "static", own |-> FALSE, given |-> <<>>],
   [current |-> listOfInt, static |-> FALSE, linking |-> "static", own |-> FALSE, given |-> <<listOfInt>>],
   [current |-> listOfInt, static |-> FALSE, linking |-> "instance", own |-> TRUE, given |-> <<>>],
   [current |-> listOfInt, static |-> FALSE, linking |-> "static", own |-> TRUE, given |-> <<listOfInt>>],
   [current |-> N("List"), static |-> TRUE, linking |-> "static", own |-> TRUE, given |-> <<>>]}

RECURSIVE Mentions(_, _)
Mentions(t, i) ==
  CASE t.kind = "parameter" -> t = T(i)
    [] t.kind = "generic" -> \E j \in DOMAIN t.args : Mentions(t.args[j], i)
    [] t.kind = "array" -> Mentions(t.of, i)
    [] OTHER -> FALSE

Assign == Asked("Assign") /\ \E s, t \in Universe : job' = [part |-> "assign", source |-> s, target |-> t]
Resolve ==
  Asked("Resolve") /\ \E c \in Calls, b \in Bounds, p, q \in Patterns, x, y \in Arguments :
    /\ c.given # <<>> => x = c.given[1]
    /\ b = <<>> => \A i \in {1, 2} : ~Mentions(p, i) /\ ~Mentions(q, i)
    /\ Of("List", 1) \in {p, q} => c.own
    /\ job' = [part |-> "resolve", call |-> c, bounds |-> b, params |-> <<p, q>>,
               args |-> IF c.given = <<>> THEN <<x, y>> ELSE <<y>>]
Candidate(call, bounds, params) ==
  [name |-> "f", linking |-> call.linking, returns |-> N("void"), typeParameters |-> bounds, params |-> params]

RECURSIVE Instantiate(_, _, _)
Instantiate(t, typeArgs, generic) ==
  CASE t.kind = "parameter" /\ t.owner = "f" -> typeArgs[t.index]
    [] t.kind = "parameter" /\ t.owner # "f" -> IF generic.kind = "generic" THEN generic.args[t.index] ELSE t
    [] t.kind = "generic" -> [t EXCEPT !.args = [i \in DOMAIN t.args |-> Instantiate(t.args[i], typeArgs, generic)]]
    [] t.kind = "array" -> A(Instantiate(t.of, typeArgs, generic))
    [] OTHER -> t

Applicable(m, args, typeArgs, generic) ==
  /\ \A i \in DOMAIN args : Subtype(args[i], Instantiate(m.params[i], typeArgs, generic))
  /\ \A i \in DOMAIN typeArgs : \A c \in m.typeParameters[i] : Subtype(typeArgs[i], c)

\* Exact: some type arguments make the parameters the very types of the arguments.
Exact(m, args, generic) ==
  \E typeArgs \in [DOMAIN m.typeParameters -> {N("int"), N("Dog"), N("Animal"), A(N("int"))}] :
    /\ \A i \in DOMAIN args : args[i] = Instantiate(m.params[i], typeArgs, generic)
    /\ \A i \in DOMAIN typeArgs : \A c \in m.typeParameters[i] :
         R(<<>>)!TypeSatisfiesConstraint(typeArgs[i], c)
    /\ \A j \in DOMAIN typeArgs : \E i \in DOMAIN args : Mentions(m.params[i], j)

FoundMethod(call, first, args) ==
  LET candidates == <<first, Candidate(call, <<>>, <<N("any"), N("IPrintable")>>)>>
  IN R(IF call.own THEN candidates ELSE <<>>)!ResolveMethod(
       call.current, <<>>, call.static, "f", args, <<>>, IF call.own THEN <<>> ELSE candidates, <<>>)

\* A value is only assigned where the declarations make its type a subtype of the
\* target (IsAssignableTo), so no variable ever holds an object of a foreign type.  A
\* call is bound only with type arguments that meet the constraints of the chosen
\* method and make every argument, the receiver of an extension included, a subtype of
\* its parameter (ResolveMethod); and a static method whose parameters have exactly the
\* types of the arguments is found and chosen before a later one.
ResolutionSound ==
  /\ job.part = "assign" => (R(<<>>)!IsAssignableTo(job.target, job.source) => Subtype(job.source, job.target))
  /\ job.part = "resolve" =>
    LET c == job.call
        first == Candidate(c, job.bounds, job.params)
        found == Found(c, first, job.args)
        passed == IF found.extension THEN c.given \o job.args ELSE job.args
    IN /\ found # Nothing => Applicable(found.method, passed, found.typeArgs, found.receiver)
       /\ ~c.own /\ Exact(first, c.given \o job.args, c.current) => found # Nothing /\ found.method = first

-----------------------------------------------------------------------------
\* What the passes compute (ImplementationsOf, BindingOf), as parameters so that TLC does
\* not unfold them in its statistics.
CONSTANTS ImplementationsFor(_), BindingFor(_), NoSymbol

(***************************************************************************)
(* A class C over IShow, the generic ISource<T> and the native INamed,     *)
(* which is an IShow.                                                      *)
(***************************************************************************)
Kind(n) == [kind |-> "named", name |-> n]
SourceOf(t) == [kind |-> "generic", name |-> "ISource", args |-> <<t>>]
Elem == [kind |-> "parameter", owner |-> "ISource", index |-> 1]
Meth(name, params, ret) == [name |-> name, params |-> params, returns |-> ret]
Prop(name, ret, getter, setter) == [name |-> name, returns |-> ret, getter |-> getter, setter |-> setter]
Type(kind, byValue, interfaces, methods, properties) ==
  [kind |-> kind, byValue |-> byValue, typeParameters |-> 0, interfaces |-> interfaces, methods |-> methods,
   properties |-> properties]

Contracts ==
  [IShow |-> Type("interface", FALSE, <<>>, <<Meth("show", <<>>, Kind("any"))>>, <<Prop("size", Kind("int"), TRUE, FALSE)>>),
   ISource |-> Type("interface", FALSE, <<>>, <<Meth("next", <<>>, Elem), Meth("put", <<Elem, Kind("int")>>, Kind("void"))>>, <<>>),
   INamed |-> Type("interface", FALSE, <<Kind("IShow")>>, <<>>, <<Prop("name", Kind("string"), TRUE, TRUE)>>),
   int |-> Type("struct", TRUE, <<>>, <<>>, <<>>), string |-> Type("class", FALSE, <<>>, <<>>, <<>>),
   any |-> Type("class", FALSE, <<>>, <<>>, <<>>), void |-> Type("class", FALSE, <<>>, <<>>, <<>>),
   null |-> Type("class", FALSE, <<>>, <<>>, <<>>)]
Methods ==
  <<Meth("show", <<Kind("int")>>, Kind("any")), Meth("show", <<>>, Kind("string")), Meth("next", <<>>, Kind("int")),
    Meth("next", <<>>, Kind("string")), Meth("put", <<Kind("int"), Kind("int")>>, Kind("void")),
    Meth("put", <<Kind("string"), Kind("int")>>, Kind("void"))>>
Properties ==
  <<Prop("size", Kind("int"), FALSE, TRUE), Prop("size", Kind("int"), TRUE, TRUE), Prop("name", Kind("string"), TRUE, TRUE)>>
Pick(seq, chosen) == [i \in 1..Cardinality(chosen) |-> seq[SetToSortSeq(chosen, <)[i]]]

Implement ==
  Asked("Implement") /\ \E ms \in SUBSET (DOMAIN Methods), ps \in SUBSET (DOMAIN Properties), typed \in {{}, {"IShow", "ISource"}},
                  is \in UpTo(2, {Kind("IShow"), Kind("INamed"), SourceOf(Kind("int")), SourceOf(Kind("string"))}) :
    /\ is # <<>>
    /\ job' = [part |-> "implement", typed |-> typed \cup {"INamed"},
               class |-> Type("class", FALSE, is, Pick(Methods, ms), Pick(Properties, ps))]

V(class) == INSTANCE Implementations WITH Symbols <- ("C" :> class) @@ Contracts
ImplementationsOf(j) == V(j.class)!ValidateInterfaceImplementations("C", V(j.class)!BindClass("C", j.typed))

\* What the class owes: each interface it names and their bases.
Owed(class) == ToSet(class.interfaces) \cup UNION {ToSet(Contracts[i.name].interfaces) : i \in ToSet(class.interfaces)}
At(t, i) == IF t = Elem THEN i.args[1] ELSE t
Fulfils(m, c, i) ==
  /\ c.name = m.name /\ c.params = [k \in DOMAIN m.params |-> At(m.params[k], i)]
  /\ c.returns = At(m.returns, i) \/ At(m.returns, i) = Kind("any")

\* Every call an accepted class may receive through one of its interfaces is answered by a
\* method of the class with the parameters of that interface and a result the caller
\* expects, and its properties have the accessors (BindInterfaceImplementations, then
\* ValidateInterfaceImplementations, read by CALLINTERFACE), whether or not the interface
\* was typed before the class.  Nothing is reported of a class that has them all, unless it
\* implements an interface for two types: then one answer would serve both.
AcceptedImplements ==
  job.part = "implement" =>
    LET result == ImplementationsFor(job)
        Answered(call, Good(_)) ==
          LET found == V(job.class)!FindInterfaceImplementation(result.table, call) IN found # V(job.class)!Null /\ Good(found.member)
        Complete ==
          \A i \in Owed(job.class) :
            /\ \A m \in ToSet(Contracts[i.name].methods) : \E c \in ToSet(job.class.methods) : Fulfils(m, c, i)
            /\ \A p \in ToSet(Contracts[i.name].properties) : \E c \in ToSet(job.class.properties) :
                 c.name = p.name /\ c.returns = p.returns /\ (p.getter => c.getter) /\ (p.setter => c.setter)
    IN /\ result.errors = 0 =>
            \A i \in Owed(job.class) :
              /\ \A m \in ToSet(Contracts[i.name].methods) :
                   Answered([interface |-> i.name, member |-> m, part |-> "call"], LAMBDA c : Fulfils(m, c, i))
              /\ \A p \in ToSet(Contracts[i.name].properties) :
                   /\ p.getter => Answered([interface |-> i.name, member |-> p, part |-> "get"], LAMBDA c : c.getter /\ c.name = p.name)
                   /\ p.setter => Answered([interface |-> i.name, member |-> p, part |-> "set"], LAMBDA c : c.setter /\ c.name = p.name)
       /\ Complete /\ ~({SourceOf(Kind("int")), SourceOf(Kind("string"))} \subseteq Owed(job.class)) => result.errors = 0

(***************************************************************************)
(* A method with parameter p and two statements; names are declared once,  *)
(* except that a lambda's parameter or a handler's variable may hide one.  *)
(***************************************************************************)
S == INSTANCE Declarations
Dcl(n) == [id |-> n, name |-> n]
Name(n, at) == [kind |-> "name", id |-> at, name |-> n]
Lambda(id, isAsync, params, body) == [kind |-> "lambda", id |-> id, isAsync |-> isAsync, params |-> params, body |-> body]
Var(n, init) == [kind |-> "variable", var |-> Dcl(n), init |-> init]
Expr(e) == [kind |-> "expression", expr |-> e]
Block(body) == [kind |-> "block", body |-> body]
Loop(n, range, body) == [kind |-> "loop", var |-> Dcl(n), range |-> range, body |-> body]
Try(id, body, handler) == [kind |-> "try", body |-> body, var |-> [id |-> id, name |-> "e"], handler |-> handler]

OwnParams == {<<>>, <<[id |-> "own", name |-> "p"]>>, <<[id |-> "own", name |-> "l"]>>}
Firsts == {Var("x", Name("p", <<1>>)), Block(<<Var("x", Name("p", <<1>>))>>), Loop("x", Name("p", <<1>>), <<>>), Var("e", Name("p", <<1>>)),
           Try("e1", <<Var("x", Name("p", <<1>>))>>, <<Expr(Name("e", <<1, 2>>))>>)}
Uses == {"this", "p", "x", "y", "e", "l"}
Seconds ==
  LET N1(n) == Name(n, <<2, 1>>)
      N2(n) == Name(n, <<2, 2>>)
      Plain(n, m) == <<Expr(N1(n)), Expr(N2(m))>>
      L1(isAsync, params, body) == Lambda("f", isAsync, params, body)
      Inner(params, n) == Lambda("g", FALSE, params, <<Expr(N1(n))>>)
  IN UNION {
       {Var("y", L1(a, ps, Plain(n, m))) : a \in BOOLEAN, ps \in OwnParams, n, m \in Uses},
       {Var("y", L1(FALSE, ps, <<Block(<<Expr(Inner(<<Dcl("h")>>, n))>>), Expr(N2(m))>>)) : ps \in OwnParams, n \in Uses \cup {"h"}, m \in Uses},
       {Var("y", L1(FALSE, <<>>, <<Var("z", N1(n)), Expr(N2("z"))>>)) : n \in Uses},
       {Block(<<Var("y", N1(n)), Expr(N2(m))>>) : n, m \in Uses},
       {Loop("y", N1(n), <<Expr(L1(FALSE, ps, <<Expr(N2(m))>>))>>) : ps \in OwnParams, n, m \in Uses},
       {Try("e2", <<Expr(N1(n))>>, <<Var("y", L1(FALSE, ps, <<Expr(N2(m))>>))>>) : ps \in OwnParams, n, m \in Uses}}

Lay ==
  Asked("Lay") /\ \E link \in {<<"instance", "class">>, <<"static", "class">>, <<"instance", "namespace">>},
                  first \in Firsts, second \in Seconds, last \in {"p", "x", "y", "e"} :
    job' = [part |-> "slots", method |-> [linking |-> link[1], place |-> link[2], params |-> <<Dcl("p")>>,
                                          body |-> <<first, second, Expr(Name(last, <<3>>))>>]]
BindingOf(m) == S!BindMethod(m)

(***************************************************************************)
(* What a name means: the innermost declaration whose block it is in.      *)
(***************************************************************************)
RECURSIVE Lexical(_, _), LexicalExpr(_, _)
LexicalExpr(e, env) ==
  IF e.kind = "name" THEN {<<e.id, env[e.name].id>> : n \in {e.name} \cap DOMAIN env}
  ELSE Lexical(e.body, FoldLeft(LAMBDA s, q : (q.name :> q) @@ s, env, e.params))
Lexical(body, env) ==
  IF body = <<>> THEN {}
  ELSE LET st == Head(body)
           with == IF st.kind \in {"variable", "loop", "try"} THEN (st.var.name :> st.var) @@ env ELSE env
       IN Lexical(Tail(body), IF st.kind = "variable" THEN with ELSE env)
            \cup (CASE st.kind = "variable" -> LexicalExpr(st.init, with)
                   [] st.kind = "expression" -> LexicalExpr(st.expr, env)
                   [] st.kind = "block" -> Lexical(st.body, env)
                   [] st.kind = "loop" -> LexicalExpr(st.range, env) \cup Lexical(st.body, with)
                   [] st.kind = "try" -> Lexical(st.body, env) \cup Lexical(st.handler, with))
RECURSIVE Lambdas(_)
Lambdas(body) ==
  UNION {CASE st.kind \in {"block", "loop"} -> Lambdas(st.body)
           [] st.kind = "try" -> Lambdas(st.body) \cup Lambdas(st.handler)
           [] st.kind \in {"variable", "expression"} ->
                LET e == IF st.kind = "variable" THEN st.init ELSE st.expr
                IN IF e.kind = "lambda" THEN {e} \cup Lambdas(e.body) ELSE {} : st \in ToSet(body)}

\* What a call puts in a frame: the receiver or the closure, then the arguments; and the locals.
Held(m, binding, frame, slot) ==
  LET Params(params, first) == {params[i].id : i \in {k \in DOMAIN params : first + k - 1 = slot}}
      locals == S!CollectMethod(m)
      static == m.linking = "static" \/ m.place = "namespace"
  IN IF frame = "method"
     THEN (IF ~static /\ slot = 0 THEN {"this"} ELSE {}) \cup Params(m.params, IF static THEN 0 ELSE 1)
            \cup {d \in DOMAIN locals : locals[d] = slot} \cup {"temporary" : t \in S!Temporaries(m) \cap {slot}}
     ELSE LET l == CHOOSE l \in Lambdas(m.body) : l.id = frame
          IN Params(l.params, IF \E c \in binding.closures : c.id = frame THEN 1 ELSE 0)

\* In an accepted method every name reads the variable its block declares: the slot it is
\* given holds that variable and no other, in the frame that runs, or the field of the
\* closure was filled from the slot of that variable in the frame that created the lambda
\* (VisitVariableStatement to VisitLambdaExpression of the three passes).  This holds where
\* a lambda takes variables of the body directly around it only, and an async one none.
SlotsExact ==
  job.part = "slots" =>
    LET m == job.method
        binding == BindingFor(m)
        meaning == Lexical(m.body, ("p" :> Dcl("p")) @@ ("this" :> Dcl("this")))
        held == [frame \in {"method"} \cup {l.id : l \in Lambdas(m.body)}, k \in 0..9 |-> Held(m, binding, frame, k)]
        Deep == \E c \in binding.closures : \E s \in c.fields : s.id \notin UNION {held[c.from, k] : k \in 0..9}
        Async == \E l \in Lambdas(m.body) : l.isAsync /\ S!FreeNames(l.body, {q.name : q \in ToSet(l.params)}) # {}
        Source(r) == IF r.via = NoSymbol THEN [frame |-> r.frame, slot |-> r.symbol.slot]
                     ELSE S!FieldSource(CHOOSE c \in binding.closures : c.id = r.via, r.symbol)
    IN binding.accepted /\ ~Deep /\ ~Async =>
         /\ \A r \in binding.bound : \A d \in {w[2] : w \in {v \in meaning : v[1] = r.name}} :
              /\ held[Source(r).frame, Source(r).slot] = {d}
              /\ r.via # NoSymbol => r.via = r.frame
         /\ \A k \in 0..(S!GetEvalStackLocalsCount(m) - 1) : Cardinality(held["method", k]) = 1
         /\ \A k \in S!GetEvalStackLocalsCount(m)..9 : held["method", k] = {}
=============================================================================
