-------------------------- MODULE ExpressionEmitter --------------------------
(***************************************************************************)
(* The code AbstractEmiter emits for a bound expression, with the          *)
(* EvalLayoutTracker that counts the entries of the evaluation stack the   *)
(* code will need.  Jump targets are positions in the code.                *)
(***************************************************************************)
EXTENDS ExpressionBinder

Instr(op, arg) == [op |-> op, arg |-> arg]
Fresh == [code |-> <<>>, depth |-> 0, max |-> 0, payload |-> 0, poisoned |-> FALSE, temps |-> 0]

PointerSize == 8
ResolveTypePayload(t) == IF Declared(t) /\ Symbols[t.name].byValue THEN Symbols[t.name].size ELSE PointerSize

MaxOf(a, b) == IF a > b THEN a ELSE b
Append1(st, op, arg) == [st EXCEPT !.code = Append(@, Instr(op, arg))]
EvalPushOfPointers(st, payload) == [st EXCEPT !.depth = @ + 1, !.max = MaxOf(@, st.depth + 1), !.payload = MaxOf(@, PointerSize)]
EvalPush(st, payload) ==
  [st EXCEPT !.depth = @ + 1, !.max = MaxOf(@, st.depth + 1), !.payload = MaxOf(@, payload)]
EvalPop(st, n) ==
  IF st.depth < n THEN [st EXCEPT !.poisoned = TRUE, !.depth = 0] ELSE [st EXCEPT !.depth = @ - n]
EmitPushing(st, op, arg, pops, payload) == EvalPush(EvalPop(Append1(st, op, arg), pops), payload)
EmitPopping(st, op, arg, pops) == EvalPop(Append1(st, op, arg), pops)
PasteData(st, at, target) == [st EXCEPT !.code[at].arg = target]

\* GetEvalStackArgumentsCount
ArgumentsCount(m) == Len(m.params) + (IF m.linking = "instance" THEN 1 ELSE 0)
IsInterfaceMember(m) == m.owner # Null /\ IsInterface(m.owner)
EmitMethodCall(st, m) ==
  LET called == EmitPopping(st, IF IsInterfaceMember(m) THEN "CALLINTERFACE" ELSE "CALLMETHODSYMBOL", m, ArgumentsCount(m))
  IN IF m.returns = Void THEN called ELSE EvalPush(called, ResolveTypePayload(m.returns))

\* The accessors of a property or an indexer.
Getter(p) == p
Setter(p) == [p EXCEPT !.params = Append(@, p.returns), !.returns = Void]

EmitBinaryOperation(st, op) ==
  EmitPushing(st, "BINARY", op, 2, ResolveTypePayload(IF op \in BooleanOps THEN Boolean ELSE Integer))
EmitUnaryOperation(st, op) ==
  CASE op = "-" -> EmitPushing(st, "UNARY", op, 1, ResolveTypePayload(Integer))
    [] op = "!" -> EmitPushing(st, "UNARY", op, 1, ResolveTypePayload(Boolean))
    [] op = "+" -> st
EmitLiteral(st, n) ==
  IF n.type \in {Byte, NativeInteger}
  THEN EmitPushing(EmitPushing(st, "LOADCONST", Integer, 0, ResolveTypePayload(Integer)),
                   "CASTPRIMITIVE", n.type, 1, ResolveTypePayload(n.type))
  ELSE EmitPushing(st, "LOADCONST", n.type, 0, IF n.type \in {NullType, String} THEN PointerSize ELSE ResolveTypePayload(n.type))

RECURSIVE Visit(_, _)

VisitInOrder(st, nodes) == FoldLeft(Visit, st, nodes)
VisitArgumentsForward(st, nodes) == VisitInOrder(st, nodes)
\* VisitArgumentsList and EmitIndexatorArguments go from the last to the first.
VisitArguments(st, nodes) == FoldLeft(Visit, st, Reverse(nodes))

\* A receiver that is the name of a type emits nothing.
VisitReceiver(st, n) == IF n.t = Null THEN Visit(st, n.kids[1]) ELSE st

VisitMemberAccess(st, n) ==
  LET owner == Receiver(n)
      isProperty == FindProperty(owner, n.op) # Null
      isEnum == owner.kind = "named" /\ Symbols[owner.name].kind = "enum"
  IN CASE isProperty -> EmitMethodCall(VisitReceiver(st, n), Getter(n.m))
       [] ~isProperty /\ n.m.name = "." ->
            EmitMethodCall(VisitReceiver(EmitPushing(st, "LOADCONST", String, 0, PointerSize), n), n.m)
       [] ~isProperty /\ n.m.name # "." /\ isEnum -> EmitPushing(st, "LOADENUMFIELD", n.m, 0, ResolveTypePayload(n.m.returns))
       [] ~isProperty /\ n.m.name # "." /\ ~isEnum /\ n.m.linking = "static" ->
            EmitPushing(st, "LOADSTATICFIELD", n.m, 0, PointerSize)
       [] OTHER -> EmitPushing(VisitReceiver(st, n), "LOADFIELD", n.m, 1, ResolveTypePayload(n.m.returns))

VisitIndexator(st, n) ==
  EmitMethodCall(Visit(VisitArguments(st, Tail(n.kids)), n.kids[1]), Getter(n.m))

\* VisitBinaryAssignExpression.  Nothing is left on the stack.  The right side of an
\* assignment to a static field is not emitted.
VisitAssign(st, n) ==
  LET target == n.kids[1]
      right == n.kids[2]
      isProperty == target.k = "index" \/ (target.k = "member" /\ FindProperty(Receiver(target), target.op) # Null)
  IN CASE target.k = "local" -> EmitPopping(Visit(st, right), "STORE_LOCAL", target.t, 1)
       [] target.k # "local" /\ isProperty ->
            LET indexed == IF target.k = "index" THEN VisitArguments(Visit(st, right), Tail(target.kids)) ELSE Visit(st, right)
            IN EmitMethodCall(VisitReceiver(indexed, target), Setter(target.m))
       [] target.k # "local" /\ ~isProperty /\ target.m.linking = "static" ->
            EmitPopping(st, "STORESTATICFIELD", target.m, 1)
       [] OTHER -> EmitPopping(Visit(VisitReceiver(st, target), right), "STOREFIELD", target.m, 2)

VisitBinary(st, n) ==
  IF n.m # Null THEN EmitMethodCall(VisitInOrder(st, <<n.kids[2], n.kids[1]>>), n.m)
  ELSE EmitBinaryOperation(VisitInOrder(st, n.kids), n.op)
VisitUnary(st, n) ==
  IF n.m # Null THEN EmitMethodCall(Visit(st, n.kids[1]), n.m) ELSE EmitUnaryOperation(Visit(st, n.kids[1]), n.op)

\* VisitInvocationExpression: arguments, receiver, type arguments, call.
VisitInvocation(st, n) ==
  LET receivers == IF n.k = "call" /\ n.t = Null THEN 1 ELSE 0
      args == SubSeq(n.kids, receivers + 1, Len(n.kids))
      pushed == IF receivers = 1 THEN Visit(VisitArguments(st, args), n.kids[1]) ELSE VisitArguments(st, args)
      owned == ~n.extension /\ receivers = 1 /\ n.kids[1].type.kind = "generic"
      WithTypes(s, types) == FoldLeft(LAMBDA c, t : Append1(c, "LOAD_TYPEARGUMENT", t), s, types)
  IN EmitMethodCall(WithTypes(IF owned /\ ~IsInterfaceMember(n.m) THEN WithTypes(pushed, n.kids[1].type.args) ELSE pushed,
                              IF IsInterfaceMember(n.m) THEN <<>> ELSE n.typeArgs), n.m)

VisitObjectCreation(st, n) ==
  LET args == VisitArguments(IF n.t.kind = "generic"
                             THEN FoldLeft(LAMBDA s, t : Append1(s, "LOAD_TYPEARGUMENT", t), st, n.t.args) ELSE st, n.kids)
      created == Append1(args, "NEWOBJECT", [type |-> n.t, ctor |-> n.m])
  IN EvalPush(EvalPop(EvalPush(created, PointerSize), ArgumentsCount(n.m)), ResolveTypePayload(n.t))

\* An if expression has no visitor of its own: its parts are emitted in order.
VisitTernary(st, n) ==
  LET cond == EmitPopping(Visit(st, n.kids[1]), "JUMP_FALSE", 0, 1)
      left == Append1(Visit(cond, n.kids[2]), "JUMP", 0)
      right == Visit([left EXCEPT !.depth = cond.depth], n.kids[3])
  IN PasteData(PasteData(right, Len(cond.code), Len(left.code) + 1), Len(left.code), Len(right.code) + 1)

\* VisitSwitchExpression: the subject goes to a new slot, the size of a reference; a type pattern stores it in a
\* slot of its own when it matches; no match leaves null.
VisitArm(st, slot, pattern, arm) ==
  IF pattern = Null THEN [st |-> Append1(Visit(st, arm), "JUMP", 0), test |-> 0]
  ELSE LET loaded == EmitPushing(st, "LOAD_TEMP", slot, 0, PointerSize)
           tested == EmitPopping(EmitPushing(loaded, "ISINSTANCE", pattern, 1, ResolveTypePayload(Boolean)), "JUMP_FALSE", 0, 1)
           bound == EmitPopping(EmitPushing(tested, "LOAD_TEMP", slot, 0, PointerSize), "STORE_LOCAL", pattern, 1)
       IN [st |-> Append1(Visit(bound, arm), "JUMP", 0), test |-> Len(tested.code)]
VisitSwitch(st, n) ==
  LET slot == st.temps + 1
      subject == EmitPopping(Visit([st EXCEPT !.temps = slot], n.kids[1]), "STORE_TEMP", slot, 1)
      start == [st |-> subject, pending |-> 0, ends |-> {}]
      arms == FoldLeftDomain(
                LAMBDA acc, i :
                  LET here == IF acc.pending = 0 THEN acc.st ELSE PasteData(acc.st, acc.pending, Len(acc.st.code) + 1)
                      arm == VisitArm([here EXCEPT !.depth = subject.depth], slot, n.patterns[i], n.kids[i + 1])
                  IN [st |-> arm.st, pending |-> arm.test, ends |-> acc.ends \cup {Len(arm.st.code)}],
                start, n.patterns)
      unmatched == IF arms.pending = 0 THEN arms.st ELSE PasteData(arms.st, arms.pending, Len(arms.st.code) + 1)
      done == EmitPushing([unmatched EXCEPT !.depth = subject.depth], "LOADCONST", NullType, 0, PointerSize)
  IN FoldSet(LAMBDA at, s : PasteData(s, at, Len(done.code) + 1), done, arms.ends)

VisitCast(st, n) ==
  CASE n.m # Null -> EmitMethodCall(Visit(st, n.kids[1]), n.m)
    [] n.m = Null /\ n.op = "primitive" -> EmitPushing(Visit(st, n.kids[1]), "CASTPRIMITIVE", n.t, 1, ResolveTypePayload(n.t))
    [] OTHER -> EmitPushing(Visit(st, n.kids[1]), "CAST", n.t, 1, PointerSize)

Visit(st, n) ==
  CASE n.k = "literal" -> EmitLiteral(st, n)
    [] n.k = "local" -> EmitPushing(st, "LOAD_LOCAL", n.t, 0, ResolveTypePayload(n.t))
    [] n.k = "=" -> VisitAssign(st, n)
    [] n.k = "binary" -> VisitBinary(st, n)
    [] n.k = "unary" -> VisitUnary(st, n)
    [] n.k = "member" -> VisitMemberAccess(st, n)
    [] n.k = "index" -> VisitIndexator(st, n)
    [] n.k \in {"call", "bare"} -> VisitInvocation(st, n)
    [] n.k = "new" -> VisitObjectCreation(st, n)
    [] n.k = "array" -> EmitPushing(Visit(st, n.kids[1]), "NEWARRAY_DYNAMIC", n.type, 1, PointerSize)
    [] n.k = "collection" ->
         EmitPushing(VisitArguments(st, n.kids), "NEWARRAY", [type |-> n.type, length |-> Len(n.kids)], Len(n.kids), PointerSize)
    [] n.k = "range" ->
         EmitPushing(EmitPushing(VisitInOrder(st, n.kids), "LOADCONST", Boolean, 0, ResolveTypePayload(Boolean)),
                     "CREATERANGE", n.type, 3, PointerSize)
    [] n.k = "ternary" -> VisitTernary(st, n)
    [] n.k = "if" -> VisitInOrder(st, n.kids)
    [] n.k = "switch" -> VisitSwitch(st, n)
    [] n.k = "cast" -> VisitCast(st, n)
    [] n.k = "is" -> EmitPushing(Visit(st, n.kids[1]), "ISINSTANCE", n.t, 1, ResolveTypePayload(Boolean))

\* VisitExpressionStatement drops the value of a call.
VisitExpressionStatement(st, n) ==
  LET visited == Visit(st, n)
  IN IF n.k \in {"call", "bare"} /\ n.m.returns # Void THEN EmitPopping(visited, "POP", Null, 1) ELSE visited

\* PublishLayout: the number and the size of the entries of a frame.
EntriesOf(st) == IF st.poisoned THEN 64 ELSE MaxOf(st.max, 8)
PayloadOf(st) == IF st.poisoned THEN PointerSize ELSE MaxOf(st.payload, PointerSize)
=============================================================================
