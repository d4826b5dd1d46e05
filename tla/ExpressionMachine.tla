-------------------------- MODULE ExpressionMachine --------------------------
(***************************************************************************)
(* The data instructions of VirtualMachine::ProcessCode and                *)
(* PrimitiveMathModule, executed on the runtime types of the values.  A    *)
(* value read from a variable, a field or a method may be of any type that *)
(* conforms to the declared one, null included, so a run has several       *)
(* outcomes.                                                               *)
(***************************************************************************)
EXTENDS ExpressionEmitter

\* pc, the evaluation stack (top last), the slots the emitter added, the outcome of the
\* last ISINSTANCE, the greatest height of the stack and of its bytes, and whether a
\* binary operation met null; pending holds PendingTypeArguments.  status: "run", "done", "raised" (a C++ exception of the
\* instruction) or "stuck" (an empty stack, or an operand the instruction cannot read).
Machine == [pc |-> 1, stack |-> <<>>, temps |-> <<>>, test |-> {TRUE, FALSE}, high |-> 0, largest |-> 0, pending |-> <<>>,
            nulls |-> FALSE, status |-> "run"]

\* The runtime types of the values a variable of type t may hold.
Concrete == {Named(n) : n \in {x \in DOMAIN Symbols : Symbols[x].kind \in {"class", "struct", "enum"}
                                                       /\ Symbols[x].typeParameters = 0 /\ x \notin {"any", "void", "null", "Array"}}}
ConformsTo(v, t) == IF v = NullType THEN ByReference(t) ELSE IsAssignableTo(t, v)
\* A value wider than the slot of its variable (a large struct in a variable of type any,
\* which SetLocal copies over the next slot) is not considered.
Values(t) ==
  {v \in Concrete \cup {NullType} \cup (IF IsInterface(t) THEN {} ELSE {t}) :
     ConformsTo(v, t) /\ v # AnyType /\ ResolveTypePayload(v) <= ResolveTypePayload(t)}

Stop(m, status) == {[m EXCEPT !.status = status]}
Raise(m) == Stop(m, "raised")
Stuck(m) == Stop(m, "stuck")
Needs(m, n) == Len(m.stack) >= n
Peek(m, i) == m.stack[Len(m.stack) - i]
Popped(m, n) == [m EXCEPT !.stack = SubSeq(@, 1, Len(@) - n)]

\* PushInline, PushReference
Pushed(m, v) ==
  [m EXCEPT !.stack = Append(@, v), !.pc = @ + 1, !.test = {TRUE, FALSE}, !.high = MaxOf(@, Len(m.stack) + 1),
            !.largest = MaxOf(@, ResolveTypePayload(v))]
Continue(m) == [m EXCEPT !.pc = @ + 1]
PushOf(m, t) == {Pushed(m, v) : v \in Values(t)}

(***************************************************************************)
(* PrimitiveMathModule: the type of the result, Null where it has none.    *)
(***************************************************************************)
NumericType == {Integer, Double, Char, Boolean, Byte, NativeInteger}
IntegralType == {Integer, Char, Byte, NativeInteger}
IsEnum(t) == t.kind = "named" /\ Symbols[t.name].kind = "enum"

CompareEqual(l, r) ==
  IF \/ {l, r} = {String}
     \/ ByReference(l) /\ ByReference(r)
     \/ l = r /\ IsEnum(l)
     \/ {l, r} \subseteq NumericType
  THEN Boolean ELSE Null
CompareLess(l, r) == IF {l, r} = {String} \/ {l, r} \subseteq NumericType THEN Boolean ELSE Null
Arithmetic(l, r) == IF {l, r} \subseteq NumericType THEN Wider(l, r) ELSE Null
Bitwise(l, r) == IF {l, r} \subseteq IntegralType THEN Integer ELSE Null

ExecuteBinary(op, l, r) ==
  CASE op = "+" -> IF String \in {l, r} THEN String ELSE Arithmetic(l, r)
    [] op \in {"-", "*", "/", "%", "pow"} -> Arithmetic(l, r)
    [] op \in {"|", "&"} -> IF {l, r} = {Boolean} THEN Boolean ELSE Bitwise(l, r)
    [] op \in BitOps -> Bitwise(l, r)
    [] op \in {"==", "!="} -> CompareEqual(l, r)
    [] op \in {"<", ">"} -> CompareLess(l, r)
    [] op \in {"<=", ">="} -> IF CompareLess(l, r) # Null THEN Boolean ELSE CompareEqual(l, r)

ExecuteUnary(op, t) ==
  CASE op = "!" -> IF t = Boolean THEN Boolean ELSE Null
    [] op = "-" -> IF t \notin NumericType THEN Null ELSE IF t = Double THEN Double ELSE Integer

ExecuteCast(target, source) ==
  IF ByReference(target) \/ ByReference(source) \/ (target \notin NumericType /\ ~IsEnum(target)) THEN Null ELSE target

(***************************************************************************)
(* The instructions.                                                       *)
(***************************************************************************)
\* InvokeOperatorMethod when PrimitiveMathModule has no result.
Fallback(m, op, args) ==
  LET method == FindOperator(args[1], op, args)
  IN IF method = Null THEN Stuck(m) ELSE PushOf(m, method.returns)

BinaryI(m, op) ==
  LET r == Peek(m, 0)  l == Peek(m, 1)  rest == Popped(m, 2)
      result == ExecuteBinary(op, l, r)
  IN CASE ~Needs(m, 2) -> Stuck(m)
       [] Needs(m, 2) /\ NullType \in {l, r} -> {[Pushed(rest, Boolean) EXCEPT !.nulls = @ \/ op \notin Comparisons]}
       [] OTHER -> (IF result # Null THEN {Pushed(rest, result)} ELSE Fallback(rest, op, <<l, r>>))
                     \cup (IF op \in {"/", "%"} THEN Raise(m) ELSE {})
UnaryI(m, op) ==
  CASE ~Needs(m, 1) -> Stuck(m)
    [] Needs(m, 1) /\ Peek(m, 0) = NullType -> Raise(m)
    [] OTHER -> IF ExecuteUnary(op, Peek(m, 0)) # Null THEN {Pushed(Popped(m, 1), ExecuteUnary(op, Peek(m, 0)))}
                ELSE Fallback(Popped(m, 1), op, <<Peek(m, 0)>>)

\* Arguments are popped from the top: args[0] is `this' or the first parameter.  The
\* body of a method is not executed: it returns a value of its return type, with the
\* type arguments of `this'.  A null `this' raises when the body uses it.
Passed(m, method) == [i \in 1..ArgumentsCount(method) |-> Peek(m, i - 1)]
Parameters(method) == (IF method.linking = "instance" THEN <<method.owner>> ELSE <<>>) \o method.params
Receives(v, want) ==
  \/ want.kind = "parameter"
  \/ v.kind = "generic" /\ want = Named(v.name)
  \/ v.kind = "array" /\ want = Named("Array")
  \/ ConformsTo(v, want)
Invoke(m, method) ==
  LET args == Passed(m, method)
      this == IF method.linking = "instance" THEN args[1] ELSE Null
      returns == IF this.kind = "array" /\ method.returns.kind = "parameter" THEN this.of
                 ELSE Substitute(method.returns, this, method.name, m.pending)
      rest == [Popped(m, ArgumentsCount(method)) EXCEPT !.pending = <<>>]
  IN CASE ~Needs(m, ArgumentsCount(method)) -> Stuck(m)
       [] Needs(m, ArgumentsCount(method)) /\ this = NullType -> Raise(m)
       [] OTHER -> IF \E i \in DOMAIN args : ~Receives(args[i], Substitute(Parameters(method)[i], this, method.name, m.pending))
                   THEN Stuck(m)
                   ELSE IF returns = Void THEN {Continue(rest)} ELSE PushOf(rest, returns)

\* CALLINTERFACE looks for the method of the same name in the class of the receiver.
InvokeInterface(m, method) ==
  LET found == FirstOf(Declaration(Peek(m, 0)).methods, LAMBDA c : c.name = method.name)
  IN CASE ~Needs(m, 1) -> Stuck(m)
       [] Needs(m, 1) /\ Peek(m, 0) = NullType -> Raise(m)
       [] OTHER -> IF found = Null THEN Stuck(m) ELSE Invoke(m, found)

FieldI(m, field) ==
  CASE ~Needs(m, 1) -> Stuck(m)
    [] Needs(m, 1) /\ Peek(m, 0) = NullType -> Raise(m)
    [] OTHER -> IF Receives(Peek(m, 0), field.owner)
                THEN PushOf(Popped(m, 1), Substitute(field.returns, Peek(m, 0), Null, <<>>)) ELSE Stuck(m)
StoreFieldI(m, field) ==
  CASE ~Needs(m, 2) -> Stuck(m)
    [] Needs(m, 2) /\ Peek(m, 1) = NullType -> Raise(m)
    [] OTHER -> IF /\ Receives(Peek(m, 1), field.owner)
                   /\ ConformsTo(Peek(m, 0), Substitute(field.returns, Peek(m, 1), Null, <<>>))
                THEN {Continue(Popped(m, 2))} ELSE Stuck(m)
Store(m, t) == IF Needs(m, 1) /\ ConformsTo(Peek(m, 0), t) THEN {Continue(Popped(m, 1))} ELSE Stuck(m)

CastI(m, target) ==
  LET v == Peek(m, 0)
  IN CASE ~Needs(m, 1) -> Stuck(m)
       [] Needs(m, 1) /\ target = AnyType -> {Pushed(Popped(m, 1), v)}
       [] OTHER -> IF ConformsTo(v, target) THEN {Pushed(Popped(m, 1), v)} ELSE Raise(m)
CastPrimitiveI(m, target) ==
  CASE ~Needs(m, 1) -> Stuck(m)
    [] Needs(m, 1) /\ Peek(m, 0) = NullType -> Raise(m)
    [] OTHER -> IF ExecuteCast(target, Peek(m, 0)) = Null THEN Stuck(m) ELSE {Pushed(Popped(m, 1), target)}
IsInstanceI(m, target) ==
  IF ~Needs(m, 1) THEN Stuck(m)
  ELSE {[Pushed(Popped(m, 1), Boolean) EXCEPT !.test = {Peek(m, 0) # NullType /\ IsAssignableTo(target, Peek(m, 0))}]}

\* NEWOBJECT: the instance is pushed for the constructor, which takes it as `this'.
NewObjectI(m, type, ctor) ==
  LET pushed == Pushed(m, type)
  IN {IF s.status = "run" THEN Pushed([s EXCEPT !.pc = m.pc], type) ELSE s : s \in Invoke(pushed, ctor)}

\* NEWARRAY, NEWARRAY_DYNAMIC and CREATERANGE check only the number of the operands.
ArrayI(m, type, n, operand) ==
  IF ~Needs(m, n) THEN Stuck(m)
  ELSE IF \A i \in 1..n : ConformsTo(Peek(m, i - 1), operand[i]) THEN {Pushed(Popped(m, n), type)} ELSE Stuck(m)

StepOf(i, m) ==
  CASE i.op = "LOADCONST" -> {Pushed(m, i.arg)}
    [] i.op = "LOAD_LOCAL" -> PushOf(m, i.arg)
    [] i.op = "STORE_LOCAL" -> Store(m, i.arg)
    [] i.op = "STORE_TEMP" ->
         IF Needs(m, 1) THEN {Continue([Popped(m, 1) EXCEPT !.temps = [s \in (DOMAIN @) \cup {i.arg} |->
                                          IF s = i.arg THEN Peek(m, 0) ELSE @[s]]])}
         ELSE Stuck(m)
    [] i.op = "LOAD_TEMP" -> {Pushed(m, m.temps[i.arg])}
    [] i.op = "LOADSTATICFIELD" -> PushOf(m, i.arg.returns)
    [] i.op = "STORESTATICFIELD" -> Store(m, i.arg.returns)
    [] i.op = "LOADENUMFIELD" -> {Pushed(m, i.arg.returns)}
    [] i.op = "LOADFIELD" -> FieldI(m, i.arg)
    [] i.op = "STOREFIELD" -> StoreFieldI(m, i.arg)
    [] i.op = "LOAD_TYPEARGUMENT" -> {Continue([m EXCEPT !.pending = Append(@, i.arg)])}
    [] i.op = "POP" -> IF Needs(m, 1) THEN {Continue(Popped(m, 1))} ELSE Stuck(m)
    [] i.op = "BINARY" -> BinaryI(m, i.arg)
    [] i.op = "UNARY" -> UnaryI(m, i.arg)
    [] i.op = "CALLMETHODSYMBOL" -> Invoke(m, i.arg)
    [] i.op = "CALLINTERFACE" -> InvokeInterface(m, i.arg)
    [] i.op = "NEWOBJECT" -> NewObjectI(m, i.arg.type, i.arg.ctor)
    [] i.op = "NEWARRAY" -> ArrayI(m, i.arg.type, i.arg.length, [j \in 1..i.arg.length |-> i.arg.type.of])
    [] i.op = "NEWARRAY_DYNAMIC" -> ArrayI(m, i.arg, 1, <<Integer>>)
    [] i.op = "CREATERANGE" -> ArrayI(m, i.arg, 3, <<Boolean, Integer, Integer>>)
    [] i.op = "CAST" -> CastI(m, i.arg)
    [] i.op = "CASTPRIMITIVE" -> CastPrimitiveI(m, i.arg)
    [] i.op = "ISINSTANCE" -> IsInstanceI(m, i.arg)
    [] i.op = "JUMP" -> {[m EXCEPT !.pc = i.arg]}
    [] i.op = "JUMP_FALSE" ->
         IF ~Needs(m, 1) THEN Stuck(m)
         ELSE IF Peek(m, 0) # Boolean THEN Stuck(m)
         ELSE {[Popped(m, 1) EXCEPT !.pc = IF b THEN @ + 1 ELSE i.arg, !.test = {TRUE, FALSE}] : b \in m.test}

\* Every way the code may run.
RECURSIVE Outcomes(_, _)
Outcomes(code, m) ==
  CASE m.status # "run" -> {m}
    [] m.status = "run" /\ m.pc > Len(code) -> {[m EXCEPT !.status = "done"]}
    [] OTHER -> UNION {Outcomes(code, s) : s \in StepOf(code[m.pc], m)}
=============================================================================
