------------------------------- MODULE MCCode -------------------------------
(***************************************************************************)
(* What the compiler lays out: bytecode and the string data, and the       *)
(* fields of types.                                                        *)
(*                                                                         *)
(* The programs are an instruction with any opcode and one behind it,      *)
(* whose jumps go to each instruction and to the end, and string literals. *)
(* The types are two user types A and B that hold numbers, arrays, a       *)
(* constructed type and each other, and a generic struct Box<T> of a T and *)
(* a byte.                                                                 *)
(***************************************************************************)
EXTENDS Jobs

CONSTANTS
  WideChar,      \* the bytes of a wide character
  ReadFor(_),    \* what the readers make of a program or of literals (ReadOf) ...
  LaidFor(_)     \* ... and both layouts of types (LaidOf): parameters, so that TLC does not
                 \* unfold them in its statistics


C == INSTANCE ByteCode

Operand(width) == CASE width = 1 -> 200 [] width = 2 -> 513 [] OTHER -> 66051
Instructions ==
  LET Plain(op) == LET ws == C!Emitted(op, 0) IN [i \in DOMAIN ws |-> Operand(ws[i])]
      plain == ToSet(C!OpCode) \ (C!Jumps \cup {"JUMP_TABLE"})
  IN {[op |-> op, args |-> Plain(op)] : op \in plain} \cup [op : C!Jumps, args : [{1} -> 1..3]]
Tables == [op : {"JUMP_TABLE"}, args : {<<0>>, <<1, 0>>, <<2, 0, 0>>}]
Followers == {i \in Instructions : i.op \in {"POP", "STOREFIELD", "JUMP", "BR_NULL", "RETURN", "CAST"}}
Encode ==
  Asked("Encode") /\ \E first \in Instructions \cup Tables, second \in {<<>>} \cup {<<i>> : i \in Followers \cup Tables} :
    LET program == <<first>> \o second
    IN /\ \A i \in DOMAIN program : program[i].op \in C!Jumps => program[i].args[1] <= Len(program) + 1
       /\ job' = [part |-> "code", program |-> program]

DataTexts == UpTo(2, {65, 300, 512})
Intern == Asked("Intern") /\ \E texts \in UpTo(2, DataTexts) : job' = [part |-> "texts", texts |-> texts]

(***************************************************************************)
(* What the emitter meant and what the readers find.                       *)
(***************************************************************************)
ReadCode(program, code, offsets) ==
  [offsets |-> offsets, reached |-> C!Reached(code, Len(program)), listing |-> C!Disassemble(code, 0),
   fetched |-> [i \in DOMAIN program |-> C!Fetch(code, offsets[i])],
   meant |-> [i \in DOMAIN program |-> IF program[i].op \in C!Jumps THEN <<offsets[program[i].args[1]]>> ELSE program[i].args]]
ReadTexts(texts) ==
  LET image == FoldLeft(C!EmitLoadConstString, [code |-> <<>>, data |-> <<>>], texts)
      listing == C!Disassemble(image.code, 0)
  IN [i \in DOMAIN texts |-> C!WideText(image.data, listing[i].args[1])]
ReadOf(j) ==
  IF j.part = "texts" THEN ReadTexts(j.texts)
  ELSE ReadCode(j.program, C!Program(j.program), [i \in 1..(Len(j.program) + 1) |-> C!OffsetOf(j.program, i)])

\* Every reader of a method's bytes finds the instructions that were emitted: whatever the
\* branches, the interpreter's cursor is only ever at the start of an instruction or at the
\* end, and it reads there the operands that were written, patched jump targets included;
\* the disassembler lists the same instructions (Emit functions of ByteCodeEncoder, the
\* cases of ExecuteInstruction, Disassemble).  The disassembler has no case for four of the
\* opcodes; nothing is said of its listing of a program that holds one.
ReadersSeeEmitted ==
  /\ job.part = "code" =>
       LET program == job.program
           r == ReadFor(job)
           Unlisted == {"LOADCONST_INTEGER8", "LOADCONST_NATIVE_INTEGER", "CAST", "CASTPRIMITIVE"}
       IN /\ r.reached \subseteq ToSet(r.offsets)
          /\ \A i \in DOMAIN program :
               /\ r.fetched[i].op = program[i].op
               /\ r.fetched[i].args = IF program[i].op = "JUMP_TABLE" THEN <<program[i].args[1]>> ELSE r.meant[i]
          /\ (\A i \in DOMAIN program : program[i].op \notin Unlisted) =>
               r.listing = [i \in DOMAIN program |-> [offset |-> r.offsets[i], op |-> program[i].op, args |-> r.meant[i]]]
  /\ job.part = "texts" => ReadFor(job) = job.texts
(***************************************************************************)
(* Layouts.                                                                *)
(***************************************************************************)

InstanceField(t) == [type |-> t, static |-> FALSE]
StaticField(t) == [type |-> t, static |-> TRUE]
Declared(kind, fields) == [kind |-> kind, byValue |-> kind = "struct", size |-> 0, fields |-> fields, of |-> "none", arg |-> "none"]
Native(size) == [kind |-> "struct", byValue |-> TRUE, size |-> size, fields |-> <<>>, of |-> "none", arg |-> "none"]
ArrayOf(t) == [kind |-> "array", byValue |-> FALSE, size |-> 8, fields |-> <<>>, of |-> t, arg |-> "none"]
BoxOf(t) == [kind |-> "generic", byValue |-> TRUE, size |-> 0, fields |-> <<>>, of |-> "Box", arg |-> t]
GivenTypes ==
  [byte |-> Native(1), char |-> Native(2), int |-> Native(8), T |-> [Declared("parameter", <<>>) EXCEPT !.byValue = FALSE],
   Box |-> Declared("struct", <<InstanceField("T"), InstanceField("byte")>>)]
    @@ ("byte[]" :> ArrayOf("byte")) @@ ("int[]" :> ArrayOf("int"))
    @@ ("Box<byte>" :> BoxOf("byte")) @@ ("Box<int>" :> BoxOf("int")) @@ ("Box<A>" :> BoxOf("A"))
ListOf(order) == <<"byte", "char", "int", "Box">> \o order \o <<"byte[]", "int[]", "Box<byte>", "Box<int>", "Box<A>">>

FieldsOfA == {InstanceField(t) : t \in {"byte", "char", "A", "B", "byte[]", "Box<byte>"}} \cup {StaticField("int")}
FieldsOfB == {InstanceField(t) : t \in {"byte", "A", "int[]", "Box<A>"}}
Layout ==
  Asked("Layout") /\ \E kinds \in {<<"struct", "struct">>, <<"struct", "class">>, <<"class", "struct">>},
                  fa \in UpTo(3, FieldsOfA), fb \in UpTo(2, FieldsOfB), order \in {<<"A", "B">>, <<"B", "A">>} :
    /\ fb = <<>> \/ \E i \in DOMAIN fa : fa[i] = InstanceField("B")
    /\ job' = [part |-> "layout", order |-> ListOf(order),
               types |-> ("A" :> Declared(kinds[1], fa)) @@ ("B" :> Declared(kinds[2], fb)) @@ GivenTypes]

LG == INSTANCE Layouts WITH Types <- job.types, Order <- job.order

(***************************************************************************)
(* Which types hold which, by value or at all; through a constructed type  *)
(* its argument is held too.                                               *)
(***************************************************************************)
Holds(t, byValue) ==
  LET fields == {f.type : f \in {g \in ToSet(LG!FieldsOf(t)) : ~g.static}}
      concrete == {LG!SubstituteTypeParameters(t, f) : f \in fields}
  IN {f \in concrete : byValue => job.types[f].byValue}
RECURSIVE Closure(_, _)
Closure(set, byValue) ==
  LET next == set \cup UNION {Holds(t, byValue) : t \in set} IN IF next = set THEN set ELSE Closure(next, byValue)

\* What both passes compute, and what the declarations say, for the property below.
LaidOf(j) ==
  LET laid == LG!Generate
      objects == {"A", "B", "Box<byte>", "Box<int>"}
      Placed(t) == {i \in DOMAIN LG!FieldsOf(t) : ~LG!FieldsOf(t)[i].static}
      FieldType(t, i) == LG!SubstituteTypeParameters(t, LG!FieldsOf(t)[i].type)
      Constructed == {"Box<byte>", "Box<int>", "Box<A>"}
  IN [reported |-> laid.reported # {}, objects |-> objects,
      sizes |-> [t \in objects |-> laid.size[t]],
      shapes |-> [t \in objects |-> LG!GetOrCreateShape(laid, t)],
      fields |-> [t \in objects |-> [i \in {k \in Placed(t) : <<t, k>> \in DOMAIN laid.offset} |->
        [offset |-> laid.offset[<<t, i>>], size |-> LG!GetInlineSize(laid.size, FieldType(t, i)),
         alignment |-> LG!GetTypeAlignment(laid.size, FieldType(t, i))]]],
      cyclic |-> {t \in {"A", "B"} : t \in Closure(Holds(t, TRUE), TRUE)},
      circular |-> {t \in {"A", "B"} : t \in Closure(Holds(t, FALSE), FALSE)},
      boxed |-> {t \in objects : \E u \in Closure({t}, TRUE) \ Constructed : \E f \in ToSet(job.types[u].fields) :
                                   ~f.static /\ f.type \in Constructed},
      narrow |-> {t \in objects : \E u \in Closure({t}, TRUE) : InstanceField("byte[]") \in ToSet(job.types[u].fields)}]

\* Struct types that contain themselves are refused, and the two layouts of an accepted
\* program agree: each struct has the same size in both and each field the same place, the
\* fields are aligned and overlap neither each other nor the next element of an array
\* (LayoutGenerator::FixObjectLayout, TypeShapeCache::BuildShape).  Types that hold a
\* constructed struct by value or, in the case of agreement, an array of narrower elements
\* than a pointer are left out: the passes differ on them.
LayoutsAgree ==
  job.part = "layout" =>
    LET l == LaidFor(job)
    IN /\ l.cyclic \ l.boxed # {} => l.reported
       /\ l.circular = {} => ~l.reported
       /\ ~l.reported /\ l.cyclic = {} =>
            \A t \in l.objects :
              LET fields == l.fields[t]
                  slots == l.shapes[t].slots
              IN /\ t \notin l.boxed \cup l.narrow =>
                      /\ job.types[t].byValue => l.shapes[t].size = l.sizes[t]
                      /\ DOMAIN slots = DOMAIN fields /\ \A i \in DOMAIN fields : slots[i].offset = fields[i].offset
                 /\ t \notin l.boxed => l.shapes[t].size <= l.sizes[t]
                 /\ \A i \in DOMAIN fields :
                      /\ fields[i].offset + fields[i].size <= l.sizes[t]
                      /\ fields[i].offset % fields[i].alignment = 0
                 /\ \A i, k \in DOMAIN fields : k > i =>
                      /\ fields[k].offset >= fields[i].offset + fields[i].size
                      /\ slots[k].offset >= slots[i].offset + slots[i].size
=============================================================================
