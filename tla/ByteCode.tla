------------------------------ MODULE ByteCode ------------------------------
(***************************************************************************)
(* Instructions as bytes: what ByteCodeEncoder writes for each opcode,     *)
(* what the interpreter and the disassembler read back, and how jumps that *)
(* are patched later move the cursor.  Bytes are little-endian; operands   *)
(* are numbers, a symbol being its address.                                *)
(***************************************************************************)
EXTENDS Integers, Sequences, SequencesExt, TLC

CONSTANT WideChar       \* sizeof(wchar_t): 2 or 4

(***************************************************************************)
(* enum class OpCode, in order: an opcode is its place.                    *)
(***************************************************************************)
StackCodes ==
  <<"NOP", "HALT", "POP", "LOADCONST_NULL", "LOADCONST_BOOLEAN", "LOADCONST_INTEGER8", "LOADCONST_INTEGER64",
    "LOADCONST_NATIVE_INTEGER", "LOADCONST_RATIONAL64", "LOADCONST_CHAR", "LOADCONST_STRING", "DUP", "STORE_LOCAL",
    "STORE_ARG", "LOAD_LOCAL", "LOAD_ARG">>
JumpCodes == <<"JUMP", "JUMP_TRUE", "JUMP_FALSE", "BR_NULL", "JUMP_TABLE", "RETURN", "THROW">>
MathCodes ==
  <<"MATH_ADDITION", "MATH_SUBTRACT", "MATH_MULTIPLY", "MATH_DIVISION", "MATH_MODULO", "MATH_POWER", "MATH_NEGATIVE",
    "MATH_SHL", "MATH_SHR", "COMPARE_EQUAL", "COMPARE_NOTEQUAL", "COMPARE_GREATER", "COMPARE_GREATER_OR_EQUAL",
    "COMPARE_LESS", "COMPARE_LESS_OR_EQUAL", "LOGICAL_NOT", "LOGICAL_OR", "LOGICAL_AND">>
ObjectCodes ==
  <<"NEWOBJECT", "NEWDELEGATE", "LOADFIELD", "STOREFIELD", "NEWARRAY", "LOADARRAYELEMENT", "STOREARRAYELEMENT",
    "ARRAYLENGTH", "NEWARRAY_DYNAMIC", "LOADSTATICFIELD", "LOADENUMFIELD", "STORESTATICFIELD">>
CallCodes ==
  <<"CALLMETHODSYMBOL", "CALLDELEGATE", "LOAD_TYPEARGUMENT", "CALLINTERFACE", "ISINSTANCE", "CAST_AS", "CAST", "CASTPRIMITIVE">>
RegionCodes ==
  <<"ENTER_TRY", "LEAVE_TRY", "RETHROW", "END_CATCH", "LOAD_CURRENT_EXCEPTION", "STORE_CURRENT_EXCEPTION", "DEFER",
    "DEFER_BREAK", "DEFER_DRAIN", "CREATERANGE">>
OpCode == StackCodes \o JumpCodes \o MathCodes \o ObjectCodes \o CallCodes \o RegionCodes
CodeOf(op) == CHOOSE i \in DOMAIN OpCode : OpCode[i] = op

(***************************************************************************)
(* Sizes of the operand types.                                             *)
(***************************************************************************)
CodeSize == 2
Bool == 1
Int8 == 1
Slot == 2           \* std::uint16_t
UInt32 == 4
Word == 8           \* std::size_t, a pointer, std::int64_t, double

All(ops, widths) == [op \in ops |-> widths]
Bare == ToSet(MathCodes)
          \cup {"NOP", "HALT", "POP", "LOADCONST_NULL", "DUP", "RETURN", "THROW", "LEAVE_TRY", "RETHROW", "END_CATCH",
                "LOAD_CURRENT_EXCEPTION", "STORE_CURRENT_EXCEPTION", "DEFER_BREAK", "LOADARRAYELEMENT", "STOREARRAYELEMENT",
                "ARRAYLENGTH"}

(***************************************************************************)
(* ByteCodeEncoder: the operands each Emit function appends.  A jump table *)
(* has as many words as its count says.                                    *)
(***************************************************************************)
EmittedConstants ==
  [LOADCONST_BOOLEAN |-> <<Bool>>, LOADCONST_INTEGER8 |-> <<Int8>>, LOADCONST_INTEGER64 |-> <<Word>>,
   LOADCONST_NATIVE_INTEGER |-> <<Word>>, LOADCONST_RATIONAL64 |-> <<Word>>, LOADCONST_CHAR |-> <<WideChar>>,
   LOADCONST_STRING |-> <<Word>>]
EmittedSlots == All({"LOAD_LOCAL", "STORE_LOCAL", "LOAD_ARG", "STORE_ARG"}, <<Slot>>)
EmittedJumps == All({"JUMP", "JUMP_TRUE", "JUMP_FALSE", "BR_NULL", "ENTER_TRY", "DEFER", "DEFER_DRAIN"}, <<Word>>)
EmittedObjectsNarrow ==
  All({"LOADFIELD", "STOREFIELD"}, <<Slot>>) @@ ("LOAD_TYPEARGUMENT" :> <<Slot, Word>>) @@ ("NEWOBJECT" :> <<Word, Word>>)
    @@ All({"NEWDELEGATE", "NEWARRAY", "NEWARRAY_DYNAMIC", "CREATERANGE"}, <<Word>>)
EmittedObjects ==
  All({"LOADFIELD", "STOREFIELD"}, <<UInt32>>) @@ ("LOAD_TYPEARGUMENT" :> <<Slot, Word>>) @@ ("NEWOBJECT" :> <<Word, Word>>)
    @@ All({"NEWDELEGATE", "NEWARRAY", "NEWARRAY_DYNAMIC", "CREATERANGE"}, <<Word>>)
EmittedSymbols ==
  All({"LOADSTATICFIELD", "STORESTATICFIELD", "LOADENUMFIELD", "CALLMETHODSYMBOL", "CALLDELEGATE", "CALLINTERFACE",
       "ISINSTANCE", "CAST_AS", "CAST", "CASTPRIMITIVE"}, <<Word>>)
Emitted(op, count) ==
  IF op = "JUMP_TABLE" THEN <<UInt32>> \o [i \in 1..count |-> Word]
  ELSE (All(Bare, <<>>) @@ EmittedConstants @@ EmittedSlots @@ EmittedJumps @@ EmittedObjects @@ EmittedSymbols)[op]

Bytes(v, width) == [k \in 1..width |-> IF k > 3 THEN 0 ELSE (v \div 256^(k - 1)) % 256]
Appended(args, widths) == FlattenSeq([i \in DOMAIN args |-> Bytes(args[i], widths[i])])
EmitInstruction(code, op, args) == code \o Bytes(CodeOf(op), CodeSize) \o Appended(args, Emitted(op, Len(args) - 1))

\* Offsets of the program count from 0.
PasteData(code, at, v) ==
  [k \in DOMAIN code |-> IF k \in (at + 1)..(at + Word) THEN Bytes(v, Word)[k - at] ELSE code[k]]

(***************************************************************************)
(* A program: jumps name the instruction they go to; they are emitted with *)
(* 0 and patched behind the opcode when the target is known.               *)
(***************************************************************************)
Jumps == {"JUMP", "JUMP_TRUE", "JUMP_FALSE", "BR_NULL", "ENTER_TRY", "DEFER"}
Placeholder(ins) == IF ins.op \in Jumps THEN <<0>> ELSE ins.args
Assembled(program) == FoldLeft(LAMBDA code, ins : EmitInstruction(code, ins.op, Placeholder(ins)), <<>>, program)
OffsetOf(program, i) == Len(Assembled(SubSeq(program, 1, i - 1)))
Program(program) ==
  FoldLeft(LAMBDA code, i : IF program[i].op \in Jumps
                            THEN PasteData(code, OffsetOf(program, i) + CodeSize, OffsetOf(program, program[i].args[1]))
                            ELSE code,
           Assembled(program), [i \in DOMAIN program |-> i])

(***************************************************************************)
(* ByteCodeDecoder: a read that does not fit returns 0 and stays.          *)
(***************************************************************************)
IsEOF(code, ip) == ip >= Len(code)
Value(bytes) == FoldRight(LAMBDA b, v : b + 256 * v, SubSeq(bytes, 1, IF Len(bytes) < 3 THEN Len(bytes) ELSE 3), 0)
ReadUnaligned(code, ip, width) ==
  IF ip + width > Len(code) THEN [ip |-> ip, value |-> 0]
  ELSE [ip |-> ip + width, value |-> Value(SubSeq(code, ip + 1, ip + width))]
Absorb(code, ip, widths) ==
  FoldLeft(LAMBDA s, w : LET r == ReadUnaligned(code, s.ip, w) IN [ip |-> r.ip, args |-> Append(s.args, r.value)],
           [ip |-> ip, args |-> <<>>], widths)
SetCursor(code, to) == IF to > Len(code) THEN {} ELSE {to}

(***************************************************************************)
(* ExecuteInstruction: the operands each case absorbs, and the cursors it  *)
(* may leave, by the value it pops.  An unknown opcode raises.             *)
(***************************************************************************)
VMConstants ==
  [LOADCONST_BOOLEAN |-> <<Bool>>, LOADCONST_INTEGER8 |-> <<Int8>>, LOADCONST_INTEGER64 |-> <<Word>>,
   LOADCONST_NATIVE_INTEGER |-> <<Word>>, LOADCONST_RATIONAL64 |-> <<Word>>, LOADCONST_CHAR |-> <<WideChar>>,
   LOADCONST_STRING |-> <<Word>>]
    @@ All({"LOAD_LOCAL", "STORE_LOCAL", "LOAD_ARG", "STORE_ARG"}, <<Slot>>)
VMObjects ==
  ("NEWOBJECT" :> <<Word, Word>>) @@ ("LOAD_TYPEARGUMENT" :> <<Slot, Word>>) @@ All({"LOADFIELD", "STOREFIELD"}, <<UInt32>>)
    @@ All({"NEWDELEGATE", "LOADSTATICFIELD", "LOADENUMFIELD", "STORESTATICFIELD", "NEWARRAY", "NEWARRAY_DYNAMIC",
            "CREATERANGE"}, <<Word>>)
VMCalls == All({"CALLMETHODSYMBOL", "CALLDELEGATE", "CALLINTERFACE", "ISINSTANCE", "CAST_AS", "CAST", "CASTPRIMITIVE"}, <<Word>>)
VMJumps == All({"JUMP", "JUMP_FALSE", "JUMP_TRUE", "BR_NULL", "ENTER_TRY", "DEFER", "DEFER_DRAIN"}, <<Word>>)
VMOperands == All(Bare, <<>>) @@ VMConstants @@ VMObjects @@ VMCalls @@ VMJumps @@ ("JUMP_TABLE" :> <<UInt32>>)

Fetch(code, ip) ==
  LET r == ReadUnaligned(code, ip, CodeSize)
      op == IF r.value \in DOMAIN OpCode THEN OpCode[r.value] ELSE "unknown"
      a == IF op = "unknown" THEN [ip |-> r.ip, args |-> <<>>] ELSE Absorb(code, r.ip, VMOperands[op])
  IN [op |-> op, ip |-> a.ip, args |-> a.args]

\* The table is read in place; an index outside it goes on behind the table.
JumpTable(code, base, count) ==
  SetCursor(code, base + count * Word)
    \cup UNION {SetCursor(code, ReadUnaligned(code, base + i * Word, Word).value) : i \in 0..(count - 1)}
Cursors(code, f) ==
  CASE f.op = "unknown" -> {}
    [] f.op = "JUMP" -> SetCursor(code, f.args[1])
    [] f.op \in {"JUMP_TRUE", "JUMP_FALSE", "BR_NULL", "ENTER_TRY", "DEFER"} -> {f.ip} \cup SetCursor(code, f.args[1])
    [] f.op = "JUMP_TABLE" -> JumpTable(code, f.ip, f.args[1])
    [] f.op = "RETURN" -> {Len(code)}
    [] OTHER -> {f.ip}

\* The cursors a run from the start may have, of a program of that many instructions.
Advance(code, seen) == seen \cup UNION {Cursors(code, f) : f \in {Fetch(code, ip) : ip \in {i \in seen : ~IsEOF(code, i)}}}
Reached(code, count) == FoldLeft(LAMBDA seen, n : Advance(code, seen), {0}, [n \in 1..count |-> n])

(***************************************************************************)
(* ProgramDisassembler: what each case absorbs.  An opcode it has no case  *)
(* for is listed as unknown and its operands are read as instructions.     *)
(***************************************************************************)
ListedConstants ==
  ("LOADCONST_BOOLEAN" :> <<Bool>>) @@ ("LOADCONST_INTEGER64" :> <<Word>>) @@ ("LOADCONST_RATIONAL64" :> <<Word>>)
    @@ ("LOADCONST_CHAR" :> <<WideChar>>) @@ ("LOADCONST_STRING" :> <<Word>>)
    @@ All({"LOAD_LOCAL", "STORE_LOCAL", "LOAD_ARG", "STORE_ARG"}, <<Slot>>)
ListedJumps == All({"JUMP", "JUMP_FALSE", "JUMP_TRUE", "BR_NULL"}, <<Word>>)
ListedTable(code, ip) == [i \in 1..ReadUnaligned(code, ip, UInt32).value |-> Word]
ListedObjects ==
  All({"LOADFIELD", "STOREFIELD"}, <<UInt32>>) @@ ("NEWOBJECT" :> <<Word, Word>>)
    @@ All({"CALLMETHODSYMBOL", "CALLDELEGATE", "NEWDELEGATE", "LOADSTATICFIELD", "LOADENUMFIELD", "STORESTATICFIELD",
            "NEWARRAY", "NEWARRAY_DYNAMIC"}, <<Word>>)
ListedCalls ==
  ("LOAD_TYPEARGUMENT" :> <<Slot, Word>>) @@ All({"CREATERANGE", "CALLINTERFACE", "ISINSTANCE", "CAST_AS"}, <<Word>>)
ListedRegions == All({"ENTER_TRY", "DEFER", "DEFER_DRAIN"}, <<Word>>)
ListedOperands == All(Bare, <<>>) @@ ListedConstants @@ ListedJumps @@ ListedObjects @@ ListedCalls @@ ListedRegions

\* A byte left over at the end is never consumed: the listing would not end there.
RECURSIVE Disassemble(_, _)
Disassemble(code, ip) ==
  IF IsEOF(code, ip) THEN <<>>
  ELSE LET r == ReadUnaligned(code, ip, CodeSize)
           op == IF r.value \in DOMAIN OpCode THEN OpCode[r.value] ELSE "unknown"
           widths == CASE op = "JUMP_TABLE" -> <<UInt32>> \o ListedTable(code, r.ip)
                       [] op # "JUMP_TABLE" /\ op \in DOMAIN ListedOperands -> ListedOperands[op]
                       [] OTHER -> <<>>
           a == Absorb(code, r.ip, widths)
       IN IF r.ip = ip THEN <<[offset |-> ip, op |-> "endless", args |-> <<>>]>>
          ELSE <<[offset |-> ip, op |-> op, args |-> a.args]>> \o Disassemble(code, a.ip)

(***************************************************************************)
(* Literals: wide strings in the data section, each closed by a zero.  The *)
(* interpreter reads from the offset to the first zero.                    *)
(***************************************************************************)
AppendString(data, text) == data \o FlattenSeq([i \in DOMAIN text |-> Bytes(text[i], WideChar)]) \o Bytes(0, WideChar)
EmitLoadConstString(image, text) ==
  [code |-> EmitInstruction(image.code, "LOADCONST_STRING", <<Len(image.data)>>), data |-> AppendString(image.data, text)]
RECURSIVE WideText(_, _)
WideText(data, at) ==
  LET r == ReadUnaligned(data, at, WideChar) IN IF r.value = 0 THEN <<>> ELSE <<r.value>> \o WideText(data, r.ip)
=============================================================================
