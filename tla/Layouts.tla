------------------------------- MODULE Layouts -------------------------------
(***************************************************************************)
(* Where the fields of an object are, computed twice: LayoutGenerator      *)
(* gives every type a size and every field an offset when a program is     *)
(* compiled, TypeShapeCache gives the shapes the runtime reads and writes  *)
(* fields by.  Array elements lie the compile-time size apart.             *)
(*                                                                         *)
(* A type is [kind, byValue, size (of a type without fields), fields]; an  *)
(* array or a constructed type has no fields of its own but names the type *)
(* it is made of.                                                          *)
(***************************************************************************)
EXTENDS Integers, Sequences, SequencesExt, FiniteSetsExt, Functions, TLC

CONSTANTS
  Types,        \* [name -> type]
  Order         \* the order of the symbol table's type list

Pointer == 8
ArrayHeader == 8

Inline(t) == Types[t].byValue
FieldsOf(t) == IF Types[t].kind = "generic" THEN Types[Types[t].of].fields ELSE Types[t].fields
\* A field whose type is a parameter has, in a constructed type, the argument's type.
SubstituteTypeParameters(t, f) ==
  IF Types[f].kind = "parameter" /\ Types[t].kind = "generic" THEN Types[t].arg ELSE f

AlignUp(offset, alignment) ==
  IF alignment <= 1 THEN offset ELSE ((offset + alignment - 1) \div alignment) * alignment

(***************************************************************************)
(* GetTypeAlignment; a type met again on the way counts as 1.              *)
(***************************************************************************)
RECURSIVE GetTypeAlignmentImpl(_, _, _)
GetTypeAlignmentImpl(size, t, stack) ==
  LET fields == SelectSeq(FieldsOf(t), LAMBDA f : ~f.static)
      Of(f) == GetTypeAlignmentImpl(size, SubstituteTypeParameters(t, f.type), stack \cup {t})
  IN CASE t \in stack -> 1
       [] t \notin stack /\ (~Inline(t) \/ Types[t].kind = "parameter") -> Pointer
       [] t \notin stack /\ Inline(t) /\ FieldsOf(t) # <<>> -> Max({1} \cup {Of(f) : f \in ToSet(fields)})
       [] OTHER -> Min({Max({size[t], 1}), Pointer})
GetTypeAlignment(size, t) == GetTypeAlignmentImpl(size, t, {})

\* A declared field is three times in the list of its type: the collector, the type binder
\* and the expression binder all declare members (TypeSymbol::OnSymbolDeclared).  What is
\* computed for the last counts.
Listed(fields) == LET all == [i \in DOMAIN fields |-> i] IN all \o all \o all

GetInlineSize(size, t) == IF Inline(t) THEN size[t] ELSE Pointer

(***************************************************************************)
(* LayoutGenerator::FixObjectLayout: state, size of each type, offsets of  *)
(* its fields (a constructed type has its own), fields reported.           *)
(***************************************************************************)
Unlaid == [state |-> [t \in DOMAIN Types |-> "unvisited"], size |-> [t \in DOMAIN Types |-> Types[t].size],
           offset |-> <<>>, reported |-> {}]

RECURSIVE FixObjectLayout(_, _)
Visit(s, t) == IF s.state[t] = "unvisited" THEN FixObjectLayout(s, t) ELSE s
PlacePacked(s, t, i, f) ==
  [s EXCEPT !.offset = (<<t, i>> :> s.size[t]) @@ @, !.size[t] = @ + GetInlineSize(s.size, f)]
Place(s, t, i, f) ==
  LET at == AlignUp(s.size[t], GetTypeAlignment(s.size, f))
  IN [s EXCEPT !.offset = (<<t, i>> :> at) @@ @, !.size[t] = at + GetInlineSize(s.size, f)]
LayField(s, t, i) ==
  LET f == FieldsOf(t)[i]
  IN CASE f.static -> s
       [] ~f.static /\ Inline(f.type) /\ s.state[f.type] = "visiting" -> [s EXCEPT !.reported = @ \cup {<<t, i>>}]
       [] OTHER -> Place(Visit(s, f.type), t, i, f.type)
LayConcrete(s, t, i) ==
  LET f == FieldsOf(t)[i]
      concrete == SubstituteTypeParameters(t, f.type)
  IN IF f.static THEN s ELSE Place(Visit(s, concrete), t, i, concrete)
LayConstructed(s, t) ==
  LET whole == Visit(s, Types[t].of)
  IN FoldLeft(LAMBDA a, i : LayConcrete(a, t, i), [whole EXCEPT !.size[t] = 0], Listed(FieldsOf(t)))
LayArray(s, t) == [Visit(s, Types[t].of) EXCEPT !.size[t] = ArrayHeader]
FixObjectLayout(s, t) ==
  LET fields == FoldLeft(LAMBDA a, i : LayField(a, t, i), [s EXCEPT !.state[t] = "visiting"], Listed(FieldsOf(t)))
      made == CASE Types[t].kind = "array" -> LayArray(fields, t)
                [] Types[t].kind = "generic" -> LayConstructed(fields, t)
                [] OTHER -> fields
  IN [made EXCEPT !.size[t] = AlignUp(@, GetTypeAlignment(made.size, t)), !.state[t] = "visited"]
Generate == FoldLeft(Visit, Unlaid, Order)

(***************************************************************************)
(* TypeShapeCache::BuildShape, for a type and its argument: the shapes of  *)
(* its fields are those of the types as they stand, a constructed one      *)
(* included, which has no fields.  A shape under construction is empty.    *)
(***************************************************************************)
NoArgument == "none"
Substituted(base, arg, f) == IF Types[f].kind = "parameter" /\ arg # NoArgument THEN arg ELSE f

RECURSIVE BuildShape(_, _, _, _)
FieldShape(laid, f, building) ==
  LET shape == BuildShape(laid, f, NoArgument, building)
  IN CASE Types[f].kind = "array" -> [size |-> shape.size, alignment |-> shape.alignment]
       [] Types[f].kind # "array" /\ ~Inline(f) -> [size |-> Pointer, alignment |-> Pointer]
       [] OTHER -> [size |-> shape.size, alignment |-> shape.alignment]
AddSlot(laid, acc, base, arg, i, building) ==
  LET f == Types[base].fields[i]
      shape == FieldShape(laid, Substituted(base, arg, f.type), building)
      at == AlignUp(acc.end, shape.alignment)
  IN IF f.static THEN acc
     ELSE [end |-> at + shape.size, alignment |-> Max({acc.alignment, shape.alignment}),
           slots |-> (i :> [offset |-> at, size |-> shape.size]) @@ acc.slots]
BuildShape(laid, base, arg, building) ==
  LET empty == [size |-> 0, alignment |-> 1, slots |-> <<>>]
      element == BuildShape(laid, Types[base].of, NoArgument, building \cup {<<base, arg>>})
      walk == FoldLeft(LAMBDA a, i : AddSlot(laid, a, base, arg, i, building \cup {<<base, arg>>}),
                       [end |-> 0, alignment |-> 1, slots |-> <<>>], Listed(Types[base].fields))
  IN CASE <<base, arg>> \in building -> empty
       [] <<base, arg>> \notin building /\ Types[base].kind = "array" ->
            [size |-> ArrayHeader, alignment |-> element.alignment, slots |-> <<>>]
       [] <<base, arg>> \notin building /\ Types[base].kind # "array" /\ walk.end = 0 /\ laid.size[base] > 0 ->
            [size |-> laid.size[base], alignment |-> Min({laid.size[base], Pointer}), slots |-> walk.slots]
       [] OTHER -> [size |-> AlignUp(walk.end, walk.alignment), alignment |-> walk.alignment, slots |-> walk.slots]

\* The shape an object of type t is created with.
GetOrCreateShape(laid, t) ==
  IF Types[t].kind = "generic" THEN BuildShape(laid, Types[t].of, Types[t].arg, {}) ELSE BuildShape(laid, t, NoArgument, {})
=============================================================================
