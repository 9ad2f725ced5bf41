--------------------------- MODULE PvxsConversion ---------------------------
(***************************************************************************)
(* A value on its way to PVXS and back: PvxsTypeBuilder and                 *)
(* PvxsValueBuilder (src/lib/sup/epics/utils/), which sup-dto's             *)
(* serialisation of a type and of a value calls back once per node, and     *)
(* AnyValueFromPVXSBuilder, which walks over the PVXS value.  Each of them  *)
(* replaces recursion by a stack of its own.                                *)
(*                                                                         *)
(* An AnyType is empty, a scalar, a structure or an array; an AnyValue has  *)
(* a type and, for a structure or an array, a sequence as its data.  A PVXS *)
(* type definition has a code, an id and members; a PVXS value is a cell    *)
(* with a definition, whose data are cells for structures and their arrays. *)
(* Values of PVXS are shared: a node of PvxsValueBuilder holds a reference  *)
(* to a cell, that is the node that owns the storage and a path in it.      *)
(*                                                                         *)
(* External: the order of sup-dto's callbacks (those that do nothing here   *)
(* are left out), its AnyValueComposer, and that PVXS gives the id of an    *)
(* array of structures to its elements.  An array of structures without     *)
(* elements has no type in PVXS, and is left out.                           *)
(***************************************************************************)
EXTENDS Naturals, Sequences, SequencesExt

CONSTANTS Inputs            (* the values to convert, and whether scalar-aware *)

VARIABLES input,
          phase,            (* the builder at work, or how it ended *)
          calls,            (* the callbacks of sup-dto still to come *)
          last, structs, request,  (* m_last_processed, m_struct_stack, m_struct_array_mode_request *)
          nodes,            (* m_nodes *)
          walk,             (* m_stack of AnyValueFromPVXSBuilder *)
          composer          (* m_composer *)

typeVars == <<last, structs, request>>
vars == <<input, phase, calls, typeVars, nodes, walk, composer>>

------------------------------------------------------------------------------
(* The callbacks of SerializeAnyType() and SerializeAnyValue().            *)

Call(visit, of, member) == [visit |-> visit, of |-> of, member |-> member]

(* Part(1) to Part(n), one after the other, for the n elements of s. *)
Concat(Part(_), s) == FoldLeftDomain(LAMBDA done, i : done \o Part(i), <<>>, s)

RECURSIVE TypeCalls(_)
TypeCalls(t) ==
  CASE t.kind = "empty" -> <<>>
    [] t.kind = "scalar" -> <<Call("ScalarEpilog", t, "")>>
    [] t.kind = "array" -> <<Call("ArrayProlog", t, "")>> \o TypeCalls(t.element)
                             \o <<Call("ArrayEpilog", t, "")>>
    [] OTHER ->
         LET Member(i) == TypeCalls(t.fields[i].type)
                            \o <<Call("MemberEpilog", t.fields[i].type, t.fields[i].name)>>
         IN <<Call("StructProlog", t, "")>>
              \o Concat(Member, t.fields)
              \o <<Call("StructEpilog", t, "")>>

Value(t, data) == [type |-> t, data |-> data]

RECURSIVE ValueCalls(_)
ValueCalls(v) ==
  LET t == v.type IN
  CASE t.kind = "empty" -> <<>>
    [] t.kind = "scalar" -> <<Call("ScalarProlog", v, "")>>
    [] t.kind = "array" ->
         LET Item(i) == ValueCalls(Value(t.element, v.data[i]))
                          \o IF i < t.size THEN <<Call("ArrayElementSeparator", v, "")>> ELSE <<>>
         IN <<Call("ArrayProlog", v, "")>> \o Concat(Item, v.data)
              \o <<Call("ArrayEpilog", v, "")>>
    [] OTHER ->
         LET Member(i) == <<Call("MemberProlog", v, t.fields[i].name)>>
                            \o ValueCalls(Value(t.fields[i].type, v.data[i]))
                            \o <<Call("MemberEpilog", v, t.fields[i].name)>>
         IN <<Call("StructProlog", v, "")>>
              \o Concat(Member, t.fields)
              \o <<Call("StructEpilog", v, "")>>

------------------------------------------------------------------------------
(* Type codes and definitions.                                             *)

Code(base, array) == [base |-> base, array |-> array]
Def(code, id, members) == [code |-> code, id |-> id, members |-> members]
Null == Def(Code("Null", FALSE), "", <<>>)
Struct(array) == Code("Struct", array)

(* Mutant: kArrayElementTypeCodeMap has no texts. *)
Mut_NoTextArrays(t) ==
  t.kind = "array" => \/ t.element.kind = "struct"
                      \/ t.element.kind = "scalar" /\ t.element.code # "String"

(* GetPVXSTypeCode(): kArrayElementTypeCodeMap has structures, but no arrays. *)
HasCode(t) == t.kind = "array" => t.element.kind \in {"scalar", "struct"}
Base(t) == CASE t.kind = "struct" -> "Struct"
             [] t.code = "Char8" -> "UInt8"
             [] OTHER -> t.code
PVXSTypeCode(t) == IF t.kind = "array" THEN Code(Base(t.element), TRUE) ELSE Code(Base(t), FALSE)

(* GetAnyTypeCode() looks the code up the other way; Char8 is in no table. *)
ScalarCodes == {"Bool", "Int8", "UInt8", "Int16", "UInt16", "Int32", "UInt32",
                "Int64", "UInt64", "Float32", "Float64", "String"}
GetAnyTypeCode(code) ==
  CHOOSE c \in ScalarCodes :
    LET scalar == [kind |-> "scalar", code |-> c]
    IN code = PVXSTypeCode(IF code.array THEN [kind |-> "array", element |-> scalar] ELSE scalar)

(* The tables of assignment functions: the C++ type through which the value   *)
(* of a scalar, or of the elements of an array, goes to PVXS and back.        *)
CppTypes == [c \in ScalarCodes \cup {"Char8"} |-> IF c = "Char8" THEN "UInt8" ELSE c]
kAssignToPVXSScalarMap == CppTypes
kAssignToPVXSScalarArrayMap == CppTypes
kAssignToAnyValueScalarMap == CppTypes
kCreateAnyValueScalarArrayMap == CppTypes

(* Data of a type, assigned through a C++ type: another one changes it. *)
Through(cppType, code, data) == IF cppType = CppTypes[code] THEN data ELSE <<"converted", data>>

IsStruct(code) == code = Struct(FALSE)
IsStructArray(code) == code = Struct(TRUE)
IsScalarArray(code) == code.array /\ ~IsStructArray(code)
IsScalar(code) == ~code.array /\ code.base \notin {"Null", "Struct"}

------------------------------------------------------------------------------
(* BuildScalarAwarePVXSValue(): a scalar is published as a structure. *)
ConvertScalarToStruct(v) ==
  Value([kind |-> "struct", name |-> "", fields |-> <<[name |-> "value", type |-> v.type]>>],
        <<v.data>>)
ToConvert(v) == IF v.aware /\ v.type.kind = "scalar" THEN ConvertScalarToStruct(v)
                                                     ELSE Value(v.type, v.data)

Init == /\ input \in Inputs
        /\ phase = "type"
        /\ calls = TypeCalls(ToConvert(input).type)
        /\ last = Null /\ structs = <<>> /\ request = FALSE
        /\ nodes = <<>> /\ walk = <<>> /\ composer = <<>>

Top(stack) == Last(stack)
Pop(stack) == Front(stack)

------------------------------------------------------------------------------
(* PvxsTypeBuilder.                                                        *)

Visit(builder, visit) == /\ phase = builder
                         /\ calls # <<>>
                         /\ Head(calls).visit = visit
                         /\ calls' = Tail(calls)

InArrayOfStructMode == structs # <<>> /\ IsStructArray(Top(structs).code)

TypeStructProlog ==
  /\ Visit("type", "StructProlog")
  /\ structs' = Append(structs, Def(Struct(request), Head(calls).of.name, <<>>))
  /\ request' = FALSE
  /\ UNCHANGED <<input, phase, last, nodes, walk, composer>>

(* The element of an array of structures is closed with the array. *)
TypeStructEpilog == /\ Visit("type", "StructEpilog")
                    /\ IF InArrayOfStructMode
                         THEN UNCHANGED <<last, structs>>
                         ELSE last' = Top(structs) /\ structs' = Pop(structs)
                    /\ UNCHANGED <<input, phase, request, nodes, walk, composer>>

TypeMemberEpilog ==
  /\ Visit("type", "MemberEpilog")
  /\ structs' = [structs EXCEPT ![Len(structs)].members =
                   Append(@, [name |-> Head(calls).member, def |-> last])]
  /\ UNCHANGED <<input, phase, last, request, nodes, walk, composer>>

(* The node of an array of structures is pushed by StructProlog. *)
TypeArrayProlog ==
  /\ Visit("type", "ArrayProlog")
  /\ HasCode(Head(calls).of)
  /\ LET code == PVXSTypeCode(Head(calls).of) IN
       IF IsStructArray(code)
         THEN request' = TRUE /\ UNCHANGED structs
         ELSE structs' = Append(structs, Def(code, "", <<>>)) /\ UNCHANGED request
  /\ UNCHANGED <<input, phase, last, nodes, walk, composer>>

(* FindTypeCode() throws. *)
TypeUnknown == /\ Visit("type", "ArrayProlog")
               /\ ~HasCode(Head(calls).of)
               /\ phase' = "failed"
               /\ UNCHANGED <<input, typeVars, nodes, walk, composer>>

TypeArrayEpilog == /\ Visit("type", "ArrayEpilog")
                   /\ last' = Top(structs)
                   /\ structs' = Pop(structs)
                   /\ UNCHANGED <<input, phase, request, nodes, walk, composer>>

TypeScalarEpilog == /\ Visit("type", "ScalarEpilog")
                    /\ last' = Def(PVXSTypeCode(Head(calls).of), "", <<>>)
                    /\ UNCHANGED <<input, phase, structs, request, nodes, walk, composer>>

TypeBuilder == \/ TypeStructProlog \/ TypeStructEpilog \/ TypeMemberEpilog
               \/ TypeArrayProlog \/ TypeUnknown \/ TypeArrayEpilog \/ TypeScalarEpilog

------------------------------------------------------------------------------
(* Cells.                                                                  *)

Unset == <<>>

(* TypeDef::create(), and allocMember() for an element. *)
RECURSIVE Create(_)
Create(def) == [def |-> def,
                data |-> IF IsStruct(def.code)
                           THEN [i \in DOMAIN def.members |-> Create(def.members[i].def)]
                           ELSE Unset]
(* An empty definition cannot create a value, which is then empty. *)
CreateValueFromType(def) == IF def = Null THEN [def |-> Null, data |-> Unset] ELSE Create(def)
AllocMember(def) == Create([def EXCEPT !.code = Struct(FALSE)])

RECURSIVE CellAt(_, _)
CellAt(cells, path) == IF Len(path) = 1 THEN cells[Head(path)]
                                        ELSE CellAt(cells[Head(path)].data, Tail(path))
RECURSIVE WriteAt(_, _, _)
WriteAt(cells, path, data) ==
  IF Len(path) = 1 THEN [cells EXCEPT ![Head(path)].data = data]
                   ELSE [cells EXCEPT ![Head(path)].data = WriteAt(@, Tail(path), data)]

(* BuildPVXSValue(): the type is there, the value builder starts. *)
StartValue == /\ phase = "type"
              /\ calls = <<>>
              /\ phase' = "value"
              /\ calls' = ValueCalls(ToConvert(input))
              /\ nodes' = <<[kind |-> "plain", ref |-> [owner |-> 1, path |-> <<1>>],
                             cells |-> <<CreateValueFromType(last)>>, index |-> 1]>>
              /\ UNCHANGED <<input, typeVars, walk, composer>>

------------------------------------------------------------------------------
(* PvxsValueBuilder and its nodes.                                         *)

Node(kind, ref, cells) == [kind |-> kind, ref |-> ref, cells |-> cells, index |-> 1]

(* GetCurrent(): the node of an array of structures stands for its element. *)
Current == IF Top(nodes).kind = "structs"
             THEN [owner |-> Len(nodes), path |-> <<Top(nodes).index>>]
             ELSE Top(nodes).ref
Cell(ref) == CellAt(nodes[ref.owner].cells, ref.path)
Write(ns, ref, data) == [ns EXCEPT ![ref.owner].cells = WriteAt(@, ref.path, data)]

ValueStructProlog == /\ Visit("value", "StructProlog")
                     /\ nodes' = Append(nodes, Node("plain", Current, <<>>))
                     /\ UNCHANGED <<input, phase, typeVars, walk, composer>>

ValueMemberProlog ==
  /\ Visit("value", "MemberProlog")
  /\ LET cell == Cell(Current)
         i == CHOOSE k \in DOMAIN cell.def.members :
                cell.def.members[k].name = Head(calls).member
         member == [Current EXCEPT !.path = Append(@, i)]
     IN nodes' = Append(nodes, Node("plain", member, <<>>))
  /\ UNCHANGED <<input, phase, typeVars, walk, composer>>

ValueEpilog == /\ Visit("value", "StructEpilog") \/ Visit("value", "MemberEpilog")
               /\ nodes' = Pop(nodes)
               /\ UNCHANGED <<input, phase, typeVars, walk, composer>>

(* The assignment functions throw when the value does not match its cell. *)
Fits == Cell(Current).def.code = PVXSTypeCode(Head(calls).of.type)

(* ScalarArrayBuilderNode writes all elements at once. *)
ValueScalarArray ==
  /\ Visit("value", "ArrayProlog")
  /\ IsScalarArray(Cell(Current).def.code)
  /\ Fits
  /\ LET v == Head(calls).of
         code == v.type.element.code
         data == Through(kAssignToPVXSScalarArrayMap[code], code, v.data)
     IN nodes' = Append(Write(nodes, Current, data), Node("scalars", Current, <<>>))
  /\ UNCHANGED <<input, phase, typeVars, walk, composer>>

(* StructArrayBuilderNode keeps its elements until it is frozen. *)
ValueStructArray ==
  /\ Visit("value", "ArrayProlog")
  /\ ~IsScalarArray(Cell(Current).def.code)
  /\ LET element == AllocMember(Cell(Current).def) IN
       nodes' = Append(nodes, Node("structs", Current,
                                   [i \in 1..Head(calls).of.type.size |-> element]))
  /\ UNCHANGED <<input, phase, typeVars, walk, composer>>

ValueSeparator ==
  /\ Visit("value", "ArrayElementSeparator")
  /\ nodes' = IF Top(nodes).kind = "structs"
                THEN [nodes EXCEPT ![Len(nodes)].index = @ + 1]
                ELSE nodes
  /\ UNCHANGED <<input, phase, typeVars, walk, composer>>

(* Freeze(): the elements go into the cell. *)
ValueArrayEpilog ==
  /\ Visit("value", "ArrayEpilog")
  /\ nodes' = Pop(IF Top(nodes).kind = "structs"
                    THEN Write(nodes, Top(nodes).ref, Top(nodes).cells)
                    ELSE nodes)
  /\ UNCHANGED <<input, phase, typeVars, walk, composer>>

ValueScalar == /\ Visit("value", "ScalarProlog")
               /\ LET v == Head(calls).of
                      data == Through(kAssignToPVXSScalarMap[v.type.code], v.type.code, v.data)
                  IN IF Top(nodes).kind = "scalars"
                       THEN UNCHANGED nodes
                       ELSE Fits /\ nodes' = Write(nodes, Current, data)
               /\ UNCHANGED <<input, phase, typeVars, walk, composer>>

ValueBuilder == \/ ValueStructProlog \/ ValueMemberProlog \/ ValueEpilog \/ ValueScalarArray
                \/ ValueStructArray \/ ValueSeparator \/ ValueArrayEpilog \/ ValueScalar

------------------------------------------------------------------------------
(* AnyValueComposer (external): a stack of what is open, and of the value   *)
(* that was finished last.                                                 *)

Frame(kind, name, content) == [kind |-> kind, name |-> name, content |-> content]

Open(c, kind, name) == Append(c, Frame(kind, name, <<>>))
AddValue(c, v) == Append(c, Frame("value", "", v))

EndStruct(c) ==
  LET f == Top(c)
      t == [kind |-> "struct", name |-> f.name,
            fields |-> [i \in DOMAIN f.content |->
                          [name |-> f.content[i].name, type |-> f.content[i].value.type]]]
  IN AddValue(Pop(c), Value(t, [i \in DOMAIN f.content |-> f.content[i].value.data]))

EndArray(c) ==
  LET f == Top(c)
      t == [kind |-> "array", name |-> f.name, size |-> Len(f.content),
            element |-> f.content[1].value.type]
  IN AddValue(Pop(c), Value(t, [i \in DOMAIN f.content |-> f.content[i].value.data]))

(* EndField() and EndArrayElement(): the value joins the structure or array. *)
EndPart(c) == LET n == Len(c)
                  part == [name |-> c[n - 1].name, value |-> c[n].content]
              IN [SubSeq(c, 1, n - 2) EXCEPT ![n - 2].content = Append(@, part)]

------------------------------------------------------------------------------
(* AnyValueFromPVXSBuilder.                                                *)

Step(cell, name, context) == [cell |-> cell, name |-> name, context |-> context, visited |-> FALSE]

(* BuildScalarAwareAnyValue(): a structure of a scalar called "value" is a    *)
(* scalar again.                                                             *)
IsScalarStruct(cell) == /\ cell.def.code = Struct(FALSE)
                        /\ Len(cell.def.members) = 1
                        /\ cell.def.members[1].name = "value"
                        /\ IsScalar(cell.def.members[1].def.code)
FromPVXS(cell) == IF input.aware /\ IsScalarStruct(cell) THEN cell.data[1] ELSE cell

(* BuildAnyValue(); an empty value is left alone. *)
StartBack == /\ phase = "value"
             /\ calls = <<>>
             /\ phase' = "back"
             /\ LET root == FromPVXS(Top(nodes).cells[1]) IN
                  walk' = IF root.def.code = Null.code THEN <<>> ELSE <<Step(root, "", "root")>>
             /\ UNCHANGED <<input, calls, typeVars, nodes, composer>>

ScalarValue(cell) ==
  LET code == GetAnyTypeCode(cell.def.code)
  IN Value([kind |-> "scalar", code |-> code],
           Through(kAssignToAnyValueScalarMap[code], code, cell.data))
ArrayValue(cell) ==
  LET code == GetAnyTypeCode(cell.def.code)
  IN Value([kind |-> "array", name |-> "", size |-> Len(cell.data),
            element |-> [kind |-> "scalar", code |-> code]],
           Through(kCreateAnyValueScalarArrayMap[code], code, cell.data))

StartComposite(c, step) == CASE step.context = "field" -> Open(c, "field", step.name)
                             [] step.context = "element" -> Open(c, "element", "")
                             [] OTHER -> c
EndComposite(c, step) == IF step.context = "root" THEN c ELSE EndPart(c)

(* GetChildren(), GetFieldNameOfChild(). *)
Children(step) ==
  LET n == Len(step.cell.data) IN
  [i \in 1..n |-> IF IsStruct(step.cell.def.code)
                    THEN Step(step.cell.data[i], step.cell.def.members[i].name, "field")
                    ELSE Step(step.cell.data[i], "", "element")]

(* ProcessStack(): what is on top, a composite or a leaf. *)
AtComposite == phase = "back" /\ walk # <<>> /\ Top(walk).cell.def.code.base = "Struct"
AtLeaf == phase = "back" /\ walk # <<>> /\ Top(walk).cell.def.code.base # "Struct"

Visited == [walk EXCEPT ![Len(walk)].visited = TRUE]

(* Mutant: the children are pushed in their own order. *)
Mut_PushForward ==
  LET step == Top(walk)
      opened == StartComposite(composer, step)
  IN /\ AtComposite
     /\ ~step.visited
     /\ composer' = IF IsStruct(step.cell.def.code)
                      THEN Open(opened, "struct", step.cell.def.id)
                      ELSE Open(opened, "array", "")
     /\ walk' = Visited \o Children(step)
     /\ UNCHANGED <<input, phase, calls, typeVars, nodes>>

(* An array of structures has no id of its own in PVXS. *)
WalkNew == LET step == Top(walk)
               opened == StartComposite(composer, step)
           IN /\ AtComposite
              /\ ~step.visited
              /\ composer' = IF IsStruct(step.cell.def.code)
                               THEN Open(opened, "struct", step.cell.def.id)
                               ELSE Open(opened, "array", "")
              /\ walk' = Visited \o Reverse(Children(step))
              /\ UNCHANGED <<input, phase, calls, typeVars, nodes>>

WalkVisited == LET step == Top(walk) IN
               /\ AtComposite
               /\ step.visited
               /\ composer' = EndComposite(IF IsStruct(step.cell.def.code)
                                             THEN EndStruct(composer)
                                             ELSE EndArray(composer), step)
               /\ walk' = Pop(walk)
               /\ UNCHANGED <<input, phase, calls, typeVars, nodes>>

WalkLeaf == LET step == Top(walk)
                v == IF IsScalar(step.cell.def.code) THEN ScalarValue(step.cell)
                                                     ELSE ArrayValue(step.cell)
            IN /\ AtLeaf
               /\ composer' = EndComposite(AddValue(StartComposite(composer, step), v), step)
               /\ walk' = Pop(walk)
               /\ UNCHANGED <<input, phase, calls, typeVars, nodes>>

(* MoveAnyValue(). *)
Finish == /\ phase = "back"
          /\ walk = <<>>
          /\ phase' = "done"
          /\ UNCHANGED <<input, calls, typeVars, nodes, walk, composer>>

FromPVXSBuilder == WalkNew \/ WalkVisited \/ WalkLeaf

------------------------------------------------------------------------------
Next == TypeBuilder \/ StartValue \/ ValueBuilder \/ StartBack \/ FromPVXSBuilder \/ Finish

Spec == Init /\ [][Next]_vars /\ WF_vars(Next)

------------------------------------------------------------------------------
Empty == Value([kind |-> "empty"], <<>>)
Result == IF composer = <<>> THEN Empty ELSE Top(composer).content

(* What the builders accept: all but arrays of arrays.  Arrays of structures,  *)
(* which doc/pv_access_pv.rst:24 calls "not supported", are converted like     *)
(* everything else, as pvxs_value_builder_tests.cpp:376 expects.               *)
RECURSIVE Supported(_)
Supported(t) == /\ t.kind = "array" => t.element.kind # "array" /\ Supported(t.element)
                /\ t.kind = "struct" => \A i \in DOMAIN t.fields : Supported(t.fields[i].type)

(* A type as PVXS has it: Char8 is UInt8 and arrays have no name. *)
RECURSIVE Published(_)
Published(t) ==
  CASE t.kind = "empty" -> t
    [] t.kind = "scalar" -> [t EXCEPT !.code = Base(t)]
    [] t.kind = "array" -> [t EXCEPT !.name = "", !.element = Published(@)]
    [] OTHER -> [t EXCEPT !.fields = [i \in DOMAIN @ |->
                                        [@[i] EXCEPT !.type = Published(@)]]]

------------------------------------------------------------------------------
(* What looks like a scalar that was published. *)
AmbiguousStruct(v) == /\ v.aware
                      /\ v.type.kind = "struct"
                      /\ Len(v.type.fields) = 1
                      /\ v.type.fields[1].name = "value"
                      /\ v.type.fields[1].type.kind = "scalar"

(* A value that was published and read back is the same value, with Char8    *)
(* turned into UInt8 and without names of arrays; with the scalar-aware      *)
(* conversions a structure that looks like a scalar comes back as one.       *)
RoundTrip ==
  phase = "done" =>
    Result = IF AmbiguousStruct(input)
               THEN Value(Published(input.type.fields[1].type), input.data[1])
               ELSE Value(Published(input.type), input.data)

(* However structures, arrays and arrays of structures are nested, the three   *)
(* builders come to an end: no callback finds the wrong node on a stack, or an  *)
(* index out of bounds, and only an array of arrays, which has no type code, is *)
(* refused.                                                                   *)
Converts == <>(phase = IF Supported(input.type) THEN "done" ELSE "failed")
==============================================================================
