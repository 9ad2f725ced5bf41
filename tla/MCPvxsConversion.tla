-------------------------- MODULE MCPvxsConversion --------------------------
(* Types of up to three levels of structures, for TLC. *)
EXTENDS PvxsConversion

Scalar(code) == [kind |-> "scalar", code |-> code]
Array(name, size, t) == [kind |-> "array", name |-> name, size |-> size, element |-> t]
Field(name, t) == [name |-> name, type |-> t]
Single(name, t) == [kind |-> "struct", name |-> name, fields |-> <<Field("a", t)>>]
Pair(name, t, u) ==
  [kind |-> "struct", name |-> name, fields |-> <<Field("a", t), Field("b", u)>>]
Structs(name, ts, us) == {Single(name, t) : t \in ts} \cup {Pair(name, t, u) : t \in ts, u \in us}
Arrays(ts) == {Array("", 2, t) : t \in ts}

Number == Scalar("Int8")
Leaves == {Number, Scalar("Char8"), Array("", 0, Number), Array("named", 2, Number),
           Array("", 2, Scalar("Char8"))}
Inner == Structs("inner", Leaves, Leaves)
SomeInner == {Single("inner", Array("", 2, Number)), Pair("inner", Number, Scalar("Char8"))}
Middle == Structs("middle", {Number} \cup SomeInner \cup Arrays(SomeInner),
                            {Number} \cup SomeInner \cup Arrays(SomeInner))
Outer == {Pair("outer", t, Number) : t \in Middle \cup Arrays(Middle)}
Nested == {Array("", 1, Array("", 2, Number)), Single("outer", Array("", 1, Array("", 1, Number))),
           Array("", 2, Pair("outer", Number, Array("", 1, Array("", 2, Number))))}
Wrapped == {[kind |-> "struct", name |-> "", fields |-> <<Field("value", t)>>] :
              t \in {Number, Array("", 2, Number)}}
AllScalars == {Scalar(code) : code \in ScalarCodes}
Types == Wrapped \cup AllScalars \cup Arrays(AllScalars) \cup {[kind |-> "empty"]} \cup Leaves \cup Inner \cup Arrays(Inner) \cup Middle
           \cup Arrays(Middle) \cup Outer \cup Nested

(* A value of a type in which every scalar is its own path. *)
RECURSIVE Data(_, _)
Data(t, path) == CASE t.kind = "empty" -> <<>>
                   [] t.kind = "scalar" -> path
                   [] t.kind = "array" ->
                        [i \in 1..t.size |-> Data(t.element, Append(path, i))]
                   [] OTHER ->
                        [i \in DOMAIN t.fields |-> Data(t.fields[i].type, Append(path, i))]

Sample(t, aware) == [type |-> t, data |-> Data(t, <<0>>), aware |-> aware]
Samples == {Sample(t, FALSE) : t \in Types}
             \cup {Sample(t, TRUE) : t \in Wrapped \cup Leaves \cup SomeInner}
==============================================================================
