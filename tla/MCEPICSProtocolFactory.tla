------------------------ MODULE MCEPICSProtocolFactory ------------------------
(* Definitions for TLC: the valid ones, and what differs from them in a field. *)
EXTENDS EPICSProtocolFactory, TLC

Names == Field("string", "name")
PVs == {"Class" :> Field("string", class) @@ "ChannelName" :> Names
          @@ "VarType" :> Field("string", "type") @@ "VarValue" :> Field("struct", "value") :
          class \in {"ChannelAccessClient", "PvAccessClient", "PvAccessServer", "unknown"}}
RPCs == {"ServiceName" :> Names @@ "Timeout" :> Field("float64", t)
           @@ "Encoding" :> Field("string", e) : t \in {-1, 0, 2}, e \in {"None", "Base64", "Hex"}}
Wrong == [f \in {"Class", "ChannelName", "VarType", "VarValue", "ServiceName", "Timeout", "Encoding"} |->
            CASE f = "VarType" -> {Field("int32", 1), Field("string", "no type")}
              [] f = "VarValue" -> {Field("int32", 1), Field("empty", 0)}
              [] f = "Encoding" -> {}
              [] OTHER -> {Field("int32", 1)}]

Without(d, fs) == [f \in DOMAIN d \ fs |-> d[f]]
Variations(d) == {Without(d, fs) : fs \in SUBSET DOMAIN d}
                   \cup UNION {{[d EXCEPT ![f] = w] : w \in Wrong[f]} : f \in DOMAIN d}
SomeDefinitions == UNION {Variations(d) : d \in PVs \cup RPCs}
==============================================================================
