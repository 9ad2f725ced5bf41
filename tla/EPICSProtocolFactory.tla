------------------------- MODULE EPICSProtocolFactory -------------------------
(***************************************************************************)
(* How the objects of this library come and go: what EPICSProtocolFactory,    *)
(* its helpers and the registered functions make of a definition, what the   *)
(* constructors make, and the life of the object, member by member.          *)
(*                                                                         *)
(* A definition is an AnyValue: a function from the names of some fields to   *)
(* what is in them.  Most objects subscribe to something, or serve something, *)
(* and are called back by a thread of the library from a certain moment of    *)
(* their construction or use up to one of their destruction; the callback     *)
(* uses members of the object.  One user thread makes, moves, uses and       *)
(* destroys one object at a time.                                            *)
(*                                                                         *)
(* External: ValidateConfigurationField, ParsePayloadEncoding and the stacks  *)
(* of sup-protocol; the registry of sup-di; the parser of types; PVXS, and    *)
(* that what belongs to a library may fail to be constructed, and waits for   *)
(* the callback that is running when it is stopped or destroyed.             *)
(***************************************************************************)
EXTENDS Integers, Sequences, SequencesExt

CONSTANTS Definitions   (* what the user passes to the factory *)

VARIABLES call,         (* the function called, its argument and the network meant *)
          object,       (* what it is to return *)
          handles,      (* the user's two handles: "object", "null" or "gone" *)
          members,      (* those that exist, in the order of their construction *)
          served,       (* the library may call the object back *)
          updating,     (* the thread that runs the callback, or "nobody" *)
          user,         (* where the user's thread is *)
          outcome       (* how the call ended *)

vars == <<call, object, handles, members, served, updating, user, outcome>>

------------------------------------------------------------------------------
(* Definitions.                                                            *)

Field(type, value) == [type |-> type, value |-> value]

HasField(d, f) == f \in DOMAIN d
ValidateConfigurationField(d, f, type) == HasField(d, f) /\ d[f].type = type

Invalid == [class |-> "none"]

GetDefaultRPCServerConfig(service) == [service_name |-> service]
GetDefaultRPCClientConfig(service) == [service_name |-> service, timeout |-> 5]

(* Mutant: a timeout of zero is refused. *)
Mut_PositiveTimeout(d) == /\ ValidateConfigurationField(d, "ServiceName", "string")
                          /\ HasField(d, "Timeout") =>
                               /\ ValidateConfigurationField(d, "Timeout", "float64")
                               /\ d["Timeout"].value > 0

ValidRPCClientConfig(d) == /\ ValidateConfigurationField(d, "ServiceName", "string")
                           /\ HasField(d, "Timeout") =>
                                /\ ValidateConfigurationField(d, "Timeout", "float64")
                                /\ d["Timeout"].value >= 0

ParsePvAccessRPCClientConfig(d) ==
  LET default == GetDefaultRPCClientConfig(d["ServiceName"].value) IN
  IF HasField(d, "Timeout") THEN [default EXCEPT !.timeout = d["Timeout"].value] ELSE default

ParsePayloadEncoding(d) == IF HasField(d, "Encoding") THEN d["Encoding"].value ELSE "Base64"

CreateChannelAccessClientVar(d) ==
  IF /\ ValidateConfigurationField(d, "ChannelName", "string")
     /\ ValidateConfigurationField(d, "VarType", "string")
     /\ d["VarType"].value # "no type"
    THEN [class |-> "ChannelAccessPVWrapper", channel |-> d["ChannelName"].value,
          type |-> d["VarType"].value]
    ELSE Invalid

CreatePvAccessClientVar(d) ==
  IF ValidateConfigurationField(d, "ChannelName", "string")
    THEN [class |-> "PVAccessClientPVWrapper", channel |-> d["ChannelName"].value]
    ELSE Invalid

CreatePvAccessServerVar(d) ==
  IF ValidateConfigurationField(d, "ChannelName", "string") /\ HasField(d, "VarValue")
    THEN [class |-> "PVAccessServerPVWrapper", channel |-> d["ChannelName"].value,
          value |-> d["VarValue"]]
    ELSE Invalid

CreateProcessVariable(d) ==
  IF ~ValidateConfigurationField(d, "Class", "string") THEN Invalid
  ELSE CASE d["Class"].value = "ChannelAccessClient" -> CreateChannelAccessClientVar(d)
         [] d["Class"].value = "PvAccessClient" -> CreatePvAccessClientVar(d)
         [] d["Class"].value = "PvAccessServer" -> CreatePvAccessServerVar(d)
         [] OTHER -> Invalid

CreateRPCServer(d) ==
  IF ValidateConfigurationField(d, "ServiceName", "string")
    THEN [class |-> "RPCServerStack", config |-> GetDefaultRPCServerConfig(d["ServiceName"].value)]
    ELSE Invalid

CreateRPCClient(d) ==
  IF ValidRPCClientConfig(d) /\ ParsePayloadEncoding(d) \in {"None", "Base64"}
    THEN [class |-> "RPCClientStack", config |-> ParsePvAccessRPCClientConfig(d),
          encoding |-> ParsePayloadEncoding(d)]
    ELSE Invalid

(* The helpers with a logger take a configuration, not a definition. *)
CreateLoggingEPICSRPCServer(d) ==
  [class |-> "PVAccessLoggingServer", config |-> GetDefaultRPCServerConfig(d["ServiceName"].value)]
CreateLoggingEPICSRPCClient(d) ==
  [class |-> "LoggingEPICSRPCClient", config |-> GetDefaultRPCClientConfig(d["ServiceName"].value)]

(* The registered functions: no timeout is refused. *)
PvAccessRPCClientConfigFactoryFunction(d) ==
  [service_name |-> d["ServiceName"].value, timeout |-> d["Timeout"].value]
PV_ACCESS_RPC_CLIENT(d) ==
  [class |-> "PvAccessRPCClient", network |-> "environment",
   config |-> IF HasField(d, "Timeout") THEN PvAccessRPCClientConfigFactoryFunction(d)
              ELSE GetDefaultRPCClientConfig(d["ServiceName"].value)]
PV_ACCESS_RPC_SERVER(d) ==
  [class |-> "PvAccessRPCServer", network |-> "environment",
   config |-> GetDefaultRPCServerConfig(d["ServiceName"].value)]

(* What takes a configuration, not a definition. *)
FromConfig == {"CreateLoggingEPICSRPCServer", "CreateLoggingEPICSRPCClient",
               "PV_ACCESS_RPC_CLIENT", "PV_ACCESS_RPC_SERVER"}
Functions == {"CreateProcessVariable", "CreateRPCServer", "CreateRPCClient"} \cup FromConfig

------------------------------------------------------------------------------
(* Constructors.  A server, with the Isolated tag, has a network of its own.  *)

CreateIsolatedServer == "isolated"
CreateServerFromEnv == "environment"
GetSharedClientContext == "environment"

(* The client context of a server, made of its configuration when a client is *)
(* first asked for.                                                          *)
GetClientContext(server) == server

Server(class, isolated) ==
  [class |-> class, network |-> IF isolated THEN CreateIsolatedServer ELSE CreateServerFromEnv]
Client(class, context) == [class |-> class, network |-> context]

ServerClasses == {"PvAccessServer", "PvAccessRPCServer"}
ClientClasses == {"PvAccessClient", "PvAccessClientPV", "PvAccessRPCClient"}

(* CreateClient and CreateClientPV of a server. *)
CreateClient(class, server) == Client(class, GetClientContext(server))

Made(function, d, network) ==
  CASE function = "CreateProcessVariable" -> CreateProcessVariable(d)
    [] function = "CreateRPCServer" -> CreateRPCServer(d)
    [] function = "CreateRPCClient" -> CreateRPCClient(d)
    [] function = "CreateLoggingEPICSRPCServer" -> CreateLoggingEPICSRPCServer(d)
    [] function = "CreateLoggingEPICSRPCClient" -> CreateLoggingEPICSRPCClient(d)
    [] function = "PV_ACCESS_RPC_CLIENT" -> PV_ACCESS_RPC_CLIENT(d)
    [] function = "PV_ACCESS_RPC_SERVER" -> PV_ACCESS_RPC_SERVER(d)
    [] function \in ServerClasses -> Server(function, network = "isolated")
    [] function \in ClientClasses -> IF network = "none" THEN Client(function, GetSharedClientContext)
                                     ELSE CreateClient(function, network)
    [] OTHER -> [class |-> "ChannelAccessPV"]

(* The network is that of the server: of the one that is made, or that makes  *)
(* the client, if one does.                                                  *)
Calls ==
  {c \in [function : Functions, definition : Definitions, network : {"none"}] :
     c.function \in FromConfig =>
       /\ ValidateConfigurationField(c.definition, "ServiceName", "string")
       /\ HasField(c.definition, "Timeout") =>
            ValidateConfigurationField(c.definition, "Timeout", "float64")}
  \cup [function : ServerClasses, definition : {<<>>}, network : {"environment", "isolated"}]
  \cup [function : ClientClasses, definition : {<<>>}, network : {"none", "environment", "isolated"}]
  \cup [function : {"ChannelAccessPV"}, definition : {<<>>}, network : {"none"}]

------------------------------------------------------------------------------
(* The members of the classes, in the order of their declaration.  Those of a  *)
(* PvAccessServer include those of its one variable, which is added later.    *)

WrapperMembers == <<"m_callback", "m_cb_mtx", "m_pv_impl">>
ServerWrapperMembers == <<"m_channel", "m_callback", "m_cb_mtx", "m_server">>
LoggingServerMembers == <<"m_log_decorator", "m_rpc_server">>
LoggingClientMembers == <<"m_epics_client", "m_log_decorator">>
ChannelAccessPVMembers == <<"m_mon_mtx", "m_monitor_cv", "m_var_changed_cb">>
ClientPVMembers == <<"m_context", "m_changed_cb", "m_mon_mtx", "m_cv", "m_subscription">>
ClientMembers == <<"m_cb", "m_context", "m_variables">>
ServerPVMembers == <<"m_pvxs_cache", "m_shared_pv", "m_mutex">>
ServerMembers == <<"m_context", "m_callback">> \o ServerPVMembers \o <<"m_client_context">>
RPCServerMembers == <<"m_server", "m_handler", "m_client_context">>
RPCClientMembers == <<"m_config", "m_context">>

Members(class) ==
  CASE class \in {"ChannelAccessPVWrapper", "PVAccessClientPVWrapper"} -> WrapperMembers
    [] class = "PVAccessServerPVWrapper" -> ServerWrapperMembers
    [] class = "PVAccessLoggingServer" -> LoggingServerMembers
    [] class = "LoggingEPICSRPCClient" -> LoggingClientMembers
    [] class = "ChannelAccessPV" -> ChannelAccessPVMembers
    [] class = "PvAccessClientPV" -> ClientPVMembers
    [] class = "PvAccessClient" -> ClientMembers
    [] class = "PvAccessServer" -> ServerMembers
    [] class = "PvAccessRPCServer" -> RPCServerMembers
    [] class = "PvAccessRPCClient" -> RPCClientMembers
    [] OTHER -> <<"stack">>

(* Those that belong to a library, and may fail to be constructed. *)
LibraryMembers == {"m_pv_impl", "m_server", "m_rpc_server", "m_epics_client", "stack", "m_context",
                   "m_subscription", "m_variables"}

(* Those that call back as soon as their constructor has subscribed. *)
CallsBack(class, member) == \/ member \in {"m_pv_impl", "m_rpc_server"}
                            \/ class = "RPCServerStack" /\ member = "stack"

(* Classes whose constructor subscribes, or starts to serve, in its body. *)
SubscribesInBody == {"PVAccessServerPVWrapper", "ChannelAccessPV", "PvAccessClientPV",
                     "PvAccessRPCServer"}

(* Mutant: the destructor leaves it to PVXS to stop the server. *)
Mut_LeftRunning == {"ChannelAccessPV", "PvAccessRPCServer"}

(* Classes whose destructor's body ends the callbacks. *)
StopsInBody == {"ChannelAccessPV", "PvAccessServer", "PvAccessRPCServer"}

(* What OnUpdate, the handler of the server, or another callback, uses. *)
Used(class) == CASE class \in {"ChannelAccessPVWrapper", "PVAccessClientPVWrapper",
                               "PVAccessServerPVWrapper"} -> {"m_callback", "m_cb_mtx"}
                 [] class = "PVAccessLoggingServer" -> {"m_log_decorator"}
                 [] class = "ChannelAccessPV" -> {"m_mon_mtx", "m_monitor_cv", "m_var_changed_cb"}
                 [] class = "PvAccessClientPV" -> {"m_mon_mtx", "m_cv", "m_changed_cb"}
                 [] class = "PvAccessClient" -> {"m_cb"}
                 [] class = "PvAccessServer" -> {"m_callback", "m_pvxs_cache", "m_mutex"}
                 [] class = "PvAccessRPCServer" -> {"m_handler"}
                 [] OTHER -> {}

NextMember == Members(object.class)[Len(members) + 1]
Complete == Len(members) = Len(Members(object.class))

------------------------------------------------------------------------------
Idle == /\ object = Invalid
        /\ handles = [h \in {"first", "second"} |-> "gone"]
        /\ members = <<>>
        /\ served = FALSE
        /\ updating = "nobody"
        /\ user = "idle"

Init == /\ Idle
        /\ call \in Calls
        /\ outcome = "none"

(* The definition is parsed, and an exception thrown or a constructor entered. *)
Create(c) == /\ user = "idle"
             /\ \A h \in DOMAIN handles : handles[h] = "gone"
             /\ call' = c
             /\ object' = Made(c.function, c.definition, c.network)
             /\ IF object' = Invalid THEN outcome' = "refused" /\ user' = "idle"
                                     ELSE outcome' = "none" /\ user' = "constructing"
             /\ UNCHANGED <<handles, members, served, updating>>

(* The constructor of the library's member has subscribed. *)
Subscribe == /\ user = "constructing"
             /\ ~Complete /\ CallsBack(object.class, NextMember)
             /\ ~served
             /\ served' = TRUE
             /\ UNCHANGED <<call, object, handles, members, updating, user, outcome>>

ConstructMember == /\ user = "constructing"
                   /\ ~Complete
                   /\ CallsBack(object.class, NextMember) => served
                   /\ members' = Append(members, NextMember)
                   /\ UNCHANGED <<call, object, handles, served, updating, user, outcome>>

Fail(how) == /\ user' = "destroying"
             /\ outcome' = how
             /\ UNCHANGED <<call, object, handles, members, updating>>

(* The library's object is gone; the members before it are destroyed. *)
ConstructionFails == /\ user = "constructing"
                     /\ ~Complete /\ NextMember \in LibraryMembers
                     /\ updating = "nobody"
                     /\ served' = FALSE
                     /\ Fail("failed")

Return == /\ user' = "using"
          /\ outcome' = "made"
          /\ handles' = [handles EXCEPT !["first"] = "object"]
          /\ UNCHANGED <<call, object, members, updating>>

Constructed == /\ user = "constructing"
               /\ Complete
               /\ object.class \notin SubscribesInBody
               /\ Return
               /\ UNCHANGED served

Body(class) == /\ user = "constructing"
               /\ Complete
               /\ object.class = class

(* A library subscribes the object, or throws, or returns no channel. *)
SubscribeOrFail == \/ Return /\ served' = TRUE
                   \/ Fail("failed") /\ UNCHANGED served

(* AddVariable throws for a scalar, and Start for an empty value. *)
AddVariableAndStart == /\ Body("PVAccessServerPVWrapper")
                       /\ IF object.value.type = "struct" THEN Return /\ served' = TRUE
                          ELSE Fail("refused") /\ UNCHANGED served

AddChannel == Body("ChannelAccessPV") /\ SubscribeOrFail
Monitor == Body("PvAccessClientPV") /\ SubscribeOrFail
Initialise == Body("PvAccessRPCServer") /\ SubscribeOrFail

------------------------------------------------------------------------------
(* The callbacks of the libraries, and SetValue() of a server's variable,     *)
(* which calls back in the user's thread.                                    *)

OnUpdate == /\ served
            /\ updating = "nobody"
            /\ updating' = "library"
            /\ UNCHANGED <<call, object, handles, members, served, user, outcome>>

SetValue == /\ user = "using"
            /\ object.class \in {"PVAccessServerPVWrapper", "PvAccessServer"}
            /\ updating = "nobody"
            /\ updating' = "user"
            /\ user' = "setting"
            /\ UNCHANGED <<call, object, handles, members, served, outcome>>

EndUpdate == /\ updating # "nobody"
             /\ updating' = "nobody"
             /\ user' = IF updating = "user" THEN "using" ELSE user
             /\ UNCHANGED <<call, object, handles, members, served, outcome>>

SubscribeLater(class) == /\ user = "using"
                         /\ object.class = class
                         /\ ~served
                         /\ served' = TRUE
                         /\ UNCHANGED <<call, object, handles, members, updating, user, outcome>>

(* With one variable, added before. *)
Start == SubscribeLater("PvAccessServer")
AddVariable == SubscribeLater("PvAccessClient")

------------------------------------------------------------------------------
(* The handles.  Only those to clients can be moved.                       *)

(* The move constructor. *)
MoveConstruct == /\ user = "using"
                 /\ object.class \in ClientClasses
                 /\ handles["second"] = "gone"
                 /\ handles["first"] # "gone"
                 /\ handles' = [first |-> "null", second |-> handles["first"]]
                 /\ UNCHANGED <<call, object, members, served, updating, user, outcome>>

(* The assignment swaps, also if the other one is null. *)
MoveAssign == /\ user = "using"
              /\ \A h \in DOMAIN handles : handles[h] # "gone"
              /\ handles' = [first |-> handles["second"], second |-> handles["first"]]
              /\ UNCHANGED <<call, object, members, served, updating, user, outcome>>

DestroyHandle(h) == /\ user \in {"using", "idle"}
                    /\ handles[h] # "gone"
                    /\ handles' = [handles EXCEPT ![h] = "gone"]
                    /\ user' = IF handles[h] = "object" THEN "destroying" ELSE user
                    /\ UNCHANGED <<call, object, members, served, updating, outcome>>

DestructorBody(classes) == /\ user = "destroying"
                           /\ object.class \in classes \cap StopsInBody
                           /\ served
                           /\ updating = "nobody"
                           /\ served' = FALSE
                           /\ UNCHANGED <<call, object, handles, members, updating, user, outcome>>

RemoveChannel == DestructorBody({"ChannelAccessPV"})
Stop == DestructorBody(ServerClasses)

(* In the reverse order; a library's member waits for its callback. *)
DestroyMember == /\ user = "destroying"
                 /\ members # <<>>
                 /\ object.class \in StopsInBody => ~served
                 /\ IF Last(members) \in LibraryMembers
                      THEN updating = "nobody" /\ served' = FALSE
                      ELSE UNCHANGED served
                 /\ members' = Front(members)
                 /\ UNCHANGED <<call, object, handles, updating, user, outcome>>

Destroyed == /\ user = "destroying"
             /\ members = <<>>
             /\ object' = Invalid
             /\ user' = "idle"
             /\ UNCHANGED <<call, handles, members, served, updating, outcome>>

------------------------------------------------------------------------------
Next == \/ \E c \in Calls : Create(c)
        \/ Subscribe \/ ConstructMember \/ ConstructionFails \/ Constructed
        \/ AddVariableAndStart \/ AddChannel \/ Monitor \/ Initialise
        \/ OnUpdate \/ SetValue \/ EndUpdate \/ Start \/ AddVariable
        \/ MoveConstruct \/ MoveAssign
        \/ \E h \in DOMAIN handles : DestroyHandle(h)
        \/ RemoveChannel \/ Stop \/ DestroyMember \/ Destroyed

Spec == Init /\ [][Next]_vars

------------------------------------------------------------------------------
(* epics_protocol_factory.h:61-106, with pv_access_pv.rst:23 for values: what  *)
(* each function needs, and what it makes of it.                              *)

Text(d, f) == f \in DOMAIN d /\ d[f].type = "string"
OfClass(d, class) == Text(d, "Class") /\ d["Class"].value = class /\ Text(d, "ChannelName")

Documented(function, d) ==
  /\ function = "CreateProcessVariable" =>
       \/ OfClass(d, "ChannelAccessClient") /\ Text(d, "VarType") /\ d["VarType"].value # "no type"
       \/ OfClass(d, "PvAccessClient")
       \/ OfClass(d, "PvAccessServer") /\ "VarValue" \in DOMAIN d /\ d["VarValue"].type = "struct"
  /\ function = "CreateRPCClient" =>
       /\ Text(d, "ServiceName")
       /\ "Timeout" \in DOMAIN d => d["Timeout"].type = "float64" /\ d["Timeout"].value >= 0
       /\ "Encoding" \in DOMAIN d => d["Encoding"].value \in {"None", "Base64"}
  /\ function \in {"CreateRPCServer"} \cup FromConfig => Text(d, "ServiceName")

TimeoutOf(d) == IF "Timeout" \in DOMAIN d THEN d["Timeout"].value ELSE 5

(* A definition is refused, whether by the parsers or only by the variable    *)
(* that is constructed from it, if and only if the documentation does not     *)
(* allow it; and what was made is what was asked for, with the defaults: an   *)
(* object on the network of the server meant, or of the environment.         *)
MadeAsDocumented ==
  LET d == call.definition IN
  /\ outcome = "refused" => ~Documented(call.function, d)
  /\ outcome = "made" => Documented(call.function, d)
  /\ outcome = "made" /\ user # "idle" =>
       /\ call.function = "CreateProcessVariable" => object.channel = d["ChannelName"].value
       /\ call.function \in {"CreateRPCClient", "PV_ACCESS_RPC_CLIENT"} =>
            object.config.timeout = TimeoutOf(d)
       /\ call.function = "CreateRPCClient" =>
            object.encoding = IF "Encoding" \in DOMAIN d THEN d["Encoding"].value ELSE "Base64"
       /\ object.class \in ServerClasses \cup ClientClasses =>
            object.network = IF call.network = "none" THEN "environment" ELSE call.network

(* While a callback runs, also during the constructor and the destructor, and  *)
(* after moves of the handle, the members it uses exist.  After a call that    *)
(* threw, or the destructor, nobody is called back; and the object does not    *)
(* outlive the handle that has it, nor that the object.                       *)
CallbackOnLiveMembers ==
  /\ updating # "nobody" => Used(object.class) \subseteq ToSet(members)
  /\ user = "idle" => ~served /\ members = <<>> /\ updating = "nobody"
  /\ user \in {"using", "setting"} <=> \E h \in DOMAIN handles : handles[h] = "object"
==============================================================================
