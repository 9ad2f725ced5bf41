------------------------ MODULE PvAccessServerPVProofs ------------------------
(***************************************************************************)
(* Proofs about PvAccessServerPV and, at the end, PvAccessChannel, for any   *)
(* number of users, fields and scalars and any bound on the queue of events. *)
(***************************************************************************)
EXTENDS PvAccessChannel, TLAPS

(* A read without the mutex returns a value of the variable's type. *)
LEMMA ReadsAreStructs ==
  ASSUME TypeOK
  PROVE  AnyReads \subseteq Structs /\ CacheReads \subseteq Structs
BY DEF AnyReads, CacheReads

(* A put overwrites a value with one of the same type. *)
LEMMA AssignType ==
  ASSUME NEW v \in Structs, NEW p \in Puts
  PROVE  Assign(v, p) \in Structs
BY DEF Assign, Puts, Structs

(* A put that brings every field leaves its own value. *)
LEMMA AssignFull ==
  ASSUME NEW v \in Structs, NEW p \in Puts, FullPuts
  PROVE  Assign(v, p) = p.value
BY DEF Assign, Puts, Structs

(* TypeOK is inductive. *)
LEMMA TypeStep == TypeOK /\ [Next]_vars => TypeOK'
<1> SUFFICES ASSUME TypeOK, [Next]_vars PROVE TypeOK'
  OBVIOUS
<1> USE DEF TypeOK, values, userVars, workerVars
<1>1. CASE Open
  BY <1>1 DEF Open
<1>2. ASSUME NEW u \in Users, SetValue(u) PROVE TypeOK'
  <2>1. ASSUME NEW v \in Structs, BeginStore(u, v) PROVE TypeOK'
    BY <2>1 DEF BeginStore, Lock, Goto
  <2>2. CASE EndStore(u)
    BY <2>2 DEF EndStore, Unlock, Goto
  <2>3. CASE CheckOpen(u)
    BY <2>3 DEF CheckOpen, Goto
  <2>4. CASE BeginRefresh(u)
    BY <2>4 DEF BeginRefresh, Lock, Goto
  <2>5. CASE EndRefresh(u)
    BY <2>5 DEF EndRefresh, Unlock, Goto
  <2>6. CASE Post(u)
    BY <2>6, ReadsAreStructs DEF Post, Goto
  <2>7. CASE Tell(u)
    BY <2>7, ReadsAreStructs DEF Tell, Goto
  <2> QED
    BY <1>2, <2>1, <2>2, <2>3, <2>4, <2>5, <2>6, <2>7 DEF SetValue
<1>3. CASE OnSharedValueChanged
  <2>1. ASSUME NEW p \in Puts, BeginPut(p) PROVE TypeOK'
    BY <2>1 DEF BeginPut, Lock
  <2>2. CASE EndPut
    BY <2>2, AssignType DEF EndPut, Unlock, Puts
  <2>3. CASE TellAndReply
    BY <2>3, ReadsAreStructs DEF TellAndReply
  <2> QED
    BY <1>3, <2>1, <2>2, <2>3 DEF OnSharedValueChanged
<1>4. CASE UNCHANGED vars
  BY <1>4 DEF vars
<1> QED
  BY <1>1, <1>2, <1>3, <1>4 DEF Next

(* Every variable always has its type. *)
THEOREM TypeCorrect == Spec => []TypeOK
<1>1. Init => TypeOK
  BY DEF Init, TypeOK, Structs, Puts
<1> QED
  BY <1>1, TypeStep, PTL DEF Spec

------------------------------------------------------------------------------
(* The callback was told the variable's value, or a call is in progress:     *)
(* a call ends with the callback, and what it reads there is the value unless *)
(* another call is about to change it, which will end with the callback too.  *)
LEMMA ToldStep == TypeOK /\ ToldTheLatest /\ [Next]_vars => ToldTheLatest'
<1> SUFFICES ASSUME TypeOK, ToldTheLatest, [Next]_vars, AtRest' PROVE told' = any'
  BY DEF ToldTheLatest
<1> USE DEF TypeOK, ToldTheLatest, AtRest, values, userVars, workerVars
<1>1. CASE Open
  BY <1>1 DEF Open
<1>2. ASSUME NEW u \in Users, SetValue(u) PROVE told' = any'
  <2>1. CASE Tell(u)
    <3>1. \A x \in Users : x # u => upc[x] = "idle"
      BY <2>1 DEF Tell, Goto
    <3>2. wpc = "idle"
      BY <2>1 DEF Tell
    <3> QED
      BY <2>1, <3>1, <3>2 DEF Tell, AnyReads
  <2>2. CASE ~Tell(u)
    <3>1. upc'[u] # "idle"
      BY <1>2, <2>2 DEF SetValue, BeginStore, EndStore, CheckOpen, BeginRefresh, EndRefresh,
                        Post, Goto
    <3> QED
      BY <3>1
  <2> QED
    BY <2>1, <2>2
<1>3. CASE OnSharedValueChanged
  BY <1>3 DEF OnSharedValueChanged, BeginPut, EndPut, TellAndReply, AnyReads
<1>4. CASE UNCHANGED vars
  BY <1>4 DEF vars
<1> QED
  BY <1>1, <1>2, <1>3, <1>4 DEF Next

(* ToldTheLatest holds however users, the start of the server and the        *)
(* network interleave, for partial puts too.                                 *)
THEOREM CallbackKnowsTheValue == Spec => []ToldTheLatest
<1>1. Init => ToldTheLatest
  BY DEF Init, ToldTheLatest
<1> QED
  BY <1>1, ToldStep, TypeCorrect, PTL DEF Spec

------------------------------------------------------------------------------
(* Somebody has changed the cache, or is changing it, and will post it. *)
PostDue == \/ wpc = "updating"
           \/ \E u \in Users : upc[u] \in {"refreshing", "post"}

(* What clients see is the cache, or somebody is about to post it. *)
PostInv == IsOpen => current = cache \/ PostDue

(* A value is never the closed variable. *)
LEMMA OpenValues ==
  ASSUME TypeOK
  PROVE  /\ cache # Closed
         /\ \A v \in CacheReads : v # Closed
         /\ \A p \in Puts : Assign(cache, p) # Closed
BY ServerAssumption, AssignType DEF TypeOK, CacheReads, Structs

(* PostInv is inductive. *)
LEMMA PostStep == TypeOK /\ PostInv /\ [Next]_vars => PostInv'
<1> SUFFICES ASSUME TypeOK, PostInv, [Next]_vars PROVE PostInv'
  OBVIOUS
<1> USE OpenValues
<1> USE DEF TypeOK, PostInv, IsOpen, PostDue, values, userVars, workerVars
<1>1. CASE Open
  BY <1>1 DEF Open
<1>2. ASSUME NEW u \in Users, SetValue(u) PROVE PostInv'
  <2>1. CASE Post(u)
    <3>1. current' = cache \/ wpc = "updating" \/ \E x \in Users : upc[x] = "refreshing"
      BY <2>1 DEF Post, CacheReads
    <3> QED
      BY <2>1, <3>1 DEF Post, Goto
  <2>2. CASE EndRefresh(u)
    BY <2>2 DEF EndRefresh, Goto
  <2>3. CASE (\E v \in Structs : BeginStore(u, v)) \/ EndStore(u) \/ CheckOpen(u)
             \/ BeginRefresh(u) \/ Tell(u)
    BY <2>3 DEF BeginStore, EndStore, CheckOpen, BeginRefresh, Tell, Goto
  <2> QED
    BY <1>2, <2>1, <2>2, <2>3 DEF SetValue
<1>3. CASE OnSharedValueChanged
  BY <1>3 DEF OnSharedValueChanged, BeginPut, EndPut, TellAndReply
<1>4. CASE UNCHANGED vars
  BY <1>4 DEF vars
<1> QED
  BY <1>1, <1>2, <1>3, <1>4 DEF Next

(* What clients see is the PVXS cache, once every call is over: also when     *)
(* users set the variable before the start of the server and puts bring some  *)
(* fields only, where m_any_value may differ.                                *)
THEOREM ClientsSeeTheCache == Spec => [](AtRest /\ IsOpen => current = cache)
<1>1. Init => PostInv
  BY DEF Init, PostInv, IsOpen
<1>2. PostInv => (AtRest /\ IsOpen => current = cache)
  BY DEF PostInv, AtRest, PostDue
<1> QED
  BY <1>1, <1>2, PostStep, TypeCorrect, PTL DEF Spec

(* Somebody has stored a value, and will refresh the cache with it. *)
RefreshDue == \E u \in Users : upc[u] \in {"stored", "refresh", "refreshing"}

(* Before the variable is published nothing happens to it; afterwards the     *)
(* cache is the value, or somebody is about to refresh it.                   *)
ServedInv == /\ ~IsOpen => AtRest /\ cache = any
             /\ IsOpen => cache = any \/ RefreshDue

(* ServedInv is inductive when users wait for the start of the server and    *)
(* puts are complete.                                                        *)
LEMMA ServedStep ==
  ASSUME StartFirst, FullPuts, TypeOK, ServedInv, [Next]_vars
  PROVE  ServedInv'
<1> USE OpenValues
<1> USE DEF TypeOK, ServedInv, AtRest, IsOpen, RefreshDue, values, userVars, workerVars
<1>1. CASE Open
  BY <1>1 DEF Open
<1>2. ASSUME NEW u \in Users, SetValue(u) PROVE ServedInv'
  <2>1. ASSUME NEW v \in Structs, BeginStore(u, v) PROVE ServedInv'
    BY <2>1 DEF BeginStore, Lock, Goto
  <2>2. CASE EndStore(u)
    BY <2>2 DEF EndStore, Unlock, Goto
  <2>3. CASE CheckOpen(u)
    BY <2>3 DEF CheckOpen, Goto
  <2>4. CASE BeginRefresh(u)
    BY <2>4 DEF BeginRefresh, Lock, Goto
  <2>5. CASE EndRefresh(u)
    BY <2>5 DEF EndRefresh, Unlock, Goto
  <2>6. CASE Post(u)
    BY <2>6 DEF Post, Goto
  <2>7. CASE Tell(u)
    BY <2>7 DEF Tell, Goto
  <2> QED
    BY <1>2, <2>1, <2>2, <2>3, <2>4, <2>5, <2>6, <2>7 DEF SetValue
<1>3. CASE OnSharedValueChanged
  <2>1. ASSUME NEW p \in Puts, BeginPut(p) PROVE ServedInv'
    BY <2>1 DEF BeginPut, Lock
  <2>2. CASE EndPut
    BY <2>2, AssignFull DEF EndPut, Unlock
  <2>3. CASE TellAndReply
    BY <2>3 DEF TellAndReply
  <2> QED
    BY <1>3, <2>1, <2>2, <2>3 DEF OnSharedValueChanged
<1>4. CASE UNCHANGED vars
  BY <1>4 DEF vars
<1> QED
  BY <1>1, <1>2, <1>3, <1>4 DEF Next

(* What clients see at rest is what users read, when users wait for the      *)
(* start of the server and puts bring every field.                           *)
THEOREM ClientsSeeTheValue ==
  ASSUME StartFirst, FullPuts
  PROVE  Spec => []ServedIsSet
<1>1. Init => ServedInv
  BY DEF Init, ServedInv, AtRest, IsOpen
<1>2. TypeOK /\ ServedInv /\ [Next]_vars => ServedInv'
  BY ServedStep
<1>3. ServedInv /\ (AtRest /\ IsOpen => current = cache) => ServedIsSet
  BY DEF ServedInv, ServedIsSet, AtRest, RefreshDue
<1> QED
  BY <1>1, <1>2, <1>3, TypeCorrect, ClientsSeeTheCache, PTL DEF Spec

------------------------------------------------------------------------------
(* The channel.  Its steps are steps of the server, steps of the client, or   *)
(* both, so that what is proved of each of them holds for the two together.   *)

(* What is proved of PvAccessClientPV.  The calls of PVAccessClientPVWrapper, *)
(* which are in the same module, take no part.                               *)
ClientFacts == INSTANCE PvAccessClientPVProofs
  WITH Values <- Nat, Foreign <- {}, cache <- copy, remote <- Len(published),
       Scalar <- Down, MaxPuts <- 1, phase <- "idle", wanted <- Down, copy <- Empty,
       puts <- <<>>, reply <- "none", executed <- Empty, answer <- "none", got <- Empty

(* The constants are those of a client. *)
LEMMA ClientConstants ==
  /\ Nat \cap {} = {}
  /\ {Empty, Up, Down} \cap (Nat \cup {}) = {}
  /\ Up # Down
  /\ MaxQueue \in Nat
  /\ Down \notin ClientFacts!AnyValues
  /\ 1 \in Nat \ {0}
BY ChannelAssumption DEF ClientFacts!AnyValues

(* A step of the channel is one of the server, or none. *)
LEMMA ServerStep == [ChannelNext]_channelVars => [Next]_vars
<1> SUFFICES ASSUME [ChannelNext]_channelVars PROVE [Next]_vars
  OBVIOUS
<1>1. CASE Publish
  BY <1>1 DEF Publish, Next, SetValue, OnSharedValueChanged
<1>2. CASE Begin
  BY <1>2 DEF Begin, Next, SetValue, OnSharedValueChanged
<1>3. CASE Proceed
  BY <1>3 DEF Proceed, Next, SetValue, OnSharedValueChanged
<1>4. CASE Connect \/ Disconnect \/ Send \/ BeginDrain \/ Pop \/ EndDrain \/ Read
  BY <1>4 DEF Connect, Disconnect, Send, BeginDrain, Pop, EndDrain, Read
<1>5. CASE UNCHANGED channelVars
  BY <1>5 DEF channelVars
<1> QED
  BY <1>1, <1>2, <1>3, <1>4, <1>5 DEF ChannelNext

(* What is published is a value of the variable. *)
LEMMA PublishedType ==
  ASSUME TypeOK, Publish
  PROVE  current' \in Structs
<1>1. CASE Open
  BY <1>1 DEF Open, TypeOK
<1>2. CASE EndPut
  BY <1>2, AssignType DEF EndPut, TypeOK
<1>3. ASSUME NEW u \in Users, Post(u) PROVE current' \in Structs
  BY <1>3, ReadsAreStructs DEF Post
<1> QED
  BY <1>1, <1>2, <1>3 DEF Publish

(* The values that were published have the type of the variable, the last one *)
(* is what PVXS holds.                                                       *)
PublishedInv == /\ published \in Seq(Structs)
                /\ IsOpen => published # <<>> /\ published[Len(published)] = current

LEMMA PublishedStep == TypeOK /\ PublishedInv /\ [ChannelNext]_channelVars => PublishedInv'
<1> SUFFICES ASSUME TypeOK, PublishedInv, [ChannelNext]_channelVars PROVE PublishedInv'
  OBVIOUS
<1> USE DEF PublishedInv
<1>1. CASE Publish
  <2>1. published' = Append(published, current') /\ current' \in Structs
    BY <1>1, PublishedType DEF Publish
  <2>2. /\ published' \in Seq(Structs)
        /\ published' # <<>>
        /\ published'[Len(published')] = current'
    BY <2>1
  <2> QED
    BY <2>2
<1>2. CASE UNCHANGED <<current, published>>
  BY <1>2 DEF IsOpen
<1>3. CASE Begin \/ Proceed
  <2>1. UNCHANGED <<current, published>>
    BY <1>3 DEF Begin, Proceed, BeginStore, BeginPut, EndStore, CheckOpen, BeginRefresh,
       EndRefresh, Tell, TellAndReply, values
  <2> QED
    BY <1>2, <2>1
<1>4. CASE Connect \/ Disconnect \/ Send \/ BeginDrain \/ Pop \/ EndDrain \/ Read
  <2>1. UNCHANGED <<current, published>>
    BY <1>4 DEF Connect, Disconnect, Send, BeginDrain, Pop, EndDrain, Read, vars, values
  <2> QED
    BY <1>2, <2>1
<1>5. CASE UNCHANGED channelVars
  BY <1>2, <1>5 DEF channelVars, vars, values
<1> QED
  BY <1>1, <1>3, <1>4, <1>5 DEF ChannelNext

(* A step of the channel is one of the client, or none: what is published is  *)
(* a change of the variable it follows.                                      *)
LEMMA ClientStep ==
  TypeOK /\ PublishedInv /\ [ChannelNext]_channelVars => [Client!Next]_(Client!vars)
<1> SUFFICES ASSUME TypeOK, PublishedInv, [ChannelNext]_channelVars
             PROVE  [Client!Next]_(Client!vars)
  OBVIOUS
<1>0. Client!clientVars = clientVars /\ Client!libraryVars = <<due, queue, link, fresh, Len(published)>>
  BY DEF Client!clientVars, clientVars, Client!libraryVars
<1>1. CASE Publish
  <2>1. Len(published) \in Nat /\ Len(published') \in Nat
    BY PublishedStep DEF PublishedInv
  <2>2. Client!SameType(Len(published'), Len(published))
    BY <2>1 DEF Client!SameType
  <2>3. UNCHANGED <<due, queue, link, Client!clientVars>> /\ fresh' = link
    BY <1>1 DEF Publish, clientVars, Client!clientVars
  <2>4. Len(published') \in Client!AnyValues
    BY <2>1 DEF Client!AnyValues
  <2>5. Client!Change
    BY <2>2, <2>3, <2>4 DEF Client!Change
  <2> QED
    BY <2>5 DEF Client!Next
<1>2. CASE Connect \/ Disconnect \/ Send \/ BeginDrain \/ Pop \/ EndDrain \/ Read
  BY <1>2 DEF Connect, Disconnect, Send, BeginDrain, Pop, EndDrain, Read,
     Client!Next, Client!ProcessMonitor
<1>3. CASE UNCHANGED <<published, clientVars, libraryVars>>
  BY <1>3 DEF clientVars, libraryVars, Client!vars, Client!clientVars, Client!libraryVars
<1>4. CASE Begin \/ Proceed \/ UNCHANGED channelVars
  BY <1>3, <1>4 DEF Begin, Proceed, channelVars
<1> QED
  BY <1>1, <1>2, <1>4 DEF ChannelNext

(* The steps of the client are those the proofs are about. *)
LEMMA SameClient == /\ Client!Init => ClientFacts!Init
                    /\ [Client!Next]_(Client!vars) => [ClientFacts!Next]_(ClientFacts!vars)
<1>1. Client!Init => ClientFacts!Init
  BY DEF Client!Init, ClientFacts!Init
<1>2. Client!vars = ClientFacts!vars /\ Client!vars' = ClientFacts!vars'
  BY DEF Client!vars, Client!clientVars, Client!libraryVars, ClientFacts!vars,
         ClientFacts!clientVars, ClientFacts!libraryVars
<1>3. Client!Next => ClientFacts!Next
  BY DEF Client!Next, ClientFacts!Next, Client!ProcessMonitor, ClientFacts!ProcessMonitor,
     Client!Connect, ClientFacts!Connect, Client!Disconnect, ClientFacts!Disconnect,
     Client!Change, ClientFacts!Change, Client!Send, ClientFacts!Send,
     Client!BeginDrain, ClientFacts!BeginDrain, Client!Pop, ClientFacts!Pop,
     Client!Throw, ClientFacts!Throw, Client!EndDrain, ClientFacts!EndDrain,
     Client!Read, ClientFacts!Read, Client!Push, ClientFacts!Push, Client!Room,
     ClientFacts!Room, Client!SameType, ClientFacts!SameType, Client!Converts,
     ClientFacts!Converts, Client!AnyValues, ClientFacts!AnyValues,
     Client!clientVars, Client!libraryVars, ClientFacts!clientVars, ClientFacts!libraryVars
<1> QED
  BY <1>1, <1>2, <1>3

(* The channel is a server, though it is told when to begin a call. *)
THEOREM ChannelServes == ChannelSpec => Spec
<1>1. ChannelInit => Init
  BY DEF ChannelInit
<1> QED
  BY <1>1, ServerStep, PTL DEF ChannelSpec, Spec

(* The published values always have the type of the variable, and the last    *)
(* one is what PVXS holds.                                                   *)
LEMMA PublishedCorrect == ChannelSpec => [](TypeOK /\ PublishedInv)
<1>1. ChannelInit => PublishedInv
  BY DEF ChannelInit, Init, PublishedInv, IsOpen
<1> QED
  BY <1>1, PublishedStep, ChannelServes, TypeCorrect, PTL DEF ChannelSpec

(* The channel is a client of a variable that changes when something is       *)
(* published: the server never does what a client does not expect of it.     *)
THEOREM ChannelFollows == ChannelSpec => Client!Spec
<1>1. ChannelInit => Client!Init
  BY DEF ChannelInit
<1> QED
  BY <1>1, ClientStep, PublishedCorrect, PTL DEF ChannelSpec, Client!Spec

(* What is proved of a client holds of that of the channel. *)
LEMMA ClientCorrect == ChannelSpec => [](Client!TypeOK /\ Client!CacheFollows)
<1>1. ChannelSpec => ClientFacts!Spec
  BY ChannelFollows, SameClient, PTL DEF Client!Spec, ClientFacts!Spec
<1>2. ClientFacts!Spec => []ClientFacts!TypeOK
  BY ClientFacts!TypeCorrect, ClientConstants, PTL
<1>3. ClientFacts!Spec => []ClientFacts!CacheFollows
  BY ClientFacts!CacheIsTheChannel, ClientConstants, PTL
<1>4. ClientFacts!TypeOK => Client!TypeOK
  BY DEF Client!TypeOK, ClientFacts!TypeOK, Client!Caches, ClientFacts!Caches, Client!Events,
         ClientFacts!Events, Client!AnyValues, ClientFacts!AnyValues
<1>5. ClientFacts!CacheFollows => Client!CacheFollows
  BY DEF Client!CacheFollows, ClientFacts!CacheFollows, Client!AtRest, ClientFacts!AtRest
<1> QED
  BY <1>1, <1>2, <1>3, <1>4, <1>5, PTL

------------------------------------------------------------------------------
(* The number of the value in c, 0 if there is none. *)
Age(c) == News(c).at

(* Where ProcessMonitor goes on from. *)
Base == IF draining THEN result ELSE copy

(* The numbers are ordered on their way: what the client was told, what       *)
(* ProcessMonitor has drained, what is in the queue, and what was published. *)
OrderInv == /\ reported = copy
            /\ Age(copy) <= Age(Base)
            /\ Age(Base) <= Len(published)
            /\ \A i \in 1..Len(queue) :
                 queue[i] \in Nat => Age(Base) <= queue[i] /\ queue[i] <= Len(published)
            /\ \A i, j \in 1..Len(queue) :
                 i < j /\ queue[i] \in Nat /\ queue[j] \in Nat => queue[i] <= queue[j]
            /\ ~thrown

(* The number of a value of the client. *)
LEMMA AgeType ==
  ASSUME NEW c \in Client!Caches
  PROVE  /\ Age(c) \in Nat
         /\ \A b \in BOOLEAN : Age([c EXCEPT !.connected = b]) = Age(c)
         /\ \A n \in Nat : Age([c EXCEPT !.value = n]) = n
BY ChannelAssumption DEF Age, News, Client!Caches, Client!AnyValues

(* A new event at the end of the queue, of no number or of the last one. *)
LEMMA PushOrder ==
  ASSUME Client!TypeOK, OrderInv, NEW e \in {Up, Down, Len(published)}, Client!Push(e),
         UNCHANGED <<published, clientVars>>
  PROVE  OrderInv'
<1>1. Len(published) \in Nat
  BY DEF Client!TypeOK, Client!AnyValues
<1>2. queue \in Seq(Client!Events) /\ e \in Client!Events /\ queue' = Append(queue, e)
  BY <1>1 DEF Client!TypeOK, Client!Push, Client!Events, Client!AnyValues
<1>3. /\ Len(queue') = Len(queue) + 1 /\ Len(queue) \in Nat
      /\ \A i \in 1..Len(queue) : queue'[i] = queue[i]
      /\ queue'[Len(queue) + 1] = e
  BY <1>2
<1>4. e \in Nat => e = Len(published)
  BY ChannelAssumption
<1>5. Age(Base) \in Nat /\ Base' = Base /\ Age(copy)' = Age(copy) /\ Age(Base)' = Age(Base)
  BY AgeType DEF Base, clientVars, Client!TypeOK, Age, News
<1> QED
  BY <1>1, <1>3, <1>4, <1>5 DEF OrderInv, clientVars

(* OrderInv is inductive. *)
LEMMA OrderStep ==
  ASSUME TypeOK, PublishedInv, Client!TypeOK, OrderInv, [ChannelNext]_channelVars
  PROVE  OrderInv'
<1>0. /\ {Age(copy), Age(result), Age(Base), Len(published)} \subseteq Nat
      /\ queue \in Seq(Client!Events)
  BY AgeType DEF Base, Client!TypeOK, Client!AnyValues
<1>1. CASE Publish
  <2>1. published' = Append(published, current') /\ current' \in Structs
    BY <1>1, PublishedType DEF Publish
  <2>2. Len(published') = Len(published) + 1
    BY <2>1 DEF PublishedInv
  <2>3. UNCHANGED <<clientVars, queue>> /\ Age(copy)' = Age(copy) /\ Age(Base)' = Age(Base)
    BY <1>1 DEF Publish, clientVars, Base, Age, News
  <2> QED
    BY <1>0, <2>2, <2>3 DEF OrderInv, clientVars
<1>2. CASE UNCHANGED <<published, clientVars, queue>>
  <2>1. Age(copy)' = Age(copy) /\ Age(Base)' = Age(Base)
    BY <1>2 DEF clientVars, Base, Age, News
  <2> QED
    BY <1>2, <2>1 DEF OrderInv, clientVars
<1>3. CASE Begin \/ Proceed
  BY <1>2, <1>3 DEF Begin, Proceed, libraryVars
<1>4. CASE Connect
  <2>1. Client!Push(Up) /\ UNCHANGED <<published, clientVars>>
    BY <1>4 DEF Connect, Client!Connect, Client!clientVars, clientVars
  <2> QED
    BY <2>1, PushOrder
<1>5. CASE Disconnect
  <2>1. Client!Push(Down) /\ UNCHANGED <<published, clientVars>>
    BY <1>5 DEF Disconnect, Client!Disconnect, Client!clientVars, clientVars
  <2> QED
    BY <2>1, PushOrder
<1>6. CASE Send
  <2>0. UNCHANGED <<published, clientVars>>
    BY <1>6 DEF Send, Client!Send, Client!clientVars, clientVars
  <2>1. CASE Client!Push(Len(published))
    BY <2>0, <2>1, PushOrder
  <2>2. CASE queue # <<>> /\ queue' = [queue EXCEPT ![Len(queue)] = Len(published)]
    <3>1. /\ Len(queue') = Len(queue) /\ Len(queue) \in Nat
          /\ \A i \in 1..Len(queue) :
               queue'[i] = IF i = Len(queue) THEN Len(published) ELSE queue[i]
      BY <1>0, <2>2
    <3>2. Base' = Base /\ Age(copy)' = Age(copy) /\ Age(Base)' = Age(Base)
      BY <2>0 DEF Base, clientVars, Age, News
    <3> QED
      BY <1>0, <2>0, <3>1, <3>2 DEF OrderInv, clientVars
  <2> QED
    BY <1>6, <2>1, <2>2 DEF Send, Client!Send
<1>7. CASE BeginDrain
  <2>1. /\ UNCHANGED <<published, copy, reported, thrown, queue>>
        /\ ~draining /\ draining' /\ result' = copy
    BY <1>7 DEF BeginDrain, Client!BeginDrain
  <2>2. Age(copy)' = Age(copy) /\ Base' = copy /\ Base = copy /\ Age(Base)' = Age(copy)
    BY <2>1 DEF Base, Age, News
  <2> QED
    BY <1>0, <2>1, <2>2 DEF OrderInv
<1>8. CASE Pop
  <2>1. /\ UNCHANGED <<published, copy, reported, thrown, draining>>
        /\ draining /\ queue # <<>> /\ queue' = Tail(queue)
    BY <1>8 DEF Pop, Client!Pop
  <2>2. /\ Len(queue) \in Nat \ {0} /\ Len(queue') = Len(queue) - 1
        /\ \A i \in 1..Len(queue') : queue'[i] = queue[i + 1]
        /\ Head(queue) = queue[1]
    BY <1>0, <2>1
  <2>3. Base = result /\ Base' = result' /\ Age(copy)' = Age(copy)
        /\ Age(Base)' = Age(result')
    BY <2>1 DEF Base, Age, News
  <2>4. Age(result') = IF queue[1] \in Nat THEN queue[1] ELSE Age(result)
    <3>1. result \in Client!Caches /\ queue[1] \in Nat \cup {Up, Down}
      BY <1>0, <2>2 DEF Client!TypeOK, Client!Events, Client!AnyValues
    <3>2. CASE queue[1] = Up
      BY <1>8, <2>2, <3>1, <3>2, AgeType, ChannelAssumption DEF Pop, Client!Pop
    <3>3. CASE queue[1] = Down
      BY <1>8, <2>2, <3>1, <3>3, AgeType, ChannelAssumption DEF Pop, Client!Pop
    <3>4. CASE queue[1] \in Nat
      BY <1>8, <2>2, <3>1, <3>4, AgeType, ChannelAssumption DEF Pop, Client!Pop
    <3> QED
      BY <3>1, <3>2, <3>3, <3>4
  <2> QED
    BY <1>0, <2>1, <2>2, <2>3, <2>4 DEF OrderInv
<1>9. CASE EndDrain
  <2>1. /\ UNCHANGED <<published, result, thrown, queue>>
        /\ draining /\ ~draining' /\ queue = <<>> /\ copy' = result /\ reported' = result
    BY <1>9 DEF EndDrain, Client!EndDrain, Client!libraryVars
  <2>2. Base' = result /\ Base = result /\ Age(Base)' = Age(result) /\ Age(copy)' = Age(result)
    BY <2>1 DEF Base, Age, News
  <2> QED
    BY <1>0, <2>1, <2>2 DEF OrderInv
<1>10. CASE Read
  <2>1. UNCHANGED <<published, copy, reported, draining, result, thrown, queue>>
    BY <1>10 DEF Read, Client!Read, Client!libraryVars
  <2>2. Age(copy)' = Age(copy) /\ Age(Base)' = Age(Base)
    BY <2>1 DEF Base, Age, News
  <2> QED
    BY <2>1, <2>2 DEF OrderInv
<1>11. CASE UNCHANGED channelVars
  BY <1>2, <1>11 DEF channelVars, libraryVars
<1> QED
  BY <1>1, <1>3, <1>4, <1>5, <1>6, <1>7, <1>8, <1>9, <1>10, <1>11 DEF ChannelNext

LEMMA OrderCorrect == ChannelSpec => []OrderInv
<1>1. ChannelInit => OrderInv
  BY ChannelAssumption DEF ChannelInit, Client!Init, OrderInv, Base, Age, News
<1>2. TypeOK /\ PublishedInv /\ Client!TypeOK /\ OrderInv /\ [ChannelNext]_channelVars => OrderInv'
  BY OrderStep
<1> QED
  BY <1>1, <1>2, PublishedCorrect, ClientCorrect, PTL DEF ChannelSpec

(* What the client was told never goes back to an earlier value, through     *)
(* losses of the connection and values that are skipped, whatever users do    *)
(* before the start of the server and however incomplete the puts are.        *)
THEOREM NeverGoesBack == ChannelSpec => [][Age(copy) <= Age(copy')]_copy
<1>1. Client!TypeOK /\ OrderInv /\ [ChannelNext]_channelVars => [Age(copy) <= Age(copy')]_copy
  <2> SUFFICES ASSUME Client!TypeOK, OrderInv, [ChannelNext]_channelVars, copy' # copy
               PROVE  Age(copy) <= Age(copy')
    OBVIOUS
  <2>1. EndDrain
    BY DEF ChannelNext, channelVars, clientVars, Publish, Begin, Proceed, Connect, Disconnect,
       Send, BeginDrain, Pop, Read, Client!Connect, Client!Disconnect, Client!Send,
       Client!BeginDrain, Client!Pop, Client!Read, Client!clientVars
  <2>2. copy' = result /\ draining
    BY <2>1 DEF EndDrain, Client!EndDrain
  <2> QED
    BY <2>2 DEF OrderInv, Base
<1> QED
  BY <1>1, ClientCorrect, OrderCorrect, PTL DEF ChannelSpec

(* When nothing is under way, what a connected client has is the PVXS cache of *)
(* the server, again without any condition on users or puts.                  *)
THEOREM ClientHasTheCache ==
  ChannelSpec => [](AtRest /\ IsOpen /\ Client!AtRest /\ link
                      => copy.value # Empty /\ published[copy.value] = cache)
<1>1. /\ PublishedInv /\ Client!TypeOK /\ OrderInv /\ Client!CacheFollows
      /\ (AtRest /\ IsOpen => current = cache)
      => (AtRest /\ IsOpen /\ Client!AtRest /\ link
            => copy.value # Empty /\ published[copy.value] = cache)
  BY ChannelAssumption DEF PublishedInv, OrderInv, Client!CacheFollows, Client!TypeOK,
     Client!AnyValues
<1> QED
  BY <1>1, PublishedCorrect, ClientCorrect, OrderCorrect, ChannelServes, ClientsSeeTheCache, PTL

------------------------------------------------------------------------------
(* Everything that the refinement needs to know of a state. *)
ChannelInv == TypeOK /\ PublishedInv /\ Client!TypeOK /\ OrderInv

(* The server publishes one of its values, or none, and the client takes no   *)
(* notice of it.                                                             *)
LEMMA ServeStep ==
  ASSUME ChannelInv, TypeOK', ChannelNext, Publish \/ Begin \/ Proceed
  PROVE  Shared!Serve
<1>1. any' \in Structs
  BY DEF TypeOK
<1>2. UNCHANGED <<link, copy, reported, seen>>
  BY DEF Publish, Begin, Proceed, clientVars, libraryVars
<1>3. UNCHANGED <<News(reported), News(seen)>>
  BY <1>2 DEF News
<1>4. published' = published \/ \E v \in Structs : published' = Append(published, v)
  BY PublishedType DEF Publish, Begin, Proceed, ChannelInv
<1>5. {(AtRest /\ IsOpen)', Client!AtRest'} \subseteq BOOLEAN
  BY DEF AtRest, IsOpen, Client!AtRest, TypeOK
<1> QED
  BY <1>1, <1>2, <1>3, <1>4, <1>5 DEF Shared!Serve

(* The client, or PVXS, does something: it may be told a value, not an older  *)
(* one.                                                                      *)
LEMMA FollowStep ==
  ASSUME ChannelInv, Client!TypeOK',
         Connect \/ Disconnect \/ Send \/ BeginDrain \/ Pop \/ EndDrain
  PROVE  Shared!Follow
<1>1. UNCHANGED <<vars, published, seen>>
  BY DEF Connect, Disconnect, Send, BeginDrain, Pop, EndDrain, Client!Connect,
     Client!Disconnect, Client!Send, Client!BeginDrain, Client!Pop, Client!EndDrain,
     Client!clientVars
<1>2. UNCHANGED <<any, published, (AtRest /\ IsOpen), News(seen)>>
  BY <1>1 DEF vars, values, userVars, workerVars, AtRest, IsOpen, News
<1>3. link' \in BOOLEAN /\ Client!AtRest' \in BOOLEAN
  BY DEF Client!TypeOK, Client!AtRest
<1>4. reported' = reported \/ (draining /\ reported' = result)
  BY DEF Connect, Disconnect, Send, BeginDrain, Pop, EndDrain, Client!Connect,
     Client!Disconnect, Client!Send, Client!BeginDrain, Client!Pop, Client!EndDrain,
     Client!clientVars
<1>5. /\ Age(reported) <= Age(reported') /\ Age(reported') <= Len(published)
      /\ {Age(reported), Age(reported'), Len(published)} \subseteq Nat
  BY <1>4, AgeType DEF ChannelInv, OrderInv, Base, Client!TypeOK, Client!AnyValues
<1>6. News(reported)' \in [connected : BOOLEAN, at : Age(reported)..Len(published)]
  BY <1>5 DEF News, Age, Client!TypeOK, Client!Caches
<1> QED
  BY <1>2, <1>3, <1>6 DEF Shared!Follow, Age

(* A thread of the client reads what it was told. *)
LEMMA ReadStep ==
  ASSUME ChannelInv, Read
  PROVE  Shared!Read
<1>1. /\ UNCHANGED <<vars, published, copy, reported, link, due, draining, fresh>>
      /\ seen' = copy /\ reported = copy
  BY DEF Read, Client!Read, Client!libraryVars, ChannelInv, OrderInv
<1>2. /\ UNCHANGED <<any, published, (AtRest /\ IsOpen), link, News(reported), Client!AtRest>>
      /\ News(seen)' = News(reported)
  BY <1>1 DEF vars, values, userVars, workerVars, AtRest, IsOpen, News, Client!AtRest
<1> QED
  BY <1>2 DEF Shared!Read

(* What has to be true of the last value when nothing is under way. *)
LEMMA AtRestFacts ==
  ChannelInv /\ ServedIsSet /\ Client!CacheFollows
    => Shared!PublishedIsSet /\ Shared!ClientKnows
<1> SUFFICES ASSUME ChannelInv, ServedIsSet, Client!CacheFollows
             PROVE  Shared!PublishedIsSet /\ Shared!ClientKnows
  OBVIOUS
<1>1. Shared!PublishedIsSet
  BY DEF ChannelInv, PublishedInv, ServedIsSet, Shared!PublishedIsSet
<1>2. CASE Client!AtRest
  <2>1. reported = copy /\ copy.connected = link /\ (link => copy.value = Len(published))
    BY <1>2 DEF ChannelInv, OrderInv, Client!CacheFollows
  <2>2. Len(published) # Empty
    BY ChannelAssumption DEF ChannelInv, Client!TypeOK, Client!AnyValues
  <2> QED
    BY <1>1, <2>1, <2>2 DEF Shared!ClientKnows, News
<1>3. CASE ~Client!AtRest
  BY <1>1, <1>3 DEF Shared!ClientKnows
<1> QED
  BY <1>2, <1>3

(* A server and its client, with PVXS in between, are a variable that is      *)
(* shared, when users wait for the start of the server and puts bring every   *)
(* field.                                                                    *)
THEOREM ValuesAreShared ==
  ASSUME StartFirst, FullPuts
  PROVE  ChannelSpec => ImplementsSharedVariable
<1>1. ChannelInit => Shared!Init
  BY DEF ChannelInit, Init, Client!Init, Shared!Init, Client!AtRest, AtRest, IsOpen, News
<1>2. ChannelInv /\ ChannelInv' /\ ServedIsSet' /\ Client!CacheFollows' /\ [ChannelNext]_channelVars
        => [Shared!Next]_(Shared!vars)
  <2> SUFFICES ASSUME ChannelInv, ChannelInv', ServedIsSet', Client!CacheFollows',
                      [ChannelNext]_channelVars
               PROVE  [Shared!Next]_(Shared!vars)
    OBVIOUS
  <2>1. CASE UNCHANGED channelVars
    <3>1. UNCHANGED <<any, published, current, upc, wpc, link, reported, seen, due, draining, fresh>>
      BY <2>1 DEF channelVars, clientVars, libraryVars, vars, values, userVars, workerVars
    <3> QED
      BY <3>1 DEF Shared!vars, AtRest, IsOpen, News, Client!AtRest
  <2>2. CASE ChannelNext
    <3>1. Shared!PublishedIsSet' /\ Shared!ClientKnows'
      BY AtRestFacts, PTL
    <3>2. Shared!Serve \/ Shared!Follow \/ Shared!Read
      BY <2>2, ServeStep, FollowStep, ReadStep DEF ChannelNext, ChannelInv
    <3> QED
      BY <3>1, <3>2 DEF Shared!Next
  <2> QED
    BY <2>1, <2>2
<1>3. ChannelSpec => []ChannelInv
  BY PublishedCorrect, ClientCorrect, OrderCorrect, PTL DEF ChannelInv
<1>4. ChannelSpec => [](ServedIsSet /\ Client!CacheFollows)
  BY ChannelServes, ClientsSeeTheValue, ClientCorrect, PTL
<1> QED
  BY <1>1, <1>2, <1>3, <1>4, PTL DEF ChannelSpec, ImplementsSharedVariable, Shared!Spec
==============================================================================
