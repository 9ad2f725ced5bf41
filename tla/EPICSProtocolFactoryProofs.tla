---------------------- MODULE EPICSProtocolFactoryProofs ----------------------
(***************************************************************************)
(* Proofs about EPICSProtocolFactory, for any set of definitions.            *)
(*                                                                         *)
(* Neither property is inductive.  CallbackOnLiveMembers needs to know how   *)
(* far the members are constructed whenever the library may call (ServedInv),*)
(* and MadeAsDocumented that the object is still what the call made.         *)
(***************************************************************************)
EXTENDS EPICSProtocolFactory, TLAPS, SequenceTheorems

(* The classes whose objects are called back. *)
CalledBack == {"ChannelAccessPVWrapper", "PVAccessClientPVWrapper", "PVAccessLoggingServer",
               "RPCServerStack", "PvAccessClient", "PvAccessServer"} \cup SubscribesInBody

MemberNames == LibraryMembers \cup
  {"m_callback", "m_cb_mtx", "m_channel", "m_log_decorator", "m_mon_mtx", "m_monitor_cv",
   "m_var_changed_cb", "m_changed_cb", "m_cv", "m_cb", "m_pvxs_cache", "m_shared_pv", "m_mutex",
   "m_client_context", "m_handler", "m_config"}

UserStates == {"idle", "constructing", "using", "setting", "destroying"}

FactoryTypes == /\ call \in Calls
                /\ handles \in [{"first", "second"} -> {"object", "null", "gone"}]
                /\ members \in Seq(MemberNames)
                /\ served \in BOOLEAN
                /\ updating \in {"nobody", "library", "user"}
                /\ user \in UserStates
                /\ outcome \in {"none", "refused", "failed", "made"}

(* The members that exist are the first of the class. *)
Prefix == /\ Len(members) <= Len(Members(object.class))
          /\ \A i \in 1..Len(members) : members[i] = Members(object.class)[i]

(* What the user's thread does agrees with the members. *)
LifeInv == /\ Prefix
           /\ user = "idle" => object = Invalid /\ members = <<>>
           /\ user \in {"using", "setting"} => Complete
           /\ updating = "user" <=> user = "setting"
           /\ user = "setting" => object.class \in {"PVAccessServerPVWrapper", "PvAccessServer"}

(* The object is called back only while all members exist, or the last one is *)
(* being constructed and calls back already.                                  *)
ServedInv == /\ updating = "library" => served
             /\ served => /\ object.class \in CalledBack
                          /\ user # "idle"
                          /\ \/ Complete
                             \/ /\ user = "constructing"
                                /\ CallsBack(object.class, NextMember)

(* One handle has the object while it is used. *)
HandleInv == /\ user \in {"using", "setting"} <=> \E h \in {"first", "second"} : handles[h] = "object"
             /\ \A g, h \in {"first", "second"} : handles[g] = "object" /\ handles[h] = "object" => g = h

(* The object is what the call asked for. *)
MadeInv == LET c == call IN
  /\ user # "idle" => object = Made(c.function, c.definition, c.network) /\ object # Invalid
  /\ user = "constructing" => outcome = "none"
  /\ user \in {"using", "setting"} => outcome = "made"
  /\ outcome = "refused" => ~Documented(c.function, c.definition)
  /\ outcome = "made" => Documented(c.function, c.definition)

FactoryInv == FactoryTypes /\ LifeInv /\ ServedInv /\ HandleInv /\ MadeInv

------------------------------------------------------------------------------
(* What the proofs need to know of the members of a class: some exist; what a *)
(* callback uses is among them; the one that calls back, if one does, is the  *)
(* last and behind those it uses; an object that is called back, and does not  *)
(* end that itself, ends with a member of a library.                          *)
SafeOrder(class, all) ==
  /\ all \in Seq(MemberNames)
  /\ Len(all) \in Nat \ {0}
  /\ \A m \in Used(class) : \E i \in 1..Len(all) : all[i] = m
  /\ \A n \in 1..Len(all) : CallsBack(class, all[n]) =>
       /\ n = Len(all)
       /\ class \in CalledBack
       /\ \A m \in Used(class) : \E i \in 1..n - 1 : all[i] = m
  /\ class \in CalledBack \ StopsInBody => all[Len(all)] \in LibraryMembers

(* The members of a server with one variable are its own and those of that.   *)
LEMMA ServerHasMembers ==
  /\ ServerMembers \in Seq(MemberNames) /\ Len(ServerMembers) = 6
  /\ ServerMembers[1] = "m_context" /\ ServerMembers[2] = "m_callback"
  /\ ServerMembers[3] = "m_pvxs_cache" /\ ServerMembers[4] = "m_shared_pv"
  /\ ServerMembers[5] = "m_mutex" /\ ServerMembers[6] = "m_client_context"
<1> DEFINE p == <<"m_context", "m_callback">>
           q == ServerPVMembers
           r == <<"m_client_context">>
           pq == p \o q
<1>1. /\ p \in Seq(MemberNames) /\ Len(p) = 2 /\ p[1] = "m_context" /\ p[2] = "m_callback"
      /\ q \in Seq(MemberNames) /\ Len(q) = 3
      /\ q[1] = "m_pvxs_cache" /\ q[2] = "m_shared_pv" /\ q[3] = "m_mutex"
      /\ r \in Seq(MemberNames) /\ Len(r) = 1 /\ r[1] = "m_client_context"
  BY DEF MemberNames, LibraryMembers, ServerPVMembers
<1>2. ServerMembers = pq \o r
  BY DEF ServerMembers
<1> HIDE DEF p, q, r
<1>3. /\ pq \in Seq(MemberNames) /\ Len(pq) = 5
      /\ pq[1] = "m_context" /\ pq[2] = "m_callback" /\ pq[3] = "m_pvxs_cache"
      /\ pq[4] = "m_shared_pv" /\ pq[5] = "m_mutex"
  <2>1. /\ pq \in Seq(MemberNames) /\ Len(pq) = Len(p) + Len(q)
        /\ \A i \in 1..Len(p) + Len(q) : pq[i] = IF i <= Len(p) THEN p[i] ELSE q[i - Len(p)]
    BY <1>1, ConcatProperties
  <2> QED
    BY <1>1, <2>1
<1> HIDE DEF pq
<1>4. /\ pq \o r \in Seq(MemberNames) /\ Len(pq \o r) = Len(pq) + Len(r)
      /\ \A i \in 1..Len(pq) + Len(r) : (pq \o r)[i] = IF i <= Len(pq) THEN pq[i] ELSE r[i - Len(pq)]
  BY <1>1, <1>3, ConcatProperties
<1> QED
  BY <1>1, <1>2, <1>3, <1>4

(* Every class declares its members in such an order. *)
LEMMA ClassesAreSafe == \A class : SafeOrder(class, Members(class))
<1> SUFFICES ASSUME NEW class PROVE SafeOrder(class, Members(class))
  OBVIOUS
<1> DEFINE all == Members(class)
<1> HIDE DEF all
<1>0. SafeOrder(class, all)
  <2> USE DEF SafeOrder, CallsBack, CalledBack, SubscribesInBody, StopsInBody, LibraryMembers, Used
  <2>1. CASE class \in {"ChannelAccessPVWrapper", "PVAccessClientPVWrapper"}
    <3>1. /\ all \in Seq(MemberNames) /\ Len(all) = 3
          /\ all[1] = "m_callback" /\ all[2] = "m_cb_mtx" /\ all[3] = "m_pv_impl"
      <4>1. all = WrapperMembers
        BY <2>1 DEF all, Members
      <4> QED
        BY <4>1 DEF MemberNames, WrapperMembers
    <3> QED
      BY <2>1, <3>1
  <2>2. CASE class = "PVAccessServerPVWrapper"
    <3>1. /\ all \in Seq(MemberNames) /\ Len(all) = 4
          /\ all[1] = "m_channel" /\ all[2] = "m_callback" /\ all[3] = "m_cb_mtx"
          /\ all[4] = "m_server"
      BY <2>2 DEF all, Members, MemberNames, ServerWrapperMembers
    <3> QED
      BY <2>2, <3>1
  <2>3. CASE class = "PVAccessLoggingServer"
    <3>1. /\ all \in Seq(MemberNames) /\ Len(all) = 2
          /\ all[1] = "m_log_decorator" /\ all[2] = "m_rpc_server"
      BY <2>3 DEF all, Members, MemberNames, LoggingServerMembers
    <3> QED
      BY <2>3, <3>1
  <2>4. CASE class = "LoggingEPICSRPCClient"
    <3>1. /\ all \in Seq(MemberNames) /\ Len(all) = 2
          /\ all[1] = "m_epics_client" /\ all[2] = "m_log_decorator"
      BY <2>4 DEF all, Members, MemberNames, LoggingClientMembers
    <3> QED
      BY <2>4, <3>1
  <2>5. CASE class = "ChannelAccessPV"
    <3>1. /\ all \in Seq(MemberNames) /\ Len(all) = 3
          /\ all[1] = "m_mon_mtx" /\ all[2] = "m_monitor_cv" /\ all[3] = "m_var_changed_cb"
      BY <2>5 DEF all, Members, MemberNames, ChannelAccessPVMembers
    <3> QED
      BY <2>5, <3>1
  <2>6. CASE class = "PvAccessClientPV"
    <3>1. /\ all \in Seq(MemberNames) /\ Len(all) = 5
          /\ all[1] = "m_context" /\ all[2] = "m_changed_cb" /\ all[3] = "m_mon_mtx"
          /\ all[4] = "m_cv" /\ all[5] = "m_subscription"
      BY <2>6 DEF all, Members, MemberNames, ClientPVMembers
    <3> QED
      BY <2>6, <3>1
  <2>7. CASE class = "PvAccessClient"
    <3>1. /\ all \in Seq(MemberNames) /\ Len(all) = 3
          /\ all[1] = "m_cb" /\ all[2] = "m_context" /\ all[3] = "m_variables"
      BY <2>7 DEF all, Members, MemberNames, ClientMembers
    <3> QED
      BY <2>7, <3>1
  <2>8. CASE class = "PvAccessServer"
    <3>1. /\ all \in Seq(MemberNames) /\ Len(all) = 6
          /\ all[1] = "m_context" /\ all[2] = "m_callback" /\ all[3] = "m_pvxs_cache"
          /\ all[4] = "m_shared_pv" /\ all[5] = "m_mutex" /\ all[6] = "m_client_context"
      BY <2>8, ServerHasMembers DEF all, Members
    <3> QED
      BY <2>8, <3>1
  <2>9. CASE class = "PvAccessRPCServer"
    <3>1. /\ all \in Seq(MemberNames) /\ Len(all) = 3
          /\ all[1] = "m_server" /\ all[2] = "m_handler" /\ all[3] = "m_client_context"
      BY <2>9 DEF all, Members, MemberNames, RPCServerMembers
    <3> QED
      BY <2>9, <3>1
  <2>10. CASE class = "PvAccessRPCClient"
    <3>1. /\ all \in Seq(MemberNames) /\ Len(all) = 2
          /\ all[1] = "m_config" /\ all[2] = "m_context"
      BY <2>10 DEF all, Members, MemberNames, RPCClientMembers
    <3> QED
      BY <2>10, <3>1
  <2>11. CASE class \notin {"ChannelAccessPVWrapper", "PVAccessClientPVWrapper",
                            "PVAccessServerPVWrapper", "PVAccessLoggingServer",
                            "LoggingEPICSRPCClient", "ChannelAccessPV", "PvAccessClientPV",
                            "PvAccessClient", "PvAccessServer", "PvAccessRPCServer",
                            "PvAccessRPCClient"}
    <3>1. /\ all \in Seq(MemberNames) /\ Len(all) = 1
          /\ all[1] = "stack"
      <4>1. all = <<"stack">>
        BY <2>11 DEF all, Members
      <4> QED
        BY <4>1 DEF MemberNames
    <3> QED
      BY <2>11, <3>1
  <2> QED
    BY <2>1, <2>2, <2>3, <2>4, <2>5, <2>6, <2>7, <2>8, <2>9, <2>10, <2>11
<1> QED
  BY <1>0 DEF all

------------------------------------------------------------------------------
(* The first elements of a sequence, and one more.                           *)
LEMMA OneMore ==
  ASSUME NEW E, NEW all \in Seq(E), NEW s \in Seq(E), Len(s) <= Len(all), Len(s) # Len(all),
         \A i \in 1..Len(s) : s[i] = all[i]
  PROVE  /\ Append(s, all[Len(s) + 1]) \in Seq(E)
         /\ Len(Append(s, all[Len(s) + 1])) = Len(s) + 1
         /\ Len(s) + 1 <= Len(all)
         /\ \A i \in 1..Len(s) + 1 : Append(s, all[Len(s) + 1])[i] = all[i]
<1>1. Len(s) \in Nat /\ Len(all) \in Nat /\ Len(s) + 1 \in 1..Len(all)
  OBVIOUS
<1>2. all[Len(s) + 1] \in E
  BY <1>1
<1> DEFINE x == all[Len(s) + 1]
<1>3. x \in E /\ x = all[Len(s) + 1]
  BY <1>2
<1> HIDE DEF x
<1>4. /\ Append(s, x) \in Seq(E) /\ Len(Append(s, x)) = Len(s) + 1
      /\ \A i \in 1..Len(s) + 1 : Append(s, x)[i] = IF i <= Len(s) THEN s[i] ELSE x
  BY <1>3
<1>5. \A i \in 1..Len(s) + 1 : Append(s, x)[i] = all[i]
  <2> SUFFICES ASSUME NEW i \in 1..Len(s) + 1 PROVE Append(s, x)[i] = all[i]
    OBVIOUS
  <2>1. CASE i <= Len(s)
    BY <1>1, <1>4, <2>1
  <2>2. CASE i = Len(s) + 1
    BY <1>1, <1>3, <1>4, <2>2
  <2> QED
    BY <1>1, <2>1, <2>2
<1> QED
  BY <1>1, <1>4, <1>5 DEF x

(* The first elements of a sequence, and one less.                           *)
LEMMA OneLess ==
  ASSUME NEW E, NEW s \in Seq(E), s # <<>>
  PROVE  /\ Front(s) \in Seq(E)
         /\ Len(Front(s)) = Len(s) - 1
         /\ Len(s) \in Nat \ {0}
         /\ \A i \in 1..Len(s) - 1 : Front(s)[i] = s[i]
<1>1. Len(s) \in Nat \ {0}
  BY EmptySeq
<1>2. Front(s) = SubSeq(s, 1, Len(s) - 1)
  BY DEF Front
<1>3. /\ SubSeq(s, 1, Len(s) - 1) \in Seq(E)
      /\ Len(SubSeq(s, 1, Len(s) - 1)) = Len(s) - 1
      /\ \A i \in 1..Len(s) - 1 : SubSeq(s, 1, Len(s) - 1)[i] = s[i]
  <2>1. 1 \in Int /\ Len(s) - 1 \in Int /\ \A i \in 1..Len(s) - 1 : s[i] \in E
    BY <1>1
  <2>2. /\ SubSeq(s, 1, Len(s) - 1) \in Seq(E)
        /\ Len(SubSeq(s, 1, Len(s) - 1)) = IF 1 <= Len(s) - 1 THEN Len(s) - 1 - 1 + 1 ELSE 0
        /\ \A i \in 1..Len(s) - 1 - 1 + 1 : SubSeq(s, 1, Len(s) - 1)[i] = s[1 + i - 1]
    BY <2>1, SubSeqProperties
  <2>3. Len(SubSeq(s, 1, Len(s) - 1)) = Len(s) - 1
    <3>1. \A n \in Nat \ {0} : (IF 1 <= n - 1 THEN n - 1 - 1 + 1 ELSE 0) = n - 1
      OBVIOUS
    <3> QED
      BY <1>1, <2>2, <3>1
  <2>4. ASSUME NEW i \in 1..Len(s) - 1 PROVE SubSeq(s, 1, Len(s) - 1)[i] = s[i]
    <3>1. 1 + i - 1 = i /\ i \in 1..Len(s) - 1 - 1 + 1
      BY <1>1
    <3> QED
      BY <2>2, <3>1
  <2> QED
    BY <2>2, <2>3, <2>4
<1> QED
  BY <1>1, <1>2, <1>3

(* Every variable keeps its type. *)
LEMMA TypesStep == FactoryTypes /\ Prefix /\ [Next]_vars => FactoryTypes'
<1> SUFFICES ASSUME FactoryTypes, Prefix, [Next]_vars PROVE FactoryTypes'
  OBVIOUS
<1> USE DEF FactoryTypes, UserStates
<1>1. ASSUME NEW c \in Calls, Create(c) PROVE FactoryTypes'
  BY <1>1 DEF Create
<1>2. CASE ConstructMember
  <2>1. members' \in Seq(MemberNames)
    BY <1>2, OneMore, ClassesAreSafe DEF ConstructMember, Prefix, SafeOrder, Complete, NextMember
  <2> QED
    BY <1>2, <2>1 DEF ConstructMember
<1>3. CASE Subscribe \/ ConstructionFails \/ Constructed
  BY <1>3 DEF Subscribe, ConstructionFails, Constructed, Return, Fail
<1>4. CASE AddVariableAndStart \/ AddChannel \/ Monitor \/ Initialise
  BY <1>4 DEF AddVariableAndStart, AddChannel, Monitor, Initialise, Body, SubscribeOrFail, Return, Fail
<1>5. CASE OnUpdate \/ SetValue \/ EndUpdate \/ Start \/ AddVariable
  BY <1>5 DEF OnUpdate, SetValue, EndUpdate, Start, AddVariable, SubscribeLater
<1>6. CASE MoveConstruct \/ MoveAssign
  BY <1>6 DEF MoveConstruct, MoveAssign
<1>7. ASSUME NEW h \in DOMAIN handles, DestroyHandle(h) PROVE FactoryTypes'
  BY <1>7 DEF DestroyHandle
<1>8. CASE RemoveChannel \/ Stop
  BY <1>8 DEF RemoveChannel, Stop, DestructorBody
<1>9. CASE DestroyMember
  <2>1. members' \in Seq(MemberNames)
    BY <1>9, OneLess DEF DestroyMember
  <2> QED
    BY <1>9, <2>1 DEF DestroyMember
<1>10. CASE Destroyed
  BY <1>10 DEF Destroyed
<1>11. CASE UNCHANGED vars
  BY <1>11 DEF vars
<1> QED
  BY <1>1, <1>2, <1>3, <1>4, <1>5, <1>6, <1>7, <1>8, <1>9, <1>10, <1>11 DEF Next

(* The members that exist stay the first of the class.                        *)
LEMMA PrefixStep == FactoryTypes /\ LifeInv /\ [Next]_vars => Prefix'
<1> SUFFICES ASSUME FactoryTypes, LifeInv, [Next]_vars PROVE Prefix'
  OBVIOUS
<1>0. Prefix /\ members \in Seq(MemberNames)
  BY DEF LifeInv, FactoryTypes
<1>1. ASSUME NEW c \in Calls, Create(c) PROVE Prefix'
  <2>1. members' = <<>> /\ Len(members') = 0
    BY <1>1 DEF Create, LifeInv
  <2>2. Len(Members(object'.class)) \in Nat
    BY ClassesAreSafe DEF SafeOrder
  <2> QED
    BY <2>1, <2>2 DEF Prefix
<1>2. CASE ConstructMember
  <2>1. object' = object /\ members' = Append(members, NextMember) /\ ~Complete
    BY <1>2 DEF ConstructMember
  <2> QED
    BY <1>0, <2>1, OneMore, ClassesAreSafe DEF Prefix, SafeOrder, Complete, NextMember
<1>3. CASE DestroyMember
  <2>1. object' = object /\ members' = Front(members) /\ members # <<>>
    BY <1>3 DEF DestroyMember
  <2>2. /\ Len(members') = Len(members) - 1
        /\ Len(members) \in Nat \ {0}
        /\ \A i \in 1..Len(members) - 1 : members'[i] = members[i]
    BY <1>0, <2>1, OneLess
  <2>3. Len(Members(object.class)) \in Nat
    BY ClassesAreSafe DEF SafeOrder
  <2> QED
    BY <1>0, <2>1, <2>2, <2>3 DEF Prefix
<1>4. CASE Destroyed
  <2>1. members' = <<>> /\ Len(members') = 0
    BY <1>4 DEF Destroyed
  <2>2. Len(Members(object'.class)) \in Nat
    BY ClassesAreSafe DEF SafeOrder
  <2> QED
    BY <2>1, <2>2 DEF Prefix
<1>5. CASE UNCHANGED <<object, members>>
  BY <1>0, <1>5 DEF Prefix
<1>6. CASE Subscribe \/ ConstructionFails \/ Constructed
  BY <1>5, <1>6 DEF Subscribe, ConstructionFails, Constructed, Return, Fail
<1>7. CASE AddVariableAndStart \/ AddChannel \/ Monitor \/ Initialise
  BY <1>5, <1>7 DEF AddVariableAndStart, AddChannel, Monitor, Initialise, SubscribeOrFail, Return, Fail
<1>8. CASE OnUpdate \/ SetValue \/ EndUpdate \/ Start \/ AddVariable
  BY <1>5, <1>8 DEF OnUpdate, SetValue, EndUpdate, Start, AddVariable, SubscribeLater
<1>9. CASE MoveConstruct \/ MoveAssign \/ \E h \in DOMAIN handles : DestroyHandle(h)
  BY <1>5, <1>9 DEF MoveConstruct, MoveAssign, DestroyHandle
<1>10. CASE RemoveChannel \/ Stop
  BY <1>5, <1>10 DEF RemoveChannel, Stop, DestructorBody
<1>11. CASE UNCHANGED vars
  BY <1>5, <1>11 DEF vars
<1> QED
  BY <1>1, <1>2, <1>3, <1>4, <1>6, <1>7, <1>8, <1>9, <1>10, <1>11 DEF Next

(* The user's thread and the members stay in agreement.                       *)
LEMMA LifeStep == FactoryTypes /\ LifeInv /\ [Next]_vars => LifeInv'
<1> SUFFICES ASSUME FactoryTypes, LifeInv, [Next]_vars PROVE LifeInv'
  OBVIOUS
<1>0. Prefix'
  BY PrefixStep
<1> USE DEF LifeInv, FactoryTypes, UserStates, Complete
<1>1. ASSUME NEW c \in Calls, Create(c) PROVE LifeInv'
  BY <1>0, <1>1 DEF Create
<1>2. CASE Subscribe \/ ConstructMember \/ ConstructionFails
  BY <1>0, <1>2 DEF Subscribe, ConstructMember, ConstructionFails, Fail
<1>3. CASE Constructed
  BY <1>0, <1>3 DEF Constructed, Return
<1>4. CASE AddVariableAndStart \/ AddChannel \/ Monitor \/ Initialise
  BY <1>0, <1>4 DEF AddVariableAndStart, AddChannel, Monitor, Initialise, Body, SubscribeOrFail,
                    Return, Fail
<1>5. CASE OnUpdate \/ SetValue \/ EndUpdate \/ Start \/ AddVariable
  BY <1>0, <1>5 DEF OnUpdate, SetValue, EndUpdate, Start, AddVariable, SubscribeLater
<1>6. CASE MoveConstruct \/ MoveAssign
  BY <1>0, <1>6 DEF MoveConstruct, MoveAssign
<1>7. ASSUME NEW h \in DOMAIN handles, DestroyHandle(h) PROVE LifeInv'
  BY <1>0, <1>7 DEF DestroyHandle
<1>8. CASE RemoveChannel \/ Stop
  BY <1>0, <1>8 DEF RemoveChannel, Stop, DestructorBody
<1>9. CASE DestroyMember
  BY <1>0, <1>9 DEF DestroyMember
<1>10. CASE Destroyed
  BY <1>0, <1>10 DEF Destroyed
<1>11. CASE UNCHANGED vars
  BY <1>0, <1>11 DEF vars
<1> QED
  BY <1>1, <1>2, <1>3, <1>4, <1>5, <1>6, <1>7, <1>8, <1>9, <1>10, <1>11 DEF Next

(* A callback is possible only while what it uses exists. *)
LEMMA ServedStep == FactoryTypes /\ LifeInv /\ ServedInv /\ [Next]_vars => ServedInv'
<1> SUFFICES ASSUME FactoryTypes, LifeInv, ServedInv, [Next]_vars PROVE ServedInv'
  OBVIOUS
<1> DEFINE all == Members(object.class)
<1>0. SafeOrder(object.class, all) /\ Len(members) \in Nat /\ Len(members) <= Len(all)
  BY ClassesAreSafe DEF FactoryTypes, LifeInv, Prefix
<1>1. ASSUME NEW c \in Calls, Create(c) PROVE ServedInv'
  BY <1>1 DEF Create, ServedInv
<1>2. CASE Subscribe
  <2>1. Len(members) + 1 \in 1..Len(all)
    BY <1>0, <1>2 DEF Subscribe, Complete, SafeOrder
  <2>2. object.class \in CalledBack
    BY <1>0, <1>2, <2>1 DEF Subscribe, NextMember, SafeOrder
  <2> QED
    BY <1>2, <2>2 DEF Subscribe, ServedInv, Complete, NextMember
<1>3. CASE ConstructMember
  <2>1. CASE served
    <3>1. CallsBack(object.class, all[Len(members) + 1]) /\ ~Complete
      BY <1>3, <2>1 DEF ConstructMember, ServedInv, NextMember
    <3>2. Len(members) + 1 = Len(all)
      BY <1>0, <3>1 DEF SafeOrder, Complete
    <3>3. Len(members') = Len(members) + 1
      BY <1>3 DEF ConstructMember, FactoryTypes
    <3>4. Complete'
      BY <1>3, <3>2, <3>3 DEF ConstructMember, Complete
    <3> QED
      BY <1>3, <2>1, <3>4 DEF ConstructMember, ServedInv
  <2>2. CASE ~served
    BY <1>3, <2>2 DEF ConstructMember, ServedInv
  <2> QED
    BY <2>1, <2>2
<1>4. CASE ConstructionFails
  BY <1>4 DEF ConstructionFails, Fail, ServedInv
<1>5. CASE Constructed
  BY <1>5 DEF Constructed, Return, ServedInv, Complete
<1>6. CASE AddVariableAndStart \/ AddChannel \/ Monitor \/ Initialise
  BY <1>6 DEF AddVariableAndStart, AddChannel, Monitor, Initialise, Body, SubscribeOrFail,
              Return, Fail, ServedInv, Complete, CalledBack, SubscribesInBody
<1>7. CASE OnUpdate \/ SetValue \/ EndUpdate \/ Start \/ AddVariable
  BY <1>7 DEF OnUpdate, SetValue, EndUpdate, Start, AddVariable, SubscribeLater, LifeInv,
              ServedInv, Complete, CalledBack, NextMember
<1>8. CASE MoveConstruct \/ MoveAssign
  BY <1>8 DEF MoveConstruct, MoveAssign, ServedInv, Complete, NextMember
<1>9. ASSUME NEW h \in DOMAIN handles, DestroyHandle(h) PROVE ServedInv'
  BY <1>9 DEF DestroyHandle, ServedInv, Complete, NextMember
<1>10. CASE RemoveChannel \/ Stop
  BY <1>10 DEF RemoveChannel, Stop, DestructorBody, ServedInv
<1>11. CASE DestroyMember
  <2>1. CASE served
    <3>1. Complete /\ object.class \in CalledBack \ StopsInBody
      BY <1>11, <2>1 DEF DestroyMember, ServedInv
    <3>2. Last(members) = all[Len(all)]
      BY <1>0, <3>1 DEF Last, Complete, LifeInv, Prefix, SafeOrder
    <3>3. Last(members) \in LibraryMembers
      BY <1>0, <3>1, <3>2 DEF SafeOrder
    <3> QED
      BY <1>11, <3>3 DEF DestroyMember, ServedInv
  <2>2. CASE ~served
    BY <1>11, <2>2 DEF DestroyMember, ServedInv, FactoryTypes
  <2> QED
    BY <2>1, <2>2
<1>12. CASE Destroyed
  <2>1. ~served
    BY <1>0, <1>12 DEF Destroyed, ServedInv, Complete, SafeOrder
  <2> QED
    BY <1>12, <2>1 DEF Destroyed, ServedInv
<1>13. CASE UNCHANGED vars
  BY <1>13 DEF vars, ServedInv, Complete, NextMember
<1> QED
  BY <1>1, <1>2, <1>3, <1>4, <1>5, <1>6, <1>7, <1>8, <1>9, <1>10, <1>11, <1>12, <1>13 DEF Next

(* The object stays with one handle as long as it is used. *)
LEMMA HandleStep == FactoryTypes /\ LifeInv /\ HandleInv /\ [Next]_vars => HandleInv'
<1> SUFFICES ASSUME FactoryTypes, LifeInv, HandleInv, [Next]_vars PROVE HandleInv'
  OBVIOUS
<1> USE DEF FactoryTypes, HandleInv
<1>1. ASSUME NEW c \in Calls, Create(c) PROVE HandleInv'
  BY <1>1 DEF Create
<1>2. CASE Subscribe \/ ConstructMember \/ ConstructionFails
  BY <1>2 DEF Subscribe, ConstructMember, ConstructionFails, Fail
<1>3. CASE Constructed
  BY <1>3 DEF Constructed, Return
<1>4. CASE AddVariableAndStart \/ AddChannel \/ Monitor \/ Initialise
  BY <1>4 DEF AddVariableAndStart, AddChannel, Monitor, Initialise, Body, SubscribeOrFail, Return, Fail
<1>5. CASE OnUpdate \/ SetValue \/ EndUpdate \/ Start \/ AddVariable
  BY <1>5 DEF OnUpdate, SetValue, EndUpdate, Start, AddVariable, SubscribeLater, LifeInv
<1>6. CASE MoveConstruct
  BY <1>6 DEF MoveConstruct
<1>7. CASE MoveAssign
  BY <1>7 DEF MoveAssign
<1>8. ASSUME NEW h \in DOMAIN handles, DestroyHandle(h) PROVE HandleInv'
  BY <1>8 DEF DestroyHandle
<1>9. CASE RemoveChannel \/ Stop
  BY <1>9 DEF RemoveChannel, Stop, DestructorBody
<1>10. CASE DestroyMember \/ Destroyed
  BY <1>10 DEF DestroyMember, Destroyed
<1>11. CASE UNCHANGED vars
  BY <1>11 DEF vars
<1> QED
  BY <1>1, <1>2, <1>3, <1>4, <1>5, <1>6, <1>7, <1>8, <1>9, <1>10, <1>11 DEF Next

------------------------------------------------------------------------------
(* What the constructor of the object still refuses.                         *)
Constructible(o) == o.class = "PVAccessServerPVWrapper" => o.value.type = "struct"

(* A process variable is made of what the documentation allows, and is on the *)
(* channel that was asked for.                                               *)
LEMMA ProcessVariables ==
  ASSUME NEW d
  PROVE  LET o == CreateProcessVariable(d)
             documented == Documented("CreateProcessVariable", d)
         IN /\ o = Invalid => ~documented
            /\ o # Invalid =>
                 /\ documented <=> Constructible(o)
                 /\ o.channel = d["ChannelName"].value
                 /\ o.class \notin ServerClasses \cup ClientClasses
<1> DEFINE o == CreateProcessVariable(d)
           documented == Documented("CreateProcessVariable", d)
           class == d["Class"].value
<1> USE DEF ValidateConfigurationField, HasField
<1>0. documented <=>
        \/ OfClass(d, "ChannelAccessClient") /\ Text(d, "VarType") /\ d["VarType"].value # "no type"
        \/ OfClass(d, "PvAccessClient")
        \/ OfClass(d, "PvAccessServer") /\ "VarValue" \in DOMAIN d /\ d["VarValue"].type = "struct"
  BY DEF Documented, FromConfig
<1>1. CASE ~ValidateConfigurationField(d, "Class", "string")
  BY <1>0, <1>1 DEF CreateProcessVariable, OfClass, Text
<1>2. CASE ValidateConfigurationField(d, "Class", "string") /\ class = "ChannelAccessClient"
  <2>1. o = CreateChannelAccessClientVar(d)
    BY <1>2 DEF CreateProcessVariable
  <2>2. documented <=> Text(d, "ChannelName") /\ Text(d, "VarType") /\ d["VarType"].value # "no type"
    BY <1>0, <1>2 DEF OfClass, Text
  <2>3. CASE documented
    <3>1. o = [class |-> "ChannelAccessPVWrapper", channel |-> d["ChannelName"].value,
               type |-> d["VarType"].value]
      BY <2>1, <2>2, <2>3 DEF CreateChannelAccessClientVar, Text
    <3>2. o.class = "ChannelAccessPVWrapper" /\ o.channel = d["ChannelName"].value
      BY <3>1
    <3> QED
      BY <2>3, <3>2 DEF Invalid, Constructible, ServerClasses, ClientClasses
  <2>4. CASE ~documented
    BY <2>1, <2>2, <2>4 DEF CreateChannelAccessClientVar, Text
  <2> QED
    BY <2>3, <2>4
<1>3. CASE ValidateConfigurationField(d, "Class", "string") /\ class = "PvAccessClient"
  <2>1. o = CreatePvAccessClientVar(d)
    BY <1>3 DEF CreateProcessVariable
  <2> QED
    BY <1>0, <1>3, <2>1 DEF CreatePvAccessClientVar, OfClass, Text, Invalid, Constructible,
                            ServerClasses, ClientClasses
<1>4. CASE ValidateConfigurationField(d, "Class", "string") /\ class = "PvAccessServer"
  <2>1. o = CreatePvAccessServerVar(d)
    BY <1>4 DEF CreateProcessVariable
  <2> QED
    BY <1>0, <1>4, <2>1 DEF CreatePvAccessServerVar, OfClass, Text, Invalid, Constructible,
                            ServerClasses, ClientClasses
<1>5. CASE /\ ValidateConfigurationField(d, "Class", "string")
           /\ class \notin {"ChannelAccessClient", "PvAccessClient", "PvAccessServer"}
  BY <1>0, <1>5 DEF CreateProcessVariable, OfClass, Text
<1> QED
  BY <1>1, <1>2, <1>3, <1>4, <1>5

(* An RPC client is made of what the documentation allows, with its defaults. *)
LEMMA RPCClients ==
  ASSUME NEW d
  PROVE  LET o == CreateRPCClient(d)
             documented == Documented("CreateRPCClient", d)
         IN /\ o = Invalid => ~documented
            /\ o # Invalid =>
                 /\ documented
                 /\ o.class = "RPCClientStack"
                 /\ o.config.timeout = TimeoutOf(d)
                 /\ o.encoding = IF "Encoding" \in DOMAIN d THEN d["Encoding"].value ELSE "Base64"
<1> DEFINE o == CreateRPCClient(d)
           documented == Documented("CreateRPCClient", d)
<1>1. documented <=> ValidRPCClientConfig(d) /\ ParsePayloadEncoding(d) \in {"None", "Base64"}
  BY DEF Documented, FromConfig, ValidRPCClientConfig, ParsePayloadEncoding, Text, ValidateConfigurationField,
         HasField
<1>2. ParsePvAccessRPCClientConfig(d).timeout = TimeoutOf(d)
  BY DEF ParsePvAccessRPCClientConfig, GetDefaultRPCClientConfig, TimeoutOf, HasField
<1>3. CASE documented
  <2>1. o = [class |-> "RPCClientStack", config |-> ParsePvAccessRPCClientConfig(d),
             encoding |-> ParsePayloadEncoding(d)]
    BY <1>1, <1>3 DEF CreateRPCClient
  <2> QED
    BY <1>2, <1>3, <2>1 DEF ParsePayloadEncoding, HasField, Invalid
<1>4. CASE ~documented
  BY <1>1, <1>4 DEF CreateRPCClient
<1> QED
  BY <1>3, <1>4

(* The network a public class is to be on.                                   *)
NetworkOf(c) == IF c.network = "none" THEN "environment" ELSE c.network

(* What is left of MadeAsDocumented for an object that exists.               *)
AsAsked(c, o) ==
  LET d == c.definition IN
  /\ c.function = "CreateProcessVariable" => o.channel = d["ChannelName"].value
  /\ c.function \in {"CreateRPCClient", "PV_ACCESS_RPC_CLIENT"} => o.config.timeout = TimeoutOf(d)
  /\ c.function = "CreateRPCClient" =>
       o.encoding = IF "Encoding" \in DOMAIN d THEN d["Encoding"].value ELSE "Base64"
  /\ o.class \in ServerClasses \cup ClientClasses => o.network = NetworkOf(c)

(* A call is refused if the documentation does not allow it, and makes what   *)
(* was asked for otherwise.                                                  *)
LEMMA CallsMakeAsAsked ==
  ASSUME NEW c \in Calls
  PROVE  LET o == Made(c.function, c.definition, c.network)
             documented == Documented(c.function, c.definition)
         IN /\ o = Invalid => ~documented
            /\ o # Invalid => (documented <=> Constructible(o)) /\ AsAsked(c, o)
<1> DEFINE d == c.definition
           o == Made(c.function, d, c.network)
           documented == Documented(c.function, d)
<1>1. CASE c.function = "CreateProcessVariable"
  <2>1. o = CreateProcessVariable(d)
    BY <1>1 DEF Made, Server, FromConfig, ServerClasses, ClientClasses
  <2> QED
    BY <1>1, <2>1, ProcessVariables DEF AsAsked
<1>2. CASE c.function = "CreateRPCClient"
  <2>1. o = CreateRPCClient(d)
    BY <1>2 DEF Made, Server, FromConfig, ServerClasses, ClientClasses
  <2> QED
    BY <1>2, <2>1, RPCClients DEF AsAsked, Constructible, ServerClasses, ClientClasses
<1>3. CASE c.function = "CreateRPCServer"
  <2>1. o = CreateRPCServer(d)
    BY <1>3 DEF Made, Server, FromConfig, ServerClasses, ClientClasses
  <2>2. documented <=> Text(d, "ServiceName")
    BY <1>3 DEF Documented, FromConfig
  <2> QED
    BY <1>3, <2>1, <2>2 DEF CreateRPCServer, Text, ValidateConfigurationField, HasField, Invalid,
       AsAsked, Constructible, ServerClasses, ClientClasses
<1>4. CASE c.function \in FromConfig
  <2>1. documented /\ c.network = "none"
    BY <1>4 DEF Calls, Documented, FromConfig, Text, ValidateConfigurationField, HasField,
                ServerClasses, ClientClasses
  <2>2. CASE c.function = "CreateLoggingEPICSRPCServer"
    <3>1. o = CreateLoggingEPICSRPCServer(d)
      BY <2>2 DEF Made, Server, FromConfig, ServerClasses, ClientClasses
    <3> QED
      BY <2>1, <2>2, <3>1 DEF CreateLoggingEPICSRPCServer, Invalid, AsAsked, Constructible,
         ServerClasses, ClientClasses
  <2>3. CASE c.function = "CreateLoggingEPICSRPCClient"
    <3>1. o = CreateLoggingEPICSRPCClient(d)
      BY <2>3 DEF Made, Server, FromConfig, ServerClasses, ClientClasses
    <3> QED
      BY <2>1, <2>3, <3>1 DEF CreateLoggingEPICSRPCClient, Invalid, AsAsked, Constructible,
         ServerClasses, ClientClasses
  <2>4. CASE c.function = "PV_ACCESS_RPC_CLIENT"
    <3>1. o = PV_ACCESS_RPC_CLIENT(d)
      BY <2>4 DEF Made, Server, FromConfig, ServerClasses, ClientClasses
    <3>2. o.class = "PvAccessRPCClient" /\ o.network = "environment" /\ o.config.timeout = TimeoutOf(d)
      BY <3>1 DEF PV_ACCESS_RPC_CLIENT, PvAccessRPCClientConfigFactoryFunction,
         GetDefaultRPCClientConfig, TimeoutOf, HasField
    <3> QED
      BY <2>1, <2>4, <3>2 DEF Invalid, AsAsked, NetworkOf, Constructible
  <2>5. CASE c.function = "PV_ACCESS_RPC_SERVER"
    <3>1. o = PV_ACCESS_RPC_SERVER(d)
      BY <2>5 DEF Made, Server, FromConfig, ServerClasses, ClientClasses
    <3> QED
      BY <2>1, <2>5, <3>1 DEF PV_ACCESS_RPC_SERVER, Invalid, AsAsked, NetworkOf, Constructible
  <2> QED
    BY <1>4, <2>2, <2>3, <2>4, <2>5 DEF FromConfig
<1>5. CASE c.function \in ServerClasses
  <2>1. o = [class |-> c.function,
             network |-> IF c.network = "isolated" THEN CreateIsolatedServer ELSE CreateServerFromEnv]
    BY <1>5 DEF Made, Server, FromConfig, ServerClasses, ClientClasses
  <2>2. c.network \in {"environment", "isolated"}
    BY <1>5 DEF Calls, Functions, FromConfig, ServerClasses, ClientClasses
  <2>3. documented
    BY <1>5 DEF Documented, FromConfig, ServerClasses
  <2>4. o.class = c.function /\ o.network = c.network
    BY <2>1, <2>2 DEF CreateIsolatedServer, CreateServerFromEnv
  <2> QED
    BY <1>5, <2>2, <2>3, <2>4 DEF ServerClasses, Invalid, AsAsked, NetworkOf, Constructible
<1>6. CASE c.function \in ClientClasses
  <2>1. o = IF c.network = "none" THEN Client(c.function, GetSharedClientContext)
            ELSE CreateClient(c.function, c.network)
    BY <1>6 DEF Made, ServerClasses, ClientClasses
  <2>2. o.class = c.function /\ o.network = NetworkOf(c)
    BY <2>1 DEF Client, CreateClient, GetClientContext, GetSharedClientContext, NetworkOf
  <2>3. documented
    BY <1>6 DEF Documented, FromConfig, ClientClasses
  <2> QED
    BY <1>6, <2>2, <2>3 DEF ClientClasses, Invalid, AsAsked, Constructible
<1>7. CASE c.function = "ChannelAccessPV"
  <2>1. o = [class |-> "ChannelAccessPV"]
    BY <1>7 DEF Made, ServerClasses, ClientClasses
  <2>2. documented
    BY <1>7 DEF Documented, FromConfig
  <2> QED
    BY <1>7, <2>1, <2>2 DEF Invalid, AsAsked, Constructible, ServerClasses, ClientClasses
<1> QED
  BY <1>1, <1>2, <1>3, <1>4, <1>5, <1>6, <1>7 DEF Calls, Functions

(* The object stays what was asked for. *)
LEMMA MadeStep == FactoryTypes /\ LifeInv /\ HandleInv /\ MadeInv /\ [Next]_vars => MadeInv'
<1> SUFFICES ASSUME FactoryTypes, LifeInv, HandleInv, MadeInv, [Next]_vars PROVE MadeInv'
  OBVIOUS
<1>1. ASSUME NEW c \in Calls, Create(c) PROVE MadeInv'
  <2>1. object' = Invalid => ~Documented(c.function, c.definition)
    BY <1>1, CallsMakeAsAsked DEF Create
  <2> QED
    BY <1>1, <2>1 DEF Create, MadeInv
<1>2. CASE Subscribe \/ ConstructMember \/ ConstructionFails
  BY <1>2 DEF Subscribe, ConstructMember, ConstructionFails, Fail, MadeInv
<1>3. ASSUME user = "constructing"
      PROVE  Documented(call.function, call.definition) <=> Constructible(object)
  BY <1>3, CallsMakeAsAsked DEF MadeInv, FactoryTypes
<1>4. CASE Constructed
  <2>1. Constructible(object)
    BY <1>4 DEF Constructed, SubscribesInBody, Constructible
  <2> QED
    BY <1>3, <1>4, <2>1 DEF Constructed, Return, MadeInv
<1>5. CASE AddVariableAndStart
  <2>1. object.value.type = "struct" <=> Constructible(object)
    BY <1>5 DEF AddVariableAndStart, Body, Constructible
  <2> QED
    BY <1>3, <1>5, <2>1 DEF AddVariableAndStart, Body, Return, Fail, MadeInv
<1>6. CASE AddChannel \/ Monitor \/ Initialise
  <2>1. Constructible(object)
    BY <1>6 DEF AddChannel, Monitor, Initialise, Body, Constructible
  <2> QED
    BY <1>3, <1>6, <2>1 DEF AddChannel, Monitor, Initialise, Body, SubscribeOrFail, Return, Fail, MadeInv
<1>7. CASE OnUpdate \/ SetValue \/ EndUpdate \/ Start \/ AddVariable
  BY <1>7 DEF OnUpdate, SetValue, EndUpdate, Start, AddVariable, SubscribeLater, MadeInv, LifeInv
<1>8. CASE MoveConstruct \/ MoveAssign
  BY <1>8 DEF MoveConstruct, MoveAssign, MadeInv
<1>9. ASSUME NEW h \in DOMAIN handles, DestroyHandle(h) PROVE MadeInv'
  BY <1>9 DEF DestroyHandle, MadeInv, HandleInv, FactoryTypes
<1>10. CASE RemoveChannel \/ Stop
  BY <1>10 DEF RemoveChannel, Stop, DestructorBody, MadeInv
<1>11. CASE DestroyMember \/ Destroyed
  BY <1>11 DEF DestroyMember, Destroyed, MadeInv
<1>12. CASE UNCHANGED vars
  BY <1>12 DEF vars, MadeInv
<1> QED
  BY <1>1, <1>2, <1>4, <1>5, <1>6, <1>7, <1>8, <1>9, <1>10, <1>11, <1>12 DEF Next

------------------------------------------------------------------------------
(* The inductive invariant. *)
THEOREM FactoryInductive == Spec => []FactoryInv
<1>1. Init => FactoryInv
  <2> SUFFICES ASSUME Init PROVE FactoryInv
    OBVIOUS
  <2> USE DEF Init, Idle
  <2>1. FactoryTypes
    BY EmptySeq DEF FactoryTypes, UserStates
  <2>2. Prefix
    <3>1. Len(Members(object.class)) \in Nat
      BY ClassesAreSafe DEF SafeOrder
    <3> QED
      BY <3>1 DEF Prefix
  <2>3. LifeInv
    BY <2>2 DEF LifeInv
  <2>4. ServedInv
    BY DEF ServedInv
  <2>5. HandleInv
    BY DEF HandleInv
  <2>6. MadeInv
    BY DEF MadeInv
  <2> QED
    BY <2>1, <2>3, <2>4, <2>5, <2>6 DEF FactoryInv
<1>2. FactoryInv /\ [Next]_vars => FactoryInv'
  <2>1. FactoryInv => Prefix
    BY DEF FactoryInv, LifeInv
  <2> QED
    BY <2>1, TypesStep, LifeStep, ServedStep, HandleStep, MadeStep DEF FactoryInv
<1> QED
  BY <1>1, <1>2, PTL DEF Spec

(* No callback ever finds a member missing that it uses, nobody is called back *)
(* after a construction that failed or the destructor, and the object lives as *)
(* long as the handle that has it: for objects of every class and definition.  *)
THEOREM CallbacksFindTheirMembers == Spec => []CallbackOnLiveMembers
<1>1. FactoryInv => CallbackOnLiveMembers
  <2> SUFFICES ASSUME FactoryInv PROVE CallbackOnLiveMembers
    OBVIOUS
  <2> USE DEF FactoryInv
  <2> DEFINE all == Members(object.class)
  <2>1. SafeOrder(object.class, all) /\ Len(members) \in Nat /\ Len(members) <= Len(all)
    BY ClassesAreSafe DEF FactoryTypes, LifeInv, Prefix
  <2>2. ASSUME updating # "nobody", NEW m \in Used(object.class) PROVE m \in ToSet(members)
    <3>1. Complete \/ CallsBack(object.class, all[Len(members) + 1])
      BY <2>2 DEF FactoryTypes, LifeInv, ServedInv, NextMember
    <3>2. PICK i \in 1..Len(members) : all[i] = m
      <4>1. CASE Complete
        BY <2>1, <2>2, <4>1 DEF Complete, SafeOrder
      <4>2. CASE ~Complete
        <5>1. Len(members) + 1 \in 1..Len(all)
          BY <2>1, <4>2 DEF Complete, SafeOrder
        <5>2. \E i \in 1..Len(members) + 1 - 1 : all[i] = m
          BY <2>1, <2>2, <3>1, <4>2, <5>1 DEF SafeOrder
        <5> QED
          BY <2>1, <5>2
      <4> QED
        BY <4>1, <4>2
    <3>3. members[i] = m
      BY <3>2 DEF LifeInv, Prefix
    <3> QED
      BY <3>2, <3>3 DEF ToSet, FactoryTypes
  <2>3. user = "idle" => ~served /\ members = <<>> /\ updating = "nobody"
    BY DEF FactoryTypes, LifeInv, ServedInv
  <2>4. user \in {"using", "setting"} <=> \E h \in DOMAIN handles : handles[h] = "object"
    BY DEF FactoryTypes, HandleInv
  <2> QED
    BY <2>2, <2>3, <2>4 DEF CallbackOnLiveMembers
<1> QED
  BY <1>1, FactoryInductive, PTL

(* A definition is refused if and only if the documentation does not allow it, *)
(* and what is made is what was asked for, in its network: for every definition. *)
THEOREM DocumentationIsKept == Spec => []MadeAsDocumented
<1>1. FactoryInv => MadeAsDocumented
  <2> SUFFICES ASSUME FactoryInv PROVE MadeAsDocumented
    OBVIOUS
  <2>1. user # "idle" => AsAsked(call, object)
    BY CallsMakeAsAsked DEF FactoryInv, FactoryTypes, MadeInv
  <2> QED
    BY <2>1 DEF FactoryInv, MadeInv, MadeAsDocumented, AsAsked, NetworkOf
<1> QED
  BY <1>1, FactoryInductive, PTL
==============================================================================
