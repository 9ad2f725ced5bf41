------------------------- MODULE NamedVariablesProofs -------------------------
(***************************************************************************)
(* What NamedVariables promises, for any set of names.                      *)
(*                                                                         *)
(* The invariants are not inductive: that a callback is of a variable that   *)
(* lives depends on what may be called back, which follows the map through   *)
(* constructions and destructions (Follows), on the server being stopped     *)
(* before its variables go (Published), and on the order of the destructor   *)
(* (Ending).  What Start returns depends on how far it has come (Starting).   *)
(***************************************************************************)
EXTENDS NamedVariables, TLAPS

IsServer == owner = "PvAccessServer"

(* What may be called back is what is in the map, and the PV that is under    *)
(* construction.                                                             *)
Follows ==
  /\ user = "adding" => ~IsServer /\ target \notin present /\ target \in Names
  /\ ~IsServer => subscribed = IF user = "adding" THEN present \cup {target} ELSE present
  /\ calling # None /\ ~IsServer => calling \in subscribed

(* Only a server publishes, what is in its map until it is destroyed; it is    *)
(* called back for what it has published while it runs.                      *)
Published ==
  /\ ~IsServer => ~running /\ open = {}
  /\ user = "removing" => ~IsServer
  /\ user \notin {"destroying", "gone"} \/ running => open \subseteq present
  /\ calling # None /\ IsServer => running /\ calling \in open

(* The destructor has still to visit what is in the map; the callback goes     *)
(* when nothing is left.                                                      *)
Ending ==
  /\ user = "destroying" => todo = present
  /\ user = "gone" => todo = {} /\ present = {} /\ ~running
  /\ ~alive <=> user = "gone"

(* Start has published what it has visited; the first one finds nothing        *)
(* published.                                                                *)
Starting ==
  /\ user = "starting" => IsServer /\ todo \subseteq present /\ present \ todo \subseteq open
  /\ user = "starting" => starts # 0
  /\ starts = 0 => open = {}
  /\ user = "starting" /\ starts = 1 => open \cap todo = {}
  /\ user # "idle" => answer = "none"

IInv == TypeOK /\ Follows /\ Published /\ Ending /\ Starting /\ StartTells

------------------------------------------------------------------------------
USE NamesAssumption

(* Start counts to two. *)
LEMMA StartsCount ==
  \A s \in 0..2 : LET t == IF s = 2 THEN 2 ELSE s + 1
                 IN  /\ t \in 0..2 /\ t # 0 /\ (s # 0 => t # 1)
                     /\ s = 0 \/ s = 1 \/ s = 2
  BY SMT

(* TypeOK is inductive. *)
LEMMA TypeStep == TypeOK /\ Follows /\ [Next]_vars => TypeOK'
<1> SUFFICES ASSUME TypeOK, Follows, [Next]_vars PROVE TypeOK'
  OBVIOUS
<1> USE DEF vars, callVars, serverVars, TypeOK, Owners, Follows
<1>1. ASSUME NEW n \in Names, OnVariableUpdated(n) PROVE TypeOK'
  BY <1>1 DEF OnVariableUpdated, CallBack
<1>2. ASSUME NEW n \in Names, OnVariableChanged(n) PROVE TypeOK'
  BY <1>2 DEF OnVariableChanged, CallBack
<1>3. ASSUME NEW n \in Names, OnServerVariableChanged(n) PROVE TypeOK'
  BY <1>3 DEF OnServerVariableChanged, CallBack
<1>4. CASE CallbackReturns
  BY <1>4 DEF CallbackReturns
<1>5. ASSUME NEW n \in Names, ConstructPV(n) PROVE TypeOK'
  BY <1>5 DEF ConstructPV, Enter
<1>6. ASSUME NEW n \in Names, AddExisting(n) PROVE TypeOK'
  BY <1>6 DEF AddExisting, Finish, Refusal
<1>7. CASE ConstructionFails
  BY <1>7 DEF ConstructionFails, Finish, Refusal
<1>8. CASE Emplace
  BY <1>8 DEF Emplace, Finish
<1>9. ASSUME NEW n \in Names, RemoveVariable(n) PROVE TypeOK'
  BY <1>9 DEF RemoveVariable, Enter, Finish
<1>10. CASE Erase
  BY <1>10 DEF Erase, Finish, DestroyPV
<1>11. ASSUME NEW n \in Names, Ask(n) PROVE TypeOK'
  BY <1>11 DEF Ask, Finish, AskChannelAccess, AskPvAccess, AskServer
<1>12. ASSUME NEW n \in Names, NEW value \in {"struct", "empty", "scalar"},
             AddServerVariable(n, value)
      PROVE TypeOK'
  BY <1>12 DEF AddServerVariable, Finish
<1>13. CASE Start
  <2>1. starts' \in 0..2 /\ starts' # 0 /\ (starts # 0 => starts' # 1)
    BY <1>13, StartsCount DEF Start
  <2> QED
    BY <1>13, <2>1 DEF Start, Enter
<1>14. ASSUME NEW n \in Names, AddToServer(n) PROVE TypeOK'
  BY <1>14 DEF AddToServer, Finish, First
<1>15. CASE StartServer
  BY <1>15 DEF StartServer, Finish
<1>16. CASE Destroy
  BY <1>16 DEF Destroy, Enter
<1>17. CASE Stop
  BY <1>17 DEF Stop
<1>18. ASSUME NEW n \in Names, DestroyVariable(n) PROVE TypeOK'
  BY <1>18 DEF DestroyVariable, DestroyPV
<1>19. CASE DestroyCallback
  BY <1>19 DEF DestroyCallback
<1>20. CASE UNCHANGED vars
  BY <1>20
<1> QED
  BY <1>1, <1>2, <1>3, <1>4, <1>5, <1>6, <1>7, <1>8, <1>9, <1>10, <1>11, <1>12, <1>13, <1>14, <1>15, <1>16, <1>17, <1>18, <1>19, <1>20 DEF Next, Library, User

(* The map and what may be called back stay together. *)
LEMMA FollowsStep == TypeOK /\ Follows /\ [Next]_vars => Follows'
<1> SUFFICES ASSUME TypeOK, Follows, [Next]_vars PROVE Follows'
  OBVIOUS
<1> USE DEF vars, callVars, serverVars, TypeOK, Owners, Follows, IsServer
<1>1. ASSUME NEW n \in Names, OnVariableUpdated(n) PROVE Follows'
  BY <1>1 DEF OnVariableUpdated, CallBack
<1>2. ASSUME NEW n \in Names, OnVariableChanged(n) PROVE Follows'
  BY <1>2 DEF OnVariableChanged, CallBack
<1>3. ASSUME NEW n \in Names, OnServerVariableChanged(n) PROVE Follows'
  BY <1>3 DEF OnServerVariableChanged, CallBack
<1>4. CASE CallbackReturns
  BY <1>4 DEF CallbackReturns
<1>5. ASSUME NEW n \in Names, ConstructPV(n) PROVE Follows'
  BY <1>5 DEF ConstructPV, Enter
<1>6. ASSUME NEW n \in Names, AddExisting(n) PROVE Follows'
  BY <1>6 DEF AddExisting, Finish, Refusal
<1>7. CASE ConstructionFails
  BY <1>7 DEF ConstructionFails, Finish, Refusal
<1>8. CASE Emplace
  BY <1>8 DEF Emplace, Finish
<1>9. ASSUME NEW n \in Names, RemoveVariable(n) PROVE Follows'
  BY <1>9 DEF RemoveVariable, Enter, Finish
<1>10. CASE Erase
  BY <1>10 DEF Erase, Finish, DestroyPV
<1>11. ASSUME NEW n \in Names, Ask(n) PROVE Follows'
  BY <1>11 DEF Ask, Finish, AskChannelAccess, AskPvAccess, AskServer
<1>12. ASSUME NEW n \in Names, NEW value \in {"struct", "empty", "scalar"},
             AddServerVariable(n, value)
      PROVE Follows'
  BY <1>12 DEF AddServerVariable, Finish
<1>13. CASE Start
  <2>1. starts' \in 0..2 /\ starts' # 0 /\ (starts # 0 => starts' # 1)
    BY <1>13, StartsCount DEF Start
  <2> QED
    BY <1>13, <2>1 DEF Start, Enter
<1>14. ASSUME NEW n \in Names, AddToServer(n) PROVE Follows'
  BY <1>14 DEF AddToServer, Finish, First
<1>15. CASE StartServer
  BY <1>15 DEF StartServer, Finish
<1>16. CASE Destroy
  BY <1>16 DEF Destroy, Enter
<1>17. CASE Stop
  BY <1>17 DEF Stop
<1>18. ASSUME NEW n \in Names, DestroyVariable(n) PROVE Follows'
  BY <1>18 DEF DestroyVariable, DestroyPV
<1>19. CASE DestroyCallback
  BY <1>19 DEF DestroyCallback
<1>20. CASE UNCHANGED vars
  BY <1>20
<1> QED
  BY <1>1, <1>2, <1>3, <1>4, <1>5, <1>6, <1>7, <1>8, <1>9, <1>10, <1>11, <1>12, <1>13, <1>14, <1>15, <1>16, <1>17, <1>18, <1>19, <1>20 DEF Next, Library, User

(* What is published and running is in the map. *)
LEMMA PublishedStep == TypeOK /\ Published /\ Starting /\ [Next]_vars => Published'
<1> SUFFICES ASSUME TypeOK, Published, Starting, [Next]_vars PROVE Published'
  OBVIOUS
<1> USE DEF vars, callVars, serverVars, TypeOK, Owners, Published, Starting, IsServer
<1>1. ASSUME NEW n \in Names, OnVariableUpdated(n) PROVE Published'
  BY <1>1 DEF OnVariableUpdated, CallBack
<1>2. ASSUME NEW n \in Names, OnVariableChanged(n) PROVE Published'
  BY <1>2 DEF OnVariableChanged, CallBack
<1>3. ASSUME NEW n \in Names, OnServerVariableChanged(n) PROVE Published'
  BY <1>3 DEF OnServerVariableChanged, CallBack
<1>4. CASE CallbackReturns
  BY <1>4 DEF CallbackReturns
<1>5. ASSUME NEW n \in Names, ConstructPV(n) PROVE Published'
  BY <1>5 DEF ConstructPV, Enter
<1>6. ASSUME NEW n \in Names, AddExisting(n) PROVE Published'
  BY <1>6 DEF AddExisting, Finish, Refusal
<1>7. CASE ConstructionFails
  BY <1>7 DEF ConstructionFails, Finish, Refusal
<1>8. CASE Emplace
  BY <1>8 DEF Emplace, Finish
<1>9. ASSUME NEW n \in Names, RemoveVariable(n) PROVE Published'
  BY <1>9 DEF RemoveVariable, Enter, Finish
<1>10. CASE Erase
  BY <1>10 DEF Erase, Finish, DestroyPV
<1>11. ASSUME NEW n \in Names, Ask(n) PROVE Published'
  BY <1>11 DEF Ask, Finish, AskChannelAccess, AskPvAccess, AskServer
<1>12. ASSUME NEW n \in Names, NEW value \in {"struct", "empty", "scalar"},
             AddServerVariable(n, value)
      PROVE Published'
  BY <1>12 DEF AddServerVariable, Finish
<1>13. CASE Start
  <2>1. starts' \in 0..2 /\ starts' # 0 /\ (starts # 0 => starts' # 1)
    BY <1>13, StartsCount DEF Start
  <2> QED
    BY <1>13, <2>1 DEF Start, Enter
<1>14. ASSUME NEW n \in Names, AddToServer(n) PROVE Published'
  <2>1. CASE n \in open \cup empty
    <3>1. n \in todo /\ n \in present /\ user = "starting"
      BY <1>14, <2>1 DEF AddToServer, First
    <3>2. n \in open => starts = 2
      BY <3>1, StartsCount
    <3> QED
      BY <1>14, <2>1, <3>1, <3>2 DEF AddToServer, Finish
  <2>2. CASE n \notin open \cup empty
    <3>1. n \in present /\ open' = open \cup {n} /\ user' = user
      BY <1>14, <2>2 DEF AddToServer, First
    <3> QED
      BY <1>14, <2>2, <3>1 DEF AddToServer
  <2> QED
    BY <2>1, <2>2
<1>15. CASE StartServer
  BY <1>15 DEF StartServer, Finish
<1>16. CASE Destroy
  BY <1>16 DEF Destroy, Enter
<1>17. CASE Stop
  BY <1>17 DEF Stop
<1>18. ASSUME NEW n \in Names, DestroyVariable(n) PROVE Published'
  BY <1>18 DEF DestroyVariable, DestroyPV
<1>19. CASE DestroyCallback
  BY <1>19 DEF DestroyCallback
<1>20. CASE UNCHANGED vars
  BY <1>20
<1> QED
  BY <1>1, <1>2, <1>3, <1>4, <1>5, <1>6, <1>7, <1>8, <1>9, <1>10, <1>11, <1>12, <1>13, <1>14, <1>15, <1>16, <1>17, <1>18, <1>19, <1>20 DEF Next, Library, User

(* The destructor visits every variable, and the callback goes last. *)
LEMMA EndingStep == TypeOK /\ Published /\ Follows /\ Ending /\ [Next]_vars => Ending'
<1> SUFFICES ASSUME TypeOK, Published, Follows, Ending, [Next]_vars PROVE Ending'
  OBVIOUS
<1> USE DEF vars, callVars, serverVars, TypeOK, Owners, Published, Follows, Ending, IsServer
<1>1. ASSUME NEW n \in Names, OnVariableUpdated(n) PROVE Ending'
  BY <1>1 DEF OnVariableUpdated, CallBack
<1>2. ASSUME NEW n \in Names, OnVariableChanged(n) PROVE Ending'
  BY <1>2 DEF OnVariableChanged, CallBack
<1>3. ASSUME NEW n \in Names, OnServerVariableChanged(n) PROVE Ending'
  BY <1>3 DEF OnServerVariableChanged, CallBack
<1>4. CASE CallbackReturns
  BY <1>4 DEF CallbackReturns
<1>5. ASSUME NEW n \in Names, ConstructPV(n) PROVE Ending'
  BY <1>5 DEF ConstructPV, Enter
<1>6. ASSUME NEW n \in Names, AddExisting(n) PROVE Ending'
  BY <1>6 DEF AddExisting, Finish, Refusal
<1>7. CASE ConstructionFails
  BY <1>7 DEF ConstructionFails, Finish, Refusal
<1>8. CASE Emplace
  BY <1>8 DEF Emplace, Finish
<1>9. ASSUME NEW n \in Names, RemoveVariable(n) PROVE Ending'
  BY <1>9 DEF RemoveVariable, Enter, Finish
<1>10. CASE Erase
  BY <1>10 DEF Erase, Finish, DestroyPV
<1>11. ASSUME NEW n \in Names, Ask(n) PROVE Ending'
  BY <1>11 DEF Ask, Finish, AskChannelAccess, AskPvAccess, AskServer
<1>12. ASSUME NEW n \in Names, NEW value \in {"struct", "empty", "scalar"},
             AddServerVariable(n, value)
      PROVE Ending'
  BY <1>12 DEF AddServerVariable, Finish
<1>13. CASE Start
  <2>1. starts' \in 0..2 /\ starts' # 0 /\ (starts # 0 => starts' # 1)
    BY <1>13, StartsCount DEF Start
  <2> QED
    BY <1>13, <2>1 DEF Start, Enter
<1>14. ASSUME NEW n \in Names, AddToServer(n) PROVE Ending'
  BY <1>14 DEF AddToServer, Finish, First
<1>15. CASE StartServer
  BY <1>15 DEF StartServer, Finish
<1>16. CASE Destroy
  BY <1>16 DEF Destroy, Enter
<1>17. CASE Stop
  BY <1>17 DEF Stop
<1>18. ASSUME NEW n \in Names, DestroyVariable(n) PROVE Ending'
  BY <1>18 DEF DestroyVariable, DestroyPV
<1>19. CASE DestroyCallback
  BY <1>19 DEF DestroyCallback
<1>20. CASE UNCHANGED vars
  BY <1>20
<1> QED
  BY <1>1, <1>2, <1>3, <1>4, <1>5, <1>6, <1>7, <1>8, <1>9, <1>10, <1>11, <1>12, <1>13, <1>14, <1>15, <1>16, <1>17, <1>18, <1>19, <1>20 DEF Next, Library, User

(* Start publishes what it has visited. *)
LEMMA StartingStep == TypeOK /\ Published /\ Starting /\ [Next]_vars => Starting'
<1> SUFFICES ASSUME TypeOK, Published, Starting, [Next]_vars PROVE Starting'
  OBVIOUS
<1> USE DEF vars, callVars, serverVars, TypeOK, Published, Starting, IsServer
<1>1. ASSUME NEW n \in Names, OnVariableUpdated(n) PROVE Starting'
  BY <1>1 DEF OnVariableUpdated, CallBack
<1>2. ASSUME NEW n \in Names, OnVariableChanged(n) PROVE Starting'
  BY <1>2 DEF OnVariableChanged, CallBack
<1>3. ASSUME NEW n \in Names, OnServerVariableChanged(n) PROVE Starting'
  BY <1>3 DEF OnServerVariableChanged, CallBack
<1>4. CASE CallbackReturns
  BY <1>4 DEF CallbackReturns
<1>5. ASSUME NEW n \in Names, ConstructPV(n) PROVE Starting'
  BY <1>5 DEF ConstructPV, Enter
<1>6. ASSUME NEW n \in Names, AddExisting(n) PROVE Starting'
  BY <1>6 DEF AddExisting, Finish, Refusal
<1>7. CASE ConstructionFails
  BY <1>7 DEF ConstructionFails, Finish, Refusal
<1>8. CASE Emplace
  BY <1>8 DEF Emplace, Finish
<1>9. ASSUME NEW n \in Names, RemoveVariable(n) PROVE Starting'
  BY <1>9 DEF RemoveVariable, Enter, Finish
<1>10. CASE Erase
  BY <1>10 DEF Erase, Finish, DestroyPV
<1>11. ASSUME NEW n \in Names, Ask(n) PROVE Starting'
  BY <1>11 DEF Ask, Finish, AskChannelAccess, AskPvAccess, AskServer
<1>12. ASSUME NEW n \in Names, NEW value \in {"struct", "empty", "scalar"},
             AddServerVariable(n, value)
      PROVE Starting'
  BY <1>12 DEF AddServerVariable, Finish
<1>13. CASE Start
  <2>1. starts' \in 0..2 /\ starts' # 0 /\ (starts # 0 => starts' # 1)
    BY <1>13, StartsCount DEF Start
  <2> QED
    BY <1>13, <2>1 DEF Start, Enter
<1>14. ASSUME NEW n \in Names, AddToServer(n) PROVE Starting'
  BY <1>14 DEF AddToServer, Finish, First
<1>15. CASE StartServer
  BY <1>15 DEF StartServer, Finish
<1>16. CASE Destroy
  BY <1>16 DEF Destroy, Enter
<1>17. CASE Stop
  BY <1>17 DEF Stop
<1>18. ASSUME NEW n \in Names, DestroyVariable(n) PROVE Starting'
  BY <1>18 DEF DestroyVariable, DestroyPV
<1>19. CASE DestroyCallback
  BY <1>19 DEF DestroyCallback
<1>20. CASE UNCHANGED vars
  BY <1>20
<1> QED
  BY <1>1, <1>2, <1>3, <1>4, <1>5, <1>6, <1>7, <1>8, <1>9, <1>10, <1>11, <1>12, <1>13, <1>14, <1>15, <1>16, <1>17, <1>18, <1>19, <1>20 DEF Next, Library, User

(* What Start has returned stays true. *)
LEMMA StartTellsStep == TypeOK /\ Published /\ Starting /\ StartTells /\ [Next]_vars => StartTells'
<1> SUFFICES ASSUME TypeOK, Published, Starting, StartTells, [Next]_vars PROVE StartTells'
  OBVIOUS
<1> USE DEF vars, callVars, serverVars, TypeOK, Published, Starting, StartTells, IsServer
<1>1. ASSUME NEW n \in Names, OnVariableUpdated(n) PROVE StartTells'
  BY <1>1 DEF OnVariableUpdated, CallBack
<1>2. ASSUME NEW n \in Names, OnVariableChanged(n) PROVE StartTells'
  BY <1>2 DEF OnVariableChanged, CallBack
<1>3. ASSUME NEW n \in Names, OnServerVariableChanged(n) PROVE StartTells'
  BY <1>3 DEF OnServerVariableChanged, CallBack
<1>4. CASE CallbackReturns
  BY <1>4 DEF CallbackReturns
<1>5. ASSUME NEW n \in Names, ConstructPV(n) PROVE StartTells'
  BY <1>5 DEF ConstructPV, Enter
<1>6. ASSUME NEW n \in Names, AddExisting(n) PROVE StartTells'
  BY <1>6 DEF AddExisting, Finish, Refusal
<1>7. CASE ConstructionFails
  BY <1>7 DEF ConstructionFails, Finish, Refusal
<1>8. CASE Emplace
  BY <1>8 DEF Emplace, Finish
<1>9. ASSUME NEW n \in Names, RemoveVariable(n) PROVE StartTells'
  BY <1>9 DEF RemoveVariable, Enter, Finish
<1>10. CASE Erase
  BY <1>10 DEF Erase, Finish, DestroyPV
<1>11. ASSUME NEW n \in Names, Ask(n) PROVE StartTells'
  BY <1>11 DEF Ask, Finish, AskChannelAccess, AskPvAccess, AskServer
<1>12. ASSUME NEW n \in Names, NEW value \in {"struct", "empty", "scalar"},
             AddServerVariable(n, value)
      PROVE StartTells'
  BY <1>12 DEF AddServerVariable, Finish
<1>13. CASE Start
  <2>1. starts' \in 0..2 /\ starts' # 0 /\ (starts # 0 => starts' # 1)
    BY <1>13, StartsCount DEF Start
  <2> QED
    BY <1>13, <2>1 DEF Start, Enter
<1>14. ASSUME NEW n \in Names, AddToServer(n) PROVE StartTells'
  <2>1. CASE n \in open \cup empty
    <3>1. n \in todo /\ n \in present /\ user = "starting"
      BY <1>14, <2>1 DEF AddToServer, First
    <3>2. n \in open => starts = 2
      BY <3>1, StartsCount
    <3> QED
      BY <1>14, <2>1, <3>1, <3>2 DEF AddToServer, Finish
  <2>2. CASE n \notin open \cup empty
    <3>1. n \in present /\ open' = open \cup {n} /\ user' = user
      BY <1>14, <2>2 DEF AddToServer, First
    <3> QED
      BY <1>14, <2>2, <3>1 DEF AddToServer
  <2> QED
    BY <2>1, <2>2
<1>15. CASE StartServer
  BY <1>15 DEF StartServer, Finish
<1>16. CASE Destroy
  BY <1>16 DEF Destroy, Enter
<1>17. CASE Stop
  BY <1>17 DEF Stop
<1>18. ASSUME NEW n \in Names, DestroyVariable(n) PROVE StartTells'
  BY <1>18 DEF DestroyVariable, DestroyPV
<1>19. CASE DestroyCallback
  BY <1>19 DEF DestroyCallback
<1>20. CASE UNCHANGED vars
  BY <1>20
<1> QED
  BY <1>1, <1>2, <1>3, <1>4, <1>5, <1>6, <1>7, <1>8, <1>9, <1>10, <1>11, <1>12, <1>13, <1>14, <1>15, <1>16, <1>17, <1>18, <1>19, <1>20 DEF Next, Library, User

------------------------------------------------------------------------------
(* It holds when the owner is constructed. *)
LEMMA Initially == Init => IInv
<1> SUFFICES ASSUME Init PROVE IInv
  OBVIOUS
<1> USE DEF Init
<1>1. TypeOK
  <2>1. starts \in 0..2
    OBVIOUS
  <2> QED
    BY <2>1 DEF TypeOK, Owners
<1>2. Follows /\ Published /\ Starting /\ StartTells
  BY DEF Follows, Published, Starting, StartTells, IsServer
<1>3. Ending
  BY DEF Ending
<1> QED
  BY <1>1, <1>2, <1>3 DEF IInv

(* The inductive invariant. *)
THEOREM Inductive == Spec => []IInv
<1>1. IInv /\ [Next]_vars => IInv'
  BY TypeStep, FollowsStep, PublishedStep, EndingStep, StartingStep, StartTellsStep DEF IInv
<1> QED
  BY <1>1, Initially, PTL DEF Spec

(* Every variable has its type in every state. *)
THEOREM TypeCorrect == Spec => []TypeOK
<1>1. IInv => TypeOK
  BY DEF IInv
<1> QED
  BY <1>1, Inductive, PTL

(* Callbacks only come from variables that live, to an owner that lives. *)
THEOREM CallbacksAreSafe == Spec => []CallbackOnLive
<1>1. IInv => CallbackOnLive
  BY DEF IInv, CallbackOnLive, TypeOK, Follows, Published, Ending, IsServer
<1> QED
  BY <1>1, Inductive, PTL

(* What the library may call back is what is in the map. *)
THEOREM NothingIsLeftBehind == Spec => []NothingLeftBehind
<1>1. IInv => NothingLeftBehind
  BY DEF IInv, NothingLeftBehind, Follows, IsServer
<1> QED
  BY <1>1, Inductive, PTL

(* A Start that returns has published every variable. *)
THEOREM StartIsTruthful == Spec => []StartTells
<1>1. IInv => StartTells
  BY DEF IInv
<1> QED
  BY <1>1, Inductive, PTL
==============================================================================
