---------------------------- MODULE SharedVariable ----------------------------
(***************************************************************************)
(* What a variable that is shared over the network promises, whatever        *)
(* happens between its server and a client.  The client is told one of the   *)
(* values that were published, and never an earlier one than before; its     *)
(* threads read what it was told.  While nothing is under way at the server  *)
(* the last value is what the users of the server read, and once everything  *)
(* is delivered the client was told of it, or that the connection is lost.   *)
(***************************************************************************)
EXTENDS Naturals, Sequences

CONSTANT Values

VARIABLES set,          (* what the users of the server read *)
          published,    (* the values that were published, in order *)
          quiet,        (* it is published, and no call is in progress at the server *)
          link,         (* the client is connected *)
          told,         (* what the client was told: that it is connected, and the *)
                        (* number of a published value, or 0                        *)
          read,         (* what a thread of the client last read *)
          delivered     (* nothing is under way to the client *)

vars == <<set, published, quiet, link, told, read, delivered>>

Init == /\ set \in Values
        /\ published = <<>>
        /\ quiet = FALSE
        /\ link = FALSE
        /\ told = [connected |-> FALSE, at |-> 0]
        /\ read = told
        /\ delivered = TRUE

(* The server sets and publishes values. *)
Serve == /\ set' \in Values
         /\ \/ published' = published
            \/ \E v \in Values : published' = Append(published, v)
         /\ {quiet', delivered'} \subseteq BOOLEAN
         /\ UNCHANGED <<link, told, read>>

(* The client is told news, and may skip values. *)
Follow == /\ told' \in [connected : BOOLEAN, at : told.at..Len(published)]
          /\ {link', delivered'} \subseteq BOOLEAN
          /\ UNCHANGED <<set, published, quiet, read>>

Read == /\ read' = told
        /\ UNCHANGED <<set, published, quiet, link, told, delivered>>

PublishedIsSet == quiet => published # <<>> /\ published[Len(published)] = set

ClientKnows == delivered => told.connected = link /\ (link => told.at = Len(published))

Next == /\ Serve \/ Follow \/ Read
        /\ PublishedIsSet'
        /\ ClientKnows'

Spec == Init /\ [][Next]_vars
==============================================================================
