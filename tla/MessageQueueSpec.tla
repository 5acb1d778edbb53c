-------------------------- MODULE MessageQueueSpec --------------------------
(***************************************************************************)
(* What an OSMessageQueue promises its users: a bounded sequence per       *)
(* queue.  A message goes to the back, one sent with high priority to the  *)
(* front, and a receive hands out the front one; nothing is lost,          *)
(* invented, duplicated or otherwise reordered.  The ring of CafeScheduler *)
(* implements it.                                                          *)
(*                                                                         *)
(* sent records the arguments of the last call that stored a message: what *)
(* happened to a queue has to agree with what was asked of it.             *)
(***************************************************************************)
EXTENDS Integers, Sequences

CONSTANTS Queue, Message, NoMessage, MaxCapacity

VARIABLES contents, limit, sent, delivered

vars == <<contents, limit, sent, delivered>>

Init ==
  /\ contents = [q \in Queue |-> <<>>]
  /\ limit = [q \in Queue |-> 0]
  /\ sent = <<>>
  /\ delivered = NoMessage

Reset(q, size) ==
  /\ contents' = [contents EXCEPT ![q] = <<>>]
  /\ limit' = [limit EXCEPT ![q] = size]
  /\ UNCHANGED <<sent, delivered>>

Send(q, m, high_priority) ==
  /\ Len(contents[q]) < limit[q]
  /\ contents' = [contents EXCEPT ![q] = IF high_priority THEN <<m>> \o @
                                         ELSE Append(@, m)]
  /\ sent' = <<q, m, high_priority>>
  /\ UNCHANGED <<limit, delivered>>

Receive(q) ==
  /\ contents[q] # <<>>
  /\ delivered' = Head(contents[q])
  /\ contents' = [contents EXCEPT ![q] = Tail(@)]
  /\ UNCHANGED <<limit, sent>>

Next ==
  \E q \in Queue :
    \/ \E size \in 0..MaxCapacity : Reset(q, size)
    \/ \E m \in Message, high_priority \in BOOLEAN : Send(q, m, high_priority)
    \/ Receive(q)

Spec == Init /\ [][Next]_vars
============================================================================
