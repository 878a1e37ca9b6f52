---------------------------- MODULE OnceDelivery ----------------------------
(***************************************************************************)
(* What QoS 2 of MQTT promises the user, for each identifier of the        *)
(* broker's messages: the message of an exchange is delivered while the    *)
(* exchange is open, exactly once before the broker releases it, and never *)
(* after that.  A connection that ends takes its exchanges with it; what   *)
(* was received before may be delivered afterwards, once.                  *)
(*                                                                         *)
(* The promise ends with "unsafe", which says that something happened that *)
(* the client does not cope with; the next connection makes a new one.     *)
(***************************************************************************)
EXTENDS Naturals

CONSTANT Id        \* the identifiers of the broker

VARIABLES
  connected,
  stage,           \* of each exchange: "none", "sent" or "released"
  delivered,       \* how often its message was delivered
  unsafe

vars == <<connected, stage, delivered, unsafe>>

Fresh == stage = [id \in Id |-> "none"] /\ delivered = [id \in Id |-> 0]

Init == ~connected /\ Fresh /\ ~unsafe

Publish(id) ==
  /\ connected /\ stage[id] = "none"
  /\ stage' = [stage EXCEPT ![id] = "sent"]
  /\ delivered' = [delivered EXCEPT ![id] = 0]

Deliver(id) ==
  /\ connected => stage[id] = "sent"
  /\ delivered[id] = 0
  /\ delivered' = [delivered EXCEPT ![id] = 1]
  /\ UNCHANGED stage

Release(id) ==
  /\ stage[id] = "sent" /\ delivered[id] = 1
  /\ stage' = [stage EXCEPT ![id] = "released"]
  /\ UNCHANGED delivered

Complete(id) ==
  /\ stage[id] = "released" /\ delivered[id] = 1
  /\ stage' = [stage EXCEPT ![id] = "none"]
  /\ UNCHANGED delivered

Exchange(id) ==
  /\ Publish(id) \/ Deliver(id) \/ Release(id) \/ Complete(id)
  /\ UNCHANGED connected

End == ~connected' /\ Fresh'

Connect == ~connected /\ connected' /\ Fresh' /\ ~unsafe'

Next ==
  \/ ~unsafe /\ ~unsafe' /\ (End \/ \E id \in Id : Exchange(id))
  \/ Connect
  \/ unsafe'

Spec == Init /\ [][Next]_vars
=============================================================================
