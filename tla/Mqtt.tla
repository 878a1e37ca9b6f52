-------------------------------- MODULE Mqtt --------------------------------
(***************************************************************************)
(* The MQTT client: the AT commands (MQTTConsole.c), the library's thread  *)
(* and session (mqtt_network.c, mqtt_manager.c, mqtt_session.c), and its   *)
(* heartbeat.                                                              *)
(*                                                                         *)
(* The main thread queues a request for Mqttmain and waits on a semaphore  *)
(* for the event that ends it.  Mqttmain sends requests, handles what the  *)
(* broker sends, and keeps what is to be sent again in the session.  The   *)
(* networking worker runs the heartbeat and takes the client down when the *)
(* link is lost.  All pushes to Mqttmain's queue are without waiting: what *)
(* finds it full is gone.                                                  *)
(*                                                                         *)
(* Topics and contents are left out.  AT commands publish with QoS 0 only; *)
(* the broker publishes with QoS 2, because lower levels keep no state.    *)
(***************************************************************************)
EXTENDS Naturals, Sequences

CONSTANTS
  IdMod,       \* packet identifiers are modulo IdMod (65536)
  BrokerId,    \* the identifiers that the broker gives its messages
  QueueLen,    \* WICED_MQTT_QUEUE_SIZE (10)
  SessionLen,  \* SESSION_ITEMS_SIZE (20)
  NetLen,      \* bound: frames in each direction when another is added
  MaxCount,    \* bound: count of the semaphore when another event comes
  MaxFaults    \* bound: frames for which no packet is free

ASSUME IdAssumption == IdMod \in Nat \ {0} /\ BrokerId \subseteq 0 .. IdMod - 1
ASSUME SizesAssumption ==
  /\ QueueLen \in Nat \ {0} /\ SessionLen \in Nat \ {0}
  /\ NetLen \in Nat /\ MaxCount \in Nat /\ MaxFaults \in Nat

VARIABLES
  at,          \* what the main thread and the worker are doing
  object,      \* mqtt_object is allocated, Mqttmain runs
  isconnected, \* g_mqtt_isconnected
  beat,        \* the timed event in the object is registered
  open,        \* the TCP connection
  queue,       \* Mqttmain's queue
  session,     \* session.used_list
  packetId,    \* packet_id
  count,       \* the semaphore of mqtt_wait_for
  expected,    \* expected_event
  inbox,       \* frames of the broker that are not received yet
  toBroker,    \* frames for the broker
  subscribed,  \* the broker: the client has subscribed,
  exchange,    \*   and where it is with each of its identifiers
  delivered,   \* history: how often each one's message was delivered,
               \*   where 2 stands for more
  faults,      \* faults that may still happen
  answered,    \* history: the last request was sent, or answered if it must
  resent,      \* history: a subscription was sent again
  overflowed,  \* history: the session was full
  mistaken     \* history: an item was taken for one of another type

commandVars == <<at, object, isconnected>>
eventVars == <<count, expected>>
brokerVars == <<subscribed, exchange, delivered>>
historyVars == <<answered, resent, overflowed, mistaken>>
vars == <<commandVars, beat, open, queue, session, packetId, eventVars, inbox,
          toBroker, brokerVars, faults, historyVars>>

Ids == 0 .. IdMod - 1
Requests == {"connect", "subscribe", "unsubscribe", "publish", "disconnect"}
Message(type, id) == [type |-> type, id |-> id]

Init ==
  /\ at = [main |-> "idle", worker |-> "idle"]
  /\ object = FALSE /\ isconnected = FALSE /\ beat = FALSE /\ open = FALSE
  /\ queue = <<>> /\ session = <<>> /\ packetId = 0
  /\ count = 0 /\ expected = "none"
  /\ inbox = <<>> /\ toBroker = <<>>
  /\ subscribed = FALSE
  /\ exchange = [id \in BrokerId |-> "none"]
  /\ delivered = [id \in BrokerId |-> 0]
  /\ faults = MaxFaults
  /\ answered = FALSE /\ resent = FALSE /\ overflowed = FALSE /\ mistaken = FALSE

Goto(thread, place) == at' = [at EXCEPT ![thread] = place]

\* wiced_rtos_push_to_queue with WICED_NO_WAIT
Push(message) ==
  queue' = IF Len(queue) < QueueLen THEN Append(queue, message) ELSE queue

-----------------------------------------------------------------------------
(* mqtt_session.c: an item has a type, but only identifiers are compared.  *)

First(found) == CHOOSE i \in found : \A j \in found : i <= j
Items(id) == {i \in DOMAIN session : session[i].id = id}
Mistake(type, id) ==
  mistaken' = (mistaken \/ (Items(id) # {} /\ session[First(Items(id))].type # type))

\* mutant: the session has no end
AddItemUnbounded(type, id) == Append(session, Message(type, id))

AddItem(type, id) ==
  IF Len(session) < SessionLen THEN Append(session, Message(type, id)) ELSE session

RemoveItem(items, id) ==
  LET found == {i \in DOMAIN items : items[i].id = id}
  IN  IF found = {}
        THEN items
        ELSE [i \in 1 .. Len(items) - 1 |->
                IF i < First(found) THEN items[i] ELSE items[i + 1]]

-----------------------------------------------------------------------------
(* The main thread: AT+MQTTCON, AT+MQTTSUB and AT+MQTTPUB                  *)

MainIs(place) == at.main = place
Waiting == at.main \in Requests

(***************************************************************************)
(* MQTTStartService.  A new object starts with the packet_id that is in    *)
(* its memory; wiced_mqtt_connect finds the broker, starts with an empty   *)
(* session and queues the request.  After a failed MQTTStopService, which  *)
(* leaves the old object behind, the model is not followed further.        *)
(***************************************************************************)
Start ==
  /\ MainIs("idle") /\ ~isconnected /\ ~object
  /\ object' = TRUE
  /\ packetId' \in Ids
  /\ \/ /\ open' = TRUE
        /\ session' = <<>>
        /\ queue' = <<Message("connect", 0)>>
        /\ Goto("main", "connect")
        /\ resent' = FALSE /\ overflowed' = FALSE /\ mistaken' = FALSE
     \/ /\ Goto("main", "clear")
        /\ UNCHANGED <<open, session, queue, resent, overflowed, mistaken>>
  /\ UNCHANGED <<isconnected, beat, eventVars, inbox, toBroker, brokerVars,
                 faults, answered>>

\* wiced_mqtt_subscribe, _unsubscribe and _publish return the identifier of
\* the request, or 0 when it is not queued.
Ask(request) ==
  /\ MainIs("idle") /\ isconnected
  /\ packetId' = (packetId + 1) % IdMod
  /\ Push(Message(request, packetId'))
  /\ Goto("main", IF Len(queue) < QueueLen /\ packetId' # 0 THEN request ELSE "clear")
  /\ UNCHANGED <<object, isconnected, beat, open, session, eventVars, inbox,
                 toBroker, brokerVars, faults, historyVars>>

\* MQTTStopService and mqtt_conn_close
Stop ==
  /\ MainIs("idle") /\ isconnected
  /\ Push(Message("disconnect", 0))
  /\ IF Len(queue) < QueueLen
       THEN Goto("main", "disconnect") /\ UNCHANGED isconnected
       ELSE isconnected' = FALSE /\ UNCHANGED at
  /\ UNCHANGED <<object, beat, open, session, packetId, eventVars, inbox,
                 toBroker, brokerVars, faults, historyVars>>

\* A command that fails clears everything, but not one that disconnects.
Succeed ==
  /\ isconnected' = (isconnected \/ MainIs("connect"))
  /\ Goto("main", IF MainIs("disconnect") THEN "clear" ELSE "idle")

Fail ==
  /\ isconnected' = (isconnected /\ ~MainIs("disconnect"))
  /\ Goto("main", IF MainIs("disconnect") THEN "idle" ELSE "clear")

\* mutant: any event will do
WokenByAny ==
  /\ Waiting /\ count > 0
  /\ count' = count - 1
  /\ Succeed
  /\ answered' = FALSE
  /\ UNCHANGED <<object, beat, open, queue, session, packetId, expected, inbox,
                 toBroker, brokerVars, faults, resent, overflowed, mistaken>>

\* mqtt_wait_for: whatever event raised the semaphore, the last one counts.
Woken ==
  /\ Waiting /\ count > 0
  /\ count' = count - 1
  /\ IF expected = at.main THEN Succeed ELSE Fail
  /\ answered' = FALSE
  /\ UNCHANGED <<object, beat, open, queue, session, packetId, expected, inbox,
                 toBroker, brokerVars, faults, resent, overflowed, mistaken>>

TimesOut ==
  /\ Waiting /\ count = 0
  /\ Fail
  /\ answered' = FALSE
  /\ UNCHANGED <<object, beat, open, queue, session, packetId, eventVars, inbox,
                 toBroker, brokerVars, faults, resent, overflowed, mistaken>>

\* The broker forgets a client whose connection ends (clean_session).
Disconnect ==
  /\ open' = FALSE
  /\ toBroker' = <<>>
  /\ subscribed' = FALSE
  /\ exchange' = [id \in BrokerId |-> "none"]
  /\ delivered' = [id \in BrokerId |-> 0]

(***************************************************************************)
(* MQTTClearResource: while it disconnects, other threads run; then the    *)
(* thread, the queue and the object are gone.  (The main thread may come   *)
(* here after the worker has; it follows a null pointer then.)             *)
(***************************************************************************)
Clear(thread) ==
  /\ at[thread] = "clear"
  /\ Goto(thread, "idle")
  /\ Disconnect
  /\ object' = FALSE /\ isconnected' = FALSE
  /\ queue' = <<>> /\ inbox' = <<>>
  /\ UNCHANGED <<beat, session, packetId, eventVars, faults, historyVars>>

\* wifi_link_down_callback
LinkDown ==
  /\ at.worker = "idle" /\ isconnected
  /\ Goto("worker", "clear")
  /\ UNCHANGED <<object, isconnected, beat, open, queue, session, packetId,
                 eventVars, inbox, toBroker, brokerVars, faults, historyVars>>

-----------------------------------------------------------------------------
(* Frames to the broker, and events to the callback                        *)

\* A frame is not sent when the connection is closed or no packet is free.
Put(frames) == open /\ toBroker' = toBroker \o frames /\ UNCHANGED faults
NotPut ==
  /\ UNCHANGED toBroker
  /\ \/ ~open /\ UNCHANGED faults
     \/ open /\ faults > 0 /\ faults' = faults - 1
Send(frame) == Put(<<frame>>) \/ NotPut

\* mqtt_connection_event_cb
Callback(event) == expected' = event /\ count' = count + 1

\* mqtt_backend_connection_close
Close ==
  /\ Disconnect
  /\ inbox' = <<>>
  /\ Callback("disconnect")

-----------------------------------------------------------------------------
(***************************************************************************)
(* Mqttmain has priority 10, the main thread 7, so it runs when the main   *)
(* thread waits; that one has commands of its own when it is idle.         *)
(***************************************************************************)
Turn ==
  /\ object /\ ~(Waiting /\ count > 0)
  /\ count <= MaxCount /\ Len(toBroker) <= NetLen

Pop(type) ==
  /\ Turn
  /\ queue # <<>> /\ Head(queue).type = type
  /\ queue' = Tail(queue)
  /\ UNCHANGED <<commandVars, packetId>>

\* The heartbeat starts, unless keep_alive is 0 in the profile.
SendConnect ==
  /\ Pop("connect")
  /\ beat' \in {beat, TRUE}
  /\ Send(Message("connect", 0))
  /\ UNCHANGED <<open, session, eventVars, inbox, brokerVars, historyVars>>

SendSubscribe ==
  /\ \E type \in {"subscribe", "unsubscribe"} :
       /\ Pop(type)
       /\ Send(Head(queue))
       /\ session' = AddItem(type, Head(queue).id)
  /\ overflowed' = (overflowed \/ Len(session) = SessionLen)
  /\ UNCHANGED <<beat, open, eventVars, inbox, brokerVars, answered, resent,
                 mistaken>>

\* With QoS 0: the item is added and removed again, or another one with its
\* identifier; the event comes when the frame is sent.
SendPublish ==
  LET id == Head(queue).id IN
    /\ Pop("publish")
    /\ session' = RemoveItem(AddItem("publish", id), id)
    /\ \/ /\ Put(<<Head(queue)>>)
          /\ Callback("publish")
          /\ answered' = (answered \/ (Waiting /\ id = packetId))
       \/ NotPut /\ UNCHANGED <<eventVars, answered>>
    /\ overflowed' = (overflowed \/ Len(session) = SessionLen)
    /\ Mistake("publish", id)
    /\ UNCHANGED <<beat, open, inbox, brokerVars, resent>>

SendDisconnect ==
  /\ Pop("disconnect")
  /\ beat' = FALSE
  /\ \/ open /\ Close /\ UNCHANGED faults
     \/ NotPut /\ UNCHANGED <<open, eventVars, inbox, brokerVars>>
  /\ UNCHANGED <<session, historyVars>>

\* MQTT_DISCONNECT_EVENT
BrokerGone ==
  /\ Pop("gone")
  /\ Close
  /\ UNCHANGED <<beat, session, faults, historyVars>>

-----------------------------------------------------------------------------
(* MQTT_RECEIVE_EVENT: wiced_process_mqtt_request takes one packet, which  *)
(* is one frame here.                                                      *)

NothingReceived ==
  /\ Pop("receive") /\ inbox = <<>>
  /\ UNCHANGED <<beat, open, session, eventVars, inbox, toBroker, brokerVars,
                 faults, historyVars>>

Receive(type) ==
  /\ inbox # <<>> /\ Head(inbox).type = type
  /\ Pop("receive")
  /\ inbox' = Tail(inbox)
  /\ UNCHANGED <<beat, open, subscribed, exchange>>

ReceiveConnack ==
  /\ Receive("connack")
  /\ Callback("connect")
  /\ UNCHANGED <<session, toBroker, delivered, faults, historyVars>>

ReceiveSuback ==
  /\ \E request \in {"subscribe", "unsubscribe"} :
       /\ Receive(IF request = "subscribe" THEN "suback" ELSE "unsuback")
       /\ Callback(request)
       /\ Mistake(request, Head(inbox).id)
  /\ session' = RemoveItem(session, Head(inbox).id)
  /\ UNCHANGED <<toBroker, delivered, faults, answered, resent, overflowed>>

\* A message that was received before "shouldn't be passed to user".
ReceivePublish ==
  LET id == Head(inbox).id IN
    /\ Receive("publish")
    /\ Send(Message("pubrec", id))
    /\ IF Items(id) = {}
         THEN /\ session' = AddItem("pubrec", id)
              /\ overflowed' = (overflowed \/ Len(session) = SessionLen)
              /\ delivered' = [delivered EXCEPT ![id] = IF @ < 2 THEN @ + 1 ELSE @]
         ELSE UNCHANGED <<session, overflowed, delivered>>
    /\ Mistake("pubrec", id)
    /\ UNCHANGED <<eventVars, answered, resent>>

\* mutant: the item stays
ReceivePubrelKeeps ==
  LET id == Head(inbox).id IN
    /\ Receive("pubrel")
    /\ Send(Message("pubcomp", id))
    /\ Mistake("pubrec", id)
    /\ UNCHANGED <<session, eventVars, delivered, answered, resent, overflowed>>

ReceivePubrel ==
  LET id == Head(inbox).id IN
    /\ Receive("pubrel")
    /\ session' = RemoveItem(session, id)
    /\ Send(Message("pubcomp", id))
    /\ Mistake("pubrec", id)
    /\ UNCHANGED <<eventVars, delivered, answered, resent, overflowed>>

\* mutant: nothing is sent again
ReceivePingrespOnly ==
  /\ Receive("pingresp")
  /\ UNCHANGED <<session, eventVars, toBroker, delivered, faults, historyVars>>

\* All items of the session are sent again, as far as there are packets.
ReceivePingresp ==
  /\ Receive("pingresp")
  /\ \/ session = <<>> /\ UNCHANGED <<toBroker, faults>>
     \/ Put(session)
     \/ session # <<>> /\ NotPut
     \/ \E n \in 1 .. Len(session) - 1 :
          /\ open /\ faults > 0 /\ faults' = faults - 1
          /\ toBroker' = toBroker \o SubSeq(session, 1, n)
  /\ resent' = (resent \/ \E i \in DOMAIN session : session[i].type # "pubrec")
  /\ UNCHANGED <<session, eventVars, delivered, answered, overflowed, mistaken>>

-----------------------------------------------------------------------------
(***************************************************************************)
(* mqtt_manager_tick.  The counters are left out: a ping is due at some    *)
(* tick, and a broker that is silent for long is given up at some tick.    *)
(* A tick without an object, on memory that was freed, is not followed.    *)
(***************************************************************************)
Tick == beat /\ object /\ at.worker = "idle"

TickPing ==
  /\ Tick /\ Len(toBroker) <= NetLen
  /\ Send(Message("pingreq", 0))
  /\ UNCHANGED <<commandVars, beat, open, queue, session, packetId, eventVars,
                 inbox, brokerVars, historyVars>>

TickTimeout ==
  /\ Tick /\ count <= MaxCount
  /\ Disconnect
  /\ Callback("disconnect")
  /\ UNCHANGED <<commandVars, beat, queue, session, packetId, inbox, faults,
                 historyVars>>

-----------------------------------------------------------------------------
(* The broker, and the callbacks of the TCP stack                          *)

\* A frame arrives; mqtt_network_recv_thread pushes an event for it.
Arrives(frame) ==
  /\ Len(inbox) <= NetLen
  /\ inbox' = Append(inbox, frame)
  /\ Push(Message("receive", 0))

BrokerStep ==
  /\ open
  /\ UNCHANGED <<commandVars, beat, session, packetId, eventVars, faults, resent,
                 overflowed>>

Reply == [connect |-> "connack", subscribe |-> "suback",
          unsubscribe |-> "unsuback", pingreq |-> "pingresp"]

BrokerReplies(frame) ==
  /\ frame.type \in DOMAIN Reply
  /\ Arrives(Message(Reply[frame.type], frame.id))
  /\ subscribed' = (subscribed \/ frame.type = "subscribe")
  /\ answered' = (answered \/ (Waiting /\ frame.id = packetId))
  /\ UNCHANGED exchange

BrokerReleases(frame) ==
  /\ frame.type = "pubrec" /\ exchange[frame.id] # "none"
  /\ Arrives(Message("pubrel", frame.id))
  /\ exchange' = [exchange EXCEPT ![frame.id] = "released"]
  /\ UNCHANGED <<subscribed, answered>>

BrokerCompletes(frame) ==
  /\ frame.type = "pubcomp" /\ exchange[frame.id] = "released"
  /\ exchange' = [exchange EXCEPT ![frame.id] = "none"]
  /\ UNCHANGED <<inbox, queue, subscribed, answered>>

BrokerIgnores(frame) ==
  /\ \/ frame.type = "publish"
     \/ frame.type = "pubrec" /\ exchange[frame.id] = "none"
     \/ frame.type = "pubcomp" /\ exchange[frame.id] # "released"
  /\ UNCHANGED <<inbox, queue, subscribed, exchange, answered>>

BrokerTakes ==
  /\ BrokerStep
  /\ toBroker # <<>> /\ toBroker' = Tail(toBroker)
  /\ LET frame == Head(toBroker) IN
       \/ BrokerReplies(frame) \/ BrokerReleases(frame)
       \/ BrokerCompletes(frame) \/ BrokerIgnores(frame)
  /\ UNCHANGED <<open, delivered, mistaken>>

BrokerPublishes(id) ==
  /\ open /\ subscribed
  /\ exchange[id] = "none"
  /\ exchange' = [exchange EXCEPT ![id] = "sent"]
  /\ delivered' = [delivered EXCEPT ![id] = 0]
  /\ Arrives(Message("publish", id))
  /\ UNCHANGED <<commandVars, beat, open, session, packetId, eventVars,
                 toBroker, subscribed, faults, historyVars>>

\* Some brokers repeat what is not acknowledged.
BrokerRepeats(id) ==
  /\ BrokerStep
  /\ exchange[id] # "none"
  /\ Arrives(Message(IF exchange[id] = "sent" THEN "publish" ELSE "pubrel", id))
  /\ UNCHANGED <<open, toBroker, subscribed, exchange, delivered, answered, mistaken>>

\* mqtt_disconnect_callback
BrokerCloses ==
  /\ BrokerStep
  /\ Disconnect
  /\ Push(Message("gone", 0))
  /\ UNCHANGED <<inbox, answered, mistaken>>

-----------------------------------------------------------------------------
Command ==
  \/ Start \/ Stop
  \/ \E request \in {"subscribe", "unsubscribe", "publish"} : Ask(request)
MainRuns == Woken \/ TimesOut \/ Clear("main")
MqttMain ==
  \/ SendConnect \/ SendSubscribe \/ SendPublish \/ SendDisconnect
  \/ BrokerGone \/ NothingReceived
  \/ ReceiveConnack \/ ReceiveSuback \/ ReceivePublish \/ ReceivePubrel
  \/ ReceivePingresp
Worker == LinkDown \/ Clear("worker") \/ TickPing \/ TickTimeout
Broker ==
  \/ BrokerTakes \/ BrokerCloses
  \/ \E id \in BrokerId : BrokerPublishes(id) \/ BrokerRepeats(id)

Next == Command \/ MainRuns \/ MqttMain \/ Worker \/ Broker

Spec == Init /\ [][Next]_vars

(***************************************************************************)
(* Mqttmain gets its turns, the heartbeat's timer expires, and a ping is   *)
(* sent when there is a packet for it.  The broker answers.                *)
(***************************************************************************)
FairSpec ==
  /\ Spec
  /\ SF_vars(MqttMain) /\ SF_vars(BrokerTakes)
  /\ SF_vars(TickPing) /\ WF_vars(MainRuns) /\ WF_vars(Clear("worker"))

-----------------------------------------------------------------------------
Frames == [type : {"connect", "subscribe", "unsubscribe", "publish", "pubrec",
                   "pubcomp", "pingreq"}, id : Ids]
Replies == [type : {"connack", "suback", "unsuback", "publish", "pubrel",
                    "pingresp"}, id : Ids]

TypeOK ==
  /\ at.main \in Requests \cup {"idle", "clear"}
  /\ at.worker \in {"idle", "clear"}
  /\ object \in BOOLEAN /\ isconnected \in BOOLEAN
  /\ beat \in BOOLEAN /\ open \in BOOLEAN
  /\ queue \in Seq([type : Requests \cup {"receive", "gone"}, id : Ids])
  /\ Len(queue) <= QueueLen
  /\ session \in Seq([type : {"subscribe", "unsubscribe", "publish", "pubrec"},
                         id : Ids])
  /\ Len(session) <= SessionLen
  /\ packetId \in Ids
  /\ count \in Nat /\ expected \in Requests \cup {"none"}
  /\ inbox \in Seq(Replies) /\ toBroker \in Seq(Frames)
  /\ subscribed \in BOOLEAN
  /\ exchange \in [BrokerId -> {"none", "sent", "released"}]
  /\ delivered \in [BrokerId -> 0 .. 2]
  /\ faults \in 0 .. MaxFaults
  /\ answered \in BOOLEAN /\ resent \in BOOLEAN
  /\ overflowed \in BOOLEAN /\ mistaken \in BOOLEAN

(***************************************************************************)
(* A message is passed to the user once, however often the broker repeats  *)
(* it, as long as the session has room and the broker's identifiers differ *)
(* from those that the client uses at the time.                            *)
(***************************************************************************)
DeliveredOnce ==
  ~overflowed /\ ~mistaken => \A id \in BrokerId : delivered[id] <= 1

(***************************************************************************)
(* And when the broker has completed an exchange, the user has the         *)
(* message: none is mistaken for one "received before" (mqtt_manager.c,    *)
(* line 245), unless identifiers clash.                                    *)
(***************************************************************************)
CompletedIsDelivered ==
  [][\A id \in BrokerId :
       exchange[id] = "released" /\ exchange'[id] = "none" /\ open' /\ ~mistaken
         => delivered[id] >= 1]_vars

(***************************************************************************)
(* Both together, and the order of it all: whatever is repeated, lost or   *)
(* left over from an earlier exchange with the same identifier, mqtt_      *)
(* manager.c delivers as QoS 2 promises, as long as the session has room   *)
(* and no item is mistaken for another.                                    *)
(***************************************************************************)
Delivery == INSTANCE OnceDelivery
              WITH Id <- BrokerId, connected <- open, stage <- exchange,
                   delivered <- delivered, unsafe <- overflowed \/ mistaken
ExactlyOnce == Delivery!Spec

(***************************************************************************)
(* A request that the command reports as done was done: the broker has     *)
(* answered this one, or the frame was sent, although mqtt_wait_for looks  *)
(* at the type of an event only and the semaphore may be raised by several *)
(* threads.  The exception is a subscription sent again, which is answered *)
(* twice.                                                                  *)
(***************************************************************************)
DoneIsAnswered ==
  [][at.main \in {"subscribe", "unsubscribe", "publish"} /\ at'.main = "idle"
       /\ ~resent => answered]_vars

(***************************************************************************)
(* "The mqtt_obj memory here can be freed or reused by application after   *)
(* calling wiced_mqtt_deinit()" (mqtt_api.h, line 41).  So nothing uses it *)
(* then, and the heartbeat's timed event, which lies in it, is             *)
(* deregistered.                                                           *)
(***************************************************************************)
HeartbeatEnds == beat => object

(***************************************************************************)
(* A full queue drops the events for received frames, and frames are lost  *)
(* when no packet is free.  The heartbeat makes up for both: an item of    *)
(* the session is sent again at its answers, and each answer also brings   *)
(* an event for a frame that was left.  So if the connection stays, the    *)
(* exchange for a received message goes on to its release.                 *)
(***************************************************************************)
Held(id) == \E i \in Items(id) : session[i].type = "pubrec"
ExchangeMovesOn ==
  <>[](open /\ object /\ beat) /\ [](~mistaken) /\ []<>(count <= MaxCount /\ Len(inbox) <= NetLen)
    => \A id \in BrokerId : Held(id) ~> ~Held(id)
=============================================================================
