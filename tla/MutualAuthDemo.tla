--------------------------- MODULE MutualAuthDemo ---------------------------
(***************************************************************************)
(* The mutual authentication demo (mqtt_demo_mutual_auth.c) as the demo    *)
(* runner starts it (iot_demo_freertos.c, over the network manager in its  *)
(* Ethernet configuration), on the transport of SecureTransport, against a *)
(* broker that answers every request once, in the order of the requests,   *)
(* after any delay.                                                        *)
(*                                                                         *)
(* One task runs everything: pc is where it stands.  up and down are the   *)
(* packets on their way to the broker and back.  coreMQTT and the back-off *)
(* library are external: a request is one send on the transport,           *)
(* MQTT_ProcessLoop hands any number of packets to prvEventCallback and    *)
(* returns.                                                                *)
(***************************************************************************)
EXTENDS SecureTransport, Integers, Sequences

CONSTANTS
    MaxDemoCount,     \* democonfigMQTT_MAX_DEMO_COUNT
    MaxPublishCount,  \* ulMaxPublishCount
    MaxAttempts,      \* RETRY_MAX_ATTEMPTS
    MaxWaits,         \* MQTT_PROCESS_LOOP_PACKET_WAIT_COUNT_MAX
    MaxInFlight       \* a bound: packets on the wire when a request is sent

ASSUME BoundsAssumption ==
    /\ MaxDemoCount \in Nat \ {0}
    /\ MaxPublishCount \in Nat \ {0}
    /\ MaxAttempts \in Nat
    /\ MaxWaits \in Nat \ {0}
    /\ MaxInFlight \in Nat \ {0}

VARIABLES
    pc,           \* where the demo task stands
    held,         \* what the runner initialized and has to release
    runs,         \* ulDemoRunCount
    successes,    \* ulDemoSuccessCount
    status,       \* xDemoStatus = pdPASS
    established,  \* xIsConnectionEstablished
    attempts,     \* attemptsDone of the back-off in use
    subscription, \* locals of prvMQTTSubscribeWithBackoffRetries
    publishes,    \* ulPublishCount
    waits,        \* calls of MQTT_ProcessLoop in prvWaitForPacket
    received,     \* usPacketTypeReceived
    subAck,       \* xSubAckStatus is not MQTTSubAckFailure
    ids,          \* the packet identifiers of the demo, and the next one
    up, down,     \* packets to the broker, packets from the broker
    granted,      \* the broker holds the subscription of this connection
    strays        \* sessions lost by xPkcs11GenerateRandomNumber

runnerVars == <<held, runs, successes, established>>
subscribeVars == <<attempts, subscription>>
waitVars == <<waits, received, subAck>>
brokerVars == <<up, down, granted>>
demoVars == <<pc, held, runs, successes, status, established, attempts,
              subscription, publishes, waits, received, subAck, ids, up, down,
              granted, strays>>
vars == <<demoVars, transportVars>>

Waiting == {"waitSuback", "waitPublish", "waitUnsuback"}

Locations ==
    Waiting \cup
    {"sdk", "manager", "semaphore", "network", "connect", "connecting",
     "connectBackoff", "mqttConnect", "subscribe", "subackCheck",
     "subscribeBackoff", "publish", "unsubscribe", "mqttDisconnect", "finish",
     "disconnecting", "iteration", "cleanup", "end", "assert"}

Resources == {"sdk", "semaphore", "subscription", "network"}

AwaitedType(p) ==
    CASE p = "waitSuback"   -> "SUBACK"
      [] p = "waitPublish"  -> "PUBLISH"
      [] p = "waitUnsuback" -> "UNSUBACK"

MaxId == MaxPublishCount + 3

\* A connection and its requests: a packet to the broker carries an
\* identifier, a packet from it the identifier it answers (0 for PUBLISH)
\* and whether a subscription was granted.
Requests == [type : {"SUBSCRIBE", "PUBLISH", "UNSUBSCRIBE"}, id : 1 .. MaxId]

Answers ==
    [type : {"SUBACK", "PUBACK", "UNSUBACK", "PUBLISH"}, id : 0 .. MaxId,
     ok : BOOLEAN]

(***************************************************************************)
(* Every variable has its type.                                            *)
(***************************************************************************)
TypeOK ==
    /\ TransportTypeOK
    /\ pc \in Locations
    /\ held \in SUBSET Resources
    /\ runs \in 0 .. MaxDemoCount
    /\ successes \in 0 .. MaxDemoCount
    /\ status \in BOOLEAN
    /\ established \in BOOLEAN
    /\ attempts \in 0 .. MaxAttempts
    /\ subscription \in [status : BOOLEAN, failed : BOOLEAN, backoff : BOOLEAN]
    /\ publishes \in 0 .. MaxPublishCount
    /\ waits \in 0 .. MaxWaits
    /\ received \in {"none", "SUBACK", "UNSUBACK", "PUBLISH"}
    /\ subAck \in BOOLEAN
    /\ ids \in [next : 1 .. MaxId + 1, publish : 0 .. MaxId,
                subscribe : 0 .. MaxId, unsubscribe : 0 .. MaxId]
    /\ up \in Seq(Requests)
    /\ down \in Seq(Answers)
    /\ granted \in BOOLEAN
    /\ strays \in SUBSET sessions

NewSubscription == [status |-> FALSE, failed |-> FALSE, backoff |-> FALSE]

Init ==
    /\ TransportInit
    /\ pc = "sdk"
    /\ held = {}
    /\ runs = 0
    /\ successes = 0
    /\ status = FALSE
    /\ established = FALSE
    /\ attempts = 0
    /\ subscription = NewSubscription
    /\ publishes = 0
    /\ waits = 0
    /\ received = "none"
    /\ subAck = FALSE
    /\ ids = [next |-> 1, publish |-> 0, subscribe |-> 0, unsubscribe |-> 0]
    /\ up = <<>>
    /\ down = <<>>
    /\ granted = FALSE
    /\ strays = {}

(***************************************************************************)
(* The runner: _initialize and _cleanup of iot_demo_freertos.c.            *)
(***************************************************************************)

\* One of the three initializations that can fail; a failure releases what
\* was initialized before it and ends the task.
Initialize(here, there, resource) ==
    /\ pc = here
    /\ \/ /\ held' = held \cup resource
          /\ pc' = there
       \/ /\ held' = {}
          /\ pc' = "end"
    /\ UNCHANGED <<runs, successes, status, established, subscribeVars,
                   publishes, waitVars, ids, brokerVars, strays, transportVars>>

IotSdk_Init == Initialize("sdk", "manager", {"sdk"})
AwsIotNetworkManager_Init == Initialize("manager", "semaphore", {})
DemoSemaphoreCreate == Initialize("semaphore", "network", {"semaphore"})

\* The network manager with its one network, Ethernet: the first of five empty
\* places for the subscription, and a network that is connected as soon as it
\* is enabled.
SubscribeForStateChange(h) == h \cup {"subscription"}

_ethEnable(h) == h \cup {"network"}

_ethDisable(h) == h \ {"network"}

RemoveSubscription(h) == h \ {"subscription"}

AwsIotNetworkManager_EnableNetwork(h) == _ethEnable(h)

AwsIotNetworkManager_DisableNetwork(h) == _ethDisable(h)

AwsIotNetworkManager_GetConnectedNetworks(h) == h \cap {"network"}

\* _getConnectedNetworkForDemo: Ethernet is the only candidate.
_getConnectedNetworkForDemo(h) == AwsIotNetworkManager_GetConnectedNetworks(h) # {}

\* The network is enabled and the runner goes on once it is connected, which
\* it is at once: the wait for the semaphore is never needed.
EnableNetwork ==
    /\ pc = "network"
    /\ held' = AwsIotNetworkManager_EnableNetwork(SubscribeForStateChange(held))
    /\ _getConnectedNetworkForDemo(held')
    /\ pc' = "connect"
    /\ UNCHANGED <<runs, successes, status, established, subscribeVars,
                   publishes, waitVars, ids, brokerVars, strays, transportVars>>

\* _cleanup: the subscription, the networks, the semaphore, the SDK.
RunnerCleanup ==
    /\ pc = "cleanup"
    /\ held' = AwsIotNetworkManager_DisableNetwork(RemoveSubscription(held))
                \ {"semaphore", "sdk"}
    /\ pc' = "end"
    /\ UNCHANGED <<runs, successes, status, established, subscribeVars,
                   publishes, waitVars, ids, brokerVars, strays, transportVars>>

(***************************************************************************)
(* prvConnectToServerWithBackoffRetries.                                   *)
(***************************************************************************)
ConnectToServer ==
    /\ pc = "connect"
    /\ SecureSocketsTransport_Connect
    /\ pc' = "connecting"
    /\ UNCHANGED <<runnerVars, status, subscribeVars, publishes, waitVars, ids,
                   brokerVars, strays>>

\* The connection is up, or the retry waits.
ConnectReturns ==
    /\ pc = "connecting"
    /\ Idle
    /\ \/ /\ call.ok
          /\ established' = TRUE
          /\ status' = TRUE
          /\ pc' = "mqttConnect"
       \/ /\ ~call.ok
          /\ pc' = "connectBackoff"
          /\ UNCHANGED <<established, status>>
    /\ UNCHANGED <<held, runs, successes, subscribeVars, publishes, waitVars,
                   ids, brokerVars, strays, transportVars>>

\* xPkcs11GenerateRandomNumber works: it opens a session and closes it.
RandomNumber == sessions # Sessions /\ UNCHANGED <<sessions, strays>>

\* It fails: it has no session, or it keeps the one it opened.
NoRandomNumber ==
    \/ UNCHANGED <<sessions, strays>>
    \/ \E s \in Sessions :
          /\ xInitializePkcs11Session(s)
          /\ strays' = strays \cup {s}

BackoffPasses_Uncounted ==
    /\ RandomNumber
    /\ attempts < MaxAttempts
    /\ UNCHANGED attempts

\* prvBackoffForRetry: pdPASS, and the delay is over.
BackoffPasses ==
    /\ RandomNumber
    /\ attempts < MaxAttempts
    /\ attempts' = attempts + 1

\* prvBackoffForRetry: pdFAIL.
BackoffFails ==
    /\ \/ RandomNumber /\ attempts = MaxAttempts
       \/ NoRandomNumber
    /\ UNCHANGED attempts

ConnectBackoff ==
    /\ pc = "connectBackoff"
    /\ \/ /\ BackoffPasses
          /\ pc' = "connect"
          /\ UNCHANGED status
       \/ /\ BackoffFails
          /\ status' = FALSE
          /\ pc' = "finish"
    /\ UNCHANGED <<runnerVars, subscription, publishes, waitVars, ids,
                   brokerVars, sock, tcp, ctx, tcpSocket, call>>

(***************************************************************************)
(* One request on the wire: a send that passes, one that ends in a timeout *)
(* of the library, one that breaks the TLS context.                        *)
(***************************************************************************)
Request(type, id) ==
    /\ TransportPasses
    /\ Len(up) + Len(down) < MaxInFlight
    /\ up' = Append(up, [type |-> type, id |-> id])

RequestFails ==
    /\ SecureSocketsTransport_Send
    /\ UNCHANGED up

\* prvCreateMQTTConnectionWithBroker: CONNECT and CONNACK on a fresh context.
CreateMQTTConnection ==
    /\ pc = "mqttConnect"
    /\ \/ /\ TransportPasses
          /\ ids' = [ids EXCEPT !.next = 2, !.subscribe = 1]
          /\ attempts' = 0
          /\ pc' = "subscribe"
          /\ UNCHANGED status
       \/ /\ SecureSocketsTransport_Send \/ SecureSocketsTransport_Recv
          /\ status' = FALSE
          /\ pc' = "finish"
          /\ UNCHANGED <<ids, attempts>>
    /\ UNCHANGED <<runnerVars, subscription, publishes, waitVars, brokerVars,
                   strays>>

(***************************************************************************)
(* prvWaitForPacket and prvEventCallback.                                  *)
(***************************************************************************)
StartWaiting(p) ==
    /\ pc' = p
    /\ received' = "none"
    /\ waits' = 1

\* The configASSERTs of prvMQTTProcessResponse.
AckMatches(p) ==
    /\ p.type = "PUBACK"   => p.id = ids.publish
    /\ p.type = "SUBACK"   => p.id = ids.subscribe
    /\ p.type = "UNSUBACK" => p.id = ids.unsubscribe

\* A packet reaches prvEventCallback while MQTT_ProcessLoop runs.
EventCallback ==
    /\ pc \in Waiting
    /\ down # <<>>
    /\ TransportPasses
    /\ LET p == Head(down)
       IN  /\ received' = IF p.type = "PUBACK" THEN received ELSE p.type
           /\ subAck' = IF p.type = "SUBACK" THEN p.ok ELSE subAck
           /\ pc' = IF AckMatches(p) THEN pc ELSE "assert"
    /\ down' = Tail(down)
    /\ UNCHANGED <<runnerVars, status, subscribeVars, publishes, waits, ids, up,
                   granted, strays>>

\* MQTT_ProcessLoop returns and the wait goes on.
WaitAgain ==
    /\ pc \in Waiting
    /\ TransportPasses
    /\ received # AwaitedType(pc)
    /\ waits < MaxWaits
    /\ waits' = waits + 1
    /\ UNCHANGED <<pc, runnerVars, status, subscribeVars, publishes, received,
                   subAck, ids, brokerVars, strays>>

\* The wait is over without an error, be the packet there or not.
WaitOver ==
    /\ TransportPasses
    /\ received = AwaitedType(pc) \/ waits = MaxWaits

\* MQTT_ProcessLoop fails: in the transport, or in the library above it.
WaitFails == SecureSocketsTransport_Recv

(***************************************************************************)
(* prvMQTTSubscribeWithBackoffRetries: the body of its loop, and the loop. *)
(***************************************************************************)
Subscribe ==
    /\ pc = "subscribe"
    /\ \/ /\ Request("SUBSCRIBE", ids.subscribe)
          /\ subscription' = [subscription EXCEPT !.status = TRUE]
          /\ StartWaiting("waitSuback")
       \/ /\ RequestFails
          /\ pc' = "subackCheck"
          /\ UNCHANGED <<subscription, waits, received>>
    /\ UNCHANGED <<runnerVars, status, attempts, publishes, subAck, ids, down,
                   granted, strays>>

SubackWaitOver ==
    /\ pc = "waitSuback"
    /\ \/ /\ WaitOver
          /\ UNCHANGED subscription
       \/ /\ WaitFails
          /\ subscription' = [subscription EXCEPT !.status = FALSE]
    /\ pc' = "subackCheck"
    /\ UNCHANGED <<runnerVars, status, attempts, publishes, waitVars, ids,
                   brokerVars, strays>>

\* The loop goes on while the last SUBACK that was looked at was a failure
\* and the last back-off passed.
SubscribeLoop(failed, backoff) ==
    IF failed /\ backoff
    THEN pc' = "subscribe" /\ UNCHANGED <<status, publishes>>
    ELSE /\ status' = subscription.status
         /\ pc' = IF subscription.status THEN "publish" ELSE "finish"
         /\ publishes' = 0

SubackCheck ==
    /\ pc = "subackCheck"
    /\ \/ /\ subscription.status /\ subAck
          /\ subscription' = [subscription EXCEPT !.failed = FALSE]
          /\ SubscribeLoop(FALSE, subscription.backoff)
       \/ /\ subscription.status /\ ~subAck
          /\ subscription' = [subscription EXCEPT !.failed = TRUE]
          /\ pc' = "subscribeBackoff"
          /\ UNCHANGED <<status, publishes>>
       \/ /\ ~subscription.status
          /\ SubscribeLoop(subscription.failed, subscription.backoff)
          /\ UNCHANGED subscription
    /\ UNCHANGED <<runnerVars, attempts, waitVars, ids, brokerVars, strays,
                   transportVars>>

SubscribeBackoff ==
    /\ pc = "subscribeBackoff"
    /\ \/ /\ BackoffPasses
          /\ subscription' = [subscription EXCEPT !.backoff = TRUE]
          /\ SubscribeLoop(TRUE, TRUE)
       \/ /\ BackoffFails
          /\ subscription' = [subscription EXCEPT !.backoff = FALSE]
          /\ SubscribeLoop(TRUE, FALSE)
    /\ UNCHANGED <<runnerVars, waitVars, ids, brokerVars, sock, tcp, ctx,
                   tcpSocket, call>>

(***************************************************************************)
(* The publish loop, UNSUBSCRIBE, DISCONNECT.                              *)
(***************************************************************************)
Publish ==
    /\ pc = "publish"
    /\ ids' = [ids EXCEPT !.publish = ids.next, !.next = @ + 1]
    /\ \/ /\ Request("PUBLISH", ids.next)
          /\ StartWaiting("waitPublish")
          /\ UNCHANGED status
       \/ /\ RequestFails
          /\ status' = FALSE
          /\ pc' = "finish"
          /\ UNCHANGED <<waits, received>>
    /\ UNCHANGED <<runnerVars, subscribeVars, publishes, subAck, down, granted,
                   strays>>

MorePublishes == publishes + 1 < MaxPublishCount

PublishWaitOver ==
    /\ pc = "waitPublish"
    /\ publishes' = publishes + 1
    /\ \/ /\ WaitOver
          /\ pc' = IF MorePublishes THEN "publish" ELSE "unsubscribe"
          /\ UNCHANGED status
       \/ /\ WaitFails
          /\ status' = FALSE
          /\ pc' = "finish"
    /\ UNCHANGED <<runnerVars, subscribeVars, waitVars, ids, brokerVars, strays>>

\* Two identifiers are drawn; the first replaces that of the SUBSCRIBE.
Unsubscribe ==
    /\ pc = "unsubscribe"
    /\ ids' = [ids EXCEPT !.subscribe = ids.next, !.unsubscribe = ids.next + 1,
                          !.next = @ + 2]
    /\ \/ /\ Request("UNSUBSCRIBE", ids.next + 1)
          /\ StartWaiting("waitUnsuback")
          /\ UNCHANGED status
       \/ /\ RequestFails
          /\ status' = FALSE
          /\ pc' = "finish"
          /\ UNCHANGED <<waits, received>>
    /\ UNCHANGED <<runnerVars, subscribeVars, publishes, subAck, down, granted,
                   strays>>

UnsubackWaitOver ==
    /\ pc = "waitUnsuback"
    /\ \/ /\ WaitOver
          /\ pc' = "mqttDisconnect"
          /\ UNCHANGED status
       \/ /\ WaitFails
          /\ status' = FALSE
          /\ pc' = "finish"
    /\ UNCHANGED <<runnerVars, subscribeVars, publishes, waitVars, ids,
                   brokerVars, strays>>

\* The result of MQTT_Disconnect is not looked at.
MqttDisconnect ==
    /\ pc = "mqttDisconnect"
    /\ SecureSocketsTransport_Send
    /\ pc' = "finish"
    /\ UNCHANGED <<runnerVars, status, subscribeVars, publishes, waitVars, ids,
                   brokerVars, strays>>

(***************************************************************************)
(* The end of an iteration: the connection is closed if one was ever       *)
(* established, the SUBACK status is cleared, the success is counted.      *)
(* Packets on their way are lost with the connection; the locals of the    *)
(* iteration are out of scope.                                             *)
(***************************************************************************)
Finish ==
    /\ pc = "finish"
    /\ up' = <<>>
    /\ down' = <<>>
    /\ granted' = FALSE
    /\ subscription' = NewSubscription
    /\ publishes' = 0
    /\ waits' = 0
    /\ \/ /\ established
          /\ SecureSocketsTransport_Disconnect
          /\ pc' = "disconnecting"
       \/ /\ ~established
          /\ pc' = "iteration"
          /\ UNCHANGED transportVars
    /\ UNCHANGED <<runnerVars, status, attempts, received, subAck, ids, strays>>

DisconnectReturns ==
    /\ pc = "disconnecting"
    /\ Idle
    /\ status' = (status /\ call.ok)
    /\ pc' = "iteration"
    /\ UNCHANGED <<runnerVars, subscribeVars, publishes, waitVars, ids,
                   brokerVars, strays, transportVars>>

ClearSubAck_Missing == UNCHANGED subAck

ClearSubAck == subAck' = FALSE

MostSucceeded(n) == n > MaxDemoCount \div 2

Iteration ==
    /\ pc = "iteration"
    /\ ClearSubAck
    /\ successes' = IF status THEN successes + 1 ELSE successes
    /\ runs' = runs + 1
    /\ attempts' = 0
    /\ \/ /\ runs + 1 < MaxDemoCount
          /\ pc' = "connect"
          /\ UNCHANGED status
       \/ /\ runs + 1 = MaxDemoCount
          /\ pc' = "cleanup"
          /\ status' = MostSucceeded(successes')
    /\ UNCHANGED <<held, established, subscription, publishes, waits, received,
                   ids, brokerVars, strays, transportVars>>

\* The steps of the transport call under way.
TransportSteps ==
    /\ TransportStep
    /\ UNCHANGED demoVars

(***************************************************************************)
(* The broker.  It answers one request at a time; the echo of a PUBLISH    *)
(* goes out before or after its PUBACK.                                    *)
(***************************************************************************)
Answer(type, id, ok) == [type |-> type, id |-> id, ok |-> ok]

BrokerAnswers ==
    /\ up # <<>>
    /\ up' = Tail(up)
    /\ LET p == Head(up)
           puback == Answer("PUBACK", p.id, TRUE)
           echo == Answer("PUBLISH", 0, TRUE)
       IN  \/ /\ p.type = "SUBSCRIBE"
              /\ \E ok \in BOOLEAN :
                    /\ down' = Append(down, Answer("SUBACK", p.id, ok))
                    /\ granted' = (granted \/ ok)
           \/ /\ p.type = "PUBLISH"
              /\ \/ ~granted /\ down' = Append(down, puback)
                 \/ granted /\ down' = down \o <<puback, echo>>
                 \/ granted /\ down' = down \o <<echo, puback>>
              /\ UNCHANGED granted
           \/ /\ p.type = "UNSUBSCRIBE"
              /\ down' = Append(down, Answer("UNSUBACK", p.id, TRUE))
              /\ granted' = FALSE
    /\ UNCHANGED <<pc, runnerVars, status, subscribeVars, publishes, waitVars,
                   ids, strays, transportVars>>

TaskStep ==
    \/ IotSdk_Init
    \/ AwsIotNetworkManager_Init
    \/ DemoSemaphoreCreate
    \/ EnableNetwork
    \/ ConnectToServer
    \/ ConnectReturns
    \/ ConnectBackoff
    \/ CreateMQTTConnection
    \/ Subscribe
    \/ SubackWaitOver
    \/ SubackCheck
    \/ SubscribeBackoff
    \/ Publish
    \/ PublishWaitOver
    \/ Unsubscribe
    \/ UnsubackWaitOver
    \/ EventCallback
    \/ WaitAgain
    \/ MqttDisconnect
    \/ Finish
    \/ DisconnectReturns
    \/ Iteration
    \/ RunnerCleanup
    \/ TransportSteps

Next == TaskStep \/ BrokerAnswers

\* The scheduler runs the demo task, and every wait in it has a timeout; nobody
\* makes the broker answer.
Spec == Init /\ [][Next]_vars /\ WF_vars(TaskStep)

(***************************************************************************)
(* Properties.                                                             *)
(***************************************************************************)

\* The context a step of the stack frees closes a session only while it still
\* holds it: a context whose handshake was started has an open session, no
\* other context and no helper has the same one.  A second prvFreeContext,
\* after an error in TLS_Send, TLS_Recv or TLS_Connect, must not close it twice.
HeldSessionsOpen ==
    \A h \in Handles :
        ctx[h] # None /\ ctx[h].hs # "NOT_STARTED" =>
            /\ ctx[h].session \in sessions \ strays
            /\ \A g \in Handles \ {h} :
                  ctx[g] # None => ctx[g].session # ctx[h].session

AtRest ==
    /\ Idle
    /\ pc \in {"connect", "connectBackoff", "iteration", "cleanup", "end"}

\* Whatever failed on the way, an attempt that ended and a connection that was
\* closed leave no socket structure, no TLS context and no TCP socket behind,
\* but for those whose iotSocketClose failed.
ReleasedAtRest ==
    AtRest =>
        /\ \A h \in Handles : sock[h] = None /\ ctx[h] = None
        /\ \A i \in Ids : tcp[i] \in {"closed", "stuck"}

\* The demo goes on to publish on the strength of a SUBACK only if the broker
\* granted the subscription on this very connection: the status of an earlier
\* iteration is not taken for this one's.
GrantIsCurrent ==
    subAck /\ pc \in {"publish", "waitPublish", "unsubscribe"} => granted

\* The task ends with everything the runner initialized released, and reports
\* a success only if more than half of the iterations counted as one.
EndsClean ==
    pc = "end" => held = {} /\ (status => 2 * successes > runs)

\* What the stack holds is exact on every path: sessions are closed once,
\* failed attempts and closed connections leave nothing allocated, and the task
\* ends with everything the runner initialized released.
SessionsAreExact == HeldSessionsOpen /\ ReleasedAtRest /\ EndsClean

\* What keeps the demo from its end, once it is there for good: the loop that
\* resubscribes on a connection that failed, an assertion, or undefined
\* behaviour.
Resubscribing ==
    /\ pc \in {"subscribe", "waitSuback", "subackCheck"}
    /\ subscription.failed /\ subscription.backoff

Halted == pc \in {"end", "assert"} \/ call.at = "undefined"

\* Every retry is bounded: the demo ends, but for the three cases above.
DemoSettles == <>[](Halted \/ Resubscribing)

(***************************************************************************)
(* What the comments and the assertions of the code say, and the code does *)
(* not do.                                                                 *)
(***************************************************************************)

\* Disconnect is called for a connection that exists.
DisconnectsOpenSocket == call.at # "undefined"

\* prvMQTTSubscribeWithBackoffRetries returns: its loop is not left spinning.
SubscribeReturns == ~(<>[]Resubscribing)

\* An acknowledgement that arrives is that of the current request.
AcksMatchRequests == pc # "assert"

\* Closing a socket frees what belongs to it, the PKCS #11 session included.
SessionsReleased == AtRest => sessions = strays
=============================================================================
