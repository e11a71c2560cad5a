------------------------ MODULE MutualAuthDemoProof -------------------------
(***************************************************************************)
(* Proofs about the mutual authentication demo and the transport below it, *)
(* for any socket structures, socket ids and sessions the heap has room    *)
(* for, and any number of iterations, publishes, attempts and packets on   *)
(* the wire.  Three invariants are proved, each inductive on its own: what *)
(* the network stack holds, what the runner holds and counts, and what the *)
(* broker granted.                                                         *)
(***************************************************************************)
EXTENDS MutualAuthDemo, SequenceTheorems, TLAPS

-----------------------------------------------------------------------------
(* What the network stack holds *)

StackTyped ==
    /\ sock \in [Handles -> Socket \cup {None}]
    /\ tcp \in [Ids -> TcpStates]
    /\ ctx \in [Handles -> Context \cup {None}]
    /\ sessions \in SUBSET Sessions
    /\ strays \subseteq sessions
    /\ tcpSocket \in Handles \cup {None}
    /\ call \in [at : Steps, h : Handles \cup {None}, ok : BOOLEAN]
    /\ pc \in Locations

Gone == {"closed", "stuck"}

(* Nothing is allocated.                                                   *)
Free ==
    /\ \A h \in Handles : sock[h] = None /\ ctx[h] = None
    /\ \A i \in Ids : tcp[i] \in Gone

(* There is one socket structure, and one TCP socket at most.              *)
Only(h) ==
    /\ h \in Handles
    /\ sock[h] \in Socket
    /\ \A g \in Handles \ {h} : sock[g] = None /\ ctx[g] = None
    /\ \A i \in Ids : i # sock[h].id => tcp[i] \in Gone

(* The session of a context whose handshake was started is open, and no    *)
(* helper has it.                                                          *)
SoundContext(h) ==
    ctx[h] = None \/ ctx[h].hs = "NOT_STARTED" \/ ctx[h].session \in sessions \ strays

Connected(h) == Only(h) /\ ctx[h] \in Context

(* A context before its handshake.                                         *)
Prepared(h) == ctx[h] \in Context /\ ctx[h].session \in sessions \ strays

Outside == {"sdk", "manager", "semaphore", "network", "connect", "connectBackoff",
            "iteration", "cleanup", "end"}

Inside == Waiting \cup {"mqttConnect", "subscribe", "subackCheck", "subscribeBackoff",
                        "publish", "unsubscribe", "mqttDisconnect", "assert"}

Setup == {"tlsSetup", "dns", "connect", "tlsInit"}
Handshaking == {"tlsConnect", "handshake", "timeouts"}
Closing == {"close", "cleanup"}

(* What is allocated while a call is under way, by its step.               *)
CallInv ==
    /\ call.at = "socket" => Free
    /\ call.at \in Setup => Only(call.h) /\ ctx[call.h] = None
    /\ call.at \in Handshaking => Only(call.h) /\ Prepared(call.h)
    /\ call.at \in Closing => Only(call.h)
    /\ call.at = "cleanup" => \A i \in Ids : tcp[i] \in Gone
    /\ call.at = "undefined" => Free \/ Connected(tcpSocket)

(* Where the task stands while a call is under way.                        *)
TaskInv ==
    /\ call.at \in {"socket"} \cup Setup \cup Handshaking => pc = "connecting"
    /\ call.at \in Closing => pc = "disconnecting" \/ (pc = "connecting" /\ ~call.ok)
    /\ call.at = "undefined" => pc = "disconnecting"

(* What is allocated between two calls, by where the task stands.          *)
RestInv ==
    call.at = "idle" =>
        /\ pc \in Outside \cup {"disconnecting"} => Free
        /\ pc = "connecting" => IF call.ok THEN Connected(tcpSocket) ELSE Free
        /\ pc \in Inside => Connected(tcpSocket) /\ established
        /\ pc = "finish" => Free \/ (Connected(tcpSocket) /\ established)

StackInv ==
    /\ StackTyped
    /\ \A h \in Handles : SoundContext(h)
    /\ CallInv
    /\ TaskInv
    /\ RestInv

-----------------------------------------------------------------------------
(* What the runner holds and counts *)

RunnerInv ==
    /\ held \subseteq Resources
    /\ runs \in Nat /\ successes \in Nat
    /\ pc \in {"sdk", "manager", "semaphore", "network"} => status = FALSE
    /\ pc \in {"cleanup", "end"} => (status => 2 * successes > runs)
    /\ pc = "end" => held = {}

-----------------------------------------------------------------------------
(* What the broker granted *)

Sent == [type : {"SUBSCRIBE", "PUBLISH", "UNSUBSCRIBE"}, id : Nat]
Heard == [type : {"SUBACK", "PUBACK", "UNSUBACK", "PUBLISH"}, id : Nat, ok : BOOLEAN]

Numbers == [next : Nat, publish : Nat, subscribe : Nat, unsubscribe : Nat]

Silent == {"sdk", "manager", "semaphore", "network", "connect", "connecting",
           "connectBackoff", "mqttConnect"}

Subscribed == {"subscribe", "waitSuback", "subackCheck", "subscribeBackoff",
               "publish", "waitPublish", "unsubscribe"}

(* Until the demo unsubscribes, a SUBACK that says so, on its way or       *)
(* looked at, means that the subscription was granted; between two         *)
(* connections there is nothing on the wire and no SUBACK is remembered.   *)
GrantInv ==
    /\ ids \in Numbers
    /\ up \in Seq(Sent) /\ down \in Seq(Heard)
    /\ pc \in Silent \cup {"disconnecting", "iteration", "cleanup", "end"} =>
          up = <<>> /\ down = <<>>
    /\ pc \in Silent => ~subAck
    /\ pc \in Subscribed =>
          /\ \A i \in 1 .. Len(up) : up[i].type # "UNSUBSCRIBE"
          /\ subAck => granted
          /\ \A i \in 1 .. Len(down) : down[i].type = "SUBACK" /\ down[i].ok => granted

(* The inductive invariant.                                                *)
DemoInv == StackInv /\ RunnerInv /\ GrantInv

-----------------------------------------------------------------------------
(* The runner *)

LEMMA MoreThanHalf ==
    ASSUME NEW n \in Nat, NEW m \in Nat, n > m \div 2
    PROVE  2 * n > m
<1>1. PICK q : q = m \div 2
  OBVIOUS
<1>2. q \in Int /\ m < 2 * q + 2
  BY <1>1, SMTT(20)
<1>3. n >= q + 1
  BY <1>1, <1>2
<1>4. QED
  BY <1>2, <1>3

LEMMA RunnerInit == Init => RunnerInv
BY DEF Init, RunnerInv, Resources

(* The steps of an iteration leave what the runner holds and counts alone, *)
(* and do not end the task.                                                *)
LEMMA DemoKeepsRunner ==
    ASSUME RunnerInv, UNCHANGED <<held, runs, successes>>,
           \/ pc' = pc /\ status' = status
           \/ pc' \notin {"sdk", "manager", "semaphore", "network", "cleanup", "end"}
    PROVE  RunnerInv'
BY DEF RunnerInv

LEMMA RunnerStep ==
    ASSUME RunnerInv, [Next]_vars
    PROVE  RunnerInv'
<1>1. CASE UNCHANGED vars
  BY <1>1, DemoKeepsRunner DEF vars, demoVars
<1>2. CASE IotSdk_Init
  BY <1>2 DEF IotSdk_Init, Initialize, RunnerInv, Resources
<1>3. CASE AwsIotNetworkManager_Init
  BY <1>3 DEF AwsIotNetworkManager_Init, Initialize, RunnerInv, Resources
<1>4. CASE DemoSemaphoreCreate
  BY <1>4 DEF DemoSemaphoreCreate, Initialize, RunnerInv, Resources
<1>5. CASE EnableNetwork
  BY <1>5 DEF EnableNetwork, RunnerInv, Resources, AwsIotNetworkManager_EnableNetwork,
              SubscribeForStateChange, _ethEnable
<1>6. CASE RunnerCleanup
  BY <1>6 DEF RunnerCleanup, RunnerInv, Resources, AwsIotNetworkManager_DisableNetwork,
              RemoveSubscription, _ethDisable
<1>7. CASE Iteration
  <2>1. runs' \in Nat /\ successes' \in Nat /\ held' = held
    BY <1>7 DEF Iteration, RunnerInv
  <2>2. CASE pc' = "connect"
    BY <2>1, <2>2 DEF RunnerInv
  <2>3. CASE pc' = "cleanup" /\ runs' = MaxDemoCount /\ status' = MostSucceeded(successes')
    <3>1. status' => 2 * successes' > runs'
      <4>1. SUFFICES ASSUME successes' > MaxDemoCount \div 2
                     PROVE  2 * successes' > MaxDemoCount
        BY <2>3 DEF MostSucceeded
      <4>2. MaxDemoCount \in Nat
        BY BoundsAssumption
      <4>3. PICK n : n = successes'
        OBVIOUS
      <4>4. 2 * n > MaxDemoCount
        BY <2>1, <4>1, <4>2, <4>3, MoreThanHalf
      <4>5. QED
        BY <4>3, <4>4
    <3>2. QED
      BY <2>1, <2>3, <3>1 DEF RunnerInv
  <2>4. QED
    BY <1>7, <2>2, <2>3 DEF Iteration
<1>8. CASE TransportSteps
  BY <1>8, DemoKeepsRunner DEF TransportSteps, demoVars
<1>9. CASE BrokerAnswers
  BY <1>9, DemoKeepsRunner DEF BrokerAnswers, runnerVars
<1>10. CASE ConnectToServer \/ ConnectReturns \/ ConnectBackoff \/ CreateMQTTConnection
  BY <1>10, DemoKeepsRunner
  DEF ConnectToServer, ConnectReturns, ConnectBackoff, CreateMQTTConnection, runnerVars
<1>11. CASE Subscribe \/ SubackWaitOver \/ SubackCheck \/ SubscribeBackoff
  BY <1>11, DemoKeepsRunner
  DEF Subscribe, SubackWaitOver, SubackCheck, SubscribeBackoff, runnerVars, StartWaiting,
      SubscribeLoop
<1>12. CASE Publish \/ PublishWaitOver \/ Unsubscribe \/ UnsubackWaitOver
  BY <1>12, DemoKeepsRunner
  DEF Publish, PublishWaitOver, Unsubscribe, UnsubackWaitOver, runnerVars, StartWaiting
<1>13. CASE EventCallback \/ WaitAgain \/ MqttDisconnect \/ Finish \/ DisconnectReturns
  BY <1>13, DemoKeepsRunner
  DEF EventCallback, WaitAgain, MqttDisconnect, Finish, DisconnectReturns, runnerVars, Waiting
<1>14. QED
  BY <1>1, <1>2, <1>3, <1>4, <1>5, <1>6, <1>7, <1>8, <1>9, <1>10, <1>11, <1>12, <1>13
  DEF Next, TaskStep

-----------------------------------------------------------------------------
(* The subscription *)

LEMMA GrantInit == Init => GrantInv
<1>1. SUFFICES ASSUME Init PROVE GrantInv
  OBVIOUS
<1>2. up = <<>> /\ down = <<>> /\ subAck = FALSE /\ pc = "sdk"
  BY <1>1 DEF Init
<1>3. up \in Seq(Sent) /\ down \in Seq(Heard)
  BY <1>2
<1>4. ids \in Numbers
  BY <1>1 DEF Init, Numbers
<1>5. QED
  BY <1>2, <1>3, <1>4 DEF GrantInv, Silent, Subscribed

(* The task moves on, and nothing on the wire changes.                     *)
LEMMA WireStays ==
    ASSUME GrantInv, UNCHANGED <<up, down, granted, subAck>>,
           ids' \in Numbers,
           \/ pc' = pc
           \/ pc \in Silent /\ pc' \in Silent \cup Subscribed \cup {"end"}
           \/ pc \in Subscribed /\ pc' \in Subscribed
           \/ pc' \in {"finish", "mqttDisconnect"}
           \/ pc \in {"disconnecting", "cleanup"} /\ pc' \in {"iteration", "end"}
    PROVE  GrantInv'
BY DEF GrantInv, Silent, Subscribed

(* A request goes out.                                                     *)
LEMMA RequestGoes ==
    ASSUME GrantInv, NEW type \in {"SUBSCRIBE", "PUBLISH", "UNSUBSCRIBE"}, NEW id \in Nat,
           Request(type, id), UNCHANGED <<down, granted, subAck>>,
           ids' \in Numbers,
           \/ type # "UNSUBSCRIBE" /\ pc \in Subscribed /\ pc' \in Subscribed
           \/ pc' = "waitUnsuback"
    PROVE  GrantInv'
<1>1. PICK m : m = [type |-> type, id |-> id]
  OBVIOUS
<1>2. m \in Sent /\ m.type = type
  BY <1>1 DEF Sent
<1>3. up \in Seq(Sent) /\ up' = Append(up, m)
  BY <1>1 DEF GrantInv, Request
<1>4. /\ up' \in Seq(Sent)
      /\ \A i \in 1 .. Len(up') : up'[i] = m \/ (i \in 1 .. Len(up) /\ up'[i] = up[i])
  BY <1>2, <1>3
<1>5. CASE pc' = "waitUnsuback"
  BY <1>4, <1>5 DEF GrantInv, Silent, Subscribed
<1>6. CASE type # "UNSUBSCRIBE" /\ pc \in Subscribed /\ pc' \in Subscribed
  <2>1. \A i \in 1 .. Len(up') : up'[i].type # "UNSUBSCRIBE"
    BY <1>2, <1>4, <1>6 DEF GrantInv
  <2>2. pc' \notin Silent \cup {"disconnecting", "iteration", "cleanup", "end"}
    BY <1>6 DEF Silent, Subscribed
  <2>3. QED
    BY <1>4, <1>6, <2>1, <2>2 DEF GrantInv
<1>7. QED
  BY <1>5, <1>6

(* A packet reaches prvEventCallback.                                      *)
LEMMA PacketArrives == ASSUME GrantInv, EventCallback PROVE GrantInv'
<1>1. PICK p : p = Head(down)
  OBVIOUS
<1>2. /\ pc \in Waiting /\ down # <<>> /\ down' = Tail(down)
      /\ subAck' = IF p.type = "SUBACK" THEN p.ok ELSE subAck
      /\ pc' = pc \/ pc' = "assert"
      /\ UNCHANGED <<ids, up, granted>>
  BY <1>1 DEF EventCallback
<1>3. /\ down' \in Seq(Heard) /\ p = down[1] /\ 1 \in 1 .. Len(down)
      /\ \A i \in 1 .. Len(down') : i + 1 \in 1 .. Len(down) /\ down'[i] = down[i + 1]
  BY <1>1, <1>2 DEF GrantInv
<1>4. CASE pc' = "assert"
  BY <1>2, <1>3, <1>4 DEF GrantInv, Silent, Subscribed
<1>5. CASE pc' = pc
  <2>1. pc \notin Silent \cup {"disconnecting", "iteration", "cleanup", "end"}
    BY <1>2 DEF Waiting, Silent
  <2>2. ASSUME pc \in Subscribed
        PROVE  /\ subAck' => granted
               /\ \A i \in 1 .. Len(down') : down'[i].type = "SUBACK" /\ down'[i].ok => granted
    BY <1>2, <1>3, <2>2 DEF GrantInv
  <2>3. QED
    BY <1>2, <1>3, <1>5, <2>1, <2>2 DEF GrantInv
<1>6. QED
  BY <1>2, <1>4, <1>5

(* The broker answers.                                                     *)
LEMMA BrokerKeepsGrant == ASSUME GrantInv, BrokerAnswers PROVE GrantInv'
<1>1. PICK p : p = Head(up)
  OBVIOUS
<1>2. up # <<>> /\ up' = Tail(up) /\ UNCHANGED <<pc, ids, subAck>>
  BY DEF BrokerAnswers, waitVars
<1>3. /\ p \in Sent /\ up' \in Seq(Sent) /\ p = up[1] /\ 1 \in 1 .. Len(up)
      /\ \A i \in 1 .. Len(up') : i + 1 \in 1 .. Len(up) /\ up'[i] = up[i + 1]
  BY <1>1, <1>2 DEF GrantInv
<1>4. pc \notin Silent \cup {"disconnecting", "iteration", "cleanup", "end"}
  BY <1>2 DEF GrantInv
<1>5. down \in Seq(Heard)
  BY DEF GrantInv
<1>6. PICK puback, echo : /\ puback = Answer("PUBACK", p.id, TRUE)
                          /\ echo = Answer("PUBLISH", 0, TRUE)
  OBVIOUS
<1>7. /\ puback \in Heard /\ puback.type # "SUBACK"
      /\ echo \in Heard /\ echo.type # "SUBACK"
  BY <1>3, <1>6 DEF Answer, Heard, Sent
<1>8. CASE p.type = "SUBSCRIBE"
  <2>1. PICK ok \in BOOLEAN : /\ down' = Append(down, Answer("SUBACK", p.id, ok))
                              /\ granted' = (granted \/ ok)
    BY <1>1, <1>8 DEF BrokerAnswers
  <2>2. PICK a : a = Answer("SUBACK", p.id, ok)
    OBVIOUS
  <2>3. a \in Heard /\ a.ok = ok
    BY <1>3, <2>2 DEF Answer, Heard, Sent
  <2>4. /\ down' \in Seq(Heard)
        /\ \A i \in 1 .. Len(down') : down'[i] = a \/ (i \in 1 .. Len(down) /\ down'[i] = down[i])
    BY <1>5, <2>1, <2>2, <2>3
  <2>5. (granted => granted') /\ (ok => granted')
    BY <2>1
  <2>6. ASSUME pc \in Subscribed
        PROVE  /\ \A i \in 1 .. Len(up') : up'[i].type # "UNSUBSCRIBE"
               /\ subAck => granted'
               /\ \A i \in 1 .. Len(down') : down'[i].type = "SUBACK" /\ down'[i].ok => granted'
    BY <1>3, <2>3, <2>4, <2>5, <2>6 DEF GrantInv
  <2>7. QED
    BY <1>2, <1>3, <1>4, <2>4, <2>6 DEF GrantInv
<1>9. CASE p.type = "PUBLISH"
  <2>1. \/ down' = Append(down, puback)
        \/ down' = down \o <<puback, echo>>
        \/ down' = down \o <<echo, puback>>
    BY <1>1, <1>6, <1>9 DEF BrokerAnswers
  <2>2. /\ down' \in Seq(Heard)
        /\ \A i \in 1 .. Len(down') : \/ down'[i] \in {puback, echo}
                                      \/ i \in 1 .. Len(down) /\ down'[i] = down[i]
    <3>1. CASE down' = Append(down, puback)
      BY <1>5, <1>7, <3>1
    <3>2. ASSUME NEW a \in Heard, NEW b \in Heard, a \in {puback, echo}, b \in {puback, echo},
                 down' = down \o <<a, b>>
          PROVE  /\ down' \in Seq(Heard)
                 /\ \A i \in 1 .. Len(down') : \/ down'[i] \in {puback, echo}
                                               \/ i \in 1 .. Len(down) /\ down'[i] = down[i]
      <4>1. /\ <<a, b>> \in Seq(Heard) /\ Len(<<a, b>>) = 2
            /\ <<a, b>>[1] = a /\ <<a, b>>[2] = b
        BY <3>2
      <4>2. down' \in Seq(Heard) /\ Len(down') = Len(down) + 2
        BY <1>5, <3>2, <4>1
      <4>3. \A i \in 1 .. Len(down') : down'[i] = IF i <= Len(down) THEN down[i]
                                                  ELSE <<a, b>>[i - Len(down)]
        BY <1>5, <3>2, <4>1
      <4>4. ASSUME NEW i \in 1 .. Len(down')
            PROVE  i \in 1 .. Len(down) \/ i - Len(down) = 1 \/ i - Len(down) = 2
        BY <1>5, <4>2
      <4>5. QED
        BY <1>5, <3>2, <4>1, <4>2, <4>3, <4>4
    <3>3. QED
      BY <1>7, <2>1, <3>1, <3>2
  <2>3. granted' = granted
    BY <1>1, <1>9 DEF BrokerAnswers
  <2>4. ASSUME pc \in Subscribed
        PROVE  /\ \A i \in 1 .. Len(up') : up'[i].type # "UNSUBSCRIBE"
               /\ subAck => granted
               /\ \A i \in 1 .. Len(down') : down'[i].type = "SUBACK" /\ down'[i].ok => granted
    BY <1>3, <1>7, <2>2, <2>4 DEF GrantInv
  <2>5. QED
    BY <1>2, <1>3, <1>4, <2>2, <2>3, <2>4 DEF GrantInv
<1>10. CASE p.type = "UNSUBSCRIBE"
  <2>1. pc \notin Subscribed
    BY <1>3, <1>10 DEF GrantInv
  <2>2. down' = Append(down, Answer("UNSUBACK", p.id, TRUE))
    BY <1>1, <1>10 DEF BrokerAnswers
  <2>3. down' \in Seq(Heard)
    <3>1. PICK a : a = Answer("UNSUBACK", p.id, TRUE)
      OBVIOUS
    <3>2. a \in Heard
      BY <1>3, <3>1 DEF Answer, Heard, Sent
    <3>3. down' = Append(down, a)
      BY <2>2, <3>1
    <3>4. QED
      BY <1>5, <3>2, <3>3
  <2>4. QED
    BY <1>2, <1>3, <1>4, <2>1, <2>3 DEF GrantInv
<1>11. QED
  BY <1>3, <1>8, <1>9, <1>10 DEF Sent

(* The identifiers a step draws.                                           *)
LEMMA NumbersDrawn ==
    ASSUME NEW r \in Numbers, NEW m \in Nat, NEW n \in Nat, NEW k \in Nat
    PROVE  /\ [r EXCEPT !.next = m, !.subscribe = n] \in Numbers
           /\ [r EXCEPT !.publish = n, !.next = m] \in Numbers
           /\ [r EXCEPT !.subscribe = n, !.unsubscribe = k, !.next = m] \in Numbers
BY DEF Numbers

LEMMA GrantStep ==
    ASSUME GrantInv, [Next]_vars
    PROVE  GrantInv'
<1>0. ids \in Numbers
  BY DEF GrantInv
<1>1. CASE UNCHANGED vars
  BY <1>0, <1>1, WireStays DEF vars, demoVars
<1>2. CASE IotSdk_Init \/ AwsIotNetworkManager_Init \/ DemoSemaphoreCreate \/ EnableNetwork
  BY <1>0, <1>2, WireStays
  DEF IotSdk_Init, AwsIotNetworkManager_Init, DemoSemaphoreCreate, EnableNetwork, Initialize,
      brokerVars, waitVars, Silent
<1>3. CASE ConnectToServer \/ ConnectReturns \/ ConnectBackoff
  BY <1>0, <1>3, WireStays
  DEF ConnectToServer, ConnectReturns, ConnectBackoff, brokerVars, waitVars, Silent
<1>4. CASE CreateMQTTConnection
  <2>1. ids' \in Numbers
    <3>1. ids' = [ids EXCEPT !.next = 2, !.subscribe = 1] \/ ids' = ids
      BY <1>4 DEF CreateMQTTConnection
    <3>2. 1 \in Nat /\ 2 \in Nat
      OBVIOUS
    <3>3. [ids EXCEPT !.next = 2, !.subscribe = 1] \in Numbers
      BY <1>0, <3>2, NumbersDrawn
    <3>4. QED
      BY <1>0, <3>1, <3>3
  <2>2. QED
    BY <1>4, <2>1, WireStays DEF CreateMQTTConnection, brokerVars, waitVars, Silent, Subscribed
<1>5. CASE Subscribe
  <2>1. CASE Request("SUBSCRIBE", ids.subscribe) /\ StartWaiting("waitSuback")
    <3>1. ids.subscribe \in Nat
      BY <1>0 DEF Numbers
    <3>2. QED
      BY <1>0, <1>5, <2>1, <3>1, RequestGoes DEF Subscribe, StartWaiting, Subscribed
  <2>2. CASE RequestFails /\ pc' = "subackCheck"
    BY <1>0, <1>5, <2>2, WireStays DEF Subscribe, RequestFails, Subscribed
  <2>3. QED
    BY <1>5, <2>1, <2>2 DEF Subscribe
<1>6. CASE SubackWaitOver \/ SubackCheck \/ SubscribeBackoff
  BY <1>0, <1>6, WireStays
  DEF SubackWaitOver, SubackCheck, SubscribeBackoff, SubscribeLoop, brokerVars, waitVars,
      Subscribed
<1>7. CASE Publish
  <2>1. ids' \in Numbers
    <3>1. ids.next \in Nat /\ ids.next + 1 \in Nat
      BY <1>0 DEF Numbers
    <3>2. ids' = [ids EXCEPT !.publish = ids.next, !.next = ids.next + 1]
      BY <1>7 DEF Publish
    <3>3. PICK n, m : n = ids.next /\ m = ids.next + 1
      OBVIOUS
    <3>4. QED
      BY <1>0, <3>1, <3>2, <3>3, NumbersDrawn
  <2>2. CASE Request("PUBLISH", ids.next) /\ StartWaiting("waitPublish")
    <3>1. ids.next \in Nat
      BY <1>0 DEF Numbers
    <3>2. QED
      BY <1>7, <2>1, <2>2, <3>1, RequestGoes DEF Publish, StartWaiting, Subscribed
  <2>3. CASE RequestFails /\ pc' = "finish"
    BY <1>7, <2>1, <2>3, WireStays DEF Publish, RequestFails
  <2>4. QED
    BY <1>7, <2>2, <2>3 DEF Publish
<1>8. CASE PublishWaitOver
  BY <1>0, <1>8, WireStays DEF PublishWaitOver, brokerVars, waitVars, Subscribed
<1>9. CASE Unsubscribe
  <2>1. ids' \in Numbers
    <3>1. ids.next \in Nat /\ ids.next + 1 \in Nat /\ ids.next + 2 \in Nat
      BY <1>0 DEF Numbers
    <3>2. ids' = [ids EXCEPT !.subscribe = ids.next, !.unsubscribe = ids.next + 1,
                             !.next = ids.next + 2]
      BY <1>9 DEF Unsubscribe
    <3>3. PICK n, k, m : n = ids.next /\ k = ids.next + 1 /\ m = ids.next + 2
      OBVIOUS
    <3>4. QED
      BY <1>0, <3>1, <3>2, <3>3, NumbersDrawn
  <2>2. CASE Request("UNSUBSCRIBE", ids.next + 1) /\ StartWaiting("waitUnsuback")
    <3>1. PICK id : id = ids.next + 1
      OBVIOUS
    <3>2. id \in Nat
      BY <1>0, <3>1 DEF Numbers
    <3>3. QED
      BY <1>9, <2>1, <2>2, <3>1, <3>2, RequestGoes DEF Unsubscribe, StartWaiting
  <2>3. CASE RequestFails /\ pc' = "finish"
    BY <1>9, <2>1, <2>3, WireStays DEF Unsubscribe, RequestFails
  <2>4. QED
    BY <1>9, <2>2, <2>3 DEF Unsubscribe
<1>10. CASE UnsubackWaitOver \/ MqttDisconnect \/ WaitAgain
  BY <1>0, <1>10, WireStays DEF UnsubackWaitOver, MqttDisconnect, WaitAgain, brokerVars, waitVars
<1>11. CASE EventCallback
  BY <1>11, PacketArrives
<1>12. CASE Finish
  <2>1. up' = <<>> /\ down' = <<>> /\ ids' = ids /\ pc' \in {"disconnecting", "iteration"}
    BY <1>12 DEF Finish
  <2>2. up' \in Seq(Sent) /\ down' \in Seq(Heard)
    BY <2>1
  <2>3. QED
    BY <1>0, <2>1, <2>2 DEF GrantInv, Silent, Subscribed
<1>13. CASE DisconnectReturns \/ RunnerCleanup
  BY <1>0, <1>13, WireStays DEF DisconnectReturns, RunnerCleanup, brokerVars, waitVars
<1>14. CASE Iteration
  <2>1. /\ UNCHANGED <<ids, up, down>> /\ subAck' = FALSE
        /\ pc = "iteration" /\ pc' \in {"connect", "cleanup"}
    BY <1>14 DEF Iteration, ClearSubAck, brokerVars
  <2>2. QED
    BY <2>1 DEF GrantInv, Silent, Subscribed
<1>15. CASE TransportSteps
  BY <1>0, <1>15, WireStays DEF TransportSteps, demoVars
<1>16. CASE BrokerAnswers
  BY <1>16, BrokerKeepsGrant
<1>17. QED
  BY <1>1, <1>2, <1>3, <1>4, <1>5, <1>6, <1>7, <1>8, <1>9, <1>10, <1>11, <1>12, <1>13, <1>14,
     <1>15, <1>16
  DEF Next, TaskStep

-----------------------------------------------------------------------------
(* The network stack *)

LEMMA StackInit == Init => StackInv
<1>1. SUFFICES ASSUME Init PROVE StackInv
  OBVIOUS
<1>2. /\ sock = [h \in Handles |-> None] /\ tcp = [i \in Ids |-> "closed"]
      /\ ctx = [h \in Handles |-> None] /\ sessions = {} /\ strays = {}
      /\ tcpSocket = None /\ call = [at |-> "idle", h |-> None, ok |-> TRUE]
      /\ pc = "sdk"
  BY <1>1 DEF Init, TransportInit
<1>3. StackTyped
  BY <1>2 DEF StackTyped, TcpStates, Steps, Locations
<1>4. call.at = "idle" /\ Free
  BY <1>2 DEF Free, Gone
<1>5. \A h \in Handles : SoundContext(h)
  BY <1>4 DEF Free, SoundContext
<1>6. CallInv /\ TaskInv
  BY <1>4 DEF CallInv, TaskInv, Setup, Handshaking, Closing
<1>7. RestInv
  BY <1>2, <1>4 DEF RestInv, Outside, Inside, Waiting
<1>8. QED
  BY <1>3, <1>5, <1>6, <1>7 DEF StackInv

(* The task is in a call of the transport only where it waits for one.     *)
LEMMA NoCallElsewhere ==
    ASSUME StackInv, pc \notin {"connecting", "disconnecting"}
    PROVE  call.at = "idle"
<1>1. call.at \in Steps
  BY DEF StackInv, StackTyped
<1>2. QED
  BY <1>1 DEF StackInv, TaskInv, Steps, Setup, Handshaking, Closing

(* The task moves on between two calls, and the stack is left alone.       *)
LEMMA StackStays ==
    ASSUME StackInv, UNCHANGED <<sock, tcp, ctx, sessions, strays, tcpSocket, call>>,
           \/ pc' = pc /\ established' = established
           \/ /\ call.at = "idle" /\ established' = established
              /\ \/ pc \in Outside /\ pc' \in Outside
                 \/ pc \in Inside /\ pc' \in Inside \cup {"finish"}
                 \/ pc = "finish" /\ ~established /\ pc' = "iteration"
                 \/ pc = "disconnecting" /\ pc' = "iteration"
                 \/ pc = "connecting" /\ ~call.ok /\ pc' = "connectBackoff"
           \/ /\ call.at = "idle" /\ established'
              /\ pc = "connecting" /\ call.ok /\ pc' = "mqttConnect"
    PROVE  StackInv'
<1>1. StackTyped'
  BY DEF StackInv, StackTyped, Outside, Inside, Waiting, Locations
<1>2. \A h \in Handles : SoundContext(h)'
  BY DEF StackInv, SoundContext
<1>3. CallInv'
  BY DEF StackInv, CallInv, Free, Only, Connected, Prepared
<1>4. TaskInv'
  BY DEF StackInv, TaskInv, Setup, Handshaking, Closing
<1>5. (Free <=> Free') /\ (Connected(tcpSocket) <=> Connected(tcpSocket)')
  BY DEF Free, Connected, Only
<1>6. RestInv'
  BY <1>5 DEF StackInv, RestInv, Outside, Inside, Waiting
<1>7. QED
  BY <1>1, <1>2, <1>3, <1>4, <1>6 DEF StackInv

(* A context is freed: its session is closed once, and never a stray.      *)
LEMMA ContextFreed ==
    ASSUME StackTyped, NEW h \in Handles, SoundContext(h), ctx[h] \in Context,
           prvFreeContext(h), strays' = strays
    PROVE  /\ ctx' \in [Handles -> Context \cup {None}]
           /\ ctx'[h] \in Context /\ ctx'[h].hs = "NOT_STARTED"
           /\ \A g \in Handles \ {h} : ctx'[g] = ctx[g]
           /\ sessions' \in SUBSET Sessions /\ strays' \subseteq sessions'
<1>1. PICK c : c = ctx[h]
  OBVIOUS
<1>2. c \in Context /\ c # None
  BY <1>1, NullAssumption
<1>3. PICK d : d = MbedFreed(c)
  OBVIOUS
<1>4. d \in Context /\ d.hs = "NOT_STARTED"
  BY <1>2, <1>3 DEF MbedFreed, Context, Handshakes
<1>5. ctx' = [ctx EXCEPT ![h] = d]
  BY <1>1, <1>3 DEF prvFreeContext
<1>6. ctx \in [Handles -> Context \cup {None}]
  BY DEF StackTyped
<1>7. /\ ctx' \in [Handles -> Context \cup {None}] /\ ctx'[h] = d
      /\ \A g \in Handles \ {h} : ctx'[g] = ctx[g]
  BY <1>4, <1>5, <1>6
<1>8. sessions' = sessions \/ (sessions' = sessions \ {c.session} /\ c.hs # "NOT_STARTED")
  BY <1>1 DEF prvFreeContext, SessionsAfterFree
<1>9. c.hs # "NOT_STARTED" => c.session \notin strays
  BY <1>1, <1>2 DEF SoundContext
<1>10. sessions' \in SUBSET Sessions /\ strays' \subseteq sessions'
  BY <1>8, <1>9 DEF StackTyped
<1>11. QED
  BY <1>4, <1>7, <1>10

(* A send or a receive on the connection.                                  *)
UsesConnection ==
    SecureSocketsTransport_Send \/ SecureSocketsTransport_Recv \/ TransportPasses

LEMMA ConnectionUsed ==
    ASSUME StackInv, UsesConnection, pc \in Inside, pc' \in Inside \cup {"finish"},
           UNCHANGED <<strays, established>>
    PROVE  StackInv'
<1>1. call.at = "idle" /\ Connected(tcpSocket) /\ established
  <2>1. call.at = "idle"
    BY NoCallElsewhere DEF Inside, Waiting
  <2>2. QED
    BY <2>1 DEF StackInv, RestInv
<1>2. /\ UNCHANGED <<sock, tcp, tcpSocket, call>>
      /\ UNCHANGED <<ctx, sessions>> \/ prvFreeContext(tcpSocket)
  BY DEF UsesConnection, SecureSocketsTransport_Send, SecureSocketsTransport_Recv,
         TransportPasses, SOCKETS_Send, SOCKETS_Recv, TLS_Send, TLS_Recv, transportVars
<1>3. CASE UNCHANGED <<ctx, sessions>>
  BY <1>1, <1>2, <1>3, StackStays
<1>4. CASE prvFreeContext(tcpSocket)
  <2>1. PICK h : h = tcpSocket
    OBVIOUS
  <2>2. h \in Handles /\ ctx[h] \in Context /\ SoundContext(h)
    BY <1>1, <2>1 DEF Connected, Only, StackInv
  <2>3. /\ ctx' \in [Handles -> Context \cup {None}]
        /\ ctx'[h] \in Context /\ ctx'[h].hs = "NOT_STARTED"
        /\ \A g \in Handles \ {h} : ctx'[g] = ctx[g]
        /\ sessions' \in SUBSET Sessions /\ strays' \subseteq sessions'
    BY <1>4, <2>1, <2>2, ContextFreed DEF StackInv
  <2>4. StackTyped'
    BY <1>2, <2>3 DEF StackInv, StackTyped, Inside, Waiting, Locations
  <2>5. \A g \in Handles \ {h} : ctx'[g] = None
    BY <1>1, <2>1, <2>3 DEF Connected, Only
  <2>6. \A g \in Handles : SoundContext(g)'
    BY <2>3, <2>5 DEF SoundContext
  <2>7. Connected(tcpSocket)'
    BY <1>1, <1>2, <2>1, <2>3, <2>5 DEF Connected, Only
  <2>8. call'.at = "idle" /\ established'
    BY <1>1, <1>2
  <2>9. CallInv' /\ TaskInv'
    BY <2>8 DEF CallInv, TaskInv, Setup, Handshaking, Closing
  <2>10. RestInv'
    BY <2>7, <2>8 DEF RestInv, Outside, Inside, Waiting
  <2>11. QED
    BY <2>4, <2>6, <2>9, <2>10 DEF StackInv
<1>5. QED
  BY <1>2, <1>3, <1>4

(* prvBackoffForRetry: a helper may keep a session nobody else has.        *)
LEMMA BackoffKeepsStack ==
    ASSUME StackInv, BackoffPasses \/ BackoffFails,
           UNCHANGED <<sock, tcp, ctx, tcpSocket, call, established>>,
           \/ pc = "connectBackoff" /\ pc' \in {"connect", "finish"}
           \/ pc \in Inside /\ pc' \in Inside \cup {"finish"}
    PROVE  StackInv'
<1>1. call.at = "idle"
  BY NoCallElsewhere DEF Inside, Waiting
<1>2. \/ UNCHANGED <<sessions, strays>>
      \/ \E s \in Sessions : /\ s \notin sessions /\ sessions' = sessions \cup {s}
                             /\ strays' = strays \cup {s}
  BY DEF BackoffPasses, BackoffFails, RandomNumber, NoRandomNumber, xInitializePkcs11Session
<1>3. StackTyped'
  <2>1. sessions' \in SUBSET Sessions /\ strays' \subseteq sessions'
    BY <1>2 DEF StackInv, StackTyped
  <2>2. QED
    BY <2>1 DEF StackInv, StackTyped, Inside, Waiting, Locations
<1>4. sessions \ strays \subseteq sessions' \ strays'
  BY <1>2 DEF StackInv, StackTyped
<1>5. \A h \in Handles : SoundContext(h)'
  BY <1>4 DEF StackInv, SoundContext
<1>6. call'.at = "idle"
  BY <1>1
<1>7. CallInv' /\ TaskInv'
  BY <1>6 DEF CallInv, TaskInv, Setup, Handshaking, Closing
<1>8. (Free => Free') /\ (Connected(tcpSocket) => Connected(tcpSocket)')
  BY DEF Free, Connected, Only
<1>9. RestInv'
  BY <1>1, <1>8 DEF StackInv, RestInv, Outside, Inside, Waiting
<1>10. QED
  BY <1>3, <1>5, <1>7, <1>9 DEF StackInv

(* What GoTo and Fail make of the call.                                    *)
Calls == [at : Steps, h : Handles \cup {None}, ok : BOOLEAN]

LEMMA CallGoes ==
    ASSUME call \in Calls, NEW s \in Steps, GoTo(s)
    PROVE  /\ call' \in Calls
           /\ call'.at = s /\ call'.h = call.h /\ call'.ok = call.ok
BY DEF GoTo, Calls

LEMMA CallFails ==
    ASSUME call \in Calls, Fail
    PROVE  /\ call' \in Calls
           /\ call'.at = "close" /\ call'.h = call.h /\ call'.ok = FALSE
BY DEF Fail, Calls, Steps

(* The next step of a connect that goes on, or that fails and closes: what *)
(* is left to show is what is allocated then.                              *)
LEMMA ConnectGoesOn ==
    ASSUME StackTyped', \A h \in Handles : SoundContext(h)', pc' = "connecting",
           NEW h, call'.h = h, Only(h)',
           \/ call'.at \in Setup /\ ctx'[h] = None
           \/ call'.at \in Handshaking /\ Prepared(h)'
           \/ call'.at = "close" /\ call'.ok = FALSE
    PROVE  StackInv'
<1>1. Only(call.h)' /\ (Prepared(h)' => Prepared(call.h)') /\ ctx'[call'.h] = ctx'[h]
  BY DEF Only, Prepared
<1>2. CallInv'
  BY <1>1 DEF CallInv, Setup, Handshaking, Closing
<1>3. TaskInv'
  BY DEF TaskInv, Setup, Handshaking, Closing
<1>4. RestInv'
  BY DEF RestInv, Setup, Handshaking
<1>5. QED
  BY <1>2, <1>3, <1>4 DEF StackInv

LEMMA SocketStep ==
    ASSUME StackInv, SOCKETS_Socket, UNCHANGED <<pc, strays, established>>
    PROVE  StackInv'
<1>1. Free /\ pc = "connecting" /\ call \in Calls
  BY DEF SOCKETS_Socket, StackInv, StackTyped, CallInv, TaskInv, Calls
<1>2. PICK h \in Handles, i \in Ids :
         /\ sock[h] = None
         /\ iotSocketCreate(i)
         /\ sock' = [sock EXCEPT ![h] = [id |-> i, flags |-> {}, memory |-> {}]]
         /\ ctx' = [ctx EXCEPT ![h] = None]
         /\ call' = [call EXCEPT !.at = "tlsSetup", !.h = h]
  BY DEF SOCKETS_Socket
<1>3. PICK s : s = [id |-> i, flags |-> {}, memory |-> {}]
  OBVIOUS
<1>4. s \in Socket /\ s.id = i
  BY <1>3 DEF Socket
<1>5. call' \in Calls /\ call'.at = "tlsSetup" /\ call'.h = h
  BY <1>1, <1>2 DEF Calls, Steps
<1>6. /\ sock' \in [Handles -> Socket \cup {None}] /\ sock'[h] = s
      /\ \A g \in Handles \ {h} : sock'[g] = sock[g]
  BY <1>2, <1>3, <1>4 DEF StackInv, StackTyped
<1>7. tcp' \in [Ids -> TcpStates] /\ \A j \in Ids \ {i} : tcp'[j] = tcp[j]
  BY <1>2 DEF StackInv, StackTyped, iotSocketCreate, TcpStates
<1>8. ctx' \in [Handles -> Context \cup {None}] /\ \A g \in Handles : ctx'[g] = None
  BY <1>1, <1>2 DEF StackInv, StackTyped, Free
<1>9. sessions' = sessions /\ tcpSocket' = tcpSocket
  BY DEF SOCKETS_Socket
<1>10. StackTyped'
  BY <1>5, <1>6, <1>7, <1>8, <1>9 DEF StackInv, StackTyped, Calls
<1>11. \A g \in Handles : SoundContext(g)'
  BY <1>8 DEF SoundContext
<1>12. Only(h)'
  BY <1>1, <1>4, <1>6, <1>7, <1>8 DEF Only, Free
<1>13. pc' = "connecting" /\ call'.at \in Setup /\ ctx'[h] = None
  BY <1>1, <1>5, <1>8 DEF Setup
<1>14. QED
  BY <1>5, <1>10, <1>11, <1>12, <1>13, ConnectGoesOn

LEMMA RefusedStep ==
    ASSUME StackInv, SocketRefused, UNCHANGED <<pc, strays, established>>
    PROVE  StackInv'
<1>1. Free /\ pc = "connecting" /\ call \in Calls
  BY DEF SocketRefused, StackInv, StackTyped, CallInv, TaskInv, Calls
<1>2. call' \in Calls /\ call'.at = "idle" /\ call'.ok = FALSE
  BY <1>1 DEF SocketRefused, Calls, Steps
<1>3. UNCHANGED <<sock, tcp, ctx, sessions, tcpSocket>>
  BY DEF SocketRefused
<1>4. StackTyped'
  BY <1>2, <1>3 DEF StackInv, StackTyped, Calls
<1>5. Free' /\ \A h \in Handles : SoundContext(h)'
  BY <1>1, <1>3 DEF Free, SoundContext
<1>6. CallInv' /\ TaskInv'
  BY <1>2 DEF CallInv, TaskInv, Setup, Handshaking, Closing
<1>7. RestInv'
  BY <1>1, <1>2, <1>5 DEF RestInv, Outside, Inside, Waiting
<1>8. QED
  BY <1>4, <1>5, <1>6, <1>7 DEF StackInv

(* The steps of the set-up before there is a TLS context.                  *)
LEMMA SetupStep ==
    ASSUME StackInv, tlsSetup \/ connectToServer \/ SOCKETS_Connect,
           UNCHANGED <<pc, strays, established>>
    PROVE  StackInv'
<1>1. call.at \in Setup /\ call \in Calls
  BY DEF tlsSetup, connectToServer, SOCKETS_Connect, Setup, StackInv, StackTyped, Calls
<1>2. PICK h : h = call.h
  OBVIOUS
<1>3. Only(h) /\ ctx[h] = None /\ pc = "connecting"
  BY <1>1, <1>2 DEF StackInv, CallInv, TaskInv
<1>4. UNCHANGED <<ctx, sessions, tcpSocket>>
  BY DEF tlsSetup, connectToServer, SOCKETS_Connect
<1>5. PICK s : s = sock[h]
  OBVIOUS
<1>6. s \in Socket /\ h \in Handles
  BY <1>3, <1>5 DEF Only
<1>7. \/ UNCHANGED <<sock, tcp>>
      \/ \E r \in Socket : /\ r.id = s.id
                           /\ sock' = [sock EXCEPT ![h] = r]
                           /\ tcp' = tcp \/ tcp' = [tcp EXCEPT ![s.id] = "up"]
  <2>1. CASE connectToServer
    BY <2>1 DEF connectToServer
  <2>2. CASE tlsSetup
    <3>1. PICK memory \in {{}, {"destination"}, {"destination", "server_cert"}} :
             sock' = [sock EXCEPT ![call.h] = SOCKETS_SetSockOpt(@, memory)]
      BY <2>2 DEF tlsSetup
    <3>2. PICK r : r = SOCKETS_SetSockOpt(s, memory)
      OBVIOUS
    <3>3. r \in Socket /\ r.id = s.id
      BY <1>6, <3>2 DEF SOCKETS_SetSockOpt, Socket, Flags
    <3>4. sock' = [sock EXCEPT ![h] = r] /\ tcp' = tcp
      BY <1>2, <1>5, <2>2, <3>1, <3>2 DEF tlsSetup
    <3>5. QED
      BY <3>3, <3>4
  <2>3. CASE SOCKETS_Connect
    <3>1. CASE UNCHANGED <<sock, tcp>>
      BY <3>1
    <3>2. CASE /\ sock' = [sock EXCEPT ![call.h].flags = @ \cup {"CONNECTED"}]
               /\ iotSocketConnect(sock[call.h].id)
      <4>1. PICK r : r = [s EXCEPT !.flags = s.flags \cup {"CONNECTED"}]
        OBVIOUS
      <4>2. r \in Socket /\ r.id = s.id
        BY <1>6, <4>1 DEF Socket, Flags
      <4>3. sock' = [sock EXCEPT ![h] = r] /\ tcp' = [tcp EXCEPT ![s.id] = "up"]
        BY <1>2, <1>5, <3>2, <4>1 DEF iotSocketConnect
      <4>4. QED
        BY <4>2, <4>3
    <3>3. QED
      BY <2>3, <3>1, <3>2 DEF SOCKETS_Connect
  <2>4. QED
    BY <2>1, <2>2, <2>3
<1>8. Fail \/ \E a \in Setup : GoTo(a)
  BY DEF tlsSetup, connectToServer, SOCKETS_Connect, Setup
<1>9. /\ call' \in Calls /\ call'.h = h
      /\ call'.at \in Setup \/ (call'.at = "close" /\ call'.ok = FALSE)
  BY <1>1, <1>2, <1>8, CallGoes, CallFails DEF Setup, Steps
<1>10. /\ sock' \in [Handles -> Socket \cup {None}] /\ sock'[h] \in Socket /\ sock'[h].id = s.id
       /\ \A g \in Handles \ {h} : sock'[g] = sock[g]
       /\ tcp' \in [Ids -> TcpStates] /\ \A i \in Ids : i # s.id => tcp'[i] = tcp[i]
  BY <1>5, <1>6, <1>7 DEF StackInv, StackTyped, TcpStates
<1>11. StackTyped'
  BY <1>4, <1>9, <1>10 DEF StackInv, StackTyped, Calls
<1>12. \A g \in Handles : SoundContext(g)'
  BY <1>4 DEF StackInv, SoundContext
<1>13. Only(h)'
  BY <1>3, <1>4, <1>5, <1>10 DEF Only
<1>14. ctx'[h] = None /\ pc' = "connecting"
  BY <1>3, <1>4
<1>15. QED
  BY <1>9, <1>11, <1>12, <1>13, <1>14, ConnectGoesOn

(* A step that gives the one socket there is another TLS context.          *)
LEMMA ContextChanges ==
    ASSUME StackInv, NEW h, Only(h), pc = "connecting", UNCHANGED <<pc, sock, tcp, tcpSocket>>,
           call' \in Calls, call'.h = h,
           NEW c \in Context, ctx' = [ctx EXCEPT ![h] = c],
           sessions' \in SUBSET Sessions, strays' \subseteq sessions',
           c.hs = "NOT_STARTED" \/ c.session \in sessions' \ strays',
           \/ call'.at \in Handshaking /\ c.session \in sessions' \ strays'
           \/ call'.at = "close" /\ call'.ok = FALSE
    PROVE  StackInv'
<1>1. h \in Handles /\ \A g \in Handles \ {h} : ctx[g] = None
  BY DEF Only
<1>2. /\ ctx' \in [Handles -> Context \cup {None}] /\ ctx'[h] = c
      /\ \A g \in Handles \ {h} : ctx'[g] = None
  BY <1>1 DEF StackInv, StackTyped
<1>3. StackTyped'
  BY <1>2 DEF StackInv, StackTyped, Calls
<1>4. \A g \in Handles : SoundContext(g)'
  BY <1>2 DEF SoundContext
<1>5. Only(h)'
  BY <1>2 DEF Only
<1>6. \/ call'.at \in Handshaking /\ Prepared(h)'
      \/ call'.at = "close" /\ call'.ok = FALSE
  BY <1>2 DEF Prepared
<1>7. QED
  BY <1>3, <1>4, <1>5, <1>6, ConnectGoesOn

(* A step that only moves the call on.                                     *)
LEMMA CallMoves ==
    ASSUME StackInv, NEW h, Only(h), pc = "connecting",
           UNCHANGED <<pc, sock, tcp, ctx, sessions, strays, tcpSocket>>,
           call' \in Calls, call'.h = h,
           call'.at = "close" /\ call'.ok = FALSE
    PROVE  StackInv'
<1>1. StackTyped'
  BY DEF StackInv, StackTyped, Calls
<1>2. \A g \in Handles : SoundContext(g)'
  BY DEF StackInv, SoundContext
<1>3. Only(h)'
  BY DEF Only
<1>4. QED
  BY <1>1, <1>2, <1>3, ConnectGoesOn

LEMMA TlsInitStep ==
    ASSUME StackInv, TLS_Init, UNCHANGED <<pc, strays, established>>
    PROVE  StackInv'
<1>1. call.at \in Setup /\ call \in Calls
  BY DEF TLS_Init, Setup, StackInv, StackTyped, Calls
<1>2. PICK h : h = call.h
  OBVIOUS
<1>3. Only(h) /\ ctx[h] = None /\ pc = "connecting"
  BY <1>1, <1>2 DEF StackInv, CallInv, TaskInv
<1>4. UNCHANGED <<sock, tcp, tcpSocket>>
  BY DEF TLS_Init
<1>5. /\ sessions \in SUBSET Sessions /\ strays \subseteq sessions
      /\ strays' = strays
  BY DEF StackInv, StackTyped
<1>6. CASE Fail /\ UNCHANGED <<ctx, sessions>>
  BY <1>1, <1>2, <1>3, <1>4, <1>6, CallFails, CallMoves
<1>7. CASE Fail /\ ctx' = [ctx EXCEPT ![call.h] = NewContext(None)] /\ UNCHANGED sessions
  <2>1. PICK c : c = NewContext(None)
    OBVIOUS
  <2>2. c \in Context /\ c.hs = "NOT_STARTED"
    BY <2>1 DEF NewContext, Context, Handshakes
  <2>3. call' \in Calls /\ call'.h = h /\ call'.at = "close" /\ call'.ok = FALSE
    BY <1>1, <1>2, <1>7, CallFails
  <2>4. ctx' = [ctx EXCEPT ![h] = c]
    BY <1>2, <1>7, <2>1
  <2>5. sessions' \in SUBSET Sessions /\ strays' \subseteq sessions'
    BY <1>5, <1>7
  <2>6. QED
    BY <1>3, <1>4, <2>2, <2>3, <2>4, <2>5, ContextChanges
<1>8. CASE \E s \in Sessions : /\ xInitializePkcs11Session(s)
                               /\ ctx' = [ctx EXCEPT ![call.h] = NewContext(s)]
                               /\ GoTo("tlsConnect") \/ Fail
  <2>1. PICK s \in Sessions : /\ xInitializePkcs11Session(s)
                              /\ ctx' = [ctx EXCEPT ![call.h] = NewContext(s)]
                              /\ GoTo("tlsConnect") \/ Fail
    BY <1>8
  <2>2. PICK c : c = NewContext(s)
    OBVIOUS
  <2>3. c \in Context /\ c.hs = "NOT_STARTED" /\ c.session = s
    BY <2>2 DEF NewContext, Context, Handshakes
  <2>4. /\ sessions' \in SUBSET Sessions /\ strays' \subseteq sessions'
        /\ s \in sessions' \ strays'
    BY <1>5, <2>1 DEF xInitializePkcs11Session
  <2>5. /\ call' \in Calls /\ call'.h = h
        /\ call'.at = "tlsConnect" \/ (call'.at = "close" /\ call'.ok = FALSE)
    BY <1>1, <1>2, <2>1, CallFails, CallGoes DEF Steps
  <2>6. ctx' = [ctx EXCEPT ![h] = c]
    BY <1>2, <2>1, <2>2
  <2>7. \/ call'.at \in Handshaking /\ c.session \in sessions' \ strays'
        \/ call'.at = "close" /\ call'.ok = FALSE
    BY <2>3, <2>4, <2>5 DEF Handshaking
  <2>8. QED
    BY <1>3, <1>4, <2>3, <2>4, <2>5, <2>6, <2>7, ContextChanges
<1>9. QED
  BY <1>6, <1>7, <1>8 DEF TLS_Init

LEMMA HandshakeStep ==
    ASSUME StackInv, TLS_Connect \/ HandshakeDone, UNCHANGED <<pc, strays, established>>
    PROVE  StackInv'
<1>1. call.at \in Handshaking /\ call \in Calls
  BY DEF TLS_Connect, HandshakeDone, Handshaking, StackInv, StackTyped, Calls
<1>2. PICK h : h = call.h
  OBVIOUS
<1>3. Only(h) /\ Prepared(h) /\ pc = "connecting"
  BY <1>1, <1>2 DEF StackInv, CallInv, TaskInv
<1>4. UNCHANGED <<sock, tcp, sessions, tcpSocket>>
  BY DEF TLS_Connect, HandshakeDone
<1>5. PICK c : c = ctx[h]
  OBVIOUS
<1>6. c \in Context /\ c.session \in sessions \ strays
  BY <1>3, <1>5 DEF Prepared
<1>7. /\ sessions' \in SUBSET Sessions /\ strays' \subseteq sessions'
      /\ sessions' = sessions /\ strays' = strays
  BY <1>4 DEF StackInv, StackTyped
<1>8. ASSUME NEW d, d = prvInitializeClientCredential(c)
      PROVE  d \in Context /\ d.session = c.session
  BY <1>6, <1>8 DEF prvInitializeClientCredential, Context, Handshakes
<1>9. CASE Fail /\ UNCHANGED ctx
  BY <1>1, <1>2, <1>3, <1>4, <1>9, CallFails, CallMoves
<1>10. CASE /\ ctx' = [ctx EXCEPT ![call.h] = prvInitializeClientCredential(@)]
            /\ Fail
  <2>1. PICK d : d = prvInitializeClientCredential(c)
    OBVIOUS
  <2>2. ctx' = [ctx EXCEPT ![h] = d]
    BY <1>2, <1>5, <1>10, <2>1
  <2>3. call' \in Calls /\ call'.h = h /\ call'.at = "close" /\ call'.ok = FALSE
    BY <1>1, <1>2, <1>10, CallFails
  <2>4. d \in Context /\ d.session \in sessions' \ strays'
    BY <1>6, <1>7, <1>8, <2>1
  <2>5. QED
    BY <1>3, <1>4, <1>7, <2>2, <2>3, <2>4, ContextChanges
<1>11. CASE /\ ctx' = [ctx EXCEPT ![call.h] =
                         [prvInitializeClientCredential(@) EXCEPT !.ssl = "ready"]]
            /\ GoTo("handshake")
  <2>1. PICK d : d = prvInitializeClientCredential(c)
    OBVIOUS
  <2>2. PICK e : e = [d EXCEPT !.ssl = "ready"]
    OBVIOUS
  <2>3. ctx' = [ctx EXCEPT ![h] = e]
    BY <1>2, <1>5, <1>11, <2>1, <2>2
  <2>4. call' \in Calls /\ call'.h = h /\ call'.at = "handshake"
    BY <1>1, <1>2, <1>11, CallGoes DEF Steps
  <2>5. d \in Context /\ d.session = c.session
    BY <1>8, <2>1
  <2>6. e \in Context /\ e.session = c.session
    BY <2>2, <2>5 DEF Context
  <2>7. e.session \in sessions' \ strays' /\ call'.at \in Handshaking
    BY <1>6, <1>7, <2>4, <2>6 DEF Handshaking
  <2>8. QED
    BY <1>3, <1>4, <1>7, <2>3, <2>4, <2>6, <2>7, ContextChanges
<1>12. CASE HandshakeDone
  <2>1. PICK d : d = [c EXCEPT !.hs = "SUCCESSFUL"]
    OBVIOUS
  <2>2. ctx' = [ctx EXCEPT ![h] = d]
    BY <1>2, <1>5, <1>12, <2>1 DEF HandshakeDone
  <2>3. call' \in Calls /\ call'.h = h /\ call'.at = "timeouts"
    BY <1>1, <1>2, <1>12, CallGoes DEF Steps, HandshakeDone
  <2>4. d \in Context /\ d.session = c.session
    BY <1>6, <2>1 DEF Context, Handshakes
  <2>5. d.session \in sessions' \ strays' /\ call'.at \in Handshaking
    BY <1>6, <1>7, <2>3, <2>4 DEF Handshaking
  <2>6. QED
    BY <1>3, <1>4, <1>7, <2>2, <2>3, <2>4, <2>5, ContextChanges
<1>13. QED
  BY <1>9, <1>10, <1>11, <1>12 DEF TLS_Connect

LEMMA HandshakeFailedStep ==
    ASSUME StackInv, HandshakeFailed, UNCHANGED <<pc, strays, established>>
    PROVE  StackInv'
<1>1. call.at \in Handshaking /\ call \in Calls
  BY DEF HandshakeFailed, Handshaking, StackInv, StackTyped, Calls
<1>2. PICK h : h = call.h
  OBVIOUS
<1>3. Only(h) /\ Prepared(h) /\ pc = "connecting"
  BY <1>1, <1>2 DEF StackInv, CallInv, TaskInv
<1>4. h \in Handles /\ SoundContext(h) /\ ctx[h] \in Context
  BY <1>3 DEF Only, Prepared, StackInv
<1>5. prvFreeContext(h) /\ Fail /\ UNCHANGED <<sock, tcp, tcpSocket>>
  BY <1>2 DEF HandshakeFailed
<1>6. /\ ctx' \in [Handles -> Context \cup {None}]
      /\ ctx'[h] \in Context /\ ctx'[h].hs = "NOT_STARTED"
      /\ \A g \in Handles \ {h} : ctx'[g] = ctx[g]
      /\ sessions' \in SUBSET Sessions /\ strays' \subseteq sessions'
  BY <1>4, <1>5, ContextFreed DEF StackInv
<1>7. call' \in Calls /\ call'.h = h /\ call'.at = "close" /\ call'.ok = FALSE
  BY <1>1, <1>2, <1>5, CallFails
<1>8. StackTyped'
  BY <1>5, <1>6, <1>7 DEF StackInv, StackTyped, Calls
<1>9. Only(h)'
  BY <1>3, <1>5, <1>6 DEF Only
<1>10. \A g \in Handles : SoundContext(g)'
  BY <1>6, <1>9 DEF SoundContext, Only
<1>11. QED
  BY <1>3, <1>7, <1>8, <1>9, <1>10, ConnectGoesOn

LEMMA TimeoutsStep ==
    ASSUME StackInv, SetTimeouts, UNCHANGED <<pc, strays, established>>
    PROVE  StackInv'
<1>1. call.at \in Handshaking /\ call \in Calls
  BY DEF SetTimeouts, Handshaking, StackInv, StackTyped, Calls
<1>2. PICK h : h = call.h
  OBVIOUS
<1>3. Only(h) /\ Prepared(h) /\ pc = "connecting"
  BY <1>1, <1>2 DEF StackInv, CallInv, TaskInv
<1>4. UNCHANGED <<sock, tcp, ctx, sessions>>
  BY DEF SetTimeouts
<1>5. CASE Fail /\ UNCHANGED tcpSocket
  BY <1>1, <1>2, <1>3, <1>4, <1>5, CallFails, CallMoves
<1>6. CASE tcpSocket' = call.h /\ call' = [call EXCEPT !.at = "idle", !.ok = TRUE]
  <2>1. call' \in Calls /\ call'.at = "idle" /\ call'.ok = TRUE /\ tcpSocket' = h
    BY <1>1, <1>2, <1>6 DEF Calls, Steps
  <2>2. h \in Handles
    BY <1>3 DEF Only
  <2>3. StackTyped'
    BY <1>4, <2>1, <2>2 DEF StackInv, StackTyped, Calls
  <2>4. \A g \in Handles : SoundContext(g)'
    BY <1>4 DEF StackInv, SoundContext
  <2>5. Connected(tcpSocket)'
    BY <1>3, <1>4, <2>1 DEF Connected, Only, Prepared
  <2>6. CallInv' /\ TaskInv'
    BY <2>1 DEF CallInv, TaskInv, Setup, Handshaking, Closing
  <2>7. RestInv'
    BY <1>3, <2>1, <2>5 DEF RestInv, Outside, Inside, Waiting
  <2>8. QED
    BY <2>3, <2>4, <2>6, <2>7 DEF StackInv
<1>7. QED
  BY <1>5, <1>6 DEF SetTimeouts

(* SOCKETS_Close: the id is closed or lost, the structure is still there.  *)
LEMMA CloseStep ==
    ASSUME StackInv, SOCKETS_Close, UNCHANGED <<pc, strays, established>>
    PROVE  StackInv'
<1>1. call.at = "close" /\ call \in Calls
  BY DEF SOCKETS_Close, StackInv, StackTyped, Calls
<1>2. PICK h : h = call.h
  OBVIOUS
<1>3. Only(h) /\ (pc = "disconnecting" \/ (pc = "connecting" /\ ~call.ok))
  BY <1>1, <1>2 DEF StackInv, CallInv, TaskInv, Closing
<1>4. PICK s : s = sock[h]
  OBVIOUS
<1>5. s \in Socket /\ h \in Handles
  BY <1>3, <1>4 DEF Only
<1>6. PICK closed \in BOOLEAN :
         /\ iotSocketClose(s.id, closed)
         /\ call' = [call EXCEPT !.at = "cleanup", !.ok = @ /\ closed]
  BY <1>2, <1>4 DEF SOCKETS_Close
<1>7. PICK ok \in BOOLEAN : ok = (call.ok /\ closed)
  OBVIOUS
<1>8. /\ call' \in Calls /\ call'.at = "cleanup" /\ call'.h = h
      /\ ~call.ok => ~call'.ok
  <2>1. call' = [call EXCEPT !.at = "cleanup", !.ok = ok]
    BY <1>6, <1>7
  <2>2. call' \in Calls /\ call'.at = "cleanup" /\ call'.h = h /\ call'.ok = ok
    BY <1>1, <1>2, <1>7, <2>1 DEF Calls, Steps
  <2>3. ~call.ok => ~ok
    BY <1>7
  <2>4. QED
    BY <2>2, <2>3
<1>9. PICK r : r = [s EXCEPT !.memory = {}]
  OBVIOUS
<1>10. r \in Socket /\ r.id = s.id
  BY <1>5, <1>9 DEF Socket
<1>11. sock' = [sock EXCEPT ![h] = r]
  BY <1>2, <1>4, <1>9 DEF SOCKETS_Close
<1>12. /\ sock' \in [Handles -> Socket \cup {None}] /\ sock'[h] = r
       /\ \A g \in Handles \ {h} : sock'[g] = sock[g]
  BY <1>5, <1>10, <1>11 DEF StackInv, StackTyped
<1>13. /\ tcp' \in [Ids -> TcpStates] /\ \A i \in Ids : i # s.id => tcp'[i] = tcp[i]
       /\ tcp'[s.id] \in Gone
  <2>1. s.id \in Ids
    BY <1>5 DEF Socket
  <2>2. QED
    BY <1>6, <2>1 DEF StackInv, StackTyped, iotSocketClose, TcpStates, Gone
<1>14. UNCHANGED <<ctx, sessions, tcpSocket>>
  BY DEF SOCKETS_Close
<1>15. StackTyped'
  BY <1>8, <1>12, <1>13, <1>14 DEF StackInv, StackTyped, Calls
<1>16. \A g \in Handles : SoundContext(g)'
  BY <1>14 DEF StackInv, SoundContext
<1>17. Only(h)' /\ \A i \in Ids : tcp'[i] \in Gone
  BY <1>3, <1>4, <1>10, <1>12, <1>13, <1>14 DEF Only
<1>18. CallInv'
  <2>1. Only(call.h)'
    BY <1>8, <1>17 DEF Only
  <2>2. QED
    BY <1>8, <1>17, <2>1 DEF CallInv, Setup, Handshaking, Closing
<1>19. TaskInv'
  BY <1>3, <1>8 DEF TaskInv, Setup, Handshaking, Closing
<1>20. RestInv'
  BY <1>8 DEF RestInv
<1>21. QED
  BY <1>15, <1>16, <1>18, <1>19, <1>20 DEF StackInv

(* TLS_Cleanup: nothing is allocated any more.                             *)
LEMMA CleanupStep ==
    ASSUME StackInv, TLS_Cleanup, UNCHANGED <<pc, strays, established>>
    PROVE  StackInv'
<1>1. call.at = "cleanup" /\ call \in Calls
  BY DEF TLS_Cleanup, StackInv, StackTyped, Calls
<1>2. PICK h : h = call.h
  OBVIOUS
<1>3. /\ Only(h) /\ \A i \in Ids : tcp[i] \in Gone
      /\ pc = "disconnecting" \/ (pc = "connecting" /\ ~call.ok)
  BY <1>1, <1>2 DEF StackInv, CallInv, TaskInv, Closing
<1>4. h \in Handles
  BY <1>3 DEF Only
<1>5. PICK c : c = ctx[h]
  OBVIOUS
<1>6. /\ sock' = [sock EXCEPT ![h] = None] /\ ctx' = [ctx EXCEPT ![h] = None]
      /\ UNCHANGED <<tcp, tcpSocket>> /\ GoTo("idle")
  BY <1>2 DEF TLS_Cleanup
<1>7. call' \in Calls /\ call'.at = "idle" /\ call'.ok = call.ok
  BY <1>1, <1>6, CallGoes DEF Steps
<1>8. /\ sock' \in [Handles -> Socket \cup {None}] /\ ctx' \in [Handles -> Context \cup {None}]
      /\ \A g \in Handles : sock'[g] = None /\ ctx'[g] = None
  BY <1>3, <1>4, <1>6 DEF Only, StackInv, StackTyped
<1>9. sessions' \in SUBSET Sessions /\ strays' \subseteq sessions'
  <2>1. \/ sessions' = sessions
        \/ c # None /\ c.hs # "NOT_STARTED" /\ sessions' = sessions \ {c.session}
    BY <1>2, <1>5 DEF TLS_Cleanup, SessionsAfterFree
  <2>2. c = None \/ c.hs = "NOT_STARTED" \/ c.session \in sessions \ strays
    BY <1>4, <1>5 DEF StackInv, SoundContext
  <2>3. QED
    BY <2>1, <2>2 DEF StackInv, StackTyped
<1>10. StackTyped'
  BY <1>6, <1>7, <1>8, <1>9 DEF StackInv, StackTyped, Calls
<1>11. Free' /\ \A g \in Handles : SoundContext(g)'
  BY <1>3, <1>6, <1>8 DEF Free, SoundContext
<1>12. CallInv' /\ TaskInv'
  BY <1>7 DEF CallInv, TaskInv, Setup, Handshaking, Closing
<1>13. RestInv'
  BY <1>3, <1>7, <1>11 DEF RestInv, Outside, Inside, Waiting
<1>14. QED
  BY <1>10, <1>11, <1>12, <1>13 DEF StackInv

(* SecureSocketsTransport_Connect is called.                               *)
LEMMA ConnectStarts == ASSUME StackInv, ConnectToServer PROVE StackInv'
<1>1. /\ pc = "connect" /\ pc' = "connecting"
      /\ UNCHANGED <<sock, tcp, ctx, sessions, tcpSocket, strays>>
      /\ call' = [at |-> "socket", h |-> None, ok |-> TRUE]
  BY DEF ConnectToServer, SecureSocketsTransport_Connect
<1>2. Free
  <2>1. call.at = "idle"
    BY <1>1, NoCallElsewhere
  <2>2. QED
    BY <1>1, <2>1 DEF StackInv, RestInv, Outside
<1>3. call' \in Calls /\ call'.at = "socket"
  BY <1>1 DEF Calls, Steps
<1>4. StackTyped'
  BY <1>1, <1>3 DEF StackInv, StackTyped, Calls, Locations
<1>5. Free' /\ \A g \in Handles : SoundContext(g)'
  BY <1>1, <1>2 DEF Free, SoundContext
<1>6. CallInv' /\ TaskInv' /\ RestInv'
  BY <1>1, <1>3, <1>5 DEF CallInv, TaskInv, RestInv, Setup, Handshaking, Closing
<1>7. QED
  BY <1>4, <1>5, <1>6 DEF StackInv

(* The end of an iteration: SecureSocketsTransport_Disconnect is called if *)
(* a connection was ever established.                                      *)
LEMMA FinishStep == ASSUME StackInv, Finish PROVE StackInv'
<1>1. pc = "finish" /\ UNCHANGED <<strays, established>>
  BY DEF Finish, runnerVars
<1>2. call.at = "idle" /\ (Free \/ Connected(tcpSocket)) /\ call \in Calls
  <2>1. call.at = "idle"
    BY <1>1, NoCallElsewhere
  <2>2. QED
    BY <1>1, <2>1 DEF StackInv, StackTyped, RestInv, Calls
<1>3. CASE ~established /\ pc' = "iteration" /\ UNCHANGED transportVars
  BY <1>1, <1>2, <1>3, StackStays DEF transportVars
<1>4. CASE SecureSocketsTransport_Disconnect /\ pc' = "disconnecting"
  <2>1. UNCHANGED <<tcp, ctx, sessions, tcpSocket>>
    BY <1>4 DEF SecureSocketsTransport_Disconnect
  <2>2. \A g \in Handles : SoundContext(g)'
    BY <1>1, <2>1 DEF StackInv, SoundContext
  <2>3. CASE /\ SocketIsLive
             /\ sock' = [sock EXCEPT ![tcpSocket].flags = @ \cup {"SHUTDOWN_RD", "SHUTDOWN_WR"}]
             /\ call' = [at |-> "close", h |-> tcpSocket, ok |-> TRUE]
    <3>1. PICK h : h = tcpSocket
      OBVIOUS
    <3>2. h \in Handles /\ Only(h)
      <4>1. h \in Handles /\ sock[h] # None
        BY <2>3, <3>1 DEF SocketIsLive, StackInv, StackTyped
      <4>2. QED
        BY <1>2, <3>1, <4>1 DEF Free, Connected
    <3>3. PICK s : s = sock[h]
      OBVIOUS
    <3>4. PICK r : r = [s EXCEPT !.flags = s.flags \cup {"SHUTDOWN_RD", "SHUTDOWN_WR"}]
      OBVIOUS
    <3>5. s \in Socket
      BY <3>2, <3>3 DEF Only
    <3>6. r \in Socket /\ r.id = s.id
      BY <3>4, <3>5 DEF Socket, Flags
    <3>7. sock' = [sock EXCEPT ![h] = r]
      BY <2>3, <3>1, <3>3, <3>4
    <3>8. /\ sock' \in [Handles -> Socket \cup {None}] /\ sock'[h] = r
          /\ \A g \in Handles \ {h} : sock'[g] = sock[g]
      BY <3>2, <3>6, <3>7 DEF StackInv, StackTyped
    <3>9. call' \in Calls /\ call'.at = "close" /\ call'.h = h
      BY <2>3, <3>1, <3>2 DEF Calls, Steps
    <3>10. StackTyped'
      BY <1>1, <1>4, <2>1, <3>8, <3>9 DEF StackInv, StackTyped, Calls, Locations
    <3>11. Only(h)'
      BY <2>1, <3>2, <3>3, <3>6, <3>8 DEF Only
    <3>12. CallInv'
      <4>1. Only(call.h)'
        BY <3>9, <3>11 DEF Only
      <4>2. QED
        BY <3>9, <4>1 DEF CallInv, Setup, Handshaking, Closing
    <3>13. TaskInv' /\ RestInv'
      BY <1>4, <3>9 DEF TaskInv, RestInv, Setup, Handshaking, Closing
    <3>14. QED
      BY <2>2, <3>10, <3>12, <3>13 DEF StackInv
  <2>4. CASE tcpSocket = None /\ call' = [call EXCEPT !.ok = FALSE] /\ UNCHANGED sock
    <3>1. Free
      BY <1>2, <2>4, NoneAssumption DEF Connected, Only
    <3>2. call' \in Calls /\ call'.at = "idle"
      BY <1>2, <2>4 DEF Calls
    <3>3. StackTyped'
      BY <1>1, <1>4, <2>1, <2>4, <3>2 DEF StackInv, StackTyped, Calls, Locations
    <3>4. Free'
      BY <2>1, <2>4, <3>1 DEF Free
    <3>5. CallInv' /\ TaskInv'
      BY <3>2 DEF CallInv, TaskInv, Setup, Handshaking, Closing
    <3>6. RestInv'
      BY <1>4, <3>4 DEF RestInv, Inside, Waiting
    <3>7. QED
      BY <2>2, <3>3, <3>5, <3>6 DEF StackInv
  <2>5. CASE GoTo("undefined") /\ UNCHANGED sock
    <3>1. call' \in Calls /\ call'.at = "undefined"
      BY <1>2, <2>5, CallGoes DEF Steps
    <3>2. StackTyped'
      BY <1>1, <1>4, <2>1, <2>5, <3>1 DEF StackInv, StackTyped, Calls, Locations
    <3>3. Free' \/ Connected(tcpSocket)'
      BY <1>2, <2>1, <2>5 DEF Free, Connected, Only
    <3>4. CallInv' /\ TaskInv' /\ RestInv'
      BY <1>4, <3>1, <3>3 DEF CallInv, TaskInv, RestInv, Setup, Handshaking, Closing
    <3>5. QED
      BY <2>2, <3>2, <3>4 DEF StackInv
  <2>6. QED
    BY <1>4, <2>3, <2>4, <2>5 DEF SecureSocketsTransport_Disconnect
<1>5. QED
  BY <1>3, <1>4 DEF Finish

LEMMA StackStep ==
    ASSUME StackInv, [Next]_vars
    PROVE  StackInv'
<1>1. CASE UNCHANGED vars
  BY <1>1, StackStays DEF vars, demoVars, transportVars
<1>2. CASE \/ IotSdk_Init \/ AwsIotNetworkManager_Init \/ DemoSemaphoreCreate
           \/ EnableNetwork \/ RunnerCleanup \/ Iteration
  <2>1. pc \in Outside /\ pc' \in Outside /\ UNCHANGED <<transportVars, strays, established>>
    BY <1>2 DEF IotSdk_Init, AwsIotNetworkManager_Init, DemoSemaphoreCreate, EnableNetwork,
                RunnerCleanup, Iteration, Initialize, Outside
  <2>2. call.at = "idle"
    BY <2>1, NoCallElsewhere DEF Outside
  <2>3. QED
    BY <2>1, <2>2, StackStays DEF transportVars
<1>3. CASE ConnectToServer
  BY <1>3, ConnectStarts
<1>4. CASE ConnectReturns
  BY <1>4, StackStays DEF ConnectReturns, Idle, transportVars
<1>5. CASE ConnectBackoff
  BY <1>5, BackoffKeepsStack DEF ConnectBackoff, runnerVars
<1>6. CASE SubscribeBackoff
  BY <1>6, BackoffKeepsStack DEF SubscribeBackoff, SubscribeLoop, runnerVars, Inside
<1>7. CASE SubackCheck
  <2>1. /\ pc \in Inside /\ pc' \in Inside \cup {"finish"}
        /\ UNCHANGED <<transportVars, strays, established>>
    BY <1>7 DEF SubackCheck, SubscribeLoop, runnerVars, Inside
  <2>2. call.at = "idle"
    BY <2>1, NoCallElsewhere DEF Inside, Waiting
  <2>3. QED
    BY <2>1, <2>2, StackStays DEF transportVars
<1>8. CASE CreateMQTTConnection \/ EventCallback \/ WaitAgain \/ MqttDisconnect
  <2>1. /\ UsesConnection /\ pc \in Inside /\ pc' \in Inside \cup {"finish"}
        /\ UNCHANGED <<strays, established>>
    BY <1>8 DEF CreateMQTTConnection, EventCallback, WaitAgain, MqttDisconnect, UsesConnection,
                runnerVars, Inside
  <2>2. QED
    BY <2>1, ConnectionUsed
<1>9. CASE Subscribe \/ Publish \/ Unsubscribe
  <2>1. /\ UsesConnection /\ pc \in Inside /\ pc' \in Inside \cup {"finish"}
        /\ UNCHANGED <<strays, established>>
    BY <1>9 DEF Subscribe, Publish, Unsubscribe, Request, RequestFails, StartWaiting,
                UsesConnection, runnerVars, Inside, Waiting
  <2>2. QED
    BY <2>1, ConnectionUsed
<1>10. CASE SubackWaitOver \/ PublishWaitOver \/ UnsubackWaitOver
  <2>1. /\ UsesConnection /\ pc \in Inside /\ pc' \in Inside \cup {"finish"}
        /\ UNCHANGED <<strays, established>>
    BY <1>10 DEF SubackWaitOver, PublishWaitOver, UnsubackWaitOver, WaitOver, WaitFails,
                 UsesConnection, runnerVars, Inside, Waiting
  <2>2. QED
    BY <2>1, ConnectionUsed
<1>11. CASE Finish
  BY <1>11, FinishStep
<1>12. CASE DisconnectReturns
  BY <1>12, StackStays DEF DisconnectReturns, Idle, runnerVars, transportVars
<1>13. CASE TransportSteps
  <2>1. UNCHANGED <<pc, strays, established>> /\ TransportStep
    BY <1>13 DEF TransportSteps, demoVars
  <2>2. QED
    BY <2>1, SocketStep, RefusedStep, SetupStep, TlsInitStep, HandshakeStep,
       HandshakeFailedStep, TimeoutsStep, CloseStep, CleanupStep
    DEF TransportStep
<1>14. CASE BrokerAnswers
  BY <1>14, StackStays DEF BrokerAnswers, runnerVars, transportVars
<1>15. QED
  BY <1>1, <1>2, <1>3, <1>4, <1>5, <1>6, <1>7, <1>8, <1>9, <1>10, <1>11, <1>12, <1>13, <1>14
  DEF Next, TaskStep

(* There is never more than one socket.                                    *)
LEMMA OneSocketAtMost ==
    ASSUME StackInv
    PROVE  Free \/ \E h \in Handles : Only(h)
<1>1. call.at \in Steps /\ pc \in Locations
  BY DEF StackInv, StackTyped
<1>2. CASE call.at = "idle"
  <2>1. Free \/ Connected(tcpSocket)
    BY <1>1, <1>2 DEF StackInv, RestInv, Outside, Inside, Locations
  <2>2. QED
    BY <2>1 DEF Connected, Only
<1>3. CASE call.at # "idle"
  <2>1. Free \/ Only(call.h) \/ Connected(tcpSocket)
    BY <1>1, <1>3 DEF StackInv, CallInv, Steps, Setup, Handshaking, Closing
  <2>2. QED
    BY <2>1 DEF Connected, Only
<1>4. QED
  BY <1>2, <1>3

LEMMA StackIsExact ==
    ASSUME StackInv
    PROVE  HeldSessionsOpen /\ ReleasedAtRest
<1>1. HeldSessionsOpen
  <2>1. SUFFICES ASSUME NEW h \in Handles, ctx[h] # None, ctx[h].hs # "NOT_STARTED"
                 PROVE  /\ ctx[h].session \in sessions \ strays
                        /\ \A g \in Handles \ {h} : ctx[g] = None
    BY DEF HeldSessionsOpen
  <2>2. ctx[h].session \in sessions \ strays
    BY <2>1 DEF StackInv, SoundContext
  <2>3. Only(h)
    BY <2>1, OneSocketAtMost DEF Free, Only
  <2>4. QED
    BY <2>2, <2>3 DEF Only
<1>2. ReleasedAtRest
  BY DEF StackInv, RestInv, ReleasedAtRest, AtRest, Idle, Outside, Free, Gone
<1>3. QED
  BY <1>1, <1>2

-----------------------------------------------------------------------------
(* The theorems *)

(* The inductive invariant of the demo and of the stack below it           *)
(* (mqtt_demo_mutual_auth.c, transport_secure_sockets.c, iot_tls.c) holds  *)
(* in every state.                                                         *)
THEOREM DemoInvariant == Spec => []DemoInv
<1>1. Init => DemoInv
  BY StackInit, RunnerInit, GrantInit DEF DemoInv
<1>2. DemoInv /\ [Next]_vars => DemoInv'
  <2>1. SUFFICES ASSUME DemoInv, [Next]_vars PROVE DemoInv'
    OBVIOUS
  <2>2. StackInv'
    BY <2>1, StackStep DEF DemoInv
  <2>3. RunnerInv'
    BY <2>1, RunnerStep DEF DemoInv
  <2>4. GrantInv'
    BY <2>1, GrantStep DEF DemoInv
  <2>5. QED
    BY <2>2, <2>3, <2>4 DEF DemoInv
<1>3. QED
  BY <1>1, <1>2, PTL DEF Spec

(* Whatever fails on the way, a PKCS #11 session is closed only by the TLS *)
(* context that still holds it, an attempt that ended and a connection     *)
(* that was closed leave nothing allocated, and the task ends with         *)
(* everything the runner initialized released.                             *)
THEOREM DemoSessionsExact == Spec => []SessionsAreExact
<1>1. DemoInv => SessionsAreExact
  <2>1. SUFFICES ASSUME DemoInv PROVE SessionsAreExact
    OBVIOUS
  <2>2. HeldSessionsOpen /\ ReleasedAtRest
    BY <2>1, StackIsExact DEF DemoInv
  <2>3. EndsClean
    BY <2>1 DEF DemoInv, RunnerInv, EndsClean
  <2>4. QED
    BY <2>2, <2>3 DEF SessionsAreExact
<1>2. QED
  BY <1>1, DemoInvariant, PTL

(* The demo publishes on the strength of a SUBACK only if the broker       *)
(* granted the subscription on this connection: xSubAckStatus of an        *)
(* earlier iteration is never taken for this one's.                        *)
THEOREM DemoGrantCurrent == Spec => []GrantIsCurrent
<1>1. DemoInv => GrantIsCurrent
  BY DEF DemoInv, GrantInv, GrantIsCurrent, Subscribed
<1>2. QED
  BY <1>1, DemoInvariant, PTL

=============================================================================
