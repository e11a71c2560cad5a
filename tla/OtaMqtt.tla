------------------------------ MODULE OtaMqtt ------------------------------
(***************************************************************************)
(* The MQTT side of the OTA demo (ota_demo_core_mqtt.c): the OTA agent     *)
(* task that issues MQTT commands and waits a limited time for them, the   *)
(* MQTT agent task that executes them, routes incoming publishes into      *)
(* event buffers and reconnects a broken connection with the OTA agent     *)
(* suspended, and the demo task that disconnects at the end.               *)
(*                                                                         *)
(* External, modelled from how the demo uses them: the MQTT agent library  *)
(* (a command is queued, sent, and concluded by its callback when it is    *)
(* acknowledged, refused or cancelled), the OTA library (events handled    *)
(* one at a time, any number of MQTT calls while it is running), the       *)
(* broker and the network.                                                 *)
(*                                                                         *)
(* A command refers to a context in the stack frame of the call that       *)
(* issued it.  A callback that runs after that call has returned uses      *)
(* whatever is there by then: see Frames.                                  *)
(***************************************************************************)
EXTENDS Integers, Sequences, FiniteSets, Lists

CONSTANTS
  Commands,        \* commandStructurePool; the command queue (25 entries) and the
                   \* table of outstanding acknowledgements hold all of them
  Buffers,         \* pxEventBuffer
  EventsLength,    \* entries of the event queue of the OTA agent
  OtaFilters,      \* the topic filters the OTA library subscribes to
  None,            \* no command, no buffer
  MayTimeOut       \* whether suspending or resuming the OTA agent may take longer
                   \* than otaexampleSUSPEND_TIMEOUT_MS

ASSUME OtaAssumption ==
  /\ IsFiniteSet(Commands) /\ IsFiniteSet(Buffers)
  /\ EventsLength \in Nat \ {0}
  /\ OtaFilters \subseteq {"notify", "stream"}
  /\ None \notin Commands \cup Buffers
  /\ MayTimeOut \in BOOLEAN

VARIABLES
  commandPool,    \* the structures nobody uses
  commandQueue,   \* xCommandQueue
  pendingAcks,    \* sent and not yet acknowledged
  command,        \* what each structure was last filled with
  agentTask,      \* where prvMQTTAgentTask is
  loopStatus,     \* the result of its last MQTTAgent_CommandLoop: success or an error
  routing,        \* the callbacks an incoming publish has still to be handed to
  subscriptions,  \* pxGlobalSubscriptionList
  otaTask,        \* where the OTA agent task is in an MQTT call
  call,           \* the operation and topic filter of that call
  own,            \* the command of that call until it is concluded
  xReturnStatus,  \* in the context of that call
  notification,   \* pending task notifications of the OTA agent and demo task
  otaState,       \* OTA_GetState
  events,         \* the event queue of the OTA agent
  bufferUsed,     \* the event buffers marked as used
  inHand,         \* the buffer of the event the OTA agent is processing
  demoTask,       \* where RunOtaCoreMqttDemo is
  fault           \* "none", or what stopped the system

commandVars == <<commandPool, commandQueue, pendingAcks, command>>
callVars    == <<otaTask, call, own, xReturnStatus>>
eventVars   == <<events, bufferUsed, inHand>>
agentVars   == <<agentTask, loopStatus, routing>>
vars == <<commandVars, callVars, eventVars, agentVars, subscriptions, notification,
          otaState, demoTask, fault>>

Filters    == {"notify", "stream", "jobs"}
Operations == {"subscribe", "unsubscribe", "publish", "disconnect"}
Requests   == [op : Operations, filter : Filters \cup {"none"}]

(* The routes an entry of the subscription list can name.                  *)
Routes == [filter : Filters, callback : {"job", "data", "default"}]

TypeOK ==
  /\ commandPool \subseteq Commands /\ pendingAcks \subseteq Commands
  /\ commandQueue \in Seq(Commands)
  /\ command \in [Commands -> Requests]
  /\ agentTask \in {"loop", "drain", "clear", "suspend", "suspending", "connect",
                    "resume", "resuming", "deleted"}
  /\ loopStatus \in {"MQTTSuccess", "error"}
  /\ routing \subseteq Routes /\ subscriptions \subseteq Routes
  /\ otaTask \in {"ready", "notifyWait", "returning"}
  /\ call \in Requests
  /\ own \in Commands \cup {None}
  /\ xReturnStatus \in {"MQTTSuccess", "MQTTSendFailed", "MQTTRecvFailed", "MQTTServerRefused"}
  /\ notification \in [{"ota", "demo"} -> BOOLEAN]
  /\ otaState \in {"Running", "Suspended", "ShuttingDown", "Stopped"}
  /\ events \in Seq([event : {"Suspend", "Resume", "Data", "Shutdown"}, buffer : Buffers \cup {None}])
  /\ Len(events) <= EventsLength
  /\ bufferUsed \subseteq Buffers
  /\ inHand \in Buffers \cup {None}
  /\ demoTask \in {"running", "disconnect", "notifyWait", "done"}
  /\ fault \in {"none", "assert", "wild", "deleted"}

NoCall == [op |-> "publish", filter |-> "none"]

-----------------------------------------------------------------------------
(* Subscription manager *)

(* The callbacks whose wild-card pattern matches a topic filter.  The job  *)
(* notification topic also matches the default pattern jobs/#.             *)
xOtaTopicFilterCallbacks ==
  [notify |-> {"job", "default"}, stream |-> {"data"}, jobs |-> {"default"}]

(* The entries prvRegisterOTACallback asks for.                            *)
Registered(f) == {[filter |-> f, callback |-> cb] : cb \in xOtaTopicFilterCallbacks[f]}

(* An entry that exists already is not added again.  There are four        *)
(* different entries, fewer than SUBSCRIPTION_MANAGER_MAX_SUBSCRIPTIONS.   *)
AddSubscription(f) == subscriptions \cup Registered(f)

RemoveSubscription(f) == {r \in subscriptions : r.filter # f}

(* The topics of incoming publishes and the filters that match them.       *)
Matching == [notify |-> {"notify", "jobs"}, accepted |-> {"jobs"}, stream |-> {"stream"}]

(* The default callback drops everything but accepted job requests.        *)
Accepts(cb, topic) == cb = "default" => topic = "accepted"

-----------------------------------------------------------------------------
(* Completion of a command *)

(* What a callback finds at the address of its context: the frame of its   *)
(* call, or, after that call has returned, the old contents, the frame of  *)
(* a later call of the same function, or data of something else.           *)
Frames(c) ==
  IF IF command[c].op = "disconnect" THEN demoTask = "notifyWait" ELSE own = c
  THEN {"alive"}
  ELSE {"intact", "other"} \cup
       {f \in {"reused"} : otaTask # "ready" /\ call.op = command[c].op}

(* Mutant of Completed: registers whatever the outcome was.                *)
Completed_Swapped(op, f, status) ==
  CASE op = "subscribe" /\ status # "MQTTSuccess" -> AddSubscription(f)
    [] op = "unsubscribe" /\ status = "MQTTSuccess" -> RemoveSubscription(f)
    [] OTHER -> subscriptions

(* The subscription list after the callback of a command.                  *)
Completed(op, f, status) ==
  CASE op = "subscribe" /\ status = "MQTTSuccess" -> AddSubscription(f)
    [] op = "unsubscribe" /\ status = "MQTTSuccess" -> RemoveSubscription(f)
    [] OTHER -> subscriptions

(* Agent_ReleaseCommand.                                                   *)
Released(c) == commandPool \cup {c}

(* The library concludes a command: the callback stores the result in the  *)
(* context, notifies the task, and the structure returns to the pool (its  *)
(* contents no longer matter).                                             *)
Conclude(c, status) ==
  /\ commandPool' = Released(c)
  /\ command' = [command EXCEPT ![c] = NoCall]
  /\ own' = IF own = c THEN None ELSE own
  /\ \E frame \in Frames(c) :
       IF frame = "other"
       THEN /\ fault' = "wild"
            /\ UNCHANGED <<subscriptions, xReturnStatus, notification>>
       ELSE /\ subscriptions' = Completed(command[c].op,
                                          IF frame = "reused" THEN call.filter
                                                              ELSE command[c].filter,
                                          status)
            /\ xReturnStatus' = IF command[c].op # "disconnect" /\ frame # "intact"
                                THEN status ELSE xReturnStatus
            /\ notification' = [notification EXCEPT
                 ![IF command[c].op = "disconnect" THEN "demo" ELSE "ota"] = TRUE]
            /\ UNCHANGED fault

-----------------------------------------------------------------------------
(* The MQTT calls of the OTA agent task *)

(* Mutant of Queued: the structure stays in the pool.                      *)
Queued_Peek(c, request) ==
  /\ c \in commandPool
  /\ commandPool' = commandPool
  /\ commandQueue' = Append(commandQueue, c)
  /\ command' = [command EXCEPT ![c] = request]

(* Agent_GetCommand and Agent_MessageSend: fill a free structure and queue *)
(* it.                                                                     *)
Queued(c, request) ==
  /\ c \in commandPool
  /\ commandPool' = commandPool \ {c}
  /\ commandQueue' = Append(commandQueue, c)
  /\ command' = [command EXCEPT ![c] = request]

(* The OTA library calls while it handles events, and unsubscribes while it *)
(* shuts down.                                                             *)
OtaMayCall(op) ==
  /\ otaTask = "ready"
  /\ otaState = "Running" \/ (otaState = "ShuttingDown" /\ op = "unsubscribe")

(* prvMqttSubscribe, prvMqttPublish and prvMqttUnSubscribe up to the wait. *)
Issue(request) ==
  /\ OtaMayCall(request.op)
  /\ \E c \in Commands : Queued(c, request) /\ own' = c
  /\ otaTask' = "notifyWait"
  /\ call' = request
  /\ xReturnStatus' = "MQTTSendFailed"
  /\ UNCHANGED <<pendingAcks, eventVars, agentVars, subscriptions, notification, otaState,
                 demoTask, fault>>

prvMqttSubscribe(f)   == Issue([op |-> "subscribe", filter |-> f])
prvMqttUnSubscribe(f) == Issue([op |-> "unsubscribe", filter |-> f])
prvMqttPublish        == Issue([op |-> "publish", filter |-> "none"])

(* No structure became free within MQTT_AGENT_SEND_BLOCK_TIME_MS: the      *)
(* assertion on xCommandStatus fails, in a call or in the demo task.       *)
NoCommandLeft ==
  /\ OtaMayCall("unsubscribe") \/ demoTask = "disconnect"
  /\ commandPool = {}
  /\ fault' = "assert"
  /\ UNCHANGED <<commandVars, callVars, eventVars, agentVars, subscriptions, notification,
                 otaState, demoTask>>

(* Mutant of NotifyWait: waits again until there is a notification.        *)
NotifyWait_Again ==
  /\ otaTask = "notifyWait"
  /\ IF notification["ota"]
     THEN /\ otaTask' = "returning"
          /\ notification' = [notification EXCEPT !["ota"] = FALSE]
     ELSE UNCHANGED <<otaTask, notification>>
  /\ UNCHANGED <<commandVars, call, own, xReturnStatus, eventVars, agentVars, subscriptions,
                 otaState, demoTask, fault>>

(* xTaskNotifyWait returns with a notification, whichever it is, or after  *)
(* MQTT_AGENT_MS_TO_WAIT_FOR_NOTIFICATION.                                 *)
NotifyWait ==
  /\ otaTask = "notifyWait"
  /\ otaTask' = "returning"
  /\ notification' = [notification EXCEPT !["ota"] = FALSE]
  /\ UNCHANGED <<commandVars, call, own, xReturnStatus, eventVars, agentVars, subscriptions,
                 otaState, demoTask, fault>>

(* The call looks at xReturnStatus and returns; its frame is gone.         *)
Return ==
  /\ otaTask = "returning"
  /\ otaTask' = "ready"
  /\ call' = NoCall
  /\ own' = None
  /\ xReturnStatus' = "MQTTSendFailed"
  /\ UNCHANGED <<commandVars, eventVars, agentVars, subscriptions, notification, otaState,
                 demoTask, fault>>

-----------------------------------------------------------------------------
(* The MQTT agent task *)

Looping == agentTask = "loop" /\ routing = {}

(* The command loop takes a command and sends it.  It is concluded at once *)
(* if it needs no acknowledgement (a publish with QoS 0, the disconnect    *)
(* that ends the loop) or cannot be sent, which also ends the loop.        *)
ProcessCommand ==
  /\ Looping
  /\ commandQueue # <<>>
  /\ commandQueue' = Tail(commandQueue)
  /\ LET c == Head(commandQueue)
     IN  \/ /\ command[c].op # "disconnect"
            /\ pendingAcks' = pendingAcks \cup {c}
            /\ UNCHANGED <<commandPool, command, agentVars, own, xReturnStatus,
                           subscriptions, notification, fault>>
         \/ /\ command[c].op = "publish"
            /\ Conclude(c, "MQTTSuccess")
            /\ UNCHANGED <<pendingAcks, agentVars>>
         \/ \E status \in {"MQTTSuccess", "MQTTSendFailed"} :
              /\ status = "MQTTSuccess" => command[c].op = "disconnect"
              /\ Conclude(c, status)
              /\ agentTask' = "drain"
              /\ loopStatus' = IF status = "MQTTSuccess" THEN status ELSE "error"
              /\ UNCHANGED <<pendingAcks, routing>>
  /\ UNCHANGED <<otaTask, call, eventVars, otaState, demoTask>>

(* An acknowledgement arrives; a subscription may be refused.              *)
Acknowledge(c) ==
  /\ Looping
  /\ c \in pendingAcks
  /\ pendingAcks' = pendingAcks \ {c}
  /\ \E status \in {"MQTTSuccess", "MQTTServerRefused"} :
       /\ status = "MQTTServerRefused" => command[c].op = "subscribe"
       /\ Conclude(c, status)
  /\ UNCHANGED <<commandQueue, agentVars, otaTask, call, eventVars, otaState, demoTask>>

(* The connection is lost: the command loop returns an error.              *)
ConnectionLost ==
  /\ Looping
  /\ agentTask' = "drain" /\ loopStatus' = "error"
  /\ UNCHANGED <<commandVars, callVars, eventVars, routing, subscriptions, notification,
                 otaState, demoTask, fault>>

(* MQTTAgent_CancelAll concludes what is queued until the queue is empty,  *)
(* and then what waits for an acknowledgement.                             *)
CancelQueued ==
  /\ agentTask = "drain"
  /\ IF commandQueue = <<>>
     THEN /\ agentTask' = "clear"
          /\ UNCHANGED <<commandPool, commandQueue, command, own, xReturnStatus, subscriptions,
                         notification, fault>>
     ELSE /\ Conclude(Head(commandQueue), "MQTTRecvFailed")
          /\ commandQueue' = Tail(commandQueue)
          /\ UNCHANGED agentTask
  /\ UNCHANGED <<pendingAcks, loopStatus, routing, otaTask, call, eventVars, otaState,
                 demoTask>>

CancelPending ==
  /\ agentTask = "clear"
  /\ IF pendingAcks = {}
     THEN /\ agentTask' = IF loopStatus = "MQTTSuccess" THEN "deleted" ELSE "suspend"
          /\ UNCHANGED <<commandPool, pendingAcks, command, own, xReturnStatus, subscriptions,
                         notification, fault>>
     ELSE /\ \E c \in pendingAcks : /\ Conclude(c, "MQTTRecvFailed")
                                   /\ pendingAcks' = pendingAcks \ {c}
          /\ UNCHANGED agentTask
  /\ UNCHANGED <<commandQueue, loopStatus, routing, otaTask, call, eventVars, otaState,
                 demoTask>>

(* OTA_SignalEvent: the OTA agent has not stopped and its queue has room.  *)
CanSignal == otaState # "Stopped" /\ Len(events) < EventsLength

(* OTA_Suspend and OTA_Resume queue an event; they fail, and with them an  *)
(* assertion, when the OTA agent has stopped or the event queue is full.   *)
Signal(at, event, next) ==
  /\ agentTask = at
  /\ IF CanSignal
     THEN /\ events' = Append(events, [event |-> event, buffer |-> None])
          /\ agentTask' = next
          /\ UNCHANGED fault
     ELSE /\ fault' = "assert"
          /\ UNCHANGED <<events, agentTask>>
  /\ UNCHANGED <<commandVars, callVars, bufferUsed, inHand, loopStatus, routing,
                 subscriptions, notification, otaState, demoTask>>

(* Mutant of Suspended: goes on as soon as the event has been queued.      *)
Suspended_Assumed == TRUE

(* What prvSuspendOTA polls for.                                           *)
Suspended == otaState = "Suspended"

(* Shutting down or stopped: the OTA agent is never suspended again.       *)
Ending == otaState \in {"ShuttingDown", "Stopped"}

(* Polls OTA_GetState; gives up, in an assertion, after the timeout.       *)
Poll(at, reached, next) ==
  /\ agentTask = at
  /\ \/ reached /\ agentTask' = next /\ UNCHANGED fault
     \/ /\ ~reached /\ (MayTimeOut \/ Ending)
        /\ fault' = "assert" /\ UNCHANGED agentTask
  /\ UNCHANGED <<commandVars, callVars, eventVars, loopStatus, routing, subscriptions,
                 notification, otaState, demoTask>>

prvSuspendOTA ==
  Signal("suspend", "Suspend", "suspending") \/ Poll("suspending", Suspended, "connect")

prvResumeOTA ==
  Signal("resume", "Resume", "resuming") \/ Poll("resuming", ~Suspended, "loop")

(* The command queue and the agent context are created anew; the pool of   *)
(* command structures is filled only once.                                 *)
prvMqttAgentInit == commandQueue' = <<>> /\ pendingAcks' = {}

(* The agent task goes on whether or not the broker accepted the MQTT      *)
(* connection; when all attempts to connect the socket fail an assertion   *)
(* does.                                                                   *)
prvConnectToMQTTBroker ==
  /\ agentTask = "connect"
  /\ \/ /\ prvMqttAgentInit
        /\ agentTask' = "resume"
        /\ UNCHANGED fault
     \/ /\ fault' = "assert"
        /\ UNCHANGED <<commandQueue, pendingAcks, agentTask>>
  /\ UNCHANGED <<commandPool, command, callVars, eventVars, loopStatus, routing,
                 subscriptions, notification, otaState, demoTask>>

(* A publish arrives and is fanned out to the matching entries.            *)
prvIncomingPublishCallback(topic) ==
  /\ Looping
  /\ routing' = {r \in subscriptions : r.filter \in Matching[topic]
                                          /\ Accepts(r.callback, topic)}
  /\ UNCHANGED <<commandVars, callVars, eventVars, agentTask, loopStatus, subscriptions,
                 notification, otaState, demoTask, fault>>

(* Mutant of FreeBuffers: any buffer, used or not.                         *)
FreeBuffers_All == Buffers

FreeBuffers == Buffers \ bufferUsed

(* The first of them in the array.                                         *)
prvOtaEventBufferGet == CHOOSE b \in FreeBuffers : TRUE

(* The job and the data callback copy the payload into a free buffer and   *)
(* signal the event; nothing happens without a free buffer, and a failing  *)
(* OTA_SignalEvent is ignored.  The semaphore that guards the buffers is   *)
(* deleted when the demo ends.                                             *)
prvMqttJobCallback(r) ==
  /\ r \in routing
  /\ routing' = routing \ {r}
  /\ fault' = IF demoTask = "done" THEN "deleted" ELSE fault
  /\ IF FreeBuffers = {} \/ demoTask = "done"
     THEN UNCHANGED <<bufferUsed, events>>
     ELSE LET b == prvOtaEventBufferGet
          IN  /\ bufferUsed' = bufferUsed \cup {b}
              /\ events' = IF CanSignal
                           THEN Append(events, [event |-> "Data", buffer |-> b])
                           ELSE events
  /\ UNCHANGED <<commandVars, callVars, inHand, agentTask, loopStatus, subscriptions,
                 notification, otaState, demoTask>>

-----------------------------------------------------------------------------
(* The event loop of the OTA agent task *)

(* The OTA agent takes the next event once it has finished the last one.   *)
TakeEvent ==
  /\ otaTask = "ready" /\ inHand = None /\ ~Ending
  /\ events # <<>>
  /\ events' = Tail(events)
  /\ inHand' = Head(events).buffer
  /\ otaState' = CASE Head(events).event = "Suspend" -> "Suspended"
                   [] Head(events).event = "Resume" -> "Running"
                   [] Head(events).event = "Shutdown" -> "ShuttingDown"
                   [] OTHER -> otaState
  /\ UNCHANGED <<commandVars, callVars, bufferUsed, agentVars, subscriptions, notification,
                 demoTask, fault>>

(* Mutant of EventProcessed: the buffer stays marked as used.              *)
EventProcessed_Keeps ==
  /\ otaTask = "ready" /\ inHand # None
  /\ inHand' = None
  /\ UNCHANGED <<commandVars, callVars, events, bufferUsed, agentVars, subscriptions,
                 notification, otaState, demoTask, fault>>

(* OtaJobEventProcessed: prvOtaEventBufferFree.                            *)
EventProcessed ==
  /\ otaTask = "ready" /\ inHand # None
  /\ bufferUsed' = bufferUsed \ {inHand}
  /\ inHand' = None
  /\ UNCHANGED <<commandVars, callVars, events, agentVars, subscriptions, notification,
                 otaState, demoTask, fault>>

(* The bound on requests for a shutdown: one is in the queue at a time.    *)
(* Another one behind it would never be taken.                             *)
ShutdownQueued == \E i \in DOMAIN events : events[i].event = "Shutdown"

(* prvOtaAppCallback, called while an event is processed, asks for the     *)
(* shutdown when a new image could not be activated or its self-test has   *)
(* failed.  It does not wait (otaexampleOTA_SHUTDOWN_WAIT_TICKS is 0): the *)
(* request is one more event, behind those already queued.  When the queue *)
(* is full the OTA agent stops at once.                                    *)
OTA_Shutdown ==
  /\ otaTask = "ready" /\ otaState = "Running" /\ ~ShutdownQueued
  /\ IF CanSignal
     THEN /\ events' = Append(events, [event |-> "Shutdown", buffer |-> None])
          /\ UNCHANGED otaState
     ELSE /\ otaState' = "Stopped"
          /\ UNCHANGED events
  /\ UNCHANGED <<commandVars, callVars, bufferUsed, inHand, agentVars, subscriptions,
                 notification, demoTask, fault>>

(* The OTA agent has unsubscribed from what it wanted to and stops.        *)
ShutdownDone ==
  /\ otaTask = "ready" /\ otaState = "ShuttingDown"
  /\ otaState' = "Stopped"
  /\ UNCHANGED <<commandVars, callVars, eventVars, agentVars, subscriptions, notification,
                 demoTask, fault>>

-----------------------------------------------------------------------------
(* The demo task *)

(* The loop of prvRunOTADemo ends when the OTA agent has stopped.          *)
DemoCleanup ==
  /\ demoTask = "running"
  /\ otaState = "Stopped"
  /\ subscriptions' = RemoveSubscription("jobs")
  /\ demoTask' = "disconnect"
  /\ UNCHANGED <<commandVars, callVars, eventVars, agentVars, notification, otaState, fault>>

prvDisconnectFromMQTTBroker ==
  /\ demoTask = "disconnect"
  /\ \E c \in Commands : Queued(c, [op |-> "disconnect", filter |-> "none"])
  /\ demoTask' = "notifyWait"
  /\ UNCHANGED <<pendingAcks, callVars, eventVars, agentVars, subscriptions, notification,
                 otaState, fault>>

(* Notified or timed out; the socket is closed and the semaphore deleted.  *)
DemoDone ==
  /\ demoTask = "notifyWait"
  /\ demoTask' = "done"
  /\ notification' = [notification EXCEPT !["demo"] = FALSE]
  /\ UNCHANGED <<commandVars, callVars, eventVars, agentVars, subscriptions, otaState, fault>>

-----------------------------------------------------------------------------
Agent_InitializePool == Commands

(* The first connection is up, the default callback is registered and both *)
(* tasks have been created.                                                *)
Init ==
  /\ commandPool = Agent_InitializePool /\ commandQueue = <<>> /\ pendingAcks = {}
  /\ command = [c \in Commands |-> NoCall]
  /\ agentTask = "loop" /\ loopStatus = "MQTTSuccess" /\ routing = {}
  /\ subscriptions = Registered("jobs")
  /\ otaTask = "ready" /\ call = NoCall /\ own = None /\ xReturnStatus = "MQTTSendFailed"
  /\ notification = [t \in {"ota", "demo"} |-> FALSE]
  /\ otaState = "Running" /\ events = <<>> /\ bufferUsed = {} /\ inHand = None
  /\ demoTask = "running"
  /\ fault = "none"

OtaCalls == (\E f \in OtaFilters : prvMqttSubscribe(f) \/ prvMqttUnSubscribe(f))
              \/ prvMqttPublish

Reconnecting == CancelQueued \/ CancelPending \/ prvSuspendOTA \/ prvConnectToMQTTBroker
                  \/ prvResumeOTA

Route == \E r \in routing : prvMqttJobCallback(r)

Demo == DemoCleanup \/ prvDisconnectFromMQTTBroker \/ DemoDone

Halted == fault # "none" \/ (demoTask = "done" /\ agentTask = "deleted")

Next ==
  \/ /\ ~Halted
     /\ \/ OtaCalls \/ NoCommandLeft \/ NotifyWait \/ Return
        \/ ProcessCommand \/ ConnectionLost \/ Reconnecting \/ Route
        \/ \E c \in Commands : Acknowledge(c)
        \/ \E topic \in DOMAIN Matching : prvIncomingPublishCallback(topic)
        \/ TakeEvent \/ EventProcessed \/ OTA_Shutdown \/ ShutdownDone
        \/ Demo
  \/ Halted /\ UNCHANGED vars

Spec == Init /\ [][Next]_vars

(* Waits end, the tasks that can run do, and the OTA library takes its     *)
(* next event, or has shut down, after finitely many calls.  It repeats a  *)
(* failed request only after otaconfigFILE_REQUEST_WAIT_MS, so it does not *)
(* go on calling for as long as MQTTAgent_CancelAll finds commands in the  *)
(* queue.                                                                  *)
Fairness ==
  /\ WF_vars(~Halted /\ (NotifyWait \/ Return))
  /\ WF_vars(~Halted /\ NoCommandLeft)
  /\ WF_vars(~Halted /\ Reconnecting)
  /\ []<>(agentTask # "drain") \/ <>[](otaTask = "ready")
  /\ WF_vars(~Halted /\ Route)
  /\ WF_vars(~Halted /\ Demo)
  /\ SF_vars(~Halted /\ (TakeEvent \/ EventProcessed \/ ShutdownDone))

FairSpec == Spec /\ Fairness

-----------------------------------------------------------------------------
(* Properties *)

(* A command structure is free, queued or waiting for its acknowledgement, *)
(* in one place only: no callback runs twice for one command, and the      *)
(* assertion in Agent_ReleaseCommand that the pool has room holds.         *)
CommandInOnePlace ==
  /\ IsInjective(commandQueue)
  /\ commandPool \cap pendingAcks = {}
  /\ \A c \in Commands : Linked(commandQueue, c) => c \notin commandPool \cup pendingAcks
  /\ own \notin commandPool

(* The command queue and the agent context are created anew only under     *)
(* tasks that are out of the way: the OTA agent is suspended, outside of   *)
(* its MQTT calls, and the demo task has not begun to disconnect.  The one *)
(* exception is a shutdown that was queued behind the suspension and taken *)
(* after the agent task saw it: then the OTA agent may be unsubscribing,   *)
(* and only that, and, once it has stopped, the demo disconnecting.        *)
ReconnectsOutsideCalls ==
  agentTask = "connect" =>
    \/ otaState = "Suspended" /\ otaTask = "ready" /\ demoTask = "running"
    \/ /\ otaState = "ShuttingDown" /\ demoTask = "running"
       /\ otaTask # "ready" => call.op = "unsubscribe"
    \/ otaState = "Stopped" /\ otaTask = "ready"

(* What prvMQTTAgentTask reports before it reconnects ("Suspended OTA      *)
(* agent"), without the exception: the OTA agent is still suspended, and   *)
(* the agent task alone, when it creates the queue anew.                   *)
ReconnectsAlone ==
  agentTask = "connect" => otaTask = "ready" /\ otaState = "Suspended" /\ demoTask = "running"

(* The OTA agent is suspended only while the agent task reconnects; it     *)
(* never executes commands again with the OTA agent left suspended.        *)
SuspendedIsReconnecting ==
  otaState = "Suspended" => agentTask \in {"suspending", "connect", "resume", "resuming"}

(* A buffer whose event is queued or being processed stays marked as used  *)
(* and belongs to that event only, so no later publish overwrites it.      *)
BufferExclusive ==
  LET data == {i \in DOMAIN events : events[i].event = "Data"}
  IN  /\ \A i \in data : events[i].buffer \in bufferUsed \ {inHand}
      /\ \A i, j \in data : events[i].buffer = events[j].buffer => i = j
      /\ inHand # None => inHand \in bufferUsed

(* When a subscribe call learns of its success, the publishes for its      *)
(* filter are already routed, even if the success is that of an earlier    *)
(* call whose late callback used the frame of this one.                    *)
SubscribedIsRegistered ==
  [][(xReturnStatus # "MQTTSuccess" /\ xReturnStatus' = "MQTTSuccess" /\ call.op = "subscribe")
       => Registered(call.filter) \subseteq subscriptions']_vars

(* After an error the agent task executes commands again, unless an        *)
(* assertion stopped it: the agent task, which waits for the OTA agent to  *)
(* be suspended, and the OTA agent, which may wait for a command that      *)
(* nobody executes any more, cannot wait for each other for ever.  With    *)
(* MayTimeOut = FALSE the wait for the suspension has no time limit, and   *)
(* only a shutdown or a full event queue makes an assertion fail.          *)
AgentComesBack ==
  agentTask = "drain" ~> agentTask \in {"loop", "deleted"} \/ fault # "none"

(* A buffer is used again later: its event is processed or discarded even  *)
(* when the OTA agent is suspended in between.                             *)
BuffersComeBack ==
  \A b \in Buffers : b \in bufferUsed ~> b \notin bufferUsed \/ otaState = "Stopped"
                                            \/ fault # "none"

(* What a comment of the callbacks says the notification is for: the task  *)
(* can tell that it is the one of its own command.  A call that is woken   *)
(* by a notification has had its command concluded.                        *)
WokenByOwnCommand ==
  [][(otaTask = "notifyWait" /\ otaTask' = "returning" /\ notification["ota"]) => own = None]_vars
=============================================================================
