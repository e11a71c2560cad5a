---------------------------- MODULE OtaMqttProof ----------------------------
(***************************************************************************)
(* Theorems about OtaMqtt, for every number of command structures and      *)
(* event buffers and every length of the event queue.                      *)
(***************************************************************************)
EXTENDS OtaMqtt, SequenceTheorems, TLAPS

EventRecords == [event : {"Suspend", "Resume", "Data", "Shutdown"}, buffer : Buffers \cup {None}]

-----------------------------------------------------------------------------
(* Queues: what is in one after sending to its end and receiving its head. *)

LEMMA EmptyList == IsInjective(<<>>) /\ \A x : ~Linked(<<>>, x)
BY DEF IsInjective, Linked

LEMMA AppendList ==
  ASSUME NEW S, NEW s \in Seq(S), NEW x \in S
  PROVE  /\ Append(s, x) \in Seq(S)
         /\ Len(Append(s, x)) = Len(s) + 1
         /\ \A y : Linked(Append(s, x), y) <=> Linked(s, y) \/ y = x
         /\ IsInjective(s) /\ ~Linked(s, x) => IsInjective(Append(s, x))
<1>1. /\ Append(s, x) \in Seq(S)
      /\ Len(Append(s, x)) = Len(s) + 1
      /\ \A i \in 1..Len(s) : Append(s, x)[i] = s[i]
      /\ Append(s, x)[Len(s) + 1] = x
  BY AppendProperties
<1>2. DOMAIN s = 1..Len(s) /\ DOMAIN Append(s, x) = 1..(Len(s) + 1) /\ Len(s) \in Nat
  BY <1>1
<1>3. ASSUME NEW y PROVE Linked(Append(s, x), y) <=> Linked(s, y) \/ y = x
  BY <1>1, <1>2 DEF Linked
<1>4. IsInjective(s) /\ ~Linked(s, x) => IsInjective(Append(s, x))
  BY <1>1, <1>2 DEF IsInjective, Linked
<1>5. QED
  BY <1>1, <1>3, <1>4

LEMMA TailList ==
  ASSUME NEW S, NEW s \in Seq(S), s # <<>>
  PROVE  /\ Tail(s) \in Seq(S)
         /\ Len(Tail(s)) = Len(s) - 1
         /\ Head(s) \in S
         /\ Linked(s, Head(s))
         /\ \A y : Linked(Tail(s), y) => Linked(s, y)
         /\ \A y : Linked(s, y) => y = Head(s) \/ Linked(Tail(s), y)
         /\ IsInjective(s) => IsInjective(Tail(s)) /\ ~Linked(Tail(s), Head(s))
<1> DEFINE t == Tail(s)
<1>1. /\ t \in Seq(S)
      /\ Len(t) = Len(s) - 1
      /\ Len(s) \in Nat \ {0}
      /\ \A i \in 1..(Len(s) - 1) : t[i] = s[i + 1]
      /\ Head(s) = s[1] /\ Head(s) \in S
  BY HeadTailProperties, EmptySeq
<1>2. DOMAIN s = 1..Len(s) /\ DOMAIN t = 1..(Len(s) - 1)
  BY <1>1
<1> HIDE DEF t
<1>3. Linked(s, Head(s))
  BY <1>1, <1>2 DEF Linked
<1>4. ASSUME NEW y PROVE Linked(t, y) => Linked(s, y)
  BY <1>1, <1>2 DEF Linked
<1>5. ASSUME NEW y, Linked(s, y) PROVE y = Head(s) \/ Linked(t, y)
  <2>1. PICK i \in DOMAIN s : s[i] = y
    BY <1>5 DEF Linked
  <2>2. CASE i = 1
    BY <1>1, <2>1, <2>2
  <2>3. CASE i # 1
    <3>1. i - 1 \in DOMAIN t /\ t[i - 1] = y
      BY <1>1, <1>2, <2>1, <2>3
    <3>2. QED
      BY <3>1 DEF Linked
  <2>4. QED
    BY <2>2, <2>3
<1>6. ASSUME IsInjective(s) PROVE IsInjective(t) /\ ~Linked(t, Head(s))
  <2>1. \A i \in DOMAIN t : i + 1 \in DOMAIN s /\ i + 1 # 1 /\ t[i] = s[i + 1]
    BY <1>1, <1>2
  <2>2. 1 \in DOMAIN s
    BY <1>1, <1>2
  <2>3. \A i, k \in DOMAIN s : s[i] = s[k] => i = k
    BY <1>6 DEF IsInjective
  <2>4. IsInjective(t)
    <3>1. SUFFICES ASSUME NEW i \in DOMAIN t, NEW k \in DOMAIN t, t[i] = t[k]
                   PROVE  i = k
      BY DEF IsInjective
    <3>2. i + 1 = k + 1
      BY <2>1, <2>3, <3>1
    <3>3. QED
      BY <1>2, <3>2
  <2>5. ~Linked(t, Head(s))
    BY <1>1, <2>1, <2>2, <2>3 DEF Linked
  <2>6. QED
    BY <2>4, <2>5
<1>7. QED
  BY <1>1, <1>3, <1>4, <1>5, <1>6 DEF t

-----------------------------------------------------------------------------
(* Command structures *)

(* Command structures have one place, and the state they are in is typed.  *)
Ownership ==
  /\ commandPool \subseteq Commands /\ pendingAcks \subseteq Commands
  /\ commandQueue \in Seq(Commands)
  /\ CommandInOnePlace

commandPlaces == <<commandPool, commandQueue, pendingAcks, own>>

(* The steps that move a command structure.                                *)
Moves ==
  \/ OtaCalls \/ Return \/ ProcessCommand \/ CancelQueued \/ CancelPending
  \/ prvConnectToMQTTBroker \/ prvDisconnectFromMQTTBroker
  \/ \E c \in Commands : Acknowledge(c)

LEMMA OtherStepsKeepCommands ==
  ASSUME [Next]_vars, ~Moves PROVE UNCHANGED commandPlaces
<1> USE DEF commandPlaces, commandVars, callVars, Moves
<1>1. CASE NoCommandLeft BY <1>1 DEF NoCommandLeft
<1>2. CASE NotifyWait BY <1>2 DEF NotifyWait
<1>3. CASE ConnectionLost BY <1>3 DEF ConnectionLost
<1>4. CASE prvSuspendOTA BY <1>4 DEF prvSuspendOTA, Signal, Poll
<1>5. CASE prvResumeOTA BY <1>5 DEF prvResumeOTA, Signal, Poll
<1>6. CASE Route BY <1>6 DEF Route, prvMqttJobCallback
<1>7. CASE \E topic \in DOMAIN Matching : prvIncomingPublishCallback(topic)
  BY <1>7 DEF prvIncomingPublishCallback
<1>8. CASE TakeEvent BY <1>8 DEF TakeEvent
<1>9. CASE EventProcessed BY <1>9 DEF EventProcessed
<1>10. CASE OTA_Shutdown \/ ShutdownDone BY <1>10 DEF OTA_Shutdown, ShutdownDone
<1>11. CASE DemoCleanup BY <1>11 DEF DemoCleanup
<1>12. CASE DemoDone BY <1>12 DEF DemoDone
<1>13. CASE UNCHANGED vars BY <1>13 DEF vars
<1>14. QED
  BY <1>1, <1>2, <1>3, <1>4, <1>5, <1>6, <1>7, <1>8, <1>9, <1>10, <1>11, <1>12, <1>13
  DEF Next, Reconnecting, Demo

(* Queueing a free structure keeps every structure in one place.           *)
LEMMA QueuedOwnership ==
  ASSUME Ownership, NEW c \in Commands, NEW request, Queued(c, request),
         pendingAcks' = pendingAcks, own' = c \/ own' = own
  PROVE  Ownership'
<1>1. /\ commandQueue' \in Seq(Commands)
      /\ \A y : Linked(commandQueue', y) <=> Linked(commandQueue, y) \/ y = c
      /\ IsInjective(commandQueue) /\ ~Linked(commandQueue, c) => IsInjective(commandQueue')
  BY AppendList, Zenon DEF Queued, Ownership
<1>2. QED
  BY <1>1 DEF Queued, Ownership, CommandInOnePlace

(* So does concluding one that has just been taken from where it was.      *)
LEMMA ConcludedOwnership ==
  ASSUME Ownership, NEW c \in Commands, NEW status, Conclude(c, status),
         c \notin pendingAcks', ~Linked(commandQueue', c),
         pendingAcks' \subseteq pendingAcks,
         commandQueue' \in Seq(Commands), IsInjective(commandQueue'),
         \A y : Linked(commandQueue', y) => Linked(commandQueue, y)
  PROVE  Ownership'
BY OtaAssumption DEF Conclude, Released, Ownership, CommandInOnePlace

LEMMA OwnershipStep == Ownership /\ [Next]_vars => Ownership'
<1> SUFFICES ASSUME Ownership, [Next]_vars PROVE Ownership'
  OBVIOUS
<1>0. /\ commandQueue \in Seq(Commands) /\ IsInjective(commandQueue)
      /\ commandPool \subseteq Commands /\ pendingAcks \subseteq Commands
      /\ commandPool \cap pendingAcks = {}
      /\ \A c \in Commands : Linked(commandQueue, c) => c \notin commandPool \cup pendingAcks
      /\ own \notin commandPool
  BY DEF Ownership, CommandInOnePlace
<1>1. CASE OtaCalls
  <2>1. PICK request : Issue(request)
    BY <1>1, Zenon DEF OtaCalls, prvMqttSubscribe, prvMqttUnSubscribe, prvMqttPublish
  <2>2. PICK c \in Commands : Queued(c, request) /\ own' = c
    BY <2>1 DEF Issue
  <2>3. pendingAcks' = pendingAcks
    BY <2>1 DEF Issue
  <2>4. QED
    BY <2>2, <2>3, QueuedOwnership
<1>2. CASE Return
  BY <1>0, <1>2, OtaAssumption DEF Return, commandVars, Ownership, CommandInOnePlace
<1>3. CASE ProcessCommand
  <2> DEFINE c == Head(commandQueue)
  <2>1. commandQueue # <<>> /\ commandQueue' = Tail(commandQueue)
    BY <1>3 DEF ProcessCommand
  <2>2. /\ commandQueue' \in Seq(Commands) /\ c \in Commands /\ Linked(commandQueue, c)
        /\ \A y : Linked(commandQueue', y) => Linked(commandQueue, y)
        /\ IsInjective(commandQueue') /\ ~Linked(commandQueue', c)
    BY <1>0, <2>1, TailList, Zenon
  <2>3. CASE /\ pendingAcks' = pendingAcks \cup {c}
             /\ UNCHANGED <<commandPool, own>>
    BY <1>0, <2>2, <2>3 DEF Ownership, CommandInOnePlace
  <2>4. CASE \E status : Conclude(c, status) /\ UNCHANGED pendingAcks
    <3>1. PICK status : Conclude(c, status) /\ UNCHANGED pendingAcks
      BY <2>4
    <3>2. c \notin pendingAcks'
      BY <1>0, <2>2, <3>1
    <3> HIDE DEF c
    <3>3. QED
      BY <2>2, <3>1, <3>2, ConcludedOwnership
  <2>5. QED
    BY <1>3, <2>3, <2>4 DEF ProcessCommand
<1>4. CASE CancelQueued
  <2>1. CASE commandQueue = <<>>
    BY <1>0, <1>4, <2>1 DEF CancelQueued, Ownership, CommandInOnePlace
  <2>2. CASE commandQueue # <<>>
    <3> DEFINE c == Head(commandQueue)
    <3>1. /\ Conclude(c, "MQTTRecvFailed") /\ commandQueue' = Tail(commandQueue)
          /\ pendingAcks' = pendingAcks
      BY <1>4, <2>2 DEF CancelQueued
    <3>2. /\ commandQueue' \in Seq(Commands) /\ c \in Commands /\ Linked(commandQueue, c)
          /\ \A y : Linked(commandQueue', y) => Linked(commandQueue, y)
          /\ IsInjective(commandQueue') /\ ~Linked(commandQueue', c)
      BY <1>0, <2>2, <3>1, TailList, Zenon
    <3>3. c \notin pendingAcks'
      BY <1>0, <3>1, <3>2
    <3> HIDE DEF c
    <3>4. QED
      BY <3>1, <3>2, <3>3, ConcludedOwnership
  <2>3. QED
    BY <2>1, <2>2
<1>5. CASE CancelPending \/ \E c \in Commands : Acknowledge(c)
  <2>1. commandQueue' = commandQueue
    BY <1>5 DEF CancelPending, Acknowledge
  <2>2. CASE UNCHANGED <<commandPool, pendingAcks, own>>
    BY <1>0, <2>1, <2>2 DEF Ownership, CommandInOnePlace
  <2>3. CASE \E c \in pendingAcks : \E status : /\ Conclude(c, status)
                                               /\ pendingAcks' = pendingAcks \ {c}
    <3>1. PICK c \in pendingAcks : \E status : /\ Conclude(c, status)
                                              /\ pendingAcks' = pendingAcks \ {c}
      BY <2>3
    <3>2. PICK status : Conclude(c, status) /\ pendingAcks' = pendingAcks \ {c}
      BY <3>1
    <3>3. QED
      BY <1>0, <2>1, <3>2, ConcludedOwnership
  <2>4. QED
    BY <1>5, <2>2, <2>3 DEF CancelPending, Acknowledge
<1>6. CASE prvConnectToMQTTBroker
  <2>1. /\ commandQueue' = <<>> \/ commandQueue' = commandQueue
        /\ pendingAcks' = {} \/ pendingAcks' = pendingAcks
        /\ commandPool' = commandPool /\ own' = own
    BY <1>6 DEF prvConnectToMQTTBroker, prvMqttAgentInit, callVars
  <2>2. /\ commandQueue' \in Seq(Commands) /\ IsInjective(commandQueue')
        /\ \A c : Linked(commandQueue', c) => Linked(commandQueue, c)
    <3>1. <<>> \in Seq(Commands)
      OBVIOUS
    <3>2. CASE commandQueue' = <<>>
      BY <3>1, <3>2, EmptyList, Zenon
    <3>3. CASE commandQueue' = commandQueue
      BY <1>0, <3>3, Zenon
    <3>4. QED
      BY <2>1, <3>2, <3>3
  <2>3. QED
    BY <1>0, <2>1, <2>2 DEF Ownership, CommandInOnePlace
<1>7. CASE prvDisconnectFromMQTTBroker
  <2>1. PICK c \in Commands : Queued(c, [op |-> "disconnect", filter |-> "none"])
    BY <1>7 DEF prvDisconnectFromMQTTBroker
  <2>2. pendingAcks' = pendingAcks /\ own' = own
    BY <1>7 DEF prvDisconnectFromMQTTBroker, callVars
  <2>3. QED
    BY <2>1, <2>2, QueuedOwnership
<1>8. CASE ~Moves
  <2>1. UNCHANGED commandPlaces
    BY <1>8, OtherStepsKeepCommands
  <2>2. QED
    BY <1>0, <2>1 DEF commandPlaces, Ownership, CommandInOnePlace
<1>9. QED
  BY <1>1, <1>2, <1>3, <1>4, <1>5, <1>6, <1>7, <1>8 DEF Moves

(* Every command structure is in one place in every reachable state: no    *)
(* command is completed twice and the pool never overflows, however late   *)
(* acknowledgements and cancellations are.                                 *)
THEOREM CommandsOwned == Spec => []CommandInOnePlace
<1>1. Init => Ownership
  <2> SUFFICES ASSUME Init PROVE Ownership
    OBVIOUS
  <2>1. <<>> \in Seq(Commands)
    OBVIOUS
  <2>2. QED
    BY <2>1, EmptyList, OtaAssumption
    DEF Init, Agent_InitializePool, Ownership, CommandInOnePlace
<1>2. Ownership => CommandInOnePlace
  BY DEF Ownership
<1>3. QED
  BY <1>1, <1>2, OwnershipStep, PTL DEF Spec

-----------------------------------------------------------------------------
(* Suspending and resuming *)

(* The events of a kind the OTA agent has not taken yet.                   *)
Waiting(kind) == {i \in DOMAIN events : events[i].event = kind}

(* A suspension is requested once, by an agent task that waits for it      *)
(* without having it, and so is a resumption; in between the OTA agent is  *)
(* suspended outside of any call.  A shutdown ends that: its request may   *)
(* be anywhere in the queue, and once it is taken nothing else is.         *)
Paired ==
  /\ \A i \in Waiting("Suspend") : agentTask = "suspending" /\ otaState # "Suspended"
  /\ \A i \in Waiting("Resume") : agentTask = "resuming" /\ otaState = "Suspended"
  /\ \A i, j \in Waiting("Suspend") : i = j
  /\ \A i, j \in Waiting("Resume") : i = j
  /\ agentTask \in {"connect", "resume"} => otaState = "Suspended"
  /\ SuspendedIsReconnecting
  /\ otaState = "Suspended" => otaTask = "ready"

(* What the OTA agent still does when it ends, and when the demo does.     *)
Closing ==
  /\ otaState = "ShuttingDown" /\ otaTask # "ready" => call.op = "unsubscribe"
  /\ otaState = "Stopped" => otaTask = "ready"
  /\ demoTask # "running" => otaState = "Stopped"

Bracket ==
  /\ events \in Seq(EventRecords)
  /\ otaState \in {"Running", "Suspended", "ShuttingDown", "Stopped"}
  /\ Paired \/ Ending
  /\ Closing

(* The entries of a sequence after one is appended, and after the first is *)
(* taken.                                                                  *)
LEMMA AppendEntries ==
  ASSUME NEW S, NEW s \in Seq(S), NEW x \in S
  PROVE  /\ Append(s, x) \in Seq(S)
         /\ Len(s) + 1 \notin DOMAIN s
         /\ \A i \in DOMAIN Append(s, x) : \/ i \in DOMAIN s /\ Append(s, x)[i] = s[i]
                                           \/ i = Len(s) + 1 /\ Append(s, x)[i] = x
<1>1. /\ Append(s, x) \in Seq(S) /\ Len(Append(s, x)) = Len(s) + 1
      /\ \A i \in 1..Len(s) : Append(s, x)[i] = s[i]
      /\ Append(s, x)[Len(s) + 1] = x
  BY AppendProperties
<1>2. DOMAIN s = 1..Len(s) /\ DOMAIN Append(s, x) = 1..(Len(s) + 1) /\ Len(s) \in Nat
  BY <1>1
<1>3. Len(s) + 1 \notin DOMAIN s
  BY <1>2
<1>4. ASSUME NEW i \in DOMAIN Append(s, x)
      PROVE  \/ i \in DOMAIN s /\ Append(s, x)[i] = s[i]
             \/ i = Len(s) + 1 /\ Append(s, x)[i] = x
  <2>1. i \in 1..Len(s) \/ i = Len(s) + 1
    BY <1>2
  <2>2. QED
    BY <1>1, <1>2, <2>1, Zenon
<1>5. QED
  BY <1>1, <1>3, <1>4, Zenon

LEMMA TailEntries ==
  ASSUME NEW S, NEW s \in Seq(S), s # <<>>
  PROVE  /\ Tail(s) \in Seq(S)
         /\ 1 \in DOMAIN s /\ Head(s) = s[1] /\ Head(s) \in S
         /\ \A i \in DOMAIN Tail(s) : /\ i \in Int /\ i + 1 \in DOMAIN s /\ i + 1 # 1
                                      /\ Tail(s)[i] = s[i + 1]
<1>1. Len(s) \in Nat \ {0} /\ DOMAIN s = 1..Len(s) /\ Head(s) = s[1]
  BY EmptySeq, HeadTailProperties
<1>2. /\ Tail(s) \in Seq(S) /\ Len(Tail(s)) = Len(s) - 1
      /\ \A i \in 1..Len(Tail(s)) : Tail(s)[i] = s[i + 1]
  BY HeadTailProperties
<1>3. Head(s) \in S
  BY HeadTailProperties
<1>4. DOMAIN Tail(s) = 1..(Len(s) - 1)
  BY <1>2
<1>5. QED
  BY <1>1, <1>2, <1>3, <1>4

(* The buffer a callback gets, if there is a free one.                     *)
LEMMA GotBuffer == FreeBuffers # {} => prvOtaEventBufferGet \in FreeBuffers
BY DEF prvOtaEventBufferGet

(* An event that neither suspends nor resumes is queued, or none is.       *)
LEMMA PairedAppend ==
  ASSUME Bracket, Paired,
         \E e \in EventRecords : /\ e.event \in {"Data", "Shutdown"}
                                 /\ events' = Append(events, e) \/ events' = events,
         UNCHANGED <<agentTask, otaState, otaTask>>
  PROVE  Paired'
<1>0. PICK e \in EventRecords : /\ e.event \in {"Data", "Shutdown"}
                                /\ events' = Append(events, e) \/ events' = events
  OBVIOUS
<1>1. CASE events' = events
  BY <1>1 DEF Bracket, Paired, Waiting, SuspendedIsReconnecting
<1>2. CASE events' = Append(events, e)
  <2>1. /\ events' \in Seq(EventRecords)
        /\ \A i \in DOMAIN events' : \/ i \in DOMAIN events /\ events'[i] = events[i]
                                     \/ i = Len(events) + 1 /\ events'[i] = e
    BY <1>0, <1>2, AppendEntries DEF Bracket
  <2>2. /\ Waiting("Suspend")' \subseteq Waiting("Suspend")
        /\ Waiting("Resume")' \subseteq Waiting("Resume")
    BY <1>0, <2>1 DEF Waiting
  <2>3. QED
    BY <2>2 DEF Paired, SuspendedIsReconnecting
<1>3. QED
  BY <1>0, <1>1, <1>2

(* The agent task queues a suspension or a resumption.                     *)
LEMMA PairedSignal ==
  ASSUME Bracket, Paired,
         Signal("suspend", "Suspend", "suspending") \/ Signal("resume", "Resume", "resuming")
  PROVE  Paired' /\ events' \in Seq(EventRecords)
<1> USE DEF callVars
<1>1. CASE UNCHANGED <<events, agentTask>>
  BY <1>1 DEF Signal, Bracket, Paired, Waiting, SuspendedIsReconnecting
<1>2. CASE Signal("suspend", "Suspend", "suspending") /\ ~UNCHANGED <<events, agentTask>>
  <2> DEFINE e == [event |-> "Suspend", buffer |-> None]
  <2>1. /\ agentTask = "suspend" /\ agentTask' = "suspending"
        /\ events' = Append(events, e)
        /\ UNCHANGED <<otaState, otaTask>>
    BY <1>2 DEF Signal
  <2>2. e \in EventRecords /\ e.event = "Suspend"
    BY DEF EventRecords
  <2> HIDE DEF e
  <2>3. /\ events' \in Seq(EventRecords)
        /\ Len(events) + 1 \notin DOMAIN events
        /\ \A i \in DOMAIN events' : \/ i \in DOMAIN events /\ events'[i] = events[i]
                                     \/ i = Len(events) + 1 /\ events'[i] = e
    BY <2>1, <2>2, AppendEntries DEF Bracket
  <2>4. Waiting("Suspend") = {} /\ Waiting("Resume") = {} /\ otaState # "Suspended"
    BY <2>1 DEF Paired, SuspendedIsReconnecting
  <2>5. /\ \A i \in Waiting("Suspend")' : i = Len(events) + 1
        /\ Waiting("Resume")' = {}
    BY <2>2, <2>3, <2>4 DEF Waiting
  <2>6. QED
    BY <2>1, <2>3, <2>4, <2>5 DEF Paired, SuspendedIsReconnecting
<1>3. CASE Signal("resume", "Resume", "resuming") /\ ~UNCHANGED <<events, agentTask>>
  <2> DEFINE e == [event |-> "Resume", buffer |-> None]
  <2>1. /\ agentTask = "resume" /\ agentTask' = "resuming"
        /\ events' = Append(events, e)
        /\ UNCHANGED <<otaState, otaTask>>
    BY <1>3 DEF Signal
  <2>2. e \in EventRecords /\ e.event = "Resume"
    BY DEF EventRecords
  <2> HIDE DEF e
  <2>3. /\ events' \in Seq(EventRecords)
        /\ Len(events) + 1 \notin DOMAIN events
        /\ \A i \in DOMAIN events' : \/ i \in DOMAIN events /\ events'[i] = events[i]
                                     \/ i = Len(events) + 1 /\ events'[i] = e
    BY <2>1, <2>2, AppendEntries DEF Bracket
  <2>4. Waiting("Suspend") = {} /\ Waiting("Resume") = {} /\ otaState = "Suspended"
    BY <2>1 DEF Paired, SuspendedIsReconnecting
  <2>5. /\ \A i \in Waiting("Resume")' : i = Len(events) + 1
        /\ Waiting("Suspend")' = {}
    BY <2>2, <2>3, <2>4 DEF Waiting
  <2>6. QED
    BY <2>1, <2>3, <2>4, <2>5 DEF Paired, SuspendedIsReconnecting
<1>4. QED
  BY <1>1, <1>2, <1>3

(* The OTA agent takes an event, which may be the request to shut down.    *)
LEMMA PairedTake ==
  ASSUME Bracket, Paired, TakeEvent
  PROVE  (Paired' \/ Ending') /\ events' \in Seq(EventRecords)
<1> USE DEF callVars, agentVars
<1>1. /\ otaTask = "ready" /\ events # <<>> /\ events' = Tail(events)
      /\ UNCHANGED <<agentTask, otaTask>>
  BY DEF TakeEvent
<1>2. /\ events' \in Seq(EventRecords)
      /\ 1 \in DOMAIN events /\ Head(events) = events[1]
      /\ \A i \in DOMAIN events' : /\ i \in Int /\ i + 1 \in DOMAIN events /\ i + 1 # 1
                                   /\ events'[i] = events[i + 1]
  BY <1>1, TailEntries DEF Bracket
<1>3. \A kind : \A i \in Waiting(kind)' : /\ i \in Int /\ i + 1 \in Waiting(kind)
                                          /\ i + 1 # 1
  BY <1>2 DEF Waiting
<1>4. /\ \A i, j \in Waiting("Suspend")' : i = j
      /\ \A i, j \in Waiting("Resume")' : i = j
  BY <1>3 DEF Paired
<1>5. CASE Head(events).event = "Suspend"
  <2>1. 1 \in Waiting("Suspend")
    BY <1>2, <1>5 DEF Waiting
  <2>2. agentTask = "suspending" /\ otaState # "Suspended"
    BY <2>1 DEF Paired
  <2>3. Waiting("Suspend")' = {} /\ Waiting("Resume")' = {}
    BY <1>3, <2>1, <2>2 DEF Paired
  <2>4. otaState' = "Suspended"
    BY <1>5 DEF TakeEvent
  <2>5. QED
    BY <1>1, <1>2, <2>2, <2>3, <2>4 DEF Paired, SuspendedIsReconnecting
<1>6. CASE Head(events).event = "Resume"
  <2>1. 1 \in Waiting("Resume")
    BY <1>2, <1>6 DEF Waiting
  <2>2. agentTask = "resuming" /\ otaState = "Suspended"
    BY <2>1 DEF Paired
  <2>3. Waiting("Suspend")' = {} /\ Waiting("Resume")' = {}
    BY <1>3, <2>1, <2>2 DEF Paired
  <2>4. otaState' = "Running"
    BY <1>6 DEF TakeEvent
  <2>5. QED
    BY <1>1, <1>2, <2>2, <2>3, <2>4 DEF Paired, SuspendedIsReconnecting
<1>7. CASE Head(events).event = "Shutdown"
  <2>1. otaState' = "ShuttingDown"
    BY <1>7 DEF TakeEvent
  <2>2. QED
    BY <1>2, <2>1 DEF Ending
<1>8. CASE Head(events).event \notin {"Suspend", "Resume", "Shutdown"}
  <2>1. otaState' = otaState
    BY <1>8 DEF TakeEvent
  <2>2. QED
    BY <1>1, <1>2, <1>3, <1>4, <2>1 DEF Paired, SuspendedIsReconnecting
<1>9. QED
  BY <1>5, <1>6, <1>7, <1>8

(* The steps that neither queue nor take an event, one for each way they   *)
(* may move the agent task.                                                *)
LEMMA PairedQuiet ==
  ASSUME Bracket, Paired, UNCHANGED <<events, otaState>>,
         \/ agentTask' = agentTask
         \/ agentTask \in {"loop", "drain", "clear"}
               /\ agentTask' \in {"drain", "clear", "deleted", "suspend"}
         \/ agentTask = "connect" /\ agentTask' = "resume"
         \/ agentTask = "suspending" /\ otaState = "Suspended" /\ agentTask' = "connect"
         \/ agentTask = "resuming" /\ otaState # "Suspended" /\ agentTask' = "loop",
         otaState = "Suspended" => otaTask' = "ready"
  PROVE  Paired'
BY DEF Bracket, Paired, Waiting, SuspendedIsReconnecting

LEMMA BracketStep == Bracket /\ [Next]_vars => Bracket'
<1> SUFFICES ASSUME Bracket, [Next]_vars PROVE Bracket'
  OBVIOUS
<1> USE DEF commandVars, callVars, eventVars, agentVars
<1>1. CASE OtaCalls
  <2>1. PICK request : Issue(request)
    BY <1>1, Zenon DEF OtaCalls, prvMqttSubscribe, prvMqttUnSubscribe, prvMqttPublish
  <2>2. /\ otaState = "Running" \/ (otaState = "ShuttingDown" /\ request.op = "unsubscribe")
        /\ call' = request
        /\ UNCHANGED <<events, agentTask, otaState, demoTask>>
    BY <2>1 DEF Issue, OtaMayCall
  <2>3. Paired => Paired'
    BY <2>2, PairedQuiet
  <2>4. QED
    BY <2>2, <2>3 DEF Bracket, Closing, Ending
<1>2. CASE \/ NoCommandLeft \/ NotifyWait \/ Return \/ EventProcessed
           \/ \E c \in Commands : Acknowledge(c)
           \/ \E topic \in DOMAIN Matching : prvIncomingPublishCallback(topic)
           \/ UNCHANGED vars
  <2>1. UNCHANGED <<events, agentTask, otaState, demoTask>>
    BY <1>2 DEF NoCommandLeft, NotifyWait, Return, EventProcessed, Acknowledge,
                prvIncomingPublishCallback, vars
  <2>2. \/ UNCHANGED <<otaTask, call>>
        \/ otaTask = "notifyWait" /\ call' = call
        \/ otaTask' = "ready"
    BY <1>2 DEF NoCommandLeft, NotifyWait, Return, EventProcessed, Acknowledge,
                prvIncomingPublishCallback, vars
  <2>3. Paired => Paired'
    <3>1. Paired /\ otaState = "Suspended" => otaTask' = "ready"
      BY <2>2 DEF Paired
    <3>2. QED
      BY <2>1, <3>1, PairedQuiet
  <2>4. QED
    BY <2>1, <2>2, <2>3 DEF Bracket, Closing, Ending
<1>3. CASE \/ ProcessCommand \/ ConnectionLost \/ CancelQueued \/ CancelPending
           \/ prvConnectToMQTTBroker
           \/ Poll("suspending", Suspended, "connect") \/ Poll("resuming", ~Suspended, "loop")
  <2>1. UNCHANGED <<events, otaState, otaTask, call, demoTask>>
    BY <1>3 DEF ProcessCommand, ConnectionLost, CancelQueued, CancelPending,
                prvConnectToMQTTBroker, Poll
  <2>2. \/ agentTask' = agentTask
        \/ agentTask \in {"loop", "drain", "clear"}
              /\ agentTask' \in {"drain", "clear", "deleted", "suspend"}
        \/ agentTask = "connect" /\ agentTask' = "resume"
        \/ agentTask = "suspending" /\ otaState = "Suspended" /\ agentTask' = "connect"
        \/ agentTask = "resuming" /\ otaState # "Suspended" /\ agentTask' = "loop"
    BY <1>3 DEF ProcessCommand, ConnectionLost, CancelQueued, CancelPending, Looping,
                prvConnectToMQTTBroker, Poll, Suspended
  <2>3. Paired => Paired'
    <3>1. Paired /\ otaState = "Suspended" => otaTask' = "ready"
      BY <2>1 DEF Paired
    <3>2. QED
      BY <2>1, <2>2, <3>1, PairedQuiet
  <2>4. QED
    BY <2>1, <2>3 DEF Bracket, Closing, Ending
<1>4. CASE Signal("suspend", "Suspend", "suspending") \/ Signal("resume", "Resume", "resuming")
  <2>1. UNCHANGED <<otaState, otaTask, call, demoTask>>
    BY <1>4 DEF Signal
  <2>2. Paired => Paired'
    BY <1>4, PairedSignal
  <2>3. events' \in Seq(EventRecords)
    <3>1. PICK kind \in {"Suspend", "Resume"} :
             events' = events \/ events' = Append(events, [event |-> kind, buffer |-> None])
      BY <1>4 DEF Signal
    <3> DEFINE e == [event |-> kind, buffer |-> None]
    <3>2. e \in EventRecords
      BY DEF EventRecords
    <3>3. events \in Seq(EventRecords)
      BY DEF Bracket
    <3> HIDE DEF e
    <3>4. Append(events, e) \in Seq(EventRecords)
      BY <3>2, <3>3, AppendEntries
    <3>5. QED
      BY <3>1, <3>3, <3>4 DEF e
  <2>4. QED
    BY <2>1, <2>2, <2>3 DEF Bracket, Closing, Ending
<1>5. CASE Route \/ OTA_Shutdown
  <2>1. UNCHANGED <<agentTask, otaTask, call, demoTask>>
    BY <1>5 DEF Route, prvMqttJobCallback, OTA_Shutdown
  <2>2. PICK e \in EventRecords : /\ e.event \in {"Data", "Shutdown"}
                                  /\ events' = Append(events, e) \/ events' = events
    <3>1. CASE OTA_Shutdown
      <4> DEFINE e == [event |-> "Shutdown", buffer |-> None]
      <4>1. e \in EventRecords /\ e.event = "Shutdown"
        BY DEF EventRecords
      <4>2. events' = Append(events, e) \/ events' = events
        BY <3>1 DEF OTA_Shutdown
      <4>3. QED
        BY <4>1, <4>2
    <3>2. CASE Route
      <4>1. PICK r \in routing : prvMqttJobCallback(r)
        BY <3>2 DEF Route
      <4>2. PICK b \in Buffers \cup {None} :
               events' = Append(events, [event |-> "Data", buffer |-> b]) \/ events' = events
        BY <4>1, GotBuffer DEF prvMqttJobCallback, FreeBuffers
      <4> DEFINE e == [event |-> "Data", buffer |-> b]
      <4>3. e \in EventRecords /\ e.event = "Data"
        BY DEF EventRecords
      <4>4. events' = Append(events, e) \/ events' = events
        BY <4>2
      <4>5. QED
        BY <4>3, <4>4
    <3>3. QED
      BY <1>5, <3>1, <3>2
  <2>3. events' \in Seq(EventRecords)
    BY <2>2, AppendEntries DEF Bracket
  <2>4. \/ otaState' = otaState
        \/ otaState = "Running" /\ otaTask = "ready" /\ otaState' = "Stopped"
    <3>1. CASE Route BY <3>1 DEF Route, prvMqttJobCallback
    <3>2. CASE OTA_Shutdown BY <3>2 DEF OTA_Shutdown
    <3>3. QED
      BY <1>5, <3>1, <3>2
  <2>5. ASSUME Paired, otaState' = otaState PROVE Paired'
    BY <2>1, <2>2, <2>5, PairedAppend
  <2>6. QED
    BY <2>1, <2>3, <2>4, <2>5 DEF Bracket, Closing, Ending
<1>6. CASE TakeEvent
  <2>1. /\ otaTask = "ready" /\ ~Ending
        /\ UNCHANGED <<otaTask, demoTask>>
        /\ otaState' \in {otaState, "Running", "Suspended", "ShuttingDown"}
    BY <1>6 DEF TakeEvent
  <2>2. (Paired' \/ Ending') /\ events' \in Seq(EventRecords)
    BY <1>6, <2>1, PairedTake DEF Bracket
  <2>3. QED
    BY <2>1, <2>2 DEF Bracket, Closing, Ending
<1>7. CASE ShutdownDone \/ Demo
  <2>1. /\ UNCHANGED <<events, agentTask, otaTask, call>>
        /\ otaState' = otaState \/ (/\ otaState = "ShuttingDown" /\ otaTask = "ready"
                                    /\ otaState' = "Stopped")
        /\ demoTask' # "running" => \/ demoTask # "running" /\ otaState' = otaState
                                    \/ demoTask' = demoTask
                                    \/ otaState = "Stopped" /\ otaState' = otaState
    BY <1>7 DEF ShutdownDone, Demo, DemoCleanup, prvDisconnectFromMQTTBroker, DemoDone
  <2>2. Paired /\ otaState' = otaState => Paired'
    <3>1. Paired /\ otaState = "Suspended" => otaTask' = "ready"
      BY <2>1 DEF Paired
    <3>2. QED
      BY <2>1, <3>1, PairedQuiet
  <2>3. QED
    BY <2>1, <2>2 DEF Bracket, Closing, Ending
<1>8. QED
  BY <1>1, <1>2, <1>3, <1>4, <1>5, <1>6, <1>7
  DEF Next, Reconnecting, prvSuspendOTA, prvResumeOTA

LEMMA AlwaysBracket == Spec => []Bracket
<1>1. Init => Bracket
  <2> SUFFICES ASSUME Init PROVE Bracket
    OBVIOUS
  <2>1. <<>> \in Seq(EventRecords) /\ DOMAIN <<>> = {}
    OBVIOUS
  <2>2. Waiting("Suspend") = {} /\ Waiting("Resume") = {}
    BY <2>1 DEF Init, Waiting
  <2>3. QED
    BY <2>1, <2>2 DEF Init, Bracket, Paired, Closing, SuspendedIsReconnecting
<1>2. QED
  BY <1>1, BracketStep, PTL DEF Spec

(* The command queue and the agent context are created anew only under an  *)
(* OTA agent that is suspended outside of its MQTT calls and a demo task   *)
(* that does not disconnect, or, when a shutdown was queued behind the     *)
(* suspension, under one that at most unsubscribes or has stopped.         *)
THEOREM QueueRecreatedOutsideCalls == Spec => []ReconnectsOutsideCalls
<1>1. Bracket => ReconnectsOutsideCalls
  BY DEF Bracket, Paired, Closing, Ending, ReconnectsOutsideCalls
<1>2. QED
  BY <1>1, AlwaysBracket, PTL

(* The agent task never executes commands with the OTA agent suspended.    *)
THEOREM SuspensionEnds == Spec => []SuspendedIsReconnecting
<1>1. Bracket => SuspendedIsReconnecting
  BY DEF Bracket, Paired, Ending, SuspendedIsReconnecting
<1>2. QED
  BY <1>1, AlwaysBracket, PTL

-----------------------------------------------------------------------------
(* Event buffers *)

(* Only data events have a buffer, a used one that no other event has.     *)
Held ==
  /\ events \in Seq(EventRecords)
  /\ bufferUsed \subseteq Buffers
  /\ inHand \in Buffers \cup {None}
  /\ \A i \in DOMAIN events : events[i].event # "Data" => events[i].buffer = None
  /\ BufferExclusive

(* An event without a buffer is queued.                                    *)
LEMMA SignalHeld ==
  ASSUME Held, NEW kind \in {"Suspend", "Resume", "Shutdown"},
         events' = Append(events, [event |-> kind, buffer |-> None]),
         UNCHANGED <<bufferUsed, inHand>>
  PROVE  Held'
<1> DEFINE e == [event |-> kind, buffer |-> None]
<1>1. e \in EventRecords /\ e.event # "Data" /\ e.buffer = None
  BY DEF EventRecords
<1>2. events' = Append(events, e)
  OBVIOUS
<1> HIDE DEF e
<1>3. /\ events' \in Seq(EventRecords)
      /\ \A i \in DOMAIN events' : \/ i \in DOMAIN events /\ events'[i] = events[i]
                                   \/ i = Len(events) + 1 /\ events'[i] = e
  BY <1>1, <1>2, AppendEntries DEF Held
<1>4. QED
  BY <1>1, <1>3 DEF Held, BufferExclusive

LEMMA HeldStep == Held /\ [Next]_vars => Held'
<1> SUFFICES ASSUME Held, [Next]_vars PROVE Held'
  OBVIOUS
<1> USE DEF commandVars, callVars, eventVars, agentVars
<1>1. CASE UNCHANGED <<events, bufferUsed, inHand>>
  BY <1>1 DEF Held, BufferExclusive
<1>2. CASE Reconnecting
  <2>1. CASE \/ CancelQueued \/ CancelPending \/ prvConnectToMQTTBroker
             \/ Poll("suspending", Suspended, "connect")
             \/ Poll("resuming", ~Suspended, "loop")
    BY <1>1, <2>1 DEF CancelQueued, CancelPending, prvConnectToMQTTBroker, Poll
  <2>2. ASSUME NEW at, NEW kind \in {"Suspend", "Resume"}, NEW next, Signal(at, kind, next)
        PROVE  Held'
    BY <1>1, <2>2, SignalHeld DEF Signal
  <2>3. QED
    BY <1>2, <2>1, <2>2 DEF Reconnecting, prvSuspendOTA, prvResumeOTA
<1>3. CASE Route
  <2>1. PICK r \in routing : prvMqttJobCallback(r)
    BY <1>3 DEF Route
  <2>2. CASE UNCHANGED <<bufferUsed, events>>
    BY <1>1, <2>1, <2>2 DEF prvMqttJobCallback
  <2>3. CASE ~UNCHANGED <<bufferUsed, events>>
    <3>1. PICK b \in FreeBuffers :
            /\ bufferUsed' = bufferUsed \cup {b}
            /\ events' = events \/ events' = Append(events, [event |-> "Data", buffer |-> b])
      BY <2>1, <2>3, GotBuffer DEF prvMqttJobCallback
    <3>2. /\ b \in Buffers /\ b \notin bufferUsed /\ b # inHand
          /\ inHand' = inHand
      BY <2>1, OtaAssumption DEF FreeBuffers, prvMqttJobCallback, Held, BufferExclusive
    <3>3. CASE events' = events
      BY <3>1, <3>2, <3>3 DEF Held, BufferExclusive
    <3>4. CASE events' = Append(events, [event |-> "Data", buffer |-> b])
      <4> DEFINE e == [event |-> "Data", buffer |-> b]
      <4>1. e \in EventRecords /\ e.event = "Data" /\ e.buffer = b
        BY <3>2 DEF EventRecords
      <4>2. events' = Append(events, e)
        BY <3>4
      <4> HIDE DEF e
      <4>3. /\ events' \in Seq(EventRecords)
            /\ \A i \in DOMAIN events' : \/ i \in DOMAIN events /\ events'[i] = events[i]
                                         \/ i = Len(events) + 1 /\ events'[i] = e
        BY <4>1, <4>2, AppendEntries DEF Held
      <4>4. QED
        BY <3>1, <3>2, <4>1, <4>3 DEF Held, BufferExclusive
    <3>5. QED
      BY <3>1, <3>3, <3>4
  <2>4. QED
    BY <2>2, <2>3
<1>4. CASE TakeEvent
  <2>1. /\ inHand = None /\ events # <<>> /\ events' = Tail(events)
        /\ inHand' = Head(events).buffer /\ bufferUsed' = bufferUsed
    BY <1>4 DEF TakeEvent
  <2>2. /\ events' \in Seq(EventRecords)
        /\ 1 \in DOMAIN events /\ Head(events) = events[1] /\ Head(events) \in EventRecords
        /\ \A i \in DOMAIN events' : /\ i \in Int /\ i + 1 \in DOMAIN events /\ i + 1 # 1
                                     /\ events'[i] = events[i + 1]
    BY <2>1, TailEntries DEF Held
  <2>3. inHand' \in Buffers \cup {None}
    BY <2>1, <2>2 DEF EventRecords
  <2>4. inHand' # None => Head(events).event = "Data" /\ inHand' \in bufferUsed
    BY <2>1, <2>2 DEF Held, BufferExclusive
  <2>5. ASSUME NEW i \in DOMAIN events', events'[i].event = "Data"
        PROVE  events'[i].buffer \in bufferUsed \ {inHand'}
    BY <2>1, <2>2, <2>4, <2>5, OtaAssumption DEF Held, BufferExclusive
  <2>6. ASSUME NEW i \in DOMAIN events', NEW j \in DOMAIN events',
               events'[i].event = "Data", events'[j].event = "Data",
               events'[i].buffer = events'[j].buffer
        PROVE  i = j
    BY <2>2, <2>6, SMTT(30) DEF Held, BufferExclusive
  <2>7. QED
    BY <2>1, <2>2, <2>3, <2>4, <2>5, <2>6 DEF Held, BufferExclusive
<1>5. CASE EventProcessed
  <2>1. /\ inHand # None /\ inHand' = None /\ bufferUsed' = bufferUsed \ {inHand}
        /\ events' = events
    BY <1>5 DEF EventProcessed
  <2>2. QED
    BY <2>1, OtaAssumption DEF Held, BufferExclusive
<1>6. CASE OTA_Shutdown
  BY <1>1, <1>6, SignalHeld DEF OTA_Shutdown
<1>7. CASE ~(Reconnecting \/ Route \/ TakeEvent \/ EventProcessed \/ OTA_Shutdown)
  BY <1>1, <1>7
  DEF Next, OtaCalls, prvMqttSubscribe, prvMqttUnSubscribe, prvMqttPublish, Issue, NoCommandLeft,
      NotifyWait, Return, ProcessCommand, ConnectionLost, Acknowledge,
      prvIncomingPublishCallback, ShutdownDone, Demo, DemoCleanup, prvDisconnectFromMQTTBroker,
      DemoDone, vars
<1>8. QED
  BY <1>2, <1>3, <1>4, <1>5, <1>6, <1>7

(* A publish never overwrites a buffer whose event is queued or being      *)
(* processed, and two events never share one.                              *)
THEOREM BuffersExclusive == Spec => []BufferExclusive
<1>1. Init => Held
  <2> SUFFICES ASSUME Init PROVE Held
    OBVIOUS
  <2>1. <<>> \in Seq(EventRecords) /\ DOMAIN <<>> = {}
    OBVIOUS
  <2>2. QED
    BY <2>1 DEF Init, Held, BufferExclusive
<1>2. Held => BufferExclusive
  BY DEF Held
<1>3. QED
  BY <1>1, <1>2, HeldStep, PTL DEF Spec

-----------------------------------------------------------------------------
(* Subscriptions *)

(* The command a call waits for is the one it asked for.                   *)
OwnRequest ==
  /\ command = [c \in Commands |-> command[c]]
  /\ own # None => own \in Commands /\ command[own] = call

callState == <<command, own, call, xReturnStatus>>

(* Every step starts a call, ends one, queues the disconnect, concludes a  *)
(* command, or leaves the calls alone.                                     *)
LEMMA StepsOfCalls ==
  ASSUME Ownership, [Next]_vars
  PROVE  \/ UNCHANGED callState
         \/ \E request : Issue(request)
         \/ Return
         \/ prvDisconnectFromMQTTBroker
         \/ call' = call /\ \E c \in Commands : \E status : Conclude(c, status)
<1> USE DEF callState
<1>1. CASE OtaCalls
  BY <1>1, Zenon DEF OtaCalls, prvMqttSubscribe, prvMqttUnSubscribe, prvMqttPublish
<1>2. CASE ProcessCommand
  <2>1. commandQueue # <<>> /\ call' = call
    BY <1>2 DEF ProcessCommand
  <2>2. PICK c : c = Head(commandQueue)
    OBVIOUS
  <2>3. c \in Commands
    BY <2>1, <2>2 DEF Ownership
  <2>4. UNCHANGED <<command, own, xReturnStatus>> \/ \E status : Conclude(c, status)
    BY <1>2, <2>2 DEF ProcessCommand
  <2>5. QED
    BY <2>1, <2>3, <2>4
<1>3. CASE CancelQueued
  <2>1. CASE commandQueue = <<>>
    BY <1>3, <2>1 DEF CancelQueued
  <2>2. CASE commandQueue # <<>>
    <3>1. PICK c : c = Head(commandQueue)
      OBVIOUS
    <3>2. c \in Commands
      BY <2>2, <3>1 DEF Ownership
    <3>3. call' = call /\ Conclude(c, "MQTTRecvFailed")
      BY <1>3, <2>2, <3>1 DEF CancelQueued
    <3>4. QED
      BY <3>2, <3>3
  <2>3. QED
    BY <2>1, <2>2
<1>4. CASE CancelPending
  <2>1. call' = call
    BY <1>4 DEF CancelPending
  <2>2. UNCHANGED <<command, own, xReturnStatus>>
          \/ \E c \in pendingAcks : Conclude(c, "MQTTRecvFailed")
    BY <1>4 DEF CancelPending
  <2>3. pendingAcks \subseteq Commands
    BY DEF Ownership
  <2>4. QED
    BY <2>1, <2>2, <2>3
<1>5. CASE \E c \in Commands : Acknowledge(c)
  <2>1. PICK c \in Commands : Acknowledge(c)
    BY <1>5
  <2>2. call' = call /\ \E status : Conclude(c, status)
    BY <2>1 DEF Acknowledge
  <2>3. QED
    BY <2>2
<1>6. CASE prvConnectToMQTTBroker BY <1>6 DEF prvConnectToMQTTBroker, callVars
<1>7. CASE NoCommandLeft BY <1>7 DEF NoCommandLeft, commandVars, callVars
<1>8. CASE NotifyWait BY <1>8 DEF NotifyWait, commandVars
<1>9. CASE ConnectionLost BY <1>9 DEF ConnectionLost, commandVars, callVars
<1>10. CASE prvSuspendOTA BY <1>10 DEF prvSuspendOTA, Signal, Poll, commandVars, callVars
<1>11. CASE prvResumeOTA BY <1>11 DEF prvResumeOTA, Signal, Poll, commandVars, callVars
<1>12. CASE Route BY <1>12 DEF Route, prvMqttJobCallback, commandVars, callVars
<1>13. CASE \E topic \in DOMAIN Matching : prvIncomingPublishCallback(topic)
  BY <1>13 DEF prvIncomingPublishCallback, commandVars, callVars
<1>14. CASE TakeEvent BY <1>14 DEF TakeEvent, commandVars, callVars
<1>15. CASE EventProcessed BY <1>15 DEF EventProcessed, commandVars, callVars
<1>16. CASE OTA_Shutdown \/ ShutdownDone
  BY <1>16 DEF OTA_Shutdown, ShutdownDone, commandVars, callVars
<1>17. CASE DemoCleanup BY <1>17 DEF DemoCleanup, commandVars, callVars
<1>18. CASE DemoDone BY <1>18 DEF DemoDone, commandVars, callVars
<1>19. CASE UNCHANGED vars BY <1>19 DEF vars, commandVars, callVars
<1>20. QED
  BY <1>1, <1>2, <1>3, <1>4, <1>5, <1>6, <1>7, <1>8, <1>9, <1>10, <1>11, <1>12, <1>13, <1>14,
     <1>15, <1>16, <1>17, <1>18, <1>19
  DEF Next, Reconnecting, Demo

LEMMA OwnRequestStep ==
  ASSUME Ownership, OwnRequest, [Next]_vars
  PROVE  OwnRequest'
<1>1. CASE UNCHANGED callState
  BY <1>1 DEF callState, OwnRequest
<1>2. ASSUME NEW request, Issue(request) PROVE OwnRequest'
  <2>1. PICK c \in Commands : Queued(c, request) /\ own' = c
    BY <1>2 DEF Issue
  <2>2. command' = [command EXCEPT ![c] = request] /\ call' = request
    BY <1>2, <2>1 DEF Issue, Queued
  <2>3. QED
    BY <2>1, <2>2 DEF OwnRequest
<1>3. CASE Return
  BY <1>3 DEF Return, commandVars, OwnRequest
<1>4. CASE prvDisconnectFromMQTTBroker
  <2>1. PICK c \in Commands : Queued(c, [op |-> "disconnect", filter |-> "none"])
    BY <1>4 DEF prvDisconnectFromMQTTBroker
  <2>2. PICK request : request = [op |-> "disconnect", filter |-> "none"]
    OBVIOUS
  <2>3. /\ command' = [command EXCEPT ![c] = request] /\ c # own
        /\ UNCHANGED <<own, call>>
    BY <1>4, <2>1, <2>2
    DEF prvDisconnectFromMQTTBroker, Queued, callVars, Ownership, CommandInOnePlace
  <2>4. QED
    BY <2>1, <2>3 DEF OwnRequest
<1>5. ASSUME NEW c \in Commands, NEW status, Conclude(c, status), call' = call
      PROVE  OwnRequest'
  <2>1. PICK request : request = NoCall
    OBVIOUS
  <2>2. /\ command' = [command EXCEPT ![c] = request]
        /\ own' = None \/ (own' = own /\ own # c)
    BY <1>5, <2>1 DEF Conclude
  <2>3. QED
    BY <1>5, <2>2 DEF OwnRequest
<1>6. QED
  BY <1>1, <1>2, <1>3, <1>4, <1>5, StepsOfCalls

(* A success is stored together with the routes of the filter.             *)
LEMMA SuccessIsRouted ==
  ASSUME Ownership, OwnRequest, [Next]_vars,
         xReturnStatus # "MQTTSuccess", xReturnStatus' = "MQTTSuccess", call.op = "subscribe"
  PROVE  Registered(call.filter) \subseteq subscriptions'
<1>1. \E c \in Commands : \E status : Conclude(c, status)
  BY StepsOfCalls DEF callState, Issue, Return, prvDisconnectFromMQTTBroker, callVars
<1>2. PICK c \in Commands : \E status : Conclude(c, status)
  BY <1>1
<1>3. PICK status : Conclude(c, status)
  BY <1>2
<1>4. PICK frame \in Frames(c) :
         /\ frame \notin {"intact", "other"} /\ command[c].op # "disconnect"
         /\ status = "MQTTSuccess"
         /\ subscriptions' = Completed(command[c].op,
                                       IF frame = "reused" THEN call.filter ELSE command[c].filter,
                                       status)
  BY <1>3 DEF Conclude
<1>5. frame = "reused" => call.op = command[c].op
  BY <1>4 DEF Frames
<1>6. frame # "reused" => own = c
  BY <1>4 DEF Frames
<1>7. own = c => command[c] = call
  BY <1>2, OtaAssumption DEF OwnRequest
<1>8. subscriptions' = Completed("subscribe", call.filter, "MQTTSuccess")
  BY <1>4, <1>5, <1>6, <1>7
<1>9. QED
  BY <1>8 DEF Completed, AddSubscription

(* When a subscribe call learns of its success, the publishes for its      *)
(* filter are routed, even if the success is that of an earlier call whose *)
(* late callback used the frame of this one (prvMqttSubscribe and          *)
(* prvSubscribeCommandCallback).                                           *)
THEOREM SuccessRegistered == Spec => SubscribedIsRegistered
<1>1. Init => Ownership /\ OwnRequest
  <2> SUFFICES ASSUME Init PROVE Ownership /\ OwnRequest
    OBVIOUS
  <2>1. <<>> \in Seq(Commands)
    OBVIOUS
  <2>2. Ownership
    BY <2>1, EmptyList, OtaAssumption
    DEF Init, Agent_InitializePool, Ownership, CommandInOnePlace
  <2>3. OwnRequest
    BY DEF Init, OwnRequest
  <2>4. QED
    BY <2>2, <2>3
<1>2. Ownership /\ OwnRequest /\ [Next]_vars => (Ownership /\ OwnRequest)'
  BY OwnershipStep, OwnRequestStep
<1>3. Ownership /\ OwnRequest /\ [Next]_vars
        => [(xReturnStatus # "MQTTSuccess" /\ xReturnStatus' = "MQTTSuccess"
               /\ call.op = "subscribe")
            => Registered(call.filter) \subseteq subscriptions']_vars
  BY SuccessIsRouted
<1>4. QED
  BY <1>1, <1>2, <1>3, PTL DEF Spec, SubscribedIsRegistered
=============================================================================
