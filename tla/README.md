# TLA+ specifications of the TrustZone AWS IoT application

This directory holds the formal models of the application under `src/app/AWS`, an IoT
device program that runs in the non-secure world of an Arm TrustZone microcontroller on
FreeRTOS, talks MQTT over TLS to a cloud broker, and uses the services of the secure
firmware (TF-M) for keys, storage and firmware update; and of the non-secure side of the
interface to that firmware under `src/tfm/interface`.  The modules are checked with TLC on
small instances; the theorems are proved with TLAPS for every value of the constants.

In paths, `A` stands for `src/app/AWS`, `AF` for `src/app/AWS/amazon-freertos`, `TFM` for
`src/tfm/interface`.

## 1. Inventory of the system

| Part | State | Operations | Interacts with | Module |
|---|---|---|---|---|
| Task pool (`AF/libraries/c_sdk/standard/common/taskpool`) | worker threads, dispatch queue, deferred events, job cache, two semaphores, a mutex, a timer | create, destroy, set quota, create / schedule / defer / cancel / recycle jobs; worker and timer threads | platform layer | `TaskPool` |
| Linear containers (`iot_linear_containers.h`) | intrusive lists | insert, insert sorted, remove, find | task pool | `Lists` |
| Platform layer (`AF/libraries/abstractions/platform/freertos`) | semaphores with a maximum, recursive mutex, one-shot timers | post, timed wait, arm, stop | FreeRTOS kernel (external) | `TaskPool` |
| Key-value store (`A/provision/kvstore`) | write-back cache, non-volatile entries | init, set, get, commit | secure storage, command line | `KvStore` |
| OTA platform layer (`AF/libraries/abstractions/ota_pal_psa`) | open file context, image id; firmware slots in the secure world | create, write block, close, abort, activate, accept / reject | firmware update service, boot loader, OTA agent | `OtaPal` |
| OTA demo, MQTT agent port, subscription manager (`AF/demos/ota`, `.../mqtt_agent`) | event buffers, command contexts and structures, subscriptions, agent task | subscribe, publish, unsubscribe with timed waits; suspend, resume, reconnect | MQTT agent and OTA libraries (external) | `OtaMqtt` |
| PKCS #11 over PSA (`AF/libraries/abstractions/pkcs11/psa`) | sessions, list of handles, stored objects | open, find, create, generate, destroy, digest, sign, verify | TLS, provisioning, PSA services | `Pkcs11` |
| Users of the token (`core_pkcs11.c`, `core_pki_utils.c`, `PkiObjectPkcs11.c`, `mbedtls_pk_pkcs11.c`) | key contexts, the sessions they keep | initialize, sign, free, convert signatures | PKCS #11, TLS, `pki` commands | `PkiPkcs11` |
| Secure sockets, transport, TLS, socket ports | socket structures, socket ids, TLS contexts and their session | connect, send, receive, disconnect | TCP stack (external), PKCS #11 | `SecureTransport` |
| Mutual authentication demo, demo runner, network manager | progress of the iteration, packet ids, what the runner initialized | connect, subscribe, publish, unsubscribe, disconnect with retries | transport, broker | `MutualAuthDemo` |
| PKI objects, command line, scripts (`A/provision`, `provision.py`, `import_ota_key.py`) | keys and documents in the secure side, lines in both directions, the attempt of the script, the cloud account | `pki` and `conf` commands, provisioning from start to end | PSA services, key-value store, cloud | `PkiObjects`, `Provisioning` |
| Interface to the secure firmware (`TFM/src`) | the mutex around the veneers, handles of multi-part operations, connections | every PSA function | secure firmware (external) | `PsaClient` |
| Key attributes, encodings, sizes (`TFM/include/psa`) | key attributes | setters, algorithm constructors, size macros | everyone who makes a key | `PsaValues`, `PsaSizes`, `KeyAttributes` |
| Logging, board support, littlefs variant | - | - | - | not modelled |

What is hard in this code, and what a test would hardly reach:

* interleavings: task pool calls, workers that wait outside the mutex, the timer daemon and
  destruction; two tasks in the PKCS #11 module or in the PSA interface;
* resets between any two calls that change the state of the secure firmware: partial commits
  of the configuration, an image that is installed, activated or accepted, half a key pair;
* timed waits for something that completes later: the commands of the OTA demo, the answers
  of the broker, the answers of the command line;
* one call of several failing: who closes the session, frees the context, removes the key;
* pools and tables at their limit: command structures, event buffers, operation slots,
  sessions, socket ids, wake-up tokens;
* conversions at their edges: signatures whose numbers are short or have the sign bit set,
  lengths that fill their field.

`PROJECT.json` lists every component and, under `hazards`, each of these at the line where it
bites, with the properties that cover it.

## 2. Plan

Done: every component of section 1 that is not listed in section 16, and proofs about each of
them: every invariant of the runs but one, and every action property that is not about liveness
(section 15).

What is left, in order:

1. The timer command queue of the platform layer as a refinement of the timer actions.
2. The state callbacks of the network manager as jobs of the task pool, composed through
   `JobContract`.
3. A bound on how much of an old attempt the serial line can hold, from which
   `CompletedIsConsistent` would follow for that many failures.

## 3. Runs

One run for each question.  All passing runs are exhaustive.

| Run | Question | Properties |
|---|---|---|
| `queue` | do the task pool's counters, handshake and tokens survive every interleaving of calls and workers? | `StartStopHandshake`, `NoLostWakeup`, `CountersAreExact`, `QueuedJobRuns`, `OwnerReturns` |
| `timer` | deferred and recyclable jobs: one place each, always a timer, one start per acceptance? | `JobPlacement`, `TimerCoverage`, `ExpiredJobDispatched`, `ImplementsContract` |
| `teardown` | **violated**: is the pool destroyed only when nobody uses it? | `DestroyIsExclusive` |
| `kv` | does a reported save survive failures and resets? | `BufferFits`, `SavedIsDurable`, `ImplementsKvContract` |
| `ota` | late completions and reconnections: who owns commands and buffers? | `CommandInOnePlace`, `ReconnectsOutsideCalls`, `BufferExclusive`, `SubscribedIsRegistered`, `AgentComesBack`, `BuffersComeBack` |
| `pal` | can an update with resets anywhere leave the device with a wrong image, or none? | `OnlyGenuineRuns`, `FallbackKept`, `ReceivedIsStaged`, `SignatureIsConverted` |
| `pkcs11` | do the list of handles and the stored objects agree under two tasks? | `ListIsExact`, `StoredIsFound` |
| `pki_pkcs11` | who closes each session, and is what the commands report true? | `SessionsAccounted`, `CredentialsAreSound` |
| `demo` | what does a failing connection leave behind, and does the demo end? | `SessionsAreExact`, `GrantIsCurrent`, `DemoSettles` |
| `psa` | do two tasks disturb each other, and what is left allocated on the secure side? | `SlotsAreHeld`, `CallsAreIsolated`, `CallsReturn` |
| `provision` | does provisioning end, restarted from any failure, with a consistent device? | `PairMatches`, `CompletedIsConsistent`, `DocumentsAreSigned`, `ProvisioningCompletes` |
| `key_attributes` | do the macros recover what was built, and are the buffers large enough? | `BuiltIsRecovered`, `IdIsPersistent`, `OutputsFit` |

Deadlock is checked except in `demo`, whose task ends.

## 4. The task pool

### Modules

* `Lists` - the list operations of `iot_linear_containers.h` on sequences: `Linked`,
  `Unlink`, `InsertSorted`.  Heads and tails are the ordinary sequence operators.
* `TaskPool` - the component: all state of `_taskPool_t`, of the jobs, of the workers, of the
  software timer, and where the thread that creates and destroys the pool is.
* `TaskPoolProperties` - the properties, and the refinement mapping to `JobContract`.
* `JobContract` - the abstract specification: a job is out, deferred, queued or started.
* `TaskPoolProof` - facts about `Lists`, the inductive invariant and the theorems.
* `MCTaskPool` and its configurations - the instances for TLC.

### State and actions

One critical section under the pool's recursive mutex is one step.  What the code does
outside of the mutex is a step of its own: a worker takes a token or times out
(`WorkerWake`), returns from a callback (`WorkerLast`, `WorkerNext`), posts
`startStopSignal` (`WorkerStart`, `WorkerExit`); the owner creates threads one by one
(`CreateThread`) and waits for them (`OwnerWait`).  The timer thread keeps the mutex over
several steps (`timerTask = "locked"`), during which time passes and nobody else may enter.
`_scheduleInternal` creates its thread and waits for that thread's post with the mutex held,
so creation and handshake are one step; creation may fail.

| Code | Model |
|---|---|
| `maxThreads == 0` is the exit condition | `_IsShutdownStarted` |
| `_taskPoolWorker`, outer loop | `pc[t]`: `start`, `wait`, `token` / `timeout`, `exit` |
| inner loop, `running` true / false | `pc[t]`: `run` / `last` |
| `_createTaskPool` | `owner`: `creating`, `starting` or `aborting`, `unwinding` |
| `IotTaskPool_Destroy` | `IotTaskPool_Destroy` (stages 1-4), `OwnerWait`, `DestroyDone` |
| `_timerThread` | `TimerFire`, `TimerThread`, `TimerDispatch`, `TimerDone` |
| absolute 64 bit expiration times | ticks left (`expiration`, `timer`) |
| `configASSERT` (BKPT), use of a destroyed pool, `free` of static storage | `fault`, after which nothing happens |

The client is modelled by what the API documentation asks of it: it uses a handle only while
it holds it (`live`), initializes storage only while it is in no list, and recycles an
executing job only from its own callback (which is a step while a worker is in `run`).
`ScheduleDeferred` with time 0 is `Schedule`.  `GetStatus` only reads.  Calls that fail
without changing anything (null arguments, shutdown in progress, no memory for a job) are
stuttering steps.

### Bounds

The instances have two threads and two jobs.  That is enough for a worker to be over quota
while another is idle, for two queued jobs of which one is cancelled while a worker holds the
token, and for two events in the timer list whose order matters.  `queue` has static jobs of
both priorities and quotas 1 and 2; `timer` has recyclable jobs, a cache of one, deferrals by
one and two ticks and the static system pool, whose storage must not be freed.  `MaxSem` is as
small as the assumption allows, so the semaphore really saturates.  `ActiveJobsBound` bounds
the growth of `activeJobs`, which the code never bounds because cancelled jobs stay counted.

### Fairness

`FairSpec` assumes that the FreeRTOS scheduler runs each ready thread (weak fairness of the
owner, the timer daemon, and the worker steps that need no lock), that user callbacks return,
that time passes, and that a thread waiting for the mutex eventually gets it (strong fairness
of `WorkerCheck` and `WorkerNext`, because the timer daemon takes the mutex again and again;
FreeRTOS mutexes wake the waiting thread of highest priority).  No fairness is assumed of API
calls.  A high priority job that is put in front of the queue always comes with a new thread,
so high priority jobs cannot starve the queue for ever.

### Proofs

`TaskPoolProof` proves, for every finite set of jobs and threads and every value of the other
constants allowed by `PoolAssumption`:

* `TypeCorrect`, `ThreadsCorrect`, `PlacementCorrect`, `QueueCorrect`, `CacheCorrect`,
  `CountersCorrect`, `DeferredJobsCovered`;
* `PoolRefinement`: the pool implements `JobContract`.

The invariants are not inductive one by one.  The counting invariants need to know which
phases of the owner exclude which worker states (`Lifecycle`): in service `maxThreads` is at
least `MinThreads` and nobody is exiting, outside it is 0 and nobody is starting; a pool that
is gone has no active thread.  With it `ThreadAccounting` and `StartStopHandshake` follow by
counting the threads whose `pc` an action moves (lemma `Moved`: one thread moved from one
class of states to another changes two counts by one).  `JobPlacement` needs the lemmas on
`Unlink` and `InsertSorted` and that the lists are empty unless the pool is open.
`NoLostWakeup` uses `JobPlacement` and that the queue has at most `Cardinality(Jobs)` entries,
which `MaxSem` covers, so that a saturated semaphore still has a token per job.

The refinement maps each job by the list it is in and its status.  Every step maps to a step of
the contract or to a stutter under `PlaceInv`, which says that list and status agree, and one
more invariant, `CachedUndefined`: a job in the cache was marked when it got there, so
destroying the pool takes nothing back that was started.

Only model-checked: the liveness properties.

## 5. The key-value store

`KvStore` models `kvstore.c`, `kvstore_cache.c` and `kvstore_nv_psa_its.c` together with the
two clients that exist: `app_main`, which loads the configuration at start-up and starts the
demos only if it is complete, and the `conf` command.  They never run at the same time, so the
hard part is not concurrency but resets and failures: `Reset` may happen between any two
steps, each write of a commit may fail (`xprvWriteValueToImpl(k, ok)`), and start-up may fail
to read any set of entries.

| Code | Model |
|---|---|
| `kvStoreCache[k]`: type, length, data | `val[k]`, a value with a length (`Bytes`), or `None` |
| pointer or inline data of an entry | `buf[k]`, the size of its heap buffer, 0 when inline |
| `xChangePending` | `pending[k]`, which is never cleared |
| `KVStore_xCommitChanges` | `vSubCommand_CommitConfig`, then one `CommitKey` per key |
| `configASSERT` on a length without data | `AssertionFails`, mode `halted` |

`KvContract` is what the store promises: `staged` and `durable` values per key; a set changes
the staged value, a write makes one staged value durable, a reset returns to the durable
values (or to the default, for an entry that cannot be read).

Run `kv`: two keys, six values of the lengths 0, 1, 4 (a word), 6, 6 and 9, which is every
combination of inline, heap, growing, shrinking and equal length.  It shows that no buffer is
overrun (`BufferFits`), that after "saved" every staged value is durable (`SavedIsDurable`),
and the refinement of `KvContract`.  `UnmarkedIsStored` (an entry not marked as changed is what
is stored) and `DemoIsProvisioned` (the demos run only on a stored, complete configuration) are
parts of the inductive invariant and proved.  A stored header without a value stops the device
in an assertion.

`KvStoreProof` proves all of this (`KvBufferFits`, `KvCorrect`, `KvRefinement`) for any number
of keys, values and lengths.
`SavedIsDurable` is not inductive: during a commit one needs `CommitProgress`, that as long
as no write has failed all keys below `commitAt` are already durable.  Assumed: a write of one
entry (`psa_its_set`) is atomic, and the defaults of the required keys are blank
(`kvStoreDefaults`).  The littlefs variant is compiled out.

## 6. The MQTT operations of the OTA demo

`OtaMqtt` models three tasks of `ota_demo_core_mqtt.c` with `freertos_command_pool.c`,
`freertos_agent_message.c` and `mqtt_subscription_manager.c`:

* the OTA agent task, which calls `prvMqttSubscribe`, `prvMqttPublish` and
  `prvMqttUnSubscribe`: take a command structure and queue it (`Issue`), wait at most five
  seconds for a notification (`NotifyWait`), look at the status and return (`Return`);
* `prvMQTTAgentTask`: the command loop, then, after an error, cancellation (`CancelQueued`,
  `CancelPending`), `prvSuspendOTA`, `prvConnectToMQTTBroker`, `prvResumeOTA`;
* the demo task: `DemoCleanup`, `prvDisconnectFromMQTTBroker`, `DemoDone`.

The MQTT agent library and the OTA library are not in the repository.  Their actions
(`ProcessCommand`, `Acknowledge`, `CancelQueued`, `TakeEvent` and the event queue) are
modelled from how the demo uses them and are as permissive as that allows: acknowledgements
arrive in any order, early, late or never; the OTA library makes any number of calls.

A command points to a context in the stack frame of its call.  When the callback runs after
that call has timed out, this is undefined behaviour; `Frames` lists the outcomes: the old
bytes are still there, the frame of a later call of the same function lies at that address, or
something else does (`fault = "wild"`, after which nothing is claimed).

A shutdown of the OTA agent is a request like the others.  `prvOtaAppCallback` makes it from
inside the processing of an event (`ota_demo_core_mqtt.c:873`, 929), so it is queued behind the
events that are already there, a suspension among them (`OTA_Shutdown`); only when the event
queue is full does the agent stop at once.  When the agent takes the request, suspended or not,
it is `ShuttingDown`: it may still unsubscribe, command after command, and then stops
(`ShutdownDone`), after which the demo task cleans up and disconnects.  All of it interleaves
with the agent task that suspends, reconnects and resumes.  One request is queued at a time,
because another one behind it would never be taken.

Time is not modelled; every bounded wait may end early.  `MayTimeOut` says whether suspending
or resuming may take longer than `otaexampleSUSPEND_TIMEOUT_MS`, which stops the program in an
assertion.  The proofs hold for both.  In the instance it is FALSE: an assertion that ends every
wait would also end one that can never succeed, and the run could not tell a mutual wait of the
OTA agent and the agent task from a reconnection.  The assertion is then reached only when the
OTA agent shuts down or the event queue is full.  The subscription list is a set: there are four different entries, and it has room
for ten.  The command queue (25) and the table of acknowledgements (20) hold all ten
structures, so only the pool can be exhausted.

Run `ota` shows that a command structure is in one place (`CommandInOnePlace`), that the queue
is created anew only while the OTA agent is suspended, outside its calls, and the demo is not
disconnecting (`ReconnectsOutsideCalls`), that the buffer of a pending event is not overwritten
(`BufferExclusive`), that a successful subscribe is routed (`SubscribedIsRegistered`), that the
agent task comes back from a lost connection (`AgentComesBack`) and that every buffer is
processed (`BuffersComeBack`).

`ReconnectsOutsideCalls` has one exception, which the code has: a shutdown that was queued
behind the suspension is taken while the agent task reconnects.  Then the OTA agent may have an
unsubscribe command in hand, but no subscribe and no publish, and once it has stopped the demo
may be disconnecting; their commands can be dropped with the old queue.  `ReconnectsAlone`,
without the exception, is refuted (section 14).  A mutual wait would violate `AgentComesBack`:
the OTA agent in a call nobody executes any more, and the agent task waiting for it to be
suspended.  What prevents it is the limit on the wait of a call, and the mutant of `NotifyWait`
that waits again is found.

Two structures are enough for a command that outlived its call next to the current one, and
for the pool to be exhausted; two buffers and two entries of the event queue for a full queue
with a suspension in it.

`FairSpec` assumes that bounded waits end, that the tasks run, that the OTA library takes its
next event after finitely many calls, and that it does not go on calling for as long as
`MQTTAgent_CancelAll` finds commands in the queue (it repeats a failed request only after
`otaconfigFILE_REQUEST_WAIT_MS`, ten seconds).  The broker is not assumed to answer.

### Proofs

`OtaMqttProof` proves four invariants and an action property for every number of commands and buffers and every
length of the event queue, from `OtaAssumption` alone (with or without `MayTimeOut`).

* `CommandsOwned` (`CommandInOnePlace`).  `Ownership` adds the types of the places a structure
  can be in; it is inductive.  Steps either queue a free structure (`QueuedOwnership`), or
  conclude one that has just been taken out of the queue or the table
  (`ConcludedOwnership`), or leave the places alone; creating the queue anew only empties places.
* `QueueRecreatedOutsideCalls` (`ReconnectsOutsideCalls`) and `SuspensionEnds`
  (`SuspendedIsReconnecting`).  Neither is inductive: they depend on the events that are still
  queued.  `Bracket` has two parts.  `Paired` says that a waiting Suspend event is the only one
  and belongs to an agent task in `suspending` that is not suspended yet, that a waiting Resume
  event belongs to one in `resuming`, and that in between the OTA agent is suspended outside of
  any call; it holds until a shutdown is taken, wherever its request is in the queue.  From then
  on `Closing` says what is left to do: unsubscribe calls before the agent has stopped, and the
  cleanup of the demo after that.
* `BuffersExclusive` (`BufferExclusive`).  `Held` adds that only data events have a buffer, so
  that a suspension taken from the queue releases none.
* `SuccessRegistered` (`SubscribedIsRegistered`, an action property).  With `OwnRequest`, that the
  structure a call waits for carries the request of that call, every step that writes a success
  into the frame of a subscribe call comes from a subscribe command whose callback has routed
  the same filter (`SuccessIsRouted`); it does not matter which call issued that command.

Liveness is model-checked only.

## 7. The OTA platform layer

`OtaPal` models `ota_pal.c` over the firmware update functions, driven by the OTA agent and by
`prvOtaAppCallback` of the demo.  `CalculatePSAImageID` knows three types of image (secure,
non-secure and full), each with an active slot and a staging slot; that a full image has slots
of its own is an assumption about the service.  When the agent starts there is no path of a job,
and `otaPal_GetPlatformImageState` asks about the secure and the non-secure image only
(`Queried`, `ota_pal.c:719-722`).

| Code | Model |
|---|---|
| `pxSystemContext`, `xOTAImageID` | `context`, `imageID` |
| state of the update service | `stage` (content per chunk, installed or not), `active` (content, permanent or not) |
| job document, OTA agent | `job`, `agent` (external, from how the layer and the demo use them) |
| `otaPal_CreateFileForRx`, `_WriteBlock`, `_CloseFile`, `_Abort`, `_ActivateNewImage` | actions of the same names |
| `otaPal_SetPlatformImageState`, `_GetPlatformImageState` | actions of `SelfTest` and `OtaInit`; with the path of a job `ImageStateOf` |
| power loss, reboot, boot loader | `Reset`, between any two calls |

Three variables are history: `good`, what was permanent last, `misread`, the types of which a
failing query hid an image that waits to be accepted when the agent started, and `exposed`, the
types of which a download was started over the image to fall back to.  `FallbackKept` says that
a type gets exposed in two ways only: the query of that type failed, or the type is not one the
agent asks about.  The second is what happens to a full image: installed and booted, it waits to
be accepted, the agent starts without a self test, nobody ever accepts it, and the next job for a
full image is downloaded into the slot that holds its predecessor.  That it is put to the test
like the others, `WaitingIsTested`, is refuted (section 14).  For a type that is exposed
`OnlyGenuineRuns` and `FallbackKept` claim nothing about the slots any more, since a boot may
bring back what is left of the old image.

The instance: all three types, of which at most two are updated in one behaviour, two chunks, a
factory image, a genuine one and one with a wrong signature, and signatures whose numbers are
short, full, and with a leading zero.  Two chunks are enough for a partly overwritten slot, and
two types for a job about one image while the other waits for acceptance.  TLC does not look
beyond the step that exposes a type, which it checks; the proofs cover what follows, and all
three types.

`OtaPalProof` proves `PalTypeCorrect`, `PalRunsGenuine`, `PalKeepsFallback` and
`PalStagesReceived` for any images, number of chunks and signatures.  None of the three
properties is inductive.  What runs is genuine because what may run next is (`NextIsGenuine`:
the file that was just verified, the image that is installed, the image that was permanent
last).  Those stay as they are because only one slot at a time waits for a reboot or for being
accepted (`OneAtATime`), because out of the self test no image waits that the queries have shown
(`NoneWaitsUntold`), and because a download that is open for a slot with a fallback image has one
of the two excuses (`DownloadIsExcused`).

`PalConvertsSignature` (`SignatureIsConverted`) holds for any base (`Bytes`) and any number of
digits (`Width`): a component is the sequence of its digits, the encoding drops leading zeros and
puts one before a first digit with the sign bit, and `prvConvertToRawECDSASignature` must restore
exactly the digits that were there.  `ConversionIsExact` says so of the two operators alone.
Where the encoding of a number begins is the least position of a digit that is not zero, which
exists by well-foundedness of `<` (`WFMin`); no induction over digits is needed.

## 8. PKCS #11 over PSA

`Pkcs11` models the list of handles, the sessions and the operations of
`iot_pkcs11_psa.c` and `iot_pkcs11_psa_object_management.c`.  A call is preempted wherever it
enters the secure side or takes the mutex of the list, so a call is a sequence of steps
(`call[t]`); each entry to the secure side may fail.  An object is its kind, which stands for
label and id; attribute templates are records of what they describe.  `mark` and `keyHandle` are
the two fields of `P11KeyConfig` that outlive a call.  `stored` is history.

`Exclusive` says that nobody else calls while objects are made or destroyed; it is TRUE in the
run because provisioning, the only maker, runs alone in this application.  The run has one task
that makes, finds and digests and one that finds, signs and verifies; one kind of certificate,
EC keys, four handles, at most two objects present together and one volatile key.  The
constraint lets a digest or signature be under way only while the other session is closed,
which costs no interleaving of the list: those operations do not touch it.  The view drops the
results of finished calls, which no later step reads.

`Pkcs11Proof` proves `P11TypeCorrect`, `P11ListExact` and `P11StoredFound` for any set of tasks,
certificates, algorithms and volatile ids and any length of the list, under the hypothesis
`Exclusive`, as in the run.  Without it TLC refutes both properties: a search that found its
object before another task destroyed it puts a handle of it into the list afterwards.  The invariant `P11Inv` relates four places that
the code updates one after the other: the object in the secure side (`psa`), what was stored
(`stored`), the marks of the key configuration (`mark`, `keyHandle`) and the list (`objects`).
Between the steps of a call they disagree, so `Sound` says for each step what the call knows:
that the object it is about to list is there, or that the key it found is marked.
`UniqueInList` needs that a listing task takes the entry of its object if there is one
(`PlaceOf`).

## 9. The users of the token

`PkiPkcs11` models `PkiObjectPkcs11.c`, `mbedtls_pk_pkcs11.c`, the session helpers of
corePKCS11, `core_pki_utils.c` and the client credentials of `iot_tls.c`, for a build with
`MBEDTLS_TRANSPORT_PKCS11` (an option of `tls_transport_config.h`, not the default).  A command
is its sequence of calls into the token, each of which may fail and send it to the clean-up
of the function it is in.  `SessionsAccounted` says that every open session has exactly one
owner; sessions the code is known to drop are collected in `leaked`, and closing a handle that
was never set (`undefined`) voids the claim.  `CredentialsAreSound` relates what the commands
report and the signatures they produce to the token.  One command reports less than it should:
`vSubCommand_GenerateCertificate` (`cli_pki.c:484`) does not look at the status of
`xPkiWriteCertificate` and prints the certificate all the same.  Its steps of the writing are
`Ignored`: an error there neither ends the command nor changes what it prints, so of this
command `RepliesMatch` claims only that the certificate printed is one of the private key in
the token.  `PrintedIsStored`, that it is also the one stored, is refuted (section 14).

Three sessions are what the heap holds: with them the last one can be refused while a TLS
connection and a key context hold one each.  Two key pairs tell an old key from a new one.
Numbers of a signature have two bytes, with leading zeros and on both sides of the sign bit;
`SignatureSpace` is 11 bytes, so one signature does not fit.  Reading the public point through
the private key may succeed or fail; with the usage this port gives its keys the secure side
refuses it.

`PkiProof` proves both properties for any number of sessions and key pairs and any failures and
resets: `PkiSessionsAccounted` and `PkiCredentialsSound`.  Commands are programs, sequences of
steps put together from those of their functions, so the invariant `PkiInv` has a table for each
of the eight commands (`GeneratingKey`, ..., `Connecting`): for every step, whether the function,
the key context or the TLS context has a session there, and what of the key pair, the
certificate and the signature is already known.  A failing step continues at the first later
step of a given name; the lemma `AfterIs` gives its number.  An ignored failure does so
too, without the result being dropped, which is why the table of `generate cert` keeps track of
the certificate printed through every failure of the writing (`GeneratingCert`).

The signatures are proved for numbers of any width from 1 to 123 bytes, beyond which the length
of the sequence no longer fits a byte.  `SignatureDecodes` says that octets laid out as two DER
integers, each with its padding byte or without it, are a well-formed sequence in which
`PKI_mbedTLSSignatureToPkcs11Signature` finds the two numbers; `EcdsaSigned` and `TlsSigned` show
that `prvEcdsaSigToASN1InPlace` and `PKI_pkcs11SignatureTombedTLSSignature` both lay them out so.

## 10. The network stack and the mutual authentication demo

`SecureTransport` models the transport interface, secure sockets, TLS contexts and the socket
port for one task: `Connect` and `Disconnect` as sequences of steps (`call.at`), each of which
may fail; `Send` and `Recv` as the chain of translations of what the TCP stack answers.  Use of a
released socket structure ends in `call.at = "undefined"`.

`MutualAuthDemo` composes it with `mqtt_demo_mutual_auth.c`, the demo runner, the network
manager in its Ethernet configuration, and a broker.  `pc` is where the demo task stands; `up`
and `down` are the packets under way.  coreMQTT is external: a request is one send, and
`MQTT_ProcessLoop` hands any number of packets to `prvEventCallback`.

The instance has one address for socket structures (so that it is reused), two socket ids and
two sessions (so that a leaked one is followed by a refusal), two iterations, two publishes,
one retry, two waits and three packets in flight, which is one more than a request and its
answer.  Fairness is weak fairness of the demo task; the broker need never answer, which is why
`DemoSettles` names the loop that resubscribes for ever.  Deadlock is not checked because the
demo ends.

`MutualAuthDemoProof` proves `DemoSessionsExact` and `DemoGrantCurrent` for any number of
structures, ids, sessions, iterations, publishes, attempts and packets.  The invariant has three
parts, each inductive on its own.  `StackInv` says what is allocated at each step of a call
(`CallInv`) and between calls (`RestInv`), where the demo task may stand meanwhile (`TaskInv`), and
that the session of a context whose handshake has started is open (`SoundContext`).  `RunnerInv`
says what the runner holds and that a success means more than half of the iterations.
`GrantInv` says that nothing of an old connection is on the wire or remembered when the next
one begins, so a SUBACK that is looked at was sent for this connection.

## 11. The PSA interface

`PsaClient` describes every function of `TFM/src` by a record: input and output vectors, the
lengths it reports and the vector each is taken from, what it does to an operation structure
and to keys, whether it opens a connection.  A task calls (`Call`), gets the mutex
(`Dispatch`) and returns with the outcome of the secure side (`SecureReturn`).  The secure side
is external: it keeps a slot per multi-part operation and writes an output vector only if it
got one.

Two tasks, three operation structures (two of them of one task), two slots and two connections
let slots and connections run out while another task holds them.  Callers set up inactive
structures only, as `crypto.h` asks: a set-up on an active one would overwrite its handle.
Fairness: the secure side ends every request (weak fairness of `SecureReturn`); a task that
waits for the mutex is in the kernel's queue and gets its turn although others take the mutex
in between (strong fairness of `Dispatch`).

`PsaProof` proves `PsaTypeCorrect`, `PsaSlotsHeld` and `PsaCallsIsolated` for any number of
tasks, operation structures, slots and connections.  First each function of the interface is
shown to have the shape the dispatch relies on (`Shape`: its type and the numbers of its vectors
fit the control word, each length is that of the vector it is taken from, and one that changes
an operation structure writes its handle).  The invariant `PsaInv` then says that one task at
most is in the secure side (`OneVeneerAtATime`), that what it asks there is legal for the
structure it names (`RequestIsLegal`), and that handles and slots correspond one to one outside
of it (`HandlesAreExact`).

## 12. Key attributes, encodings and sizes

`PsaValues` translates the macros of `crypto_values.h`: a key type or an algorithm is the record
of its bit fields.  `PsaSizes` translates the buffer sizes of `crypto_sizes.h`.  `KeyAttributes`
lets an application apply the setters and the constructors of algorithms in any order; `made`
is a ghost of what it asked for.  `BuiltIsRecovered` compares the macros that take an algorithm
apart with `made`, `OutputsFit` the sizes with a reference definition of what the operations
produce.

The instance has five hashes of different families, lengths up to the width of the field, and
sizes on both sides of the limit of `psa_set_key_bits`.  The constraint `Separated` exercises
the identifier, lifetime and usage on attributes without an algorithm; no macro reads both.
2^30 stands for the modulus of `size_t` in the sizes that wrap.  The vendor flags are never
set, and key agreement is combined only with key derivations that are not for stretching, as
`crypto_values.h:1849` defines them.

`PsaProof` proves the three properties, `AttributesRecovered`, `AttributesPersistent` and
`AttributesFit`, as theorems of `AttributesSpec`, in which the setters and constructors come in any
order; it covers the combinations that the constraint of the run leaves out.  The assumption
`KeyAttributesAssumption` asks of the key types and hashes what the library fixes: a cipher has no
block longer than `PSA_BLOCK_CIPHER_BLOCK_MAX_SIZE`, a hash that is built in no longer result than
`PSA_HASH_MAX_SIZE`, which depends on whether SHA-384 or SHA-512 is (`WantSha512`).  Identifiers,
lifetimes, key sizes and the lengths asked for are any numbers.

`IdIsPersistent` is inductive.  For the other two the invariant is a table, `IsBuilt`: for each
scheme an algorithm can be built with, its category, base, subcategory, length field, hash and the
bit for "at least this length".  A constructor leads from one row to another, and each macro that
takes an algorithm apart is evaluated once per row.  The table has an exception that the code
makes too: a MAC of 64 bytes is 0 in the six bits of its length, which means "not truncated".  For
the sizes one compares terms that are rounded to blocks; the lemmas about division do that for
any block length.

## 13. Provisioning

`PkiObjects` models the stores of keys and documents behind the PKI objects (default build:
PSA), their error translation and encodings.  `Provisioning` composes it with the command
line, the serial line and the scripts on the host.

| Code | Model |
|---|---|
| `Task_CLI`, `cli_io_drv.c`, the commands | `dev`, `Task_CLI` with an action per command |
| lines to and from the device | `rx`, `tx` |
| `provision.py`, `import_ota_key.py` | `host`, `HostScript` with an action per phase of a command |
| the cloud account | `aws` |
| thing name in RAM and in storage | `conf` |
| failing call, damaged line, lost power, failing or killed script | `GenerateKeyFails` and others, `LineDamaged`, `PowerFails`, `AwsCallFails`, `Killed` |

Failures are bounded (`MaxFaults = 3`): two are the least with which the remains of one
attempt meet a second failure, and with three an old echo can be taken for the one of the running
attempt.  Timeouts of the script are free whenever the device is quiet.  The script recognises
its echo as `provision.py:106` does, by containment (`Contains`): an old echo of
`pki import cert root_ca_cert` is taken for the one of `pki import cert`, and lines carry no
number, so nothing else tells old answers from new ones.  A damaged line is damaged in its
command: the device does not know it, and its echo does not contain what was sent.  No thing
name is a prefix of another.  A garbled certificate may still parse, a garbled key never does.  Configuration items other than the thing name are alike and one stands for them;
the sizes of PEM buffers are abstracted.  Fairness: the command line task runs, the user starts
the scripts again until they end and presses the reset button when the device is stuck.

Two small modules hold what the properties are about: `PsaKeys`, the store of keys with
`PairMatches`, and `PkiDocuments`, what the device printed with `DocumentsAreSigned`.  `PkiProof`
instantiates `Provisioning` as `Device`.

`DevicePairMatches` (`PairMatches`) holds for any number of failures.  A new private key is
generated beside whatever is stored as the public key, so the property needs `OldPublicGone`:
where `xPkiGenerateECKeypair` generates, the old public key was destroyed, and no command or
failure can bring it back before the new one is imported.

`DeviceDocumentsSigned` (`DocumentsAreSigned`) has two parts.  `SignatureIsKept` is about
`psa_ecdsa_sign`, which makes a DER sequence of a raw signature in the buffer that holds it: for
numbers of up to 60 bytes that are not zero, and a buffer with eight bytes to spare
(`SignaturesFit`), no byte is overwritten before it was moved, zero bytes are dropped up to the
first one that counts, and one is added before the highest bit.  The second part is the invariant
`DocumentsInv`.  A document is printed as the lines of a PEM, of which the script keeps the body
and sends it back, so the invariant says of every place a document can be in (the storage of the
device, the lines in both directions, the command line while it reads a file, the script, the
account) that one which claims to be a request or a certificate is signed or was damaged.  Where
the script prints a file it has just read, one needs `AnswersAwaited`: the phases in which it
reads answers belong to steps that have one.

One invariant stays with TLC.  `CompletedIsConsistent` is what becomes of the hazard of old
answers: a script may read a few of them as its own, but not end with them.  It is checked with
three failures, and on smaller instances (one issuer, one name) it holds with five.  It is not
expected to hold for every number, because an attempt that takes old answers for its own all the
way can end while its last commands are still unread.  That is an argument and not a trace, so it
is not listed in section 14.

## 14. Where the code and what it says of itself differ

`teardown` is the one run that expects a violation: the timer thread destroys a pool that
others still use.  The following differences were found with the models as well; the
definition that states the documented behaviour is kept in the module, outside the runs, and
TLC refutes it in the instance of that module.

| Definition | Code | What happens |
|---|---|---|
| `TaskPoolProperties!ScheduledIsQueued` | `iot_taskpool.c:1439`, comment at 1600 | after a failed growth a job is SCHEDULED but in no queue |
| `KvStore!BufferReused` | `kvstore_cache.c:128` | a value that shrinks into the entry overwrites the pointer to its buffer |
| `OtaMqtt!WokenByOwnCommand` | `ota_demo_core_mqtt.c:1493`, 1058-1060 | a call is woken by the notification of an earlier command |
| `OtaMqtt!ReconnectsAlone` | `ota_demo_core_mqtt.c:1680-1699` | logs "Suspended OTA agent" and reconnects; a shutdown queued behind the suspension ends it, and the unsubscribes of the agent and the disconnect of the demo meet the reconnection |
| `OtaPal!WaitingIsTested` | `ota_pal.c:719-722`, comment at 679-687 | a full image that waits to be accepted is not looked at when the agent starts: it is never accepted, and its fallback is written over by the next one |
| `Pkcs11!VerifyKeyIsChecked` | `iot_pkcs11_psa.c:3044`, 3039 | C_VerifyInit compares the mechanism with the algorithm of the last C_SignInit, not with that of its own key |
| `MutualAuthDemo!DisconnectsOpenSocket` | `mqtt_demo_mutual_auth.c:608`, 525 | disconnects a socket that was closed before |
| `MutualAuthDemo!SubscribeReturns` | `mqtt_demo_mutual_auth.c:899-966`, 311 | the loop that resubscribes may never end on a broken connection |
| `MutualAuthDemo!AcksMatchRequests` | `mqtt_demo_mutual_auth.c:1056`, 1081, 1091 | a late acknowledgement trips an assertion |
| `MutualAuthDemo!SessionsReleased` | `iot_tls.c:169-176` | a context that fails before its handshake keeps its PKCS #11 session |
| `PkiPkcs11!PrintedIsStored` | `cli_pki.c:484` | generate cert prints a certificate that could not be written to the token as if it had been |
| `Provisioning!CompletedIsStored` | `cli_pki.c:484`, `provision.py:926` | a certificate the device issued itself may not be stored |
| `Provisioning!NoAssertFails` | `cli_pki.c`, parsing of a PEM | an empty PEM stops the device in an assertion |

Met while modelling, without a definition of their own: `SOCKETS_Close` closes the id before
`TLS_Cleanup` uses it; `SOCKETS_Bind` always reports an error; a subscription that is refused
until the retries are used up is reported as a success, and so is a wait for a packet that
times out; `xPkcs11GenerateRandomNumber` leaks a session when it fails, and so do
`xPkcs11InitMbedtlsPkContext` and the seeding of TLS; `xPkiReadPrivateKey` falls through from
protected storage, and `xPkiReadPublicKeyDer` reads protected storage objects from internal
storage; a missing certificate is reported as read (`PkiObject.c:63`); the DER public key over
PKCS #11 is one byte too long; a truncated MAC of the full length of its field is encoded as
not truncated, and the size of an OAEP plaintext wraps for short moduli; the timer thread frees
the pool even if it is the static system pool; a command that is issued between
`MQTTAgent_CancelAll` and the suspension is dropped with the old queue, and its structure never
returns to the pool; cancelling a queued job never decrements
`activeJobs`.

## 15. What is proved and what is only model-checked

| Theorem | Module | Property of a run | Section |
|---|---|---|---|
| `TypeCorrect`, `ThreadsCorrect`, `PlacementCorrect`, `QueueCorrect`, `CacheCorrect`, `CountersCorrect`, `DeferredJobsCovered`, `PoolRefinement` | `TaskPoolProof` | `StartStopHandshake`, `JobPlacement`, `NoLostWakeup`, `CountersAreExact`, `TimerCoverage`, `ImplementsContract` | 4 |
| `KvBufferFits`, `KvCorrect`, `KvRefinement` | `KvStoreProof` | `BufferFits`, `SavedIsDurable`, `ImplementsKvContract` | 5 |
| `CommandsOwned`, `QueueRecreatedOutsideCalls`, `SuspensionEnds`, `BuffersExclusive`, `SuccessRegistered` | `OtaMqttProof` | `CommandInOnePlace`, `ReconnectsOutsideCalls`, `BufferExclusive`, `SubscribedIsRegistered` | 6 |
| `PalTypeCorrect`, `PalRunsGenuine`, `PalKeepsFallback`, `PalStagesReceived`, `PalConvertsSignature`, `ConversionIsExact` | `OtaPalProof` | `OnlyGenuineRuns`, `FallbackKept`, `ReceivedIsStaged`, `SignatureIsConverted` | 7 |
| `P11TypeCorrect`, `P11ListExact`, `P11StoredFound` | `Pkcs11Proof` | `ListIsExact`, `StoredIsFound` | 8 |
| `PkiSessionsAccounted`, `PkiCredentialsSound`, `SignatureDecodes` | `PkiProof` | `SessionsAccounted`, `CredentialsAreSound` | 9 |
| `DemoSessionsExact`, `DemoGrantCurrent` | `MutualAuthDemoProof` | `SessionsAreExact`, `GrantIsCurrent` | 10 |
| `PsaTypeCorrect`, `PsaSlotsHeld`, `PsaCallsIsolated` | `PsaProof` | `SlotsAreHeld`, `CallsAreIsolated` | 11 |
| `AttributesRecovered`, `AttributesPersistent`, `AttributesFit` | `PsaProof` | `BuiltIsRecovered`, `IdIsPersistent`, `OutputsFit` | 12 |
| `DevicePairMatches`, `SignatureIsKept`, `DeviceDocumentsSigned` | `PkiProof` | `PairMatches`, `DocumentsAreSigned` | 13 |

All hold for every value of the constants that the named assumptions of the modules allow
(`PoolAssumption`, `KvAssumption`, `OtaAssumption`, `OtaPalAssumption`, `Pkcs11Assumption`,
`PkiPkcs11Assumption` and `NoneAssumption`, `NullAssumption`, `BoundsAssumption`, `PsaAssumption`,
`KeyAttributesAssumption` and `WantSha512Assumption`, `ProvisioningAssumption`), which TLC
evaluates in every run.  Most say that bounds are numbers, that sets the code indexes are finite,
and that "none" is not one of the things it stands beside.  Those of `PkiPkcs11` and
`Provisioning` also say that a signature is two numbers of one width that a length of one byte
can count, and in `Provisioning` (`SignaturesFit`, which `DeviceDocumentsSigned` names as its
hypothesis) that neither is zero, which ECDSA rules out, and that the buffer suits the curve; that
of `KeyAttributes` is explained in section 12.  The theorems of `Pkcs11Proof` have one hypothesis
more, `Exclusive`.

Only model-checked, on the bounds given above:

* liveness (`QueuedJobRuns`, `OwnerReturns`, `ExpiredJobDispatched`, `AgentComesBack`,
  `BuffersComeBack`, `DemoSettles`, `CallsReturn`, `ProvisioningCompletes`), which takes fairness
  and ENABLED;
* `CompletedIsConsistent` of `Provisioning`, which is expected to depend on the bound of failures
  (section 13).

## 16. Not modelled

* The command queue of the FreeRTOS timer daemon: arming the timer takes effect at once.
* Priorities of threads, stack sizes, logging.
* Failures of `IotSemaphore_Create` and `IotMutex_Create` (they cannot fail with static
  storage); a failing allocation of the pool leaves nothing behind.
* Misuse the API documentation excludes, such as recycling a job twice or setting up an
  operation that is active.
* Start-up of the OTA demo that fails (it only ends the demo), and what a callback does with
  the memory of something else.
* The delivery of network state changes on the task pool; Wi-Fi and BLE, which are compiled
  out; the server side of the socket ports, which has no caller; `SOCKETS_Bind`.
* The key-value store over littlefs, compiled out by `kvstore_config_plat.h`.
* The help command of the command line and the options of the scripts that choose files and
  ports.
* Vendor code, generated code, configuration headers (they only give constants their values),
  the cryptography, and the secure firmware itself.
