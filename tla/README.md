# TLA+ models of the Fleet Manager C++ client SDK

The SDK connects two kinds of clients, pilots and devices, to a *facade*: a
server reached over one bidirectional gRPC stream per client.  Over the stream
a client sets up an operation, is granted channels (sockets on which traffic
flows), and a pilot may hand control of a channel over to another pilot.  This
directory holds TLA+ specifications of the SDK, the TLC configurations that
check them, and proofs checked by TLAPS.  Paths below are relative to `src/`.

## 1. Inventory

| part | state | operations | how it interacts |
|---|---|---|---|
| event loop, `include/system/IStateMachine.hpp`, `source/IClient.cpp` | `queue`, `processing`, `state`, `deferred` | `notifyEvent`, the posted task (`handleEvent`, `proceed`), `defer`, `recall` | called by the user's threads, by the poller and from inside handlers; posts to the io_service |
| facade connection, `source/backend/ClientBackend.cpp` | `stream`, `completionQueue`, `sending`, `sendingQueue`, `toRead`, `keepReader` | `openFacadeConnection`, `send`, `proceedGrpcQueue`, `closeFacadeConnection` | the handlers open, send and close; the poller is an io_service task that notifies the event loop of each message read |
| pilot, `source/Pilot.cpp`, `source/state/pilot/` | the state object, nested states inside `Connected`, what each state was created with | one handler per state for user events, one for messages | runs in the event loop, sends through the connection, opens and closes channels, tells the listener |
| channels, `source/backend/ChannelsHandler.cpp` | the map of channels, their `owned` flags | `validateChannels`, `closeChannels`, `closeAllChannels`, `setOwned`, look-ups | called by the states; opens sockets |
| device, `source/Device.cpp`, `source/state/device/` | as the pilot | attach and release of the device; channels attached, released, operation ended | as the pilot |
| heartbeats, `source/backend/HeartbeatHandler.cpp` | `lastReception` | `handleHeartbeat` (the rest is empty) | called for a message a state does not expect |
| traffic, `source/traffic/` | per socket `sendBuffer`, `readBuffer`, `listener`; the stream's engine or `remoteEndpoint` | `open` (connect, request and answer, all blocking), `send`, `doRead`, `close` | called by handlers and by the user's threads; completions run as io_service tasks |
| timer, `source/system/Timer.cpp` | expiry, `canceled` | expire, cancel | nothing creates one |
| core client, `source/core/` | none between requests | `attach`, `operate`, `listDevices`: one blocking HTTPS request each | called by `Connecting::start`, and by main through `listConnectedDevices` |
| simulators, `example/client-simulator/` | `channels`, `channelsLock`, `trafficThread`, `done` | the listener's callbacks, user events posted in answer, the traffic thread, main's loop | the only programs that use the SDK: one io_service thread, one traffic thread, detached threads that post |

What is hard about them, and what has to be true:

* **Event loop.**  Handlers take no lock.  What protects `state`, `deferred`
  and everything the states touch is that the loop lets one task of a client
  into the io_service at a time.  So: handlers never overlap; no event is lost,
  doubled or overtaken, also not in the instant between the last handler's
  return and the clearing of `processing`; every event is handled.
* **Facade connection.**  A flag and a queue are handed to and fro between
  `send` and the poller; the buffer of a Read is handed to an event before the
  next Read starts; open and close wait on the completion queue that the poller
  also polls; the client may connect again with what was left from the last
  time; the connection may break anywhere.  So: order of messages both ways, one
  Write at a time, one poller, nothing left of an old connection, closing ends.
* **Pilot, channels, control.**  User events and messages of the facade cross on
  the stream; messages a state does not expect are dropped; answers do not say
  what they answer; a channel may fail validation or throw in the middle;
  control moves from one pilot to another over four messages.  So: look-ups find
  their channel, the listener never holds a channel that is gone, a pilot never
  believes it controls a channel the facade has not given it, no two pilots
  control one channel, both sides agree when nothing is on its way.
* **Device, heartbeats.**  Operations start and end, and channels come and go, at
  the facade's initiative, while the device's user asks to leave; a release may
  be refused; heartbeats come in any state.  So: the device's channels are those
  of its operation, the listener and the facade know the same ones, unchecked
  look-ups find their channel, leaving ends, each heartbeat is answered.
* **Traffic.**  The thread that sends and the thread of the io_service share the
  buffers of a socket, its TLS engine and its remote endpoint without a lock;
  completions release the packet in front, whichever it is; reads end anywhere in
  a stream; completions may find their socket destroyed; the validation blocks.
  So: memory is held while it is written, what arrives is handed over in order
  and without gaps, only a validated channel is used, everything sent is written
  or given up.
* **Core client.**  Any step of a request may throw, also after the core has
  acted on it; a refusal reads as an empty response.  So: nothing is set up at the
  facade without a session of the core, and no request is made twice.
* **Simulators.**  A traffic thread walks a map that the listener's callbacks
  change, under a lock that one of them does not take; it is started and must
  end by itself; user events arrive seconds after what they answer, from threads
  nobody waits for.  So: the thread serves every channel, finds each of them
  alive, and ends, and with it the program.

The full list of hazards, each at its line and with the properties that watch
it, is in `PROJECT.json`.

## 2. The modules

```
SerialExecutor                    what the event loop promises
   ^ implements
StateMachine   <-  MCStateMachine        the event loop
   ^---------  StateMachineProofs

ClientBackend  <-  MCClientBackend       the facade connection
   ^---------  ClientBackendProofs

Traffic        <-  MCTraffic             channels and their sockets
   ^---------  TrafficProofs

ControlLock                       what the pilots promise about control
   ^ implements
Pilot   <-  Fleet   <-  MCFleet          pilots and their channels;
              ^  ^                       the facade they share
              |  +-  FleetInvariant  <-  FleetProofs
              +---  PilotProgram  <-  MCPilotProgram    the program pilotSim
                      ^---  PilotProgramProofs  (and FleetProofs)
Simulator, CoreClient  <---+
                      v---  DeviceProgramProofs  (and DeviceFacadeProofs)
              +---  DeviceProgram  <-  MCDeviceProgram  the program deviceSim
              v
Device  <-  DeviceFacade  <-  MCDevice   a device and its channels; its facade
              ^-----  DeviceFacadeProofs
```

`FleetInvariant` and `DeviceFacadeProofs` also extend `Queues`, lemmas about
sequences of messages: what an Append or a Tail does to the set of messages, to
"after a message of this kind only those kinds come", and to the last message of a
kind.

The programs are compositions: `PilotProgram` extends `Fleet`, `Simulator` and
`CoreClient` and puts their actions together, `DeviceProgram` does the same over
`DeviceFacade`.  The lower layers are joined by argument instead: `StateMachine`
shows that handlers do not overlap and that events come in order, so the other
models take a handler to be one actor, and `Pilot` and `Device` take a handler, its
transitions included, as one step; `ClientBackend` shows that the stream keeps the
order of messages both ways, so `Pilot` and `Device` have one sequence of messages
per direction; `Traffic` shows what a channel does that they see as open or
gone.  One product of all would be far beyond TLC.

### StateMachine and SerialExecutor

`queue`, `processing` and `deferred` are the members of those names.  `posted`
is what `ioService.post` was given and no thread has begun.  `phase` and
`current` tell for each io_service thread whether it is in `handleEvent`, or has
returned from it and is about to call `proceed`: the two are separate steps,
because `notifyEvent` may come between them.  The critical sections of `lock`
are single steps (`NotifyEvent`, `Proceed`).  What handlers do is up to the client,
so in the model a handler may notify, defer its event, recall one, return or
throw at any time.  A throw leaves the task without `proceed()`, and the thread
calls `run()` again, as both example programs do.  `notified` and `handled` are
history variables.

`SerialExecutor` is what a client may rely on: a queue of events, one event
running, and an end of service once a handler has failed.  `StateMachine`
implements it under the mapping at its end: what is pending is what was posted
followed by what is queued; the service has failed when `processing` is set and
no task is left to clear it.

### ClientBackend

`phase` is where the handlers are in the life of a connection; opening and
closing are split where they wait (`OpenCall`/`OpenReturn`, `CloseCall` and one
step for each turn of the closing loop).  A run of the poller has three steps:
`Poll` takes a completion, one of the `Dispatch` actions acts on it, `Repost`
posts the next run.  `sent`, `written` and `received` are history variables;
`toRead` is the number of the message in the buffer of the current Read, or 0.

gRPC and the facade are external.  An operation in progress is a member of
`ops`; it completes by a record in `completions`: with success while the stream
is up, with failure once it is down or was dropped for a new one.  Finish
completes when the stream is down.  The stream breaks at any moment.  `Init`
leaves `sending` open, because the constructor does
(`source/backend/ClientBackend.cpp:27-43`).  `releaseTag` is "NONE" until the
first completion; if the first wait times out its value is any tag.  The five
seconds and the millisecond of the code are "there is no completion now".

One thing the model grants the code: real gRPC does not accept a second call
with the same `ClientContext` (`source/backend/ClientBackend.cpp:185`).  The
states of both clients lead back to `Disconnected`, from which the user may
connect again, so the model lets a second connection happen and asks whether
the rest of the code is ready for it.

### Pilot and Fleet

`Pilot` has one action for every user event and message that some state
handles, for each pilot of a set.  `state` names the nested states of
`Connected` directly; `arg` is what a state was created with (the channels to
open or close, or the channel whose control is asked for); `open` and `owned`
are the map of `ChannelsHandler` and its flags; `told` is what the listener was
given pointers to; `live` is false once a handler has thrown, since the event
loop then stops.  `Validate` is `validateChannels` with its three outcomes for a
channel: validated, not validated and erased, or an exception that leaves the
map as it is and ends the handler.  OPERATION_UPDATED and the wording of messages
are left out, and heartbeats too, as they are answered the same way by both
clients and are part of `Device`; the ids of channels are what messages carry.

`Fleet` adds the facade, which is not in the repository.  It is the least
partner that the cases of the pilot's states call for: it answers what it is
asked, may refuse, grants a channel only once, hands one channel over at a time,
and asks a pilot to leave.  The steps of a handover are read off
`RequestingControl` and `ReleasingControl`: RELEASE_CONTROL to the owner, its
answer, REQUEST_CONTROL accepted for the requester, CONTROL_READY from it,
CONTROL_RELEASED to the owner, its confirmation, CONTROL_READY accepted.  What
the properties say about two pilots is therefore relative to such a facade.

### Device and DeviceFacade

`Device` is built like `Pilot`, for one device, as devices share nothing.
`AttachChannels` is the device's way through `validateChannels`: what is
validated is announced and confirmed, also when it is nothing.
`HandleHeartbeat` answers a heartbeat in every state that takes messages, as
`defaultMessageHandle` does in `source/state/IState.cpp`; messages that state
has no case for are consumed by `Drop`.  A user's RELEASE outside `Ready` changes
nothing and is no step.

`DeviceFacade` adds an external facade: it answers SETUP and RELEASE, starts an
operation with some channels, attaches more, releases channels that the device
has confirmed, ends the operation, and sends numbered heartbeats.  It attaches
only channels that are not attached or on their way, so an ATTACH_CHANNELS that
the device drops in `Releasing` stays unanswered.  `pending`, `attached` and
`releasing` are what the facade knows; `refused` and `heard` are history
variables.  With `Refuses` the facade may reject a RELEASE, after which the device
stays in `Releasing` and drops all but heartbeats.  `ReleaseEnds` and `AttachEnds`
except that case, in which they would be false.  Nothing in the repository says
when a facade refuses, so that is no finding but a hazard.

### ControlLock

The handover of control, seen from outside: a channel is a lock, a pilot takes
only what nobody holds and lets go only of its own.  `Fleet` implements it with
`owned`, the flags of `ChannelsHandler`, as the holders (`Lock` in `Fleet`).

### Traffic

`stage` follows a channel through `ChannelImpl::open`, one step for each call that
may block or throw, then to the user who sets its listener (`used`), and out of the
map.  `Blocked` holds while the thread of the io_service is inside `open`: nothing
else that thread does can happen then.  `sendBuffer` and `readBuffer` are the
members of `ISocket`; packets are numbers, in the order in which they are sent or
arrive.  A send has two steps, because the sending thread and a completion may
meet between filling the buffer and starting the write.  `writes` and `wrote` are
the writes in progress and the completions waiting to be run; `reading` is the
asynchronous read.

What the code leaves undefined is a choice between going on and the end of the
program (`MayCrash`): a completion that finds its socket destroyed, the deque of
`sendBuffer` used by two threads, the engine of an `ssl::stream` used by two
threads, `remoteEndpoint` read and written at once.  The properties are about
programs that survived.

A stream is a sequence of packets that reads cut at any packet; the read for the
validation answer may also take a part of it, and on UDP what overtook it, after
which the result is whatever the message holds.  Remotes answer, are silent or go
away.  What an answer says is left out: `ReadAnswer` opens the channel or forgets it.

### CoreClient

`step` follows `HttpsClient::execute` through its blocking calls; each may throw,
and the last two after the core has opened a session.  `Accepted` is the
status check, `Evaluate` the parsing in `CoreClient`.  `sessions` counts what the
core has opened.

### Simulator, DeviceProgram, PilotProgram

`Simulator` is `ISimulator` and `main`: `known` is the map, `walker` the traffic
thread with `left`, the channels it has still to send on while it holds the lock.
`OnClosed` waits for the lock, `AddChannels` does not take it.  `AddChannels` on an
empty map assigns a new thread to `trafficThread`: if that one was started before it
is still joinable, for only the destructor joins it, and the assignment ends the
program.  So the second time a device is given channels its program dies; the
properties of `DeviceProgram` except that, and it is a hazard in the list rather
than a finding, as nothing in the repository says otherwise.  `main` goes round
its loop until the simulator is done; with nothing left to run and not done it
spins.

`DeviceProgram` and `PilotProgram` take the user's part of `Device` and `Pilot`
away from the open environment and give it to the simulators: the device attaches
once and posts RELEASE after each operation; the pilot operates, closes channel 8,
asks for channel 1, answers an accepted handover, releases itself when refused,
each time by an event that a thread of `emmitEvent` posts when it pleases.  The
events are in `pending`; one that finds the pilot in another state is dropped.  In
`PilotProgram` a second pilot of the fleet operates and answers.

The last part of each component module before its actions holds *defective
variants* of some operations.  They are not part of any specification: replacing
an operation by its variant makes the properties fail, which shows that the
properties see the code (`PROJECT.json`, "mutants").

## 3. Properties

| property | module | what it says |
|---|---|---|
| `Serial` | StateMachine | two handlers of a client never overlap |
| `FirstComeFirstServed` | StateMachine | events notified = events handled, then posted, then queued, in that order |
| `IInv` | StateMachine | the inductive invariant behind both (section 6) |
| `ImplementsExecutor` | StateMachine | the loop is a serial executor |
| `HandledUnlessThrown` | StateMachine | every notified event is handled, unless a handler throws |
| `EveryEventHandled` | StateMachine | every notified event is handled (violated) |
| `SendOrder` | ClientBackend | every message sent is written once, in order, or still queued |
| `OneWriteAtATime` | ClientBackend | no Write starts before the completion of the last one was taken |
| `ReceiveOrder` | ClientBackend | the client is notified of each message once and in order; no buffer is reused early |
| `OnePoller` | ClientBackend | an open connection has exactly one run of the poller |
| `CleanAfterClose` | ClientBackend | a finished connection leaves no operation and no completion behind |
| `SentIsWritten`, `CloseEnds` | ClientBackend | liveness of sending and closing |
| `NothingLeftToWrite` | ClientBackend | closing leaves no message unwritten (violated) |
| `UserKnowsChannels` | Fleet, DeviceFacade | the listener holds exactly the open channels, never one that is gone, and none outlives its connection or operation |
| `NoMissingChannel` | Fleet, DeviceFacade | unchecked look-ups find their channels: those given, closed, asked for or released |
| `ControlIsGranted` | Fleet | a pilot's owned channels are open and given to it by the facade; so never two owners |
| `ImplementsLock` | Fleet | over a handover the old owner has let go before the new one takes control |
| `AnswersExpected` | Fleet | an answer finds the pilot in the state that waits for it |
| `Agreement` | Fleet, DeviceFacade | with nothing on its way both sides agree on channels, and on control or on the operation |
| `RefusalHonoured` | Fleet | a refused channel is not handed over (violated) |
| `HeartbeatsAnswered` | DeviceFacade | each heartbeat is answered once, in order, in any connected state |
| `ReleaseEnds` | DeviceFacade | a device that asks to be released does not wait for ever, unless refused |
| `AttachEnds` | DeviceFacade | a channel sent to the device is answered, unless the device leaves, fails or was refused |
| `PacketsHeld` | Traffic | the memory of a packet is held until the system has written it |
| `ReceivedInOrder` | Traffic | what is handed over, was read and is still to be read follow each other without gap or repetition |
| `HandlersReturn` | Traffic | nothing but the silence of its remote keeps a handler in the opening of a channel for ever |
| `TrafficSettles` | Traffic | packets sent are written or given up, packets that arrive are read, unless the channel closes or a silent remote blocks the thread for good |
| `TrafficFindsChannel` | DeviceProgram | the traffic thread uses only channels that are there, and none is known when the device is destroyed |
| `Served` | DeviceProgram | every channel the simulator knows is sent on again and again |
| `SetupHasSession` | PilotProgram | a pilot is set up at the facade only with a session of the core, which opens one |
| `ProgramEnds` | PilotProgram | a program whose simulator is done ends, its traffic thread included |
| `RequestsEnd` | PilotProgram | a request for control does not wait for ever, unless the owner has dropped the question for good |

Each module also has one type invariant; `PilotProgram` has the parts of its own
in `CoreTypeOK` and `SimulatorTypeOK`, which `DeviceProgram` checks.

## 4. Runs

| run (cfg) | instance | distinct states | result |
|---|---|---|---|
| `MCStateMachine` | 2 threads, 2 events, 5 notifications, 2 deferred, throwing handlers | 7 659 | safety, refinement and `HandledUnlessThrown` hold |
| `MCStateMachineThrow` | handlers may throw | | `EveryEventHandled` is **violated** |
| `MCClientBackend` | 1 worker, 2 connections, 4 messages sent, 2 received in each, a facade that ends the call | 207 740 | safety and both liveness properties hold |
| `MCClientBackendThreads` | 2 workers, 1 connection, Finish may complete early | 76 991 | `OneWriteAtATime` holds |
| `MCClientBackendLeft` | 1 worker, 1 connection | | `NothingLeftToWrite` is **violated** |
| `MCClientBackendSpin` | a facade that need not end the call | | `CloseEnds` is **violated** |
| `MCFleet` | 2 pilots, 2 channels, all user events, faults, 3 user events each | 2 041 693 | safety and `ImplementsLock` hold |
| `MCFleetRefusal` | 2 pilots, 1 channel, all user events | | `RefusalHonoured` is **violated** |
| `MCDevice` | 2 channels, 2 connections, 2 operations, 2 heartbeats, faults, refusals | 73 935 | safety and both liveness properties hold |
| `MCTraffic` | 2 channels, opened twice in all, 4 packets sent or arrived in all, faults | 418 275 | safety, `HandlersReturn` and `TrafficSettles` hold |
| `MCDeviceProgram` | 3 channels, 3 operations, 1 heartbeat, faults and refusals of core and facade | 101 228 | safety and `Served` hold |
| `MCPilotProgram` | the program's pilot and another, 2 channels, faults of core and sockets, 4 user events of its own, 2 of the other | 368 912 | safety, `ProgramEnds` and `RequestsEnd` hold |

Deadlock is not checked (`CHECK_DEADLOCK FALSE`): in each model the system may
rest, when the bounded inputs are used up or when a client is disconnected.

**Bounds and why they are enough.**  *StateMachine*: two threads are the fewest
that can overlap, and five events let the queue hold two tasks while one runs and
another comes between return and `proceed`; the proofs remove both bounds.
*ClientBackend*: four messages fill the queue behind a Write and leave one for
the next connection; two connections are needed to see what one leaves for the
next; two messages in a connection are the fewest that can be swapped.  With two
workers only the single Write is asked for: a second worker may be in an old run
of the poller when the next connection opens, so `OnePoller` and `CleanAfterClose`
do not hold, and the orders are those of the first run.  *Fleet*: two pilots
are the fewest that hand control over; three user events each let a pilot ask for
control, close the channel and leave, in any order, while the other does the same.
Answers to what the listener was asked are not counted, so every handover can go
to its end.  With two channels, opened and closed one at a time, one may be handed
over while the other is closed or fails.
*DeviceFacade*: two channels let one of them fail, or be released, while the
other stays; two operations and two connections show what one leaves to the next,
and let an operation start while a release is on its way; two heartbeats are the
fewest that can be swapped.
*Traffic*: two channels let one be opened, and block the thread, while the other
is used; two openings let a channel be opened again after it was closed with
completions under way; four packets are two in each direction on one channel, or
the answer to the validation and three more, so reads can cut between, inside and
behind them.  *DeviceProgram*: three channels let the thread be in the middle of
its walk when one is closed and another added; three operations let the program
meet an empty map again.  *PilotProgram*: the other pilot may own the channel the
program asks for, be closing it or another, be released or not be there: two user
events let it start and close, or start and, once released, start again; four user
events take the program through its script: start, close, ask for control and, when
it is refused, the RELEASE with which it answers that.  The script has no end of its own: RELEASE closes the channels, whereupon
the simulator asks for control once more and is refused, until the facade releases
the pilot.

**Symmetry** is used only in runs without liveness properties, over workers,
pilots and channels, none of which the models tell apart.

**Fairness.**  The threads stay in `io_service::run()` (both example programs
call it in a loop), so posted tasks are begun and end, and the poller always
posts itself again: weak fairness of those steps.  Waits on the completion queue
have deadlines and so end.  gRPC completes what it can complete.  No fairness is
assumed of the facade ending a call, except in `CooperativeSpec`, nor of messages
that the facade sends on its own.  In `DeviceFacade` both sides take up what they
are sent and closing returns; nothing is assumed of the user, nor of what the
facade starts.  In `Traffic` the system performs the writes and reads it was given
and their completions are run while the thread is not blocked; nothing is
assumed of a remote's handshake or answer, so opening may never end; a call to
connect or to send returns, with an error if need be, and a read or a handshake ends
when the remote is gone, which the system knows of (not on UDP).  That a write is
taken assumes that a remote that is there does not stop reading.  In the
programs each thread runs what is ready, `emmitEvent`'s threads wake up
(`example/client-simulator/PilotSimulator.cpp:98-109`), the facade answers, and the
other pilot takes up what it is sent and lets go when asked.  That other user is
an assumption: an owner that never answers RELEASE_CONTROL, as a second copy of this
very program would be, makes a requester wait as long as the facade lets it.  So
does one that has begun to open channels, to close them or to ask for control when it
is asked, for `OpeningChannels`, `ClosingChannels` and `RequestingControl` have no
case for RELEASE_CONTROL and drop it: unless the channel asked for is then removed or
the owner leaves, nobody answers the facade any more.  `MCPilotProgram` gives the
other pilot channels to close, and `RequestsEnd` excepts a question
that was dropped (`Dropped`) and stays so; without this exception TLC finds the
request that waits for ever.
Nothing is assumed of the core.

## 5. What the violations show

1. `MCStateMachineThrow`: a handler that throws skips `proceed()`
   (`include/system/IStateMachine.hpp:51-52`), `processing` stays true and the
   client never handles another event, although the example programs catch the
   exception and run the io_service on, in order to continue.
2. `MCClientBackendLeft`: the closing loop swallows WRITE completions
   (`source/backend/ClientBackend.cpp:111-116`), and nothing clears
   `sendingQueue`.  The confirmation of RELEASE, sent right before, may be among
   what is left; it is then written in the next connection, after its SETUP.
3. `MCClientBackendSpin`: a timed-out wait leaves the tag as it was, so after a
   tag READ or WRITE the closing loop goes on for ever without waiting, if the
   facade does not end the call.
4. `MCFleetRefusal`: `RELEASE_REJECTED` is sent as ACCEPTED
   (`source/state/pilot/connected/ReleasingControl.cpp:60`).

## 6. Proofs

`StateMachineProofs` proves, for every set of events, every set of threads and
all bounds, with or without throwing handlers:

* `Invariance`: `IInv` is an invariant.  It consists of the type invariant,
  of `FirstComeFirstServed`, and of `OneTask`: at most one task is posted; when
  `processing` is off nothing is posted or queued; a thread that is not idle
  excludes posted tasks and any other such thread.  `Serial` alone is not
  inductive: a step from a state with one handler running and a task posted would
  break it, and only `OneTask` excludes that state.
* `TypeCorrectness`, `SerialHandling`, `Order`: the invariants the runs check.
* `Refinement`: `StateMachine` implements `SerialExecutor`.  `InitMapsToInit`
  covers the initial states; `StepMapsToStep` goes through the actions: Notify,
  NotifyInHandler and Recall are Submit, Run is Begin, Return is Finish, Throw is
  Fail, and Defer and Proceed change nothing the executor knows of.

They rest on `NoEventAssumption` (`NoEvent` is not an event) and
`BoundsAssumption`, both in `StateMachine` and evaluated by its runs.  Three
lemmas on concatenated sequences (`AppendToSecond`, `MoveHead`,
`HeadTailOfConcat`) come first.  `Notify`, `NotifyInHandler` and `Recall` share
`NotifyEventTasks`, which says what `notifyEvent` does to the tasks.

**`ClientBackendProofs`** proves, for every finite set of workers, any number of
connections and messages, and every gRPC the model allows:

* `TypeCorrectness`.  `TypeInv` adds two facts to `TypeOK`: before the first
  connection nothing is under way, and the bound on messages leaves room for the
  SETUP of each connection still to come.  (Hence the assumption
  `MaxSessions <= MaxSends`; it concerns the bounds, not the code.)
* `SendOrderKept`: `SendOrder` with any number of workers, whatever they take of
  each other's completions and whatever a connection leaves to the next.  Alone it
  is not inductive: `QueueInOrder` says in addition that every message written or
  queued has been given to `send`, and that while `sending` is off the queue holds
  only what earlier connections left.

Its second half proves the rest of the safety properties, under
hypotheses stated in each theorem.  `Workers = {w}` is one io_service thread, as
in both example programs.  `FinishIsLast` is a gRPC that completes Finish after
what was started before it.  `Regular` is the disjunction under which the runs
check the order of the stream: one connection, or both of these.  They
are needed: with two workers a run of the poller that belongs to an old connection
may take the completions of the next one.

* `OnePollerRuns`, from `PollerInv`: waits of the handlers keep the one thread
  from polling, and in between one run is posted or in progress.
* `CleanClose`, from `CleanInv`: every operation and completion, except that of
  opening the call, belongs to the current connection, and behind the completion of
  Finish there are no more of it.
* `OneWrite` and `ReceivedInOrder`, from `StreamInv`: the token of a READ or a WRITE
  is in at most one place, at gRPC, in the completion queue or with a worker;
  `sending` is set while that of a WRITE is anywhere; and while that of a successful
  READ is on its way back the buffer holds the message after those received.

**`TrafficProofs`** proves, for every finite set of channels and any number of
packets and openings: `TypeCorrectness`, `MemoryHeld` (`PacketsHeld`) and `InOrder`
(`ReceivedInOrder`).
`PacketsHeld` is not inductive.  That packets in progress are among those held
does not show that the packet in front, which a completion releases, is the
one just written.  `SendInv` therefore says that `sendBuffer` is, in this order, the
packets whose completions are waiting, those in progress, and the one about to be
started.  `NumberInv` gives the place of every packet in the stream, from which
`ReceivedInOrder` follows.

**`FleetProofs`** proves every safety property of `Fleet` for
all sets of pilots and channels, all users and all bounds, with and without faults:
`TypeCorrectness`, `UserKnows`, `ChannelsAreThere`, `OnlyGrantedControl`,
`AnswersAreExpected`, `Agrees`, and `LockImplemented`, the refinement of
`ControlLock`.  The properties hold only because of what is on the streams, so the
invariant, `IInv` of `FleetInvariant`, is mostly about messages:

* `Asks`: a state that waits has its one request, or the answer, on the way; a
  state that does not wait has neither.
* `Gets`: which messages may follow which on the way to a pilot, so that an answer
  is taken up before a message that presupposes it.
* `Hands`: the messages of a handover in each of its stages, for the owner and for
  the requester.
* `Knows`: the facade's `granted` is what is open, except for the channels that
  the request or answer on the way is about; and what the listener was told.
* `Controls`: what a pilot owns, is about to get or has let go, accounts for the
  facade's `owner` of every channel.
* `Handover`: at most one is in progress, between two pilots that are there.
  It also shows that the facade's steps for a requester who is gone by then are
  never taken: `RequestingControl` handles no RELEASE of its user before the
  answer.

**`DeviceFacadeProofs`** proves the safety properties of `DeviceFacade` for any
set of channels and all bounds, with and without faults and refusals:
`TypeCorrectness`, `UserKnows`, `ChannelsAreThere`, `Agrees` and
`BeatsAnswered`.  The invariant consists of:

* `Call`: what may be on the streams in each state while the call is set up and
  released.  SETUP is alone on a new call, and a device that connects finds
  its answer in front, so that no heartbeat and no message of an operation is
  taken, or dropped, before it.
* `Order`: behind the end of an operation there is nothing of any operation, in
  either direction, and while the answer to it is under way there is nothing of
  one on its way to the device.
* `ReleasedOnce`: no two messages on their way release the same channel; this is
  why `releaseChannels` finds each of them (`ChannelsAreThere`).
* `AttachedOnce`: the confirmations on their way and then the ATTACH_CHANNELS on
  theirs, in order, are those that `pending` waits for, and no channel is in two of
  them.  `Matches` states this by a function from places of `pending` to places of
  the stream, since answers are told apart by their order alone.
* `Following`: the open channels of a flying device are what the facade holds
  attached, with the confirmations and without the releases on their way.
* `Heartbeats`: the keys on their way are those not yet heard, and go up, on the
  way back and then on the way forth.

One result on the way is worth knowing, and is a theorem of its own,
`NothingElseDropped`: a device drops messages only while it waits for its release,
never in `Connecting`, `Ready` or `Flying`, against such a facade.

**`DeviceProgramProofs` and `PilotProgramProofs`** are about the compositions, for
any set of channels and, in the second, any number of other pilots.

* `RunsTheDevice` and `RunsThePilot`: a step of a program is a step of the device or
  pilot and its facade, or changes nothing of them.  So the behaviours of the programs
  are behaviours of `DeviceFacade` and of `Fleet`, and all that was proved of these
  holds in the programs; their `IInv` is part of each `ProgramInv`.
* `ThreadFindsChannel`, in both: `Walk` ties what the simulator knows to what the
  listener was told, and what the traffic thread has still to send on to what the
  simulator knows.  That the lock keeps `onClosed` waiting is what preserves the
  second; that a client which is not connected has no channels, a part of `IInv`,
  gives what `main` relies on when it destroys the client.  For `pilotSim` no run
  checks this property; its `Walk` was checked on the instance of its run before
  it was proved.
* `ProgramTypes`: the bound on `releases` needs `PostedOnce`.  A RELEASE is posted
  when the device ends an operation, and the facade starts no operation while it
  waits for the end of the last one, so RELEASEs never outnumber operations.
* `OneSessionOfCore` (`SetupHasSession`): `OneSession` follows the only OPERATE from
  `main` to the request, and the answer of the core from the request to the handler
  that opens the call.  An answer that is lost leaves a session without a call, never
  a call without a session.

Every inductive invariant was first checked by TLC, as an invariant of the instance
of its run, and proved then.  The assumptions the proofs rest on are those of the
modules (finiteness of `Workers` and of the `Channels` of `Traffic`, `Nobody` and
`NoChannel` outside the sets they stand beside, bounds in `Nat`, flags in
`BOOLEAN`); all of them are evaluated by the runs.

**Only model-checked.**  Liveness: `HandledUnlessThrown`, `SentIsWritten`,
`CloseEnds`, `ReleaseEnds`, `AttachEnds`, `HandlersReturn`, `TrafficSettles`, `Served`,
`ProgramEnds` and `RequestsEnd` need fairness and ENABLED, which the prover does not handle.
Every safety property that a passing run checks is proved, the action property
`OneWriteAtATime` and the two refinements among them.  What the violation runs show
is a behaviour each, and is left to TLC.

## 7. Not modelled

Listed with reasons in `PROJECT.json`, "components".  `Recovering` of both
clients cannot be reached, as nothing notifies `ConnectionEvent::LOST`.
`executeAfter` and `executeEvery` are never instantiated and would not compile
against the constructors of `Timer`; nothing else creates a `Timer`, so there is no
program whose timers a model could describe.  The events are data without
control.  Of the sockets the models leave out how many bytes a call takes: the
tail of a packet that `async_write_some` took only in part, a datagram longer than
the buffer, the records of TLS.  What requests, responses and test messages say,
certificates and logging are left out too.

## 8. What could come next

The inventory is modelled as far as the code has behaviour, and every safety property
is proved.  What is left, and why:

1. The layers are joined by argument (section 2).  A refinement would state it: that
   `ClientBackend` with `StateMachine` implements the two sequences that `Pilot` and
   `Device` take for the stream.  A connection that opens again with messages
   left in `sendingQueue` (`MCClientBackendLeft`) does not implement them, so this
   is worth doing once the code clears the queue, and holds for one connection until
   then.
2. Over several connections `OnePoller`, `CleanAfterClose` and `ReceiveOrder` are
   proved for one io_service thread.  A program with more threads needs other
   properties of the poller, not other proofs: with two, the ones stated here do not
   hold.
3. Liveness stays with TLC, on the instances of section 4.
