-------------------------------- MODULE Pilot --------------------------------
(***************************************************************************)
(* The pilots of a fleet: fm::Pilot with its states (source/state/pilot)   *)
(* and its channels (backend::ChannelsHandler).                            *)
(*                                                                         *)
(* Every action is one event handled to its end, with the transitions it   *)
(* leads to: StateMachine shows that handlers do not overlap and that      *)
(* events reach them in order.  The states nested in Connected are named   *)
(* beside the outer ones; Released, which is left as soon as it is entered, *)
(* is part of the actions that enter it.                                   *)
(*                                                                         *)
(* `up' and `down' are the two directions of the facade stream: each keeps *)
(* the order of its messages, as ClientBackend shows.  An event or a       *)
(* message that a state does not expect is logged and dropped.             *)
(***************************************************************************)
EXTENDS Naturals, Sequences, FiniteSets

CONSTANTS Pilots,
          Channels,   \* the channels of the device they operate
          Users,      \* the events each pilot's user may raise
          Requests,   \* the sets of channels a user asks to open or close
          Faults,     \* may connections and sockets fail?
          MaxCalls    \* bound: user events that each pilot acts upon

UserEvents == {"OPERATE", "RELEASE", "OPEN_CHANNELS", "CLOSE_CHANNELS",
               "REQUEST_CONTROL", "CONTROL_READY", "RELEASE_ACCEPTED",
               "RELEASE_REJECTED"}

ASSUME UsersAssumption == Users \in [Pilots -> SUBSET UserEvents]
ASSUME RequestsAssumption == Requests \subseteq SUBSET Channels
ASSUME FaultsAssumption == Faults \in BOOLEAN
ASSUME MaxCallsAssumption == MaxCalls \in [Pilots -> Nat]

VARIABLES state,    \* the state of each pilot
          arg,      \* the channels a state was created with
          open,     \* the channels in ChannelsHandler
          owned,    \* those of them flagged as owned
          told,     \* the channels whose IChannel* its listener holds
          live,     \* no handler has thrown
          linked,   \* the call to the facade is there
          up,       \* messages on their way to the facade
          down,     \* messages on their way to the pilot
          asked,    \* the listener was asked something, not yet answered
          refused,  \* history: channels the user last refused to release
          calls     \* user events acted upon without being asked

streams  == <<linked, up, down>>
channels == <<open, owned, told>>
user     == <<asked, refused, calls>>

Connected == {"ValidatingChannels", "Operating", "OpeningChannels",
              "ClosingChannels", "RequestingControl", "ReleasingControl"}
States == Connected \cup {"Disconnected", "Connecting", "Disconnecting"}

Commands == {"SETUP", "CHANNELS_READY", "ADD_CHANNELS", "REMOVE_CHANNELS",
             "REQUEST_CONTROL", "CONTROL_READY", "RELEASE_CONTROL",
             "CONTROL_RELEASED", "RELEASE"}
Messages == [command : Commands, response : {"NONE", "ACCEPTED", "REJECTED"},
             ids : SUBSET Channels]

Plain(command)       == [command |-> command, response |-> "NONE", ids |-> {}]
Indicate(command, C) == [command |-> command, response |-> "NONE", ids |-> C]
Accept(command)      == [command |-> command, response |-> "ACCEPTED", ids |-> {}]
AcceptIds(command, C) == [command |-> command, response |-> "ACCEPTED", ids |-> C]
Reject(command)      == [command |-> command, response |-> "REJECTED", ids |-> {}]

(* What calls may be.                                                     *)
Counts == {f \in [Pilots -> Nat] : \A p \in Pilots : f[p] <= MaxCalls[p]}

PilotTypeOK == /\ state \in [Pilots -> States]
               /\ arg \in [Pilots -> SUBSET Channels]
               /\ open \in [Pilots -> SUBSET Channels]
               /\ owned \in [Pilots -> SUBSET Channels]
               /\ \A p \in Pilots : owned[p] \subseteq open[p]
               /\ told \in [Pilots -> SUBSET Channels]
               /\ live \in [Pilots -> BOOLEAN]
               /\ linked \in [Pilots -> BOOLEAN]
               /\ up \in [Pilots -> Seq(Messages)]
               /\ down \in [Pilots -> Seq(Messages)]
               /\ asked \in [Pilots -> BOOLEAN]
               /\ refused \in [Pilots -> SUBSET Channels]
               /\ calls \in Counts

PilotInit == /\ state = [p \in Pilots |-> "Disconnected"]
             /\ arg = [p \in Pilots |-> {}]
             /\ open = [p \in Pilots |-> {}]
             /\ owned = [p \in Pilots |-> {}]
             /\ told = [p \in Pilots |-> {}]
             /\ live = [p \in Pilots |-> TRUE]
             /\ linked = [p \in Pilots |-> FALSE]
             /\ up = [p \in Pilots |-> <<>>]
             /\ down = [p \in Pilots |-> <<>>]
             /\ asked = [p \in Pilots |-> FALSE]
             /\ refused = [p \in Pilots |-> {}]
             /\ calls = [p \in Pilots |-> 0]

-----------------------------------------------------------------------------
(* The parts of the handlers.                                              *)

(* A user event is taken up in state s.                                    *)
UserEvent(p, event, s) == /\ live[p]
                          /\ event \in Users[p]
                          /\ state[p] = s
                          /\ UNCHANGED down

Unasked(p) == /\ calls[p] < MaxCalls[p]
              /\ calls' = [calls EXCEPT ![p] = @ + 1]
              /\ UNCHANGED asked

(* The user starts something.                                              *)
User(p, event, s) == /\ UserEvent(p, event, s)
                     /\ Unasked(p)
                     /\ UNCHANGED refused

(* The user answers what its listener was asked, or answers unasked.       *)
Answer(p, event, s) == /\ UserEvent(p, event, s)
                       /\ \/ /\ asked[p]
                             /\ asked' = [asked EXCEPT ![p] = FALSE]
                             /\ UNCHANGED calls
                          \/ /\ ~asked[p]
                             /\ Unasked(p)

(* The facade's next message is taken up in state s.                       *)
Receive(p, command, response, s) ==
  /\ live[p]
  /\ state[p] = s
  /\ down[p] # <<>>
  /\ Head(down[p]).command = command
  /\ Head(down[p]).response = response
  /\ down' = [down EXCEPT ![p] = Tail(@)]
  /\ UNCHANGED calls

(* A message the listener is not asked about.                              *)
ReceiveQuietly(p, command, response, s) ==
  Receive(p, command, response, s) /\ UNCHANGED <<asked, refused>>

Become(p, s, C) == /\ state' = [state EXCEPT ![p] = s]
                   /\ arg' = [arg EXCEPT ![p] = C]

Stay == UNCHANGED <<state, arg>>

(* Released does nothing but give way to its outer state.                  *)
LeaveConnected(p) == Become(p, "Disconnecting", {})

SendUp(p, m) == up' = [up EXCEPT ![p] = Append(@, m)]

-----------------------------------------------------------------------------
(* Defective variants of the operations, for checking that the properties  *)
(* below can tell them from the code.                                      *)

\* The channels of the answer are not opened.
ValidateNothing(p, C) ==
  /\ Become(p, "ValidatingChannels", C)
  /\ SendUp(p, Indicate("CHANNELS_READY", C))
  /\ UNCHANGED <<open, owned, live>>

\* The listener is not told which channels are closing.
CloseChannelsSilently(p, C) ==
  /\ open' = [open EXCEPT ![p] = @ \ C]
  /\ owned' = [owned EXCEPT ![p] = @ \ C]
  /\ UNCHANGED told

\* The channels are closed when their removal is asked for.
CloseAtOnce(p, C) ==
  /\ told' = [told EXCEPT ![p] = @ \ C]
  /\ open' = [open EXCEPT ![p] = @ \ C]
  /\ owned' = [owned EXCEPT ![p] = @ \ C]
  /\ SendUp(p, Indicate("REMOVE_CHANNELS", C))
  /\ Become(p, "ClosingChannels", C)
  /\ UNCHANGED <<live, linked>>

\* The pilot keeps the channel as its own.
KeepControl(p) ==
  /\ ReceiveQuietly(p, "CONTROL_RELEASED", "NONE", "ReleasingControl")
  /\ SendUp(p, Accept("CONTROL_RELEASED"))
  /\ Become(p, "Operating", {})
  /\ UNCHANGED <<open, owned, told, live, linked>>

\* The pilot does not wait for CONTROL_RELEASED.
AcceptReleaseAndGo(p) ==
  /\ Answer(p, "RELEASE_ACCEPTED", "ReleasingControl")
  /\ UNCHANGED refused
  /\ SendUp(p, Accept("RELEASE_CONTROL"))
  /\ Become(p, "Operating", {})
  /\ UNCHANGED <<channels, live, linked>>

\* The pilot does not wait for the answer to CONTROL_READY.
ControlReadyAndGo(p) ==
  /\ Answer(p, "CONTROL_READY", "RequestingControl")
  /\ UNCHANGED refused
  /\ SendUp(p, Plain("CONTROL_READY"))
  /\ Become(p, "Operating", {})
  /\ UNCHANGED <<channels, live, linked>>

-----------------------------------------------------------------------------
(* ChannelsHandler.                                                        *)

(* validateChannels: a channel is in the map before its socket is opened.  *)
(* A channel that its remote does not validate leaves the map again; an    *)
(* exception (no connection, no such socket) leaves in it what is there    *)
(* and ends the handler.  The others are announced in CHANNELS_READY.      *)
Validate(p, C) ==
  \/ \E validated \in SUBSET C :
       /\ Faults \/ validated = C
       /\ open' = [open EXCEPT ![p] = (@ \ C) \cup validated]
       /\ owned' = [owned EXCEPT ![p] = @ \ (C \ validated)]
       /\ Become(p, "ValidatingChannels", validated)
       /\ SendUp(p, Indicate("CHANNELS_READY", validated))
       /\ UNCHANGED live
  \/ \E failed, begun \in SUBSET C :
       /\ Faults /\ failed # C
       /\ open' = [open EXCEPT ![p] = (@ \cup begun) \ failed]
       /\ owned' = [owned EXCEPT ![p] = @ \ failed]
       /\ Become(p, "ValidatingChannels", {})
       /\ live' = [live EXCEPT ![p] = FALSE]
       /\ UNCHANGED up

(* The listener is told, then the channels are closed and forgotten.       *)
CloseChannels(p, C) == /\ told' = [told EXCEPT ![p] = @ \ C]
                       /\ open' = [open EXCEPT ![p] = @ \ C]
                       /\ owned' = [owned EXCEPT ![p] = @ \ C]

-----------------------------------------------------------------------------
(* Disconnected and Connecting.                                            *)

(* The core refuses, or there is no connection: back to Disconnected.      *)
OperateFails(p) == /\ Faults
                   /\ User(p, "OPERATE", "Disconnected")
                   /\ UNCHANGED <<state, arg, channels, live, linked, up>>

Operate(p) == /\ User(p, "OPERATE", "Disconnected")
              /\ linked' = [linked EXCEPT ![p] = TRUE]
              /\ SendUp(p, Plain("SETUP"))
              /\ Become(p, "Connecting", {})
              /\ UNCHANGED <<channels, live>>

SetupAccepted(p) == /\ ReceiveQuietly(p, "SETUP", "ACCEPTED", "Connecting")
                    /\ Validate(p, Head(down[p]).ids)
                    /\ UNCHANGED <<told, linked>>

SetupRejected(p) == /\ ReceiveQuietly(p, "SETUP", "REJECTED", "Connecting")
                    /\ Become(p, "Disconnecting", {})
                    /\ UNCHANGED <<channels, live, linked, up>>

-----------------------------------------------------------------------------
(* ValidatingChannels and Operating.                                       *)
ChannelsReadyAccepted(p) ==
  /\ ReceiveQuietly(p, "CHANNELS_READY", "ACCEPTED", "ValidatingChannels")
  /\ owned' = [owned EXCEPT ![p] = @ \cup Head(down[p]).ids]
  /\ told' = [told EXCEPT ![p] = @ \cup arg[p]]
  /\ Become(p, "Operating", {})
  /\ UNCHANGED <<open, live, linked, up>>

OpenChannels(p) == \E C \in Requests :
  /\ User(p, "OPEN_CHANNELS", "Operating")
  /\ SendUp(p, Indicate("ADD_CHANNELS", C))
  /\ Become(p, "OpeningChannels", C)
  /\ UNCHANGED <<channels, live, linked>>

(* The user names the channels; RELEASE stands for all of them.            *)
StartClosing(p, C) == /\ SendUp(p, Indicate("REMOVE_CHANNELS", C))
                      /\ Become(p, "ClosingChannels", C)
                      /\ UNCHANGED <<channels, live, linked>>

CloseSome(p) == \E C \in Requests :
  /\ User(p, "CLOSE_CHANNELS", "Operating")
  /\ StartClosing(p, C)

Release(p) == /\ User(p, "RELEASE", "Operating")
              /\ StartClosing(p, open[p])

RequestControl(p) == \E c \in Channels :
  /\ User(p, "REQUEST_CONTROL", "Operating")
  /\ SendUp(p, Indicate("REQUEST_CONTROL", {c}))
  /\ Become(p, "RequestingControl", {c})
  /\ UNCHANGED <<channels, live, linked>>

(* The user is asked to release the channel.                               *)
ReleaseControlAsked(p) ==
  /\ Receive(p, "RELEASE_CONTROL", "NONE", "Operating")
  /\ asked' = [asked EXCEPT ![p] = TRUE]
  /\ refused' = [refused EXCEPT ![p] = @ \ Head(down[p]).ids]
  /\ Become(p, "ReleasingControl", Head(down[p]).ids)
  /\ UNCHANGED <<channels, live, linked, up>>

(* The facade releases the pilot.                                          *)
Released(p) == \E s \in {"Operating", "ClosingChannels"} :
  /\ ReceiveQuietly(p, "RELEASE", "NONE", s)
  /\ CloseChannels(p, open[p])
  /\ SendUp(p, Accept("RELEASE"))
  /\ LeaveConnected(p)
  /\ UNCHANGED <<live, linked>>

-----------------------------------------------------------------------------
(* OpeningChannels and ClosingChannels.                                    *)
AddAccepted(p) == /\ ReceiveQuietly(p, "ADD_CHANNELS", "ACCEPTED", "OpeningChannels")
                  /\ Validate(p, Head(down[p]).ids)
                  /\ UNCHANGED <<told, linked>>

AddRejected(p) == /\ ReceiveQuietly(p, "ADD_CHANNELS", "REJECTED", "OpeningChannels")
                  /\ Become(p, "Operating", {})
                  /\ UNCHANGED <<channels, live, linked, up>>

RemoveAccepted(p) ==
  /\ ReceiveQuietly(p, "REMOVE_CHANNELS", "ACCEPTED", "ClosingChannels")
  /\ CloseChannels(p, arg[p])
  /\ SendUp(p, Accept("REMOVE_CHANNELS"))
  /\ Become(p, "Operating", {})
  /\ UNCHANGED <<live, linked>>

RemoveRejected(p) ==
  /\ ReceiveQuietly(p, "REMOVE_CHANNELS", "REJECTED", "ClosingChannels")
  /\ Become(p, "Operating", {})
  /\ UNCHANGED <<channels, live, linked, up>>

-----------------------------------------------------------------------------
(* RequestingControl.                                                      *)

(* The listener is given the other pilot's data.                           *)
RequestAccepted(p) ==
  /\ Receive(p, "REQUEST_CONTROL", "ACCEPTED", "RequestingControl")
  /\ asked' = [asked EXCEPT ![p] = TRUE]
  /\ UNCHANGED refused
  /\ Stay
  /\ UNCHANGED <<channels, live, linked, up>>

RequestRejected(p) ==
  /\ ReceiveQuietly(p, "REQUEST_CONTROL", "REJECTED", "RequestingControl")
  /\ Become(p, "Operating", {})
  /\ UNCHANGED <<channels, live, linked, up>>

ControlReady(p) == /\ Answer(p, "CONTROL_READY", "RequestingControl")
                   /\ UNCHANGED refused
                   /\ SendUp(p, Plain("CONTROL_READY"))
                   /\ Stay
                   /\ UNCHANGED <<channels, live, linked>>

HandoverDone(p) ==
  /\ ReceiveQuietly(p, "CONTROL_READY", "ACCEPTED", "RequestingControl")
  /\ owned' = [owned EXCEPT ![p] = @ \cup arg[p]]
  /\ Become(p, "Operating", {})
  /\ UNCHANGED <<open, told, live, linked, up>>

-----------------------------------------------------------------------------
(* ReleasingControl.                                                       *)
ReleaseAccepted(p) ==
  /\ Answer(p, "RELEASE_ACCEPTED", "ReleasingControl")
  /\ UNCHANGED refused
  /\ SendUp(p, Accept("RELEASE_CONTROL"))
  /\ Stay
  /\ UNCHANGED <<channels, live, linked>>

(* The response sent is ACCEPTED here too.                                 *)
ReleaseRejected(p) ==
  /\ Answer(p, "RELEASE_REJECTED", "ReleasingControl")
  /\ refused' = [refused EXCEPT ![p] = @ \cup arg[p]]
  /\ SendUp(p, Accept("RELEASE_CONTROL"))
  /\ Become(p, "Operating", {})
  /\ UNCHANGED <<channels, live, linked>>

ControlReleased(p) ==
  /\ ReceiveQuietly(p, "CONTROL_RELEASED", "NONE", "ReleasingControl")
  /\ owned' = [owned EXCEPT ![p] = @ \ arg[p]]
  /\ SendUp(p, Accept("CONTROL_RELEASED"))
  /\ Become(p, "Operating", {})
  /\ UNCHANGED <<open, told, live, linked>>

-----------------------------------------------------------------------------
(* Disconnecting.                                                          *)

(* closeFacadeConnection returns once the facade has ended the call.  The  *)
(* closing loop swallows what was still to be read, and Disconnected drops *)
(* what was read and not yet handled.                                      *)
Disconnect(p) == /\ state[p] = "Disconnecting" /\ live[p]
                 /\ ~linked[p]
                 /\ Become(p, "Disconnected", {})
                 /\ up' = [up EXCEPT ![p] = <<>>]
                 /\ down' = [down EXCEPT ![p] = <<>>]
                 /\ UNCHANGED <<channels, live, linked, user>>

(* It throws, or never returns.                                            *)
DisconnectFails(p) == /\ Faults
                      /\ state[p] = "Disconnecting" /\ live[p]
                      /\ live' = [live EXCEPT ![p] = FALSE]
                      /\ UNCHANGED <<state, arg, channels, streams, user>>

-----------------------------------------------------------------------------
(* The messages each state has a case for.                                 *)
Expected(s, m) ==
  CASE s = "Connecting"         -> m.command = "SETUP"
    [] s = "ValidatingChannels" -> m.command = "CHANNELS_READY" /\ m.response = "ACCEPTED"
    [] s = "Operating"          -> m.command \in {"RELEASE_CONTROL", "RELEASE"}
    [] s = "OpeningChannels"    -> m.command = "ADD_CHANNELS"
    [] s = "ClosingChannels"    -> m.command \in {"REMOVE_CHANNELS", "RELEASE"}
    [] s = "RequestingControl"  -> \/ m.command = "REQUEST_CONTROL"
                                   \/ m.command = "CONTROL_READY" /\ m.response = "ACCEPTED"
    [] s = "ReleasingControl"   -> m.command = "CONTROL_RELEASED"
    [] OTHER                    -> FALSE

(* defaultMessageHandle: any other message is logged and dropped.          *)
Drop(p) == /\ live[p]
           /\ state[p] \in Connected \cup {"Connecting"}
           /\ down[p] # <<>>
           /\ ~Expected(state[p], Head(down[p]))
           /\ down' = [down EXCEPT ![p] = Tail(@)]
           /\ UNCHANGED <<state, arg, channels, live, linked, up, user>>

UserStep(p) == \/ OperateFails(p) \/ Operate(p)
               \/ OpenChannels(p) \/ CloseSome(p) \/ Release(p)
               \/ RequestControl(p) \/ ControlReady(p)
               \/ ReleaseAccepted(p) \/ ReleaseRejected(p)

ReceiveStep(p) == \/ SetupAccepted(p) \/ SetupRejected(p)
                  \/ ChannelsReadyAccepted(p)
                  \/ ReleaseControlAsked(p) \/ Released(p)
                  \/ AddAccepted(p) \/ AddRejected(p)
                  \/ RemoveAccepted(p) \/ RemoveRejected(p)
                  \/ RequestAccepted(p) \/ RequestRejected(p)
                  \/ HandoverDone(p) \/ ControlReleased(p)
                  \/ Drop(p)

PilotStep(p) == \/ UserStep(p) \/ ReceiveStep(p)
                \/ Disconnect(p) \/ DisconnectFails(p)
=============================================================================
