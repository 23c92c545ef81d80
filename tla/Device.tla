------------------------------- MODULE Device -------------------------------
(***************************************************************************)
(* The device: fm::Device with its states (source/state/device), its       *)
(* channels (backend::ChannelsHandler) and its heartbeats                  *)
(* (backend::HeartbeatHandler).                                            *)
(*                                                                         *)
(* As in Pilot an action is one event handled to its end, the states       *)
(* nested in Connected are named beside the outer ones, and Released is    *)
(* part of the action that enters it.                                      *)
(***************************************************************************)
EXTENDS Naturals, Sequences

CONSTANTS Channels,
          Faults,       \* may connections and sockets fail?
          MaxAttaches,  \* bound: ATTACH events of the user
          MaxBeats      \* bound: heartbeats in one connection

ASSUME FaultsAssumption == Faults \in BOOLEAN
ASSUME BoundsAssumption == MaxAttaches \in Nat /\ MaxBeats \in Nat

VARIABLES state,    \* the state of the device
          open,     \* the channels in ChannelsHandler
          told,     \* the channels whose IChannel* the listener holds
          live,     \* no handler has thrown
          attaches, \* ATTACH events handled so far
          linked,   \* the call to the facade is there
          up,       \* messages on their way to the facade
          down      \* messages on their way to the device

channels == <<open, told>>
device   == <<state, channels, live, attaches>>
stream   == <<linked, up, down>>

Connected == {"Ready", "Flying", "Releasing"}
States == Connected \cup {"Disconnected", "Connecting", "Disconnecting"}

Commands == {"SETUP", "ATTACH_CHANNELS", "RELEASE_CHANNELS", "OPERATION_ENDED",
             "RELEASE", "HEARTBEAT"}
Messages == [command : Commands, response : {"NONE", "ACCEPTED", "REJECTED"},
             ids : SUBSET Channels, key : 0..MaxBeats]

Message(command, response, C) ==
  [command |-> command, response |-> response, ids |-> C, key |-> 0]
Heartbeat(response, k) ==
  [command |-> "HEARTBEAT", response |-> response, ids |-> {}, key |-> k]

DeviceTypeOK == /\ state \in States
                /\ open \in SUBSET Channels /\ told \in SUBSET Channels
                /\ live \in BOOLEAN
                /\ attaches \in 0..MaxAttaches
                /\ linked \in BOOLEAN
                /\ up \in Seq(Messages) /\ down \in Seq(Messages)

DeviceInit == /\ state = "Disconnected"
              /\ open = {} /\ told = {}
              /\ live = TRUE
              /\ attaches = 0
              /\ linked = FALSE
              /\ up = <<>> /\ down = <<>>

-----------------------------------------------------------------------------
Receive(command, s) == /\ live
                       /\ state = s
                       /\ down # <<>>
                       /\ Head(down).command = command
                       /\ down' = Tail(down)
                       /\ UNCHANGED <<linked, attaches>>

Send(m) == up' = Append(up, m)

(* A user event, or none, takes the device from state s to state t.        *)
Go(s, t) == /\ live
            /\ state = s
            /\ state' = t
            /\ UNCHANGED <<channels, live>>

-----------------------------------------------------------------------------
(* Defective variants of the operations, for checking that the properties  *)
(* below can tell them from the code.                                      *)

\* The listener is not told which channels are closing.
OperationEndedSilently ==
  /\ Receive("OPERATION_ENDED", "Flying")
  /\ state' = "Ready"
  /\ open' = {}
  /\ Send(Message("OPERATION_ENDED", "ACCEPTED", {}))
  /\ UNCHANGED <<told, live>>

\* Every channel is confirmed, whether it was validated or not.
AttachConfirmsAll(C) ==
  /\ \E validated \in SUBSET C :
       /\ Faults \/ validated = C
       /\ open' = (open \ C) \cup validated
       /\ told' = told \cup validated
  /\ Send(Message("ATTACH_CHANNELS", "ACCEPTED", C))
  /\ UNCHANGED live

\* A heartbeat is answered in Flying only.
HeartbeatInFlight == /\ Receive("HEARTBEAT", state)
                     /\ state \in Connected \cup {"Connecting"}
                     /\ \/ /\ state = "Flying"
                           /\ Send(Heartbeat("ACCEPTED", Head(down).key))
                        \/ state # "Flying" /\ UNCHANGED up
                     /\ UNCHANGED <<state, channels, live>>

\* The device does not ask to be released.
ReleaseUnsaid == /\ Go("Ready", "Releasing")
                 /\ UNCHANGED <<linked, up, down, attaches>>

\* The answer to a heartbeat lacks its key.
HeartbeatWithoutKey == /\ state \in Connected \cup {"Connecting"}
                       /\ Receive("HEARTBEAT", state)
                       /\ Send(Heartbeat("ACCEPTED", 0))
                       /\ UNCHANGED <<state, channels, live>>

\* The channels attached are not confirmed.
AttachUnconfirmed(C) == /\ open' = open \cup C
                        /\ told' = told \cup C
                        /\ UNCHANGED <<live, up>>

-----------------------------------------------------------------------------
(* Disconnected and Connecting.                                            *)
UserAttaches == /\ attaches < MaxAttaches
                /\ attaches' = attaches + 1
                /\ UNCHANGED down

(* The core refuses, or there is no connection: back to Disconnected.      *)
AttachFails == /\ Faults
               /\ UserAttaches
               /\ Go("Disconnected", "Disconnected")
               /\ UNCHANGED <<linked, up>>

Attach == /\ UserAttaches
          /\ Go("Disconnected", "Connecting")
          /\ linked' = TRUE
          /\ Send(Message("SETUP", "NONE", {}))

Setup == /\ Receive("SETUP", "Connecting")
         /\ state' = IF Head(down).response = "ACCEPTED" THEN "Ready"
                     ELSE "Disconnecting"
         /\ UNCHANGED <<channels, live, up>>

-----------------------------------------------------------------------------
(* Ready and Flying.                                                       *)

(* attachChannels: the channels whose remotes validate them are announced  *)
(* to the listener and confirmed; an exception leaves in the map what is   *)
(* there, unannounced, and ends the handler.                               *)
AttachChannels(C) ==
  \/ \E validated \in SUBSET C :
       /\ Faults \/ validated = C
       /\ open' = (open \ C) \cup validated
       /\ told' = told \cup validated
       /\ Send(Message("ATTACH_CHANNELS", "ACCEPTED", validated))
       /\ UNCHANGED live
  \/ \E failed, begun \in SUBSET C :
       /\ Faults /\ failed # C
       /\ open' = (open \cup begun) \ failed
       /\ live' = FALSE
       /\ UNCHANGED <<told, up>>

ChannelsAttached == \E s \in {"Ready", "Flying"} :
  /\ Receive("ATTACH_CHANNELS", s)
  /\ state' = "Flying"
  /\ AttachChannels(Head(down).ids)

ChannelsReleased == LET C == Head(down).ids IN
  /\ Receive("RELEASE_CHANNELS", "Flying")
  /\ told' = told \ C
  /\ open' = open \ C
  /\ Send(Message("RELEASE_CHANNELS", "ACCEPTED", C))
  /\ UNCHANGED <<state, live>>

OperationEnded == /\ Receive("OPERATION_ENDED", "Flying")
                  /\ state' = "Ready"
                  /\ told' = told \ open
                  /\ open' = {}
                  /\ Send(Message("OPERATION_ENDED", "ACCEPTED", {}))
                  /\ UNCHANGED live

(* The user releases the device.  In any other state it is dropped.        *)
Release == /\ Go("Ready", "Releasing")
           /\ Send(Message("RELEASE", "NONE", {}))
           /\ UNCHANGED <<linked, down, attaches>>

-----------------------------------------------------------------------------
(* Releasing and Disconnecting.                                            *)

(* Released does nothing but give way to its outer state.                  *)
LeaveConnected == state' = "Disconnecting"

Released == /\ Receive("RELEASE", "Releasing")
            /\ Head(down).response = "ACCEPTED"
            /\ LeaveConnected
            /\ UNCHANGED <<channels, live, up>>

(* closeFacadeConnection returns once the facade has ended the call.       *)
Disconnect == /\ ~linked
              /\ Go("Disconnecting", "Disconnected")
              /\ up' = <<>> /\ down' = <<>>
              /\ UNCHANGED <<linked, attaches>>

(* It throws, or never returns.                                            *)
DisconnectFails == /\ Faults
                   /\ live /\ state = "Disconnecting"
                   /\ live' = FALSE
                   /\ UNCHANGED <<state, channels, attaches, stream>>

-----------------------------------------------------------------------------
(* handleHeartbeat, in every state that takes messages.                    *)
HandleHeartbeat == /\ state \in Connected \cup {"Connecting"}
                   /\ Receive("HEARTBEAT", state)
                   /\ Send(Heartbeat("ACCEPTED", Head(down).key))
                   /\ UNCHANGED <<state, channels, live>>

(* defaultMessageHandle: the other messages a state has no case for.       *)
Drop == \E command \in Commands \ {"HEARTBEAT"} :
  /\ state \in Connected \cup {"Connecting"}
  /\ Receive(command, state)
  /\ CASE state = "Connecting" -> command # "SETUP"
       [] state = "Ready"      -> command # "ATTACH_CHANNELS"
       [] state = "Flying"     -> command \in {"SETUP", "RELEASE"}
       [] state = "Releasing"  -> \/ command # "RELEASE"
                                  \/ Head(down).response # "ACCEPTED"
  /\ UNCHANGED <<state, channels, live, up>>

UserStep == AttachFails \/ Attach \/ Release

ReceiveStep == \/ Setup \/ ChannelsAttached \/ ChannelsReleased
               \/ OperationEnded \/ Released \/ HandleHeartbeat \/ Drop

DeviceStep == UserStep \/ ReceiveStep \/ Disconnect \/ DisconnectFails
=============================================================================
