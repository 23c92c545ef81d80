---------------------------- MODULE DeviceFacade ----------------------------
(***************************************************************************)
(* A device and the facade it is attached to.  The facade is external: it  *)
(* is the least partner that the cases of the device's states call for.    *)
(* It starts and ends operations, attaches channels it has not attached,   *)
(* releases those the device has confirmed, sends heartbeats, and may      *)
(* refuse what it is asked.                                                *)
(***************************************************************************)
EXTENDS Device, SequencesExt

CONSTANTS Refuses,       \* may it refuse to release the device?
          MaxOperations  \* bound: operations

ASSUME RefusesAssumption == Refuses \in BOOLEAN
ASSUME OperationsAssumption == MaxOperations \in Nat

VARIABLES admitted,    \* the device is attached
          operation,   \* "none", "running" or "ending"
          operations,  \* operations started so far
          pending,     \* sets of channels sent and not yet answered
          attached,    \* channels the device has confirmed
          releasing,   \* those of them it was told to release
          refused,     \* the device was refused its release
          beats,       \* heartbeats sent in this connection
          heard        \* the keys of their answers, in order

records == <<operation, pending, attached, releasing>>
facade  == <<admitted, records, operations, refused, beats, heard>>
vars    == <<device, stream, facade>>

TypeOK == /\ DeviceTypeOK
          /\ admitted \in BOOLEAN
          /\ operation \in {"none", "running", "ending"}
          /\ operations \in 0..MaxOperations
          /\ pending \in Seq(SUBSET Channels)
          /\ attached \in SUBSET Channels /\ releasing \in SUBSET attached
          /\ refused \in BOOLEAN
          /\ beats \in 0..MaxBeats /\ heard \in Seq(1..MaxBeats)

NoRecords == /\ operation' = "none"
             /\ pending' = <<>>
             /\ attached' = {}
             /\ releasing' = {}

Init == /\ DeviceInit
        /\ admitted = FALSE
        /\ operation = "none" /\ operations = 0
        /\ pending = <<>> /\ attached = {} /\ releasing = {}
        /\ refused = FALSE
        /\ beats = 0 /\ heard = <<>>

-----------------------------------------------------------------------------
Take(command, response) == /\ linked
                           /\ up # <<>>
                           /\ Head(up).command = command
                           /\ Head(up).response = response
                           /\ up' = Tail(up)
                           /\ UNCHANGED device

SendDown(m) == down' = Append(down, m)

(* The facade acts of its own.                                             *)
Initiate == /\ linked
            /\ admitted
            /\ UNCHANGED <<device, linked, up, admitted, refused>>

NotPending(c) == \A i \in DOMAIN pending : c \notin pending[i]

-----------------------------------------------------------------------------
(* The call ends with the answer, if the device is not admitted or may go. *)
AnswerSetup == /\ Take("SETUP", "NONE")
               /\ \E ok \in BOOLEAN :
                    /\ SendDown(Message("SETUP", IF ok THEN "ACCEPTED" ELSE "REJECTED", {}))
                    /\ admitted' = ok
                    /\ linked' = ok
               /\ refused' = FALSE
               /\ beats' = 0 /\ heard' = <<>>
               /\ UNCHANGED <<records, operations>>

AnswerRelease ==
  /\ Take("RELEASE", "NONE")
  /\ \/ /\ SendDown(Message("RELEASE", "ACCEPTED", {}))
        /\ linked' = FALSE
        /\ admitted' = FALSE
        /\ NoRecords
        /\ UNCHANGED refused
     \/ /\ Refuses
        /\ SendDown(Message("RELEASE", "REJECTED", {}))
        /\ refused' = TRUE
        /\ UNCHANGED <<linked, admitted, records>>
  /\ UNCHANGED <<operations, beats, heard>>

(* Channels are attached to start an operation, or while one is running.   *)
AttachChannelsTo(C) ==
  /\ \A c \in C : c \notin attached /\ NotPending(c)
  /\ pending' = Append(pending, C)
  /\ SendDown(Message("ATTACH_CHANNELS", "NONE", C))
  /\ UNCHANGED <<attached, releasing, beats, heard>>

StartOperation == /\ Initiate
                  /\ operation = "none" /\ operations < MaxOperations
                  /\ operation' = "running" /\ operations' = operations + 1
                  /\ \E C \in SUBSET Channels : AttachChannelsTo(C)

AttachMore == /\ Initiate
              /\ operation = "running"
              /\ \E C \in SUBSET Channels : C # {} /\ AttachChannelsTo(C)
              /\ UNCHANGED <<operation, operations>>

ReleaseSome == \E C \in SUBSET (attached \ releasing) :
  /\ Initiate
  /\ operation = "running"
  /\ C # {}
  /\ releasing' = releasing \cup C
  /\ SendDown(Message("RELEASE_CHANNELS", "NONE", C))
  /\ UNCHANGED <<operation, operations, pending, attached, beats, heard>>

EndOperation == /\ Initiate
                /\ operation = "running"
                /\ operation' = "ending"
                /\ SendDown(Message("OPERATION_ENDED", "NONE", {}))
                /\ UNCHANGED <<operations, pending, attached, releasing, beats, heard>>

Beat == /\ Initiate
        /\ beats < MaxBeats
        /\ beats' = beats + 1
        /\ SendDown(Heartbeat("NONE", beats'))
        /\ UNCHANGED <<records, operations, heard>>

-----------------------------------------------------------------------------
(* The answers of the device.                                              *)
ChannelsConfirmed == /\ Take("ATTACH_CHANNELS", "ACCEPTED")
                     /\ attached' = attached \cup Head(up).ids
                     /\ pending' = Tail(pending)
                     /\ UNCHANGED <<linked, down, admitted, operation, operations,
                                    releasing, refused, beats, heard>>

ReleaseConfirmed == /\ Take("RELEASE_CHANNELS", "ACCEPTED")
                    /\ attached' = attached \ Head(up).ids
                    /\ releasing' = releasing \ Head(up).ids
                    /\ UNCHANGED <<linked, down, admitted, operation, operations,
                                   pending, refused, beats, heard>>

EndConfirmed == /\ Take("OPERATION_ENDED", "ACCEPTED")
                /\ NoRecords
                /\ UNCHANGED <<linked, down, admitted, operations, refused, beats, heard>>

BeatAnswered == /\ Take("HEARTBEAT", "ACCEPTED")
                /\ heard' = Append(heard, Head(up).key)
                /\ UNCHANGED <<linked, down, admitted, records, operations,
                               refused, beats>>

FacadeAnswer == \/ AnswerSetup \/ AnswerRelease
                \/ ChannelsConfirmed \/ ReleaseConfirmed \/ EndConfirmed
                \/ BeatAnswered

FacadeInitiative == \/ StartOperation \/ AttachMore \/ ReleaseSome
                    \/ EndOperation \/ Beat

-----------------------------------------------------------------------------
Next == \/ UserStep /\ UNCHANGED facade
        \/ ReceiveStep /\ UNCHANGED facade
        \/ Disconnect /\ UNCHANGED facade
        \/ DisconnectFails /\ UNCHANGED facade
        \/ FacadeAnswer
        \/ FacadeInitiative

Spec == Init /\ [][Next]_vars

(* Both sides take up what they are sent; an operation that has ended is   *)
(* left.  Nothing is assumed of the user or of the facade's initiative.    *)
Fairness == /\ WF_vars(ReceiveStep /\ UNCHANGED facade)
            /\ WF_vars(Disconnect /\ UNCHANGED facade)
            /\ WF_vars(FacadeAnswer)

FairSpec == Spec /\ Fairness

-----------------------------------------------------------------------------
(* The listener of the device holds an IChannel* of every open channel and *)
(* of no channel that is gone.  The channels of an operation are gone when *)
(* it is over: a device that is ready for the next one, or is leaving, has *)
(* none.                                                                   *)
UserKnowsChannels == /\ told \subseteq open
                     /\ live => told = open
                     /\ live /\ state # "Flying" => open = {}

(* releaseChannels looks channels up without checking that they exist:     *)
(* those the facade names are there when its message is handled.           *)
NoMissingChannel ==
  live /\ state = "Flying" /\ down # <<>> /\ Head(down).command = "RELEASE_CHANNELS"
    => Head(down).ids \subseteq open

(* The facade never believes a channel open that the device could not      *)
(* validate, nor forgets one that is open: when nothing is on its way the  *)
(* two agree, on the channels and on whether an operation is running.  The *)
(* device has to be in Ready or Flying: one that was refused its release   *)
(* stays in Releasing and drops what the facade sends.                     *)
Agreement ==
  live /\ state \in {"Ready", "Flying"} /\ up = <<>> /\ down = <<>> =>
    /\ open = attached
    /\ state = "Flying" <=> operation = "running"

Beats(q) == {i \in DOMAIN q : q[i].command = "HEARTBEAT"}

(* Every heartbeat is answered once, in order, and in whatever state the   *)
(* device is while it is connected: those on their way, back or forth, are *)
(* the ones after those that were heard, up to the last.                   *)
HeartbeatsAnswered ==
  LET way == up \o down IN
  admitted =>
    /\ heard = [i \in 1..Len(heard) |-> i] /\ Len(heard) <= beats
    /\ {way[i].key : i \in Beats(way)} = (Len(heard) + 1)..beats
    /\ \A i, j \in Beats(way) : i < j => way[i].key < way[j].key

(* A device that asks to be released does not wait for ever, though the    *)
(* facade may start an operation at the same time.  Refused, it would: it  *)
(* handles nothing else in Releasing.                                      *)
ReleaseEnds == state = "Releasing" ~> state # "Releasing" \/ refused

(* A channel sent to the device is answered, confirmed or not, unless the  *)
(* device leaves, fails, or was refused to leave.                          *)
AttachEnds ==
  \A c \in Channels : ~NotPending(c) ~> NotPending(c) \/ ~live \/ refused
=============================================================================
