---------------------------- MODULE PilotProgram ----------------------------
(***************************************************************************)
(* The example program pilotSim: one pilot of a Fleet, its simulator       *)
(* (Simulator) and its requests to the core (CoreClient).  The other       *)
(* pilots are clients of which only the protocol is seen, as in Fleet.     *)
(*                                                                         *)
(* The simulator answers an event of the pilot by a user event, posted     *)
(* after some seconds by a detached thread.  It never answers              *)
(* RELEASE_CONTROL.                                                        *)
(***************************************************************************)
EXTENDS Fleet, Simulator, CoreClient

CONSTANTS Own,           \* the pilot of this program
          Closed,        \* the channels it closes (8)
          Controlled     \* the channel whose control it asks for (1)

ASSUME ProgramAssumption ==
  /\ Own \in Pilots
  /\ Closed \in Requests /\ Controlled \in Channels

VARIABLES pending   \* user events on their way to the pilot, by type

programVars == <<vars, simulator, core, pending>>

Scripted == {"OPERATE", "CLOSE_CHANNELS", "REQUEST_CONTROL", "CONTROL_READY", "RELEASE"}

NonePending == [e \in Scripted |-> 0]

(* main asks for the devices first.                                        *)
ProgramInit == /\ Init
               /\ SimulatorInit
               /\ main = "starting"
               /\ step = "connecting" /\ path = "devices" /\ reply = "none"
               /\ sessions = 0
               /\ pending = NonePending

Emit(e) == pending' = [pending EXCEPT ![e] = @ + 1]

-----------------------------------------------------------------------------
(* PilotSimulator::start: without a device that is connected, or an answer *)
(* of the core, main returns.                                              *)
Start == /\ main = "starting"
         /\ \/ /\ Outcome("ok")
               /\ Emit("OPERATE")
               /\ MainIs("running")
            \/ /\ Outcome("ok") \/ Outcome("failed")
               /\ MainIs("ended")
               /\ UNCHANGED pending
         /\ UNCHANGED vars

RequestStep == /\ main = "starting" \/ Running
               /\ CoreStep
               /\ UNCHANGED <<vars, simulator, pending>>

(* Connecting::start, up to the answer of the core and from it.            *)
PostedOperate == /\ Running
                 /\ pending["OPERATE"] > 0
                 /\ pending' = [pending EXCEPT !["OPERATE"] = @ - 1]
                 /\ Execute("operate")
                 /\ UNCHANGED <<vars, simulator>>

Operated == /\ Running
            /\ Outcome("ok")
            /\ Operate(Own)
            /\ UNCHANGED <<facadeVars, simulator, pending>>

NotOperated == /\ Running /\ state[Own] = "Disconnected"
               /\ Outcome("failed") \/ Outcome("ok")
               /\ Done
               /\ UNCHANGED <<vars, pending>>

-----------------------------------------------------------------------------
(* The other posted events.  One that the pilot's state does not expect is *)
(* logged and dropped.                                                     *)
Act(e) == CASE e = "CLOSE_CHANNELS"  -> CloseSome(Own) /\ arg'[Own] = Closed
            [] e = "REQUEST_CONTROL" -> RequestControl(Own) /\ arg'[Own] = {Controlled}
            [] e = "CONTROL_READY"   -> ControlReady(Own)
            [] e = "RELEASE"         -> Release(Own)

Expecting(e) == IF e = "CONTROL_READY" THEN "RequestingControl" ELSE "Operating"

PostedEvent == \E e \in Scripted \ {"OPERATE"} :
  /\ Running /\ live[Own]
  /\ pending[e] > 0 /\ pending' = [pending EXCEPT ![e] = @ - 1]
  /\ \/ Act(e) /\ UNCHANGED facadeVars
     \/ state[Own] # Expecting(e) /\ UNCHANGED vars
  /\ UNCHANGED <<simulator, core>>

(* main has destroyed the pilot and the io_service goes next.              *)
LateEvent == \E e \in Scripted :
  /\ main = "leaving" /\ ~crashed
  /\ pending[e] > 0 /\ pending' = [pending EXCEPT ![e] = @ - 1]
  /\ crashed' \in BOOLEAN
  /\ UNCHANGED <<vars, known, walker, left, done, main, core>>

-----------------------------------------------------------------------------
(* The events of the pilot, and what the simulator does in onEvent.        *)
ChannelsOpened == /\ ChannelsReadyAccepted(Own)
                  /\ AddChannels(arg[Own])
                  /\ Emit("CLOSE_CHANNELS")

ChannelsClosing == /\ RemoveAccepted(Own) \/ Released(Own)
                   /\ OnClosed(told[Own] \ told'[Own])
                   /\ Emit("REQUEST_CONTROL")

HandoverAccepted == /\ RequestAccepted(Own)
                    /\ Emit("CONTROL_READY")
                    /\ UNCHANGED simulator

RequestDenied == /\ RequestRejected(Own)
                 /\ Emit("RELEASE")
                 /\ UNCHANGED simulator

SetupDenied == SetupRejected(Own) /\ Done /\ UNCHANGED pending

Unheard == /\ \/ SetupAccepted(Own) \/ ReleaseControlAsked(Own) \/ RemoveRejected(Own)
              \/ HandoverDone(Own) \/ ControlReleased(Own) \/ Drop(Own)
           /\ UNCHANGED <<simulator, pending>>

ReceivedOwn == /\ Running
               /\ \/ ChannelsOpened \/ ChannelsClosing \/ HandoverAccepted
                  \/ RequestDenied \/ SetupDenied \/ Unheard
               /\ UNCHANGED <<facadeVars, core>>

Closing == /\ Running
           /\ \/ Disconnect(Own) /\ Done
              \/ DisconnectFails(Own) /\ ClosingFails
           /\ UNCHANGED <<facadeVars, core, pending>>

-----------------------------------------------------------------------------
(* run() returns when there is nothing more to do; a thread that sleeps is *)
(* not waited for.                                                         *)
Exit == /\ state[Own] = "Disconnected" /\ step = "idle" /\ Leave
        /\ UNCHANGED <<vars, core, pending>>

Joined == Join /\ UNCHANGED <<vars, core, pending>>

Traffic == ThreadStep /\ UNCHANGED <<vars, core, pending>>

Outside == UNCHANGED <<simulator, core, pending>>

Others == \E p \in Pilots \ {Own} : PilotStep(p) /\ UNCHANGED facadeVars /\ Outside

Facade == \E p \in Pilots : (FacadeAnswer(p) \/ AskRelease(p)) /\ Outside

ProgramNext == \/ Start \/ RequestStep \/ PostedOperate \/ Operated \/ NotOperated
               \/ PostedEvent \/ LateEvent \/ ReceivedOwn \/ Closing
               \/ Exit \/ Joined \/ Traffic \/ Others \/ Facade

(* Each thread of the program runs what is ready, the facade and each of   *)
(* the other pilots take up what they are sent.  Nothing is assumed of the *)
(* core.                                                                   *)
Service == PostedEvent \/ ReceivedOwn \/ Closing

Replies(p) == /\ \/ ReceiveStep(p) \/ Disconnect(p)
                 \/ asked[p] /\ ReleaseAccepted(p)
              /\ UNCHANGED facadeVars /\ Outside

FacadeReplies == \E p \in Pilots : FacadeAnswer(p) /\ Outside

ProgramFairness ==
  /\ WF_programVars(Service) /\ WF_programVars(Exit \/ Joined)
  /\ WF_programVars(Traffic) /\ WF_programVars(FacadeReplies)
  /\ \A p \in Pilots \ {Own} : WF_programVars(Replies(p))

ProgramSpec == ProgramInit /\ [][ProgramNext]_programVars /\ ProgramFairness

-----------------------------------------------------------------------------
(* A pilot is set up at the facade only after the core has opened a        *)
(* session for it, and the core opens one session for one run of the       *)
(* program: a request is never repeated, though its answer may be lost.    *)
SetupHasSession == (linked[Own] => sessions = 1) /\ sessions <= 1

(* A program whose simulator is done ends: the client is destroyed and its *)
(* traffic thread comes to its end.  Closing may hang, and an event still  *)
(* on its way when the client is destroyed may crash the program.          *)
ProgramEnds == done ~> main = "ended" \/ main = "stuck" \/ crashed

(* The owner of a channel that is asked for has dropped the question: its  *)
(* pilot was in a procedure of its own, whose states have no case for it.  *)
Dropped(p) == /\ handover.stage = "asked" /\ handover.from = p
              /\ state[p] # "ReleasingControl"
              /\ \A i \in DOMAIN down[p] : down[p][i].command # "RELEASE_CONTROL"

(* A request for control does not wait for ever, although the requester    *)
(* answers from a thread of its own and the channel's owner may close it   *)
(* or another one or leave before, while or after it is asked, unless the  *)
(* owner drops the question for good or a handler of either has thrown.    *)
RequestsEnd ==
  state[Own] = "RequestingControl"
    ~> \/ state[Own] # "RequestingControl"
       \/ (\E p \in Pilots : ~live[p]) \/ crashed
       \/ \E p \in Pilots \ {Own} : []Dropped(p)
=============================================================================
