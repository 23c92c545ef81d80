------------------------- MODULE PilotProgramProofs -------------------------
(***************************************************************************)
(* Proofs about the program pilotSim, for any number of other pilots and   *)
(* any channels: what is proved of a fleet holds in it, its pilot is set   *)
(* up once and with a session, and its traffic thread finds the channels   *)
(* it sends on.                                                            *)
(***************************************************************************)
EXTENDS PilotProgram, FleetProofs

(* The one session: OPERATE is posted once, by main, and the request for   *)
(* it is the only one that opens a session; the pilot is set up with its   *)
(* answer.                                                                 *)
OneSession ==
  /\ pending \in [Scripted -> Nat] /\ pending["OPERATE"] <= 1
  /\ main = "starting" => path = "devices" /\ pending["OPERATE"] = 0
  /\ path = "devices" => /\ sessions = 0 /\ ~linked[Own]
                         /\ main # "starting" => step = "idle"
  /\ path # "devices" => /\ path = "operate" /\ pending["OPERATE"] = 0
                         /\ sessions = IF reply = "success" THEN 1 ELSE 0
  /\ step = "ok" => reply = "success"
  /\ linked[Own] => reply = "success"

(* What the simulator knows of the pilot's channels.                       *)
Walk ==
  ~crashed => /\ known = told[Own]
              /\ left \subseteq known
              /\ main \in {"leaving", "ended"} => known = {}

ProgramInv == IInv /\ SimulatorTypeOK(Channels) /\ OneSession /\ Walk

(* The traffic thread of the pilot, as that of the device, only uses       *)
(* channels that are there, and the pilot that main destroys has none that *)
(* its simulator knows.                                                    *)
TrafficFindsChannel ==
  ~crashed => /\ known = told[Own] /\ left \subseteq open[Own]
              /\ main \in {"leaving", "ended"} => known = {}

-----------------------------------------------------------------------------
(* The program's steps are steps of the fleet.                             *)
LEMMA StepOfFleet ==
  ASSUME ProgramNext
  PROVE  \/ UNCHANGED vars
         \/ \E p \in Pilots : \/ PilotStep(p) /\ UNCHANGED facadeVars
                              \/ FacadeAnswer(p)
                              \/ AskRelease(p)
<1>0. Own \in Pilots
  BY ProgramAssumption
<1>1. CASE Start \/ RequestStep \/ PostedOperate \/ NotOperated \/ LateEvent
           \/ Exit \/ Joined \/ Traffic
  BY <1>1 DEF Start, RequestStep, PostedOperate, NotOperated, LateEvent, Exit, Joined, Traffic
<1>2. CASE Operated
  BY <1>0, <1>2 DEF Operated, PilotStep, UserStep
<1>3. CASE PostedEvent
  <2>1. PICK e \in Scripted \ {"OPERATE"} :
          (Act(e) /\ UNCHANGED facadeVars) \/ UNCHANGED vars
    BY <1>3 DEF PostedEvent
  <2>2. Act(e) => CloseSome(Own) \/ RequestControl(Own) \/ ControlReady(Own) \/ Release(Own)
    BY DEF Act, Scripted
  <2> QED
    BY <1>0, <2>1, <2>2 DEF PilotStep, UserStep
<1>4. CASE ReceivedOwn
  BY <1>0, <1>4 DEF ReceivedOwn, ChannelsOpened, ChannelsClosing, HandoverAccepted,
                    RequestDenied, SetupDenied, Unheard, PilotStep, ReceiveStep
<1>5. CASE Closing
  BY <1>0, <1>5 DEF Closing, PilotStep
<1>6. CASE Others
  BY <1>6 DEF Others
<1>7. CASE Facade
  BY <1>7 DEF Facade
<1> QED
  BY <1>1, <1>2, <1>3, <1>4, <1>5, <1>6, <1>7 DEF ProgramNext

LEMMA ProgramStep == [ProgramNext]_programVars => [Next]_vars
<1> SUFFICES ASSUME [ProgramNext]_programVars PROVE [Next]_vars
  OBVIOUS
<1>1. CASE ProgramNext
  BY <1>1, StepOfFleet DEF Next
<1>2. CASE UNCHANGED programVars
  BY <1>2 DEF programVars
<1> QED
  BY <1>1, <1>2

(* The program's pilot and the others are a fleet: all that is proved of   *)
(* fleets holds in the program.                                            *)
THEOREM RunsThePilot == ProgramSpec => Spec
<1>1. ProgramInit => Init
  BY DEF ProgramInit
<1> QED
  BY <1>1, ProgramStep, PTL DEF ProgramSpec, Spec

-----------------------------------------------------------------------------
(* What the steps leave alone of the program's own pilot.                  *)

(* The call of a pilot is opened by its operation only.                    *)
LEMMA LinkOpened ==
  ASSUME Typed, NEW p \in Pilots, PilotStep(p), NEW r \in Pilots
  PROVE  linked'[r] = linked[r] \/ Operate(p)
<1>1. CASE UserStep(p)
  BY <1>1 DEF UserStep, OperateFails, OpenChannels, CloseSome, Release, StartClosing,
              RequestControl, ControlReady, ReleaseAccepted, ReleaseRejected
<1>2. CASE ReceiveStep(p)
  BY <1>2 DEF ReceiveStep, SetupAccepted, SetupRejected, ChannelsReadyAccepted,
              ReleaseControlAsked, Released, AddAccepted, AddRejected, RemoveAccepted,
              RemoveRejected, RequestAccepted, RequestRejected, HandoverDone,
              ControlReleased, Drop
<1>3. CASE Disconnect(p) \/ DisconnectFails(p)
  BY <1>3 DEF Disconnect, DisconnectFails, streams
<1> QED
  BY <1>1, <1>2, <1>3 DEF PilotStep

(* The facade opens none, and tells no listener anything.                  *)
LEMMA LinkEnded ==
  ASSUME Typed, NEW p \in Pilots, FacadeAnswer(p) \/ AskRelease(p), NEW r \in Pilots
  PROVE  linked'[r] => linked[r]
<1>1. linked' = linked \/ linked' = [linked EXCEPT ![p] = FALSE]
  BY DEF FacadeAnswer, AnswerSetup, AnswerReady, EndCall, AnswerAdd, AnswerRemove,
         ConfirmRemove, AnswerRequest, OwnerAgreed, RequesterReady, OwnerLetGo, AskRelease
<1> QED
  BY <1>1 DEF Typed, PilotTyped

LEMMA FacadeKeepsTold ==
  ASSUME NEW p \in Pilots, FacadeAnswer(p) \/ AskRelease(p)
  PROVE  told' = told
BY DEF FacadeAnswer, AnswerSetup, AnswerReady, EndCall, AnswerAdd, AnswerRemove,
       ConfirmRemove, AnswerRequest, OwnerAgreed, RequesterReady, OwnerLetGo, AskRelease,
       Take, facadeLeaves, channels

-----------------------------------------------------------------------------
(* The one session.                                                        *)

(* The steps of the program that are none of its request to the core.      *)
LEMMA NoCoreStep ==
  ASSUME Typed, OneSession, UNCHANGED core,
         main' = "starting" <=> main = "starting",
         pending' \in [Scripted -> Nat], pending'["OPERATE"] <= pending["OPERATE"],
         linked'[Own] => linked[Own]
  PROVE  OneSession'
<1>1. UNCHANGED <<step, path, reply, sessions>>
  BY DEF core
<1>2. pending["OPERATE"] \in Nat /\ pending'["OPERATE"] \in Nat
  BY DEF OneSession, Scripted
<1> QED
  BY <1>1, <1>2 DEF OneSession

LEMMA PendingSame ==
  ASSUME OneSession, pending' = pending
  PROVE  pending' \in [Scripted -> Nat] /\ pending'["OPERATE"] <= pending["OPERATE"]
<1>1. pending["OPERATE"] \in Nat
  BY DEF OneSession, Scripted
<1> QED
  BY <1>1 DEF OneSession

LEMMA EmitTyped ==
  ASSUME NEW e \in Scripted, e # "OPERATE", OneSession, Emit(e)
  PROVE  pending' \in [Scripted -> Nat] /\ pending'["OPERATE"] = pending["OPERATE"]
BY DEF OneSession, Emit, Scripted

LEMMA Consumed ==
  ASSUME NEW e \in Scripted, OneSession, pending[e] > 0,
         pending' = [pending EXCEPT ![e] = @ - 1]
  PROVE  pending' \in [Scripted -> Nat] /\ pending'["OPERATE"] <= pending["OPERATE"]
<1>1. pending[e] \in Nat /\ pending[e] - 1 \in Nat /\ pending["OPERATE"] \in Nat
  BY DEF OneSession, Scripted
<1> QED
  BY <1>1 DEF OneSession, Scripted

(* Until the program has its answer from the core, only its own OPERATE    *)
(* opens a call for its pilot.                                             *)
LEMMA OwnLink ==
  ASSUME Typed, ReceivedOwn \/ Closing \/ PostedEvent \/ Others \/ Facade
  PROVE  linked'[Own] => linked[Own]
<1>0. Own \in Pilots
  BY ProgramAssumption
<1>1. CASE ReceivedOwn
  <2>1. ReceiveStep(Own)
    BY <1>1 DEF ReceivedOwn, ChannelsOpened, ChannelsClosing, HandoverAccepted,
                RequestDenied, SetupDenied, Unheard, ReceiveStep
  <2> QED
    BY <1>0, <1>1, <2>1 DEF ReceiveStep, SetupAccepted, SetupRejected, ChannelsReadyAccepted,
              ReleaseControlAsked, Released, AddAccepted, AddRejected, RemoveAccepted,
              RemoveRejected, RequestAccepted, RequestRejected, HandoverDone,
              ControlReleased, Drop
<1>2. CASE Closing
  BY <1>2 DEF Closing, Disconnect, DisconnectFails, streams
<1>3. CASE PostedEvent
  <2>1. PICK e \in Scripted \ {"OPERATE"} :
          (Act(e) /\ UNCHANGED facadeVars) \/ UNCHANGED vars
    BY <1>3 DEF PostedEvent
  <2>2. Act(e) => CloseSome(Own) \/ RequestControl(Own) \/ ControlReady(Own) \/ Release(Own)
    BY DEF Act, Scripted
  <2> QED
    BY <2>1, <2>2 DEF CloseSome, RequestControl, ControlReady, Release, StartClosing, vars, streams
<1>4. CASE Others
  <2>1. PICK p \in Pilots \ {Own} : PilotStep(p) /\ UNCHANGED facadeVars
    BY <1>4 DEF Others
  <2> QED
    BY <1>0, <2>1, Bystanders DEF Same
<1>5. CASE Facade
  BY <1>0, <1>5, LinkEnded DEF Facade
<1> QED
  BY <1>1, <1>2, <1>3, <1>4, <1>5

(* The request to the core.                                                *)
LEMMA RequestKeepsSession ==
  ASSUME OneSession, CoreStep, main' = main, pending' = pending, linked' = linked
  PROVE  OneSession'
<1>0. step # "idle"
  BY DEF CoreStep, ConnectToCore, WriteRequest, Perform, ReadReply, ReplyLost, ShutDown,
         Evaluate, Proceed
<1>1. path' = path
  BY DEF CoreStep, ConnectToCore, WriteRequest, Perform, ReadReply, ReplyLost, ShutDown,
         Evaluate, Proceed
<1>2. path = "devices" => main = "starting"
  BY <1>0 DEF OneSession
<1>3. CASE Perform
  <2>1. /\ reply = "none" /\ step' = step /\ step = "reading"
        /\ sessions' = IF reply' = "success" /\ path # "devices" THEN sessions + 1 ELSE sessions
    BY <1>3 DEF Perform
  <2> QED
    BY <1>1, <1>2, <2>1 DEF OneSession
<1>4. CASE Evaluate
  <2>1. /\ step' = IF reply = "success" THEN "ok" ELSE "failed"
        /\ UNCHANGED <<reply, sessions>>
    BY <1>4 DEF Evaluate, Accepted
  <2> QED
    BY <1>1, <1>2, <2>1 DEF OneSession
<1>5. CASE ConnectToCore \/ WriteRequest \/ ReadReply \/ ReplyLost \/ ShutDown
  <2>1. step' # "ok" /\ UNCHANGED <<reply, sessions>>
    BY <1>5 DEF ConnectToCore, WriteRequest, ReadReply, ReplyLost, ShutDown, Proceed, Throw
  <2> QED
    BY <1>1, <1>2, <2>1 DEF OneSession
<1> QED
  BY <1>3, <1>4, <1>5 DEF CoreStep

LEMMA NextSession ==
  ASSUME Typed, OneSession, ProgramNext
  PROVE  OneSession'
<1>0. Own \in Pilots
  BY ProgramAssumption
<1>1. CASE Start
  <2>1. linked' = linked
    BY <1>1 DEF Start, vars, streams
  <2>2. path = "devices" /\ pending["OPERATE"] = 0 /\ ~linked[Own] /\ sessions = 0
    BY <1>1 DEF Start, OneSession
  <2>3. step' = "idle" /\ main' # "starting" /\ UNCHANGED <<path, reply, sessions>>
    BY <1>1 DEF Start, Outcome, MainIs
  <2>4. pending' \in [Scripted -> Nat] /\ pending'["OPERATE"] \in {0, 1}
    <3>1. CASE UNCHANGED pending
      BY <2>2, <3>1 DEF OneSession
    <3>2. CASE Emit("OPERATE")
      BY <2>2, <3>2 DEF OneSession, Emit, Scripted
    <3> QED
      BY <1>1, <3>1, <3>2 DEF Start
  <2> QED
    BY <2>1, <2>2, <2>3, <2>4 DEF OneSession
<1>2. CASE RequestStep
  BY <1>2, RequestKeepsSession DEF RequestStep, vars, streams, simulator
<1>3. CASE PostedOperate
  <2>1. /\ pending' \in [Scripted -> Nat] /\ pending["OPERATE"] > 0
        /\ pending'["OPERATE"] = pending["OPERATE"] - 1
    BY <1>3, Consumed DEF PostedOperate, OneSession, Scripted
  <2>2. pending["OPERATE"] = 1
    BY <2>1 DEF OneSession, Scripted
  <2>3. path = "devices" /\ sessions = 0 /\ ~linked[Own] /\ main # "starting"
    BY <1>3, <2>2 DEF OneSession, PostedOperate, Running
  <2>4. step' = "connecting" /\ path' = "operate" /\ reply' = "none" /\ sessions' = sessions
    BY <1>3 DEF PostedOperate, Execute
  <2>5. linked' = linked /\ main' = main
    BY <1>3 DEF PostedOperate, vars, streams, simulator
  <2> QED
    BY <2>1, <2>2, <2>3, <2>4, <2>5 DEF OneSession
<1>4. CASE Operated
  <2>1. step = "ok" /\ step' = "idle" /\ UNCHANGED <<path, reply, sessions>>
    BY <1>4 DEF Operated, Outcome
  <2>2. main = "running" /\ main' = main /\ pending' = pending
    BY <1>4 DEF Operated, Running, simulator
  <2>3. path # "devices"
    BY <2>1, <2>2 DEF OneSession
  <2> QED
    BY <2>1, <2>2, <2>3 DEF OneSession
<1>5. CASE NotOperated
  <2>1. step' = "idle" /\ UNCHANGED <<path, reply, sessions>>
    BY <1>5 DEF NotOperated, Outcome
  <2>2. main = "running" /\ main' = main /\ pending' = pending /\ linked' = linked
    BY <1>5 DEF NotOperated, Done, Running, vars, streams
  <2> QED
    BY <2>1, <2>2 DEF OneSession
<1>6. CASE PostedEvent
  <2>1. UNCHANGED core /\ (main' = "starting" <=> main = "starting")
    BY <1>6 DEF PostedEvent, simulator
  <2>2. pending' \in [Scripted -> Nat] /\ pending'["OPERATE"] <= pending["OPERATE"]
    BY <1>6, Consumed DEF PostedEvent
  <2>3. linked'[Own] => linked[Own]
    BY <1>6, OwnLink
  <2> QED
    BY <2>1, <2>2, <2>3, NoCoreStep
<1>7. CASE LateEvent
  <2>1. /\ UNCHANGED core /\ (main' = "starting" <=> main = "starting")
        /\ linked'[Own] => linked[Own]
    BY <1>7 DEF LateEvent, vars, streams
  <2>2. pending' \in [Scripted -> Nat] /\ pending'["OPERATE"] <= pending["OPERATE"]
    BY <1>7, Consumed DEF LateEvent
  <2> QED
    BY <2>1, <2>2, NoCoreStep
<1>8. CASE ReceivedOwn
  <2>1. UNCHANGED core /\ (main' = "starting" <=> main = "starting")
    BY <1>8 DEF ReceivedOwn, ChannelsOpened, ChannelsClosing, HandoverAccepted, RequestDenied,
                SetupDenied, Unheard, AddChannels, OnClosed, Done, simulator
  <2>2. \/ Emit("CLOSE_CHANNELS") \/ Emit("REQUEST_CONTROL") \/ Emit("CONTROL_READY")
        \/ Emit("RELEASE") \/ pending' = pending
    BY <1>8 DEF ReceivedOwn, ChannelsOpened, ChannelsClosing, HandoverAccepted, RequestDenied,
                SetupDenied, Unheard
  <2>3. pending["OPERATE"] \in Nat
    BY DEF OneSession, Scripted
  <2>4. pending' \in [Scripted -> Nat] /\ pending'["OPERATE"] <= pending["OPERATE"]
    <3>1. CASE pending' = pending
      BY <2>3, <3>1 DEF OneSession
    <3>2. ASSUME NEW e \in Scripted \ {"OPERATE"}, Emit(e)
          PROVE  pending' \in [Scripted -> Nat] /\ pending'["OPERATE"] <= pending["OPERATE"]
      <4>1. pending' \in [Scripted -> Nat] /\ pending'["OPERATE"] = pending["OPERATE"]
        BY <3>2, EmitTyped
      <4> QED
        BY <2>3, <4>1
    <3> QED
      BY <2>2, <3>1, <3>2 DEF Scripted
  <2>5. linked'[Own] => linked[Own]
    BY <1>8, OwnLink
  <2> QED
    BY <2>1, <2>4, <2>5, NoCoreStep
<1>9. CASE Closing
  <2>1. UNCHANGED <<core, pending>> /\ main = "running" /\ main' # "starting"
    BY <1>9 DEF Closing, Running, Done, ClosingFails, MainIs
  <2>2. pending' \in [Scripted -> Nat] /\ pending'["OPERATE"] <= pending["OPERATE"]
    BY <2>1, PendingSame
  <2>3. linked'[Own] => linked[Own]
    BY <1>9, OwnLink
  <2> QED
    BY <2>1, <2>2, <2>3, NoCoreStep
<1>10. CASE Exit \/ Joined \/ Traffic
  <2>1. UNCHANGED <<core, pending, linked>>
    BY <1>10 DEF Exit, Joined, Traffic, vars, streams
  <2>2. main' = "starting" <=> main = "starting"
    BY <1>10 DEF Exit, Joined, Traffic, Leave, Join, Running, MainIs, ThreadStep, Wake, SendNext
  <2>3. pending' \in [Scripted -> Nat] /\ pending'["OPERATE"] <= pending["OPERATE"]
    BY <2>1, PendingSame
  <2> QED
    BY <2>1, <2>2, <2>3, NoCoreStep
<1>11. CASE Others \/ Facade
  <2>1. UNCHANGED <<core, pending, main>>
    BY <1>11 DEF Others, Facade, Outside, simulator
  <2>2. pending' \in [Scripted -> Nat] /\ pending'["OPERATE"] <= pending["OPERATE"]
    BY <2>1, PendingSame
  <2>3. linked'[Own] => linked[Own]
    BY <1>11, OwnLink
  <2> QED
    BY <2>1, <2>2, <2>3, NoCoreStep
<1> QED
  BY <1>1, <1>2, <1>3, <1>4, <1>5, <1>6, <1>7, <1>8, <1>9, <1>10, <1>11 DEF ProgramNext

-----------------------------------------------------------------------------
(* The simulator.                                                          *)

(* The simulator's operations keep its types.  It has nothing to send on   *)
(* when it knows no channel.                                               *)
LEMMA SimulatorTyped ==
  ASSUME SimulatorTypeOK(Channels), Walk,
         NEW ids \in SUBSET Channels, NEW gone,
         \/ ~crashed /\ AddChannels(ids)
         \/ OnClosed(gone) \/ Done \/ ThreadStep \/ Leave \/ Join \/ ClosingFails
         \/ UNCHANGED simulator
  PROVE  SimulatorTypeOK(Channels)'
<1>1. CASE ~crashed /\ AddChannels(ids)
  <2>1. known = {} => left = {}
    BY <1>1 DEF Walk
  <2>2. crashed' \in BOOLEAN
    BY <1>1 DEF AddChannels
  <2>3. /\ known' = known \cup ids /\ UNCHANGED <<left, done, main>>
        /\ walker' = IF known = {} THEN "asleep" ELSE walker
    BY <1>1 DEF AddChannels
  <2> QED
    BY <2>1, <2>2, <2>3 DEF SimulatorTypeOK
<1>2. CASE OnClosed(gone) \/ Done
  BY <1>2 DEF OnClosed, Done, SimulatorTypeOK
<1>3. CASE ThreadStep
  BY <1>3 DEF ThreadStep, Wake, SendNext, SimulatorTypeOK
<1>4. CASE Leave \/ Join \/ ClosingFails
  BY <1>4 DEF Leave, Join, ClosingFails, MainIs, SimulatorTypeOK
<1>5. CASE UNCHANGED simulator
  BY <1>5 DEF simulator, SimulatorTypeOK
<1> QED
  BY <1>1, <1>2, <1>3, <1>4, <1>5

LEMMA NextSimulator ==
  ASSUME Typed, SimulatorTypeOK(Channels), Walk, ProgramNext
  PROVE  SimulatorTypeOK(Channels)'
<1>0. arg[Own] \in SUBSET Channels
  BY ProgramAssumption, QueueTypes
<1>1. CASE Start
  BY <1>1 DEF Start, MainIs, SimulatorTypeOK
<1>2. CASE LateEvent
  BY <1>2 DEF LateEvent, SimulatorTypeOK
<1>3. ASSUME UNCHANGED simulator PROVE SimulatorTypeOK(Channels)'
  BY <1>3 DEF simulator, SimulatorTypeOK
<1>4. CASE RequestStep \/ PostedOperate \/ Operated \/ PostedEvent \/ Others \/ Facade
  BY <1>3, <1>4 DEF RequestStep, PostedOperate, Operated, PostedEvent, Others, Facade, Outside
<1>5. CASE NotOperated \/ Closing \/ Exit \/ Joined \/ Traffic
  <2>1. Done \/ ClosingFails \/ Leave \/ Join \/ ThreadStep
    BY <1>5 DEF NotOperated, Closing, Exit, Joined, Traffic
  <2> QED
    BY <2>1, SimulatorTyped
<1>6. CASE Running /\ ChannelsOpened
  <2>1. ~crashed /\ AddChannels(arg[Own])
    BY <1>6 DEF Running, ChannelsOpened
  <2> QED
    BY <1>0, <2>1, SimulatorTyped
<1>7. CASE ChannelsClosing
  <2>1. OnClosed(told[Own] \ told'[Own])
    BY <1>7 DEF ChannelsClosing
  <2> QED
    BY <2>1, SimulatorTyped
<1>8. CASE SetupDenied
  BY <1>8, SimulatorTyped DEF SetupDenied
<1>9. CASE HandoverAccepted \/ RequestDenied \/ Unheard
  BY <1>3, <1>9 DEF HandoverAccepted, RequestDenied, Unheard
<1> QED
  BY <1>1, <1>2, <1>4, <1>5, <1>6, <1>7, <1>8, <1>9 DEF ProgramNext, ReceivedOwn

(* What the simulator knows stays what its pilot has told it.              *)
LEMMA WalkSame ==
  ASSUME Walk, told'[Own] = told[Own], known' = known,
         crashed => crashed',
         left' \subseteq left \cup known,
         main' \in {"leaving", "ended"} => main \in {"leaving", "ended"} \/ told[Own] = {}
  PROVE  Walk'
BY DEF Walk

(* The steps that tell the listener of the program's pilot nothing.        *)
LEMMA OwnUntold ==
  ASSUME Typed, PostedEvent \/ Closing \/ Others \/ Facade
  PROVE  told'[Own] = told[Own]
<1>0. Own \in Pilots
  BY ProgramAssumption
<1>1. CASE PostedEvent
  <2>1. PICK e \in Scripted \ {"OPERATE"} :
          (Act(e) /\ UNCHANGED facadeVars) \/ UNCHANGED vars
    BY <1>1 DEF PostedEvent
  <2>2. Act(e) => CloseSome(Own) \/ RequestControl(Own) \/ ControlReady(Own) \/ Release(Own)
    BY DEF Act, Scripted
  <2> QED
    BY <2>1, <2>2 DEF CloseSome, RequestControl, ControlReady, Release, StartClosing, vars,
                      channels
<1>2. CASE Closing
  BY <1>2 DEF Closing, Disconnect, DisconnectFails, channels
<1>3. CASE Others
  <2>1. PICK p \in Pilots \ {Own} : PilotStep(p) /\ UNCHANGED facadeVars
    BY <1>3 DEF Others
  <2> QED
    BY <1>0, <2>1, Bystanders DEF Same
<1>4. CASE Facade
  <2>1. PICK p \in Pilots : FacadeAnswer(p) \/ AskRelease(p)
    BY <1>4 DEF Facade
  <2> QED
    BY <2>1, FacadeKeepsTold
<1> QED
  BY <1>1, <1>2, <1>3, <1>4

(* A pilot that is not connected has no channel, and has told of none.     *)
LEMMA Untold ==
  ASSUME IInv, state[Own] \notin Connected
  PROVE  told[Own] = {}
<1>1. PilotInv(Own)
  BY ProgramAssumption DEF IInv
<1> QED
  BY <1>1 DEF PilotInv, Knows

LEMMA NextWalk ==
  ASSUME IInv, SimulatorTypeOK(Channels), OneSession, Walk, ProgramNext
  PROVE  Walk'
<1>0. Typed /\ PilotInv(Own) /\ Own \in Pilots /\ told \in [Pilots -> SUBSET Channels]
  BY ProgramAssumption DEF IInv, Typed, PilotTyped
<1>1. CASE Start
  <2>1. ~linked[Own]
    BY <1>1 DEF Start, OneSession
  <2>2. state[Own] \notin Connected
    BY <1>0, <2>1 DEF PilotInv, Asks
  <2>3. told[Own] = {}
    BY <2>2, Untold
  <2>4. told' = told /\ UNCHANGED <<known, left, crashed>>
    BY <1>1 DEF Start, MainIs, vars, channels
  <2> QED
    BY <2>3, <2>4, WalkSame
<1>2. ASSUME told'[Own] = told[Own], UNCHANGED simulator PROVE Walk'
  BY <1>2, WalkSame DEF simulator
<1>3. CASE RequestStep \/ PostedOperate \/ Operated
  <2>1. told'[Own] = told[Own] /\ UNCHANGED simulator
    BY <1>3 DEF RequestStep, PostedOperate, Operated, Operate, vars, channels
  <2> QED
    BY <1>2, <2>1
<1>4. CASE PostedEvent \/ Others \/ Facade
  <2>1. UNCHANGED simulator
    BY <1>4 DEF PostedEvent, Others, Facade, Outside
  <2> QED
    BY <1>0, <1>2, <1>4, <2>1, OwnUntold
<1>5. CASE NotOperated
  <2>1. told' = told /\ UNCHANGED <<known, left, main, crashed>>
    BY <1>5 DEF NotOperated, Done, vars, channels
  <2> QED
    BY <2>1, WalkSame
<1>6. CASE LateEvent
  <2>1. told' = told /\ UNCHANGED <<known, left, main>> /\ ~crashed
    BY <1>6 DEF LateEvent, vars, channels
  <2> QED
    BY <2>1, WalkSame
<1>7. CASE Running /\ ChannelsOpened
  <2>1. told'[Own] = told[Own] \cup arg[Own]
    BY <1>0, <1>7 DEF ChannelsOpened, ChannelsReadyAccepted
  <2>2. known' = known \cup arg[Own] /\ left' = left /\ main' = main
    BY <1>7 DEF ChannelsOpened, AddChannels
  <2> QED
    BY <1>7, <2>1, <2>2 DEF Walk, Running
<1>8. CASE Running /\ ChannelsClosing
  <2>1. told'[Own] \subseteq told[Own]
    BY <1>0, <1>8 DEF ChannelsClosing, RemoveAccepted, Released, CloseChannels
  <2>2. OnClosed(told[Own] \ told'[Own])
    BY <1>8 DEF ChannelsClosing
  <2>3. /\ told[Own] \ told'[Own] # {} => left = {}
        /\ known' = known \ (told[Own] \ told'[Own])
        /\ UNCHANGED <<left, main, crashed>>
    BY <2>2 DEF OnClosed, SimulatorTypeOK
  <2> QED
    BY <1>8, <2>1, <2>3 DEF Walk, Running
<1>9. CASE HandoverAccepted \/ RequestDenied \/ Unheard
  <2>1. UNCHANGED simulator
    BY <1>9 DEF HandoverAccepted, RequestDenied, Unheard
  <2>2. told' = told
    BY <1>9 DEF HandoverAccepted, RequestDenied, Unheard, RequestAccepted, RequestRejected,
                SetupAccepted, ReleaseControlAsked, RemoveRejected, HandoverDone,
                ControlReleased, Drop, channels
  <2> QED
    BY <1>2, <2>1, <2>2
<1>10. CASE SetupDenied
  <2>1. told' = told /\ UNCHANGED <<known, left, main, crashed>>
    BY <1>10 DEF SetupDenied, SetupRejected, Done, channels
  <2> QED
    BY <2>1, WalkSame
<1>11. CASE Closing
  <2>1. state[Own] = "Disconnecting"
    BY <1>11 DEF Closing, Disconnect, DisconnectFails
  <2>2. told[Own] = {}
    BY <2>1, Untold DEF Connected
  <2>3. told'[Own] = told[Own]
    BY <1>0, <1>11, OwnUntold
  <2>4. UNCHANGED <<known, left, crashed>>
    BY <1>11 DEF Closing, Done, ClosingFails, MainIs
  <2> QED
    BY <2>2, <2>3, <2>4, WalkSame
<1>12. CASE Exit
  <2>1. told[Own] = {}
    BY <1>12, Untold DEF Exit, Connected
  <2>2. told' = told /\ UNCHANGED <<known, left, crashed>>
    BY <1>12 DEF Exit, Leave, MainIs, vars, channels
  <2> QED
    BY <2>1, <2>2, WalkSame
<1>13. CASE Joined
  <2>1. told' = told /\ UNCHANGED <<known, left, crashed>> /\ main = "leaving"
    BY <1>13 DEF Joined, Join, MainIs, vars, channels
  <2> QED
    BY <2>1, WalkSame
<1>14. CASE Traffic
  <2>1. /\ told' = told /\ UNCHANGED <<known, main, crashed>>
        /\ left' \subseteq left \cup known
    BY <1>14 DEF Traffic, ThreadStep, Wake, SendNext, vars, channels
  <2> QED
    BY <2>1, WalkSame
<1> QED
  BY <1>1, <1>3, <1>4, <1>5, <1>6, <1>7, <1>8, <1>9, <1>10, <1>11, <1>12, <1>13, <1>14
     DEF ProgramNext, ReceivedOwn

-----------------------------------------------------------------------------
LEMMA InitProgram == ProgramInit => ProgramInv
<1> SUFFICES ASSUME ProgramInit PROVE ProgramInv
  OBVIOUS
<1>1. IInv
  BY InitInv DEF ProgramInit, IInv
<1>2. SimulatorTypeOK(Channels)
  BY DEF ProgramInit, SimulatorInit, SimulatorTypeOK
<1>3. linked[Own] = FALSE /\ told[Own] = {}
  BY ProgramAssumption DEF ProgramInit, Init, PilotInit
<1>4. OneSession
  BY <1>3 DEF ProgramInit, NonePending, Scripted, OneSession
<1>5. Walk
  BY <1>3 DEF ProgramInit, SimulatorInit, Walk
<1> QED
  BY <1>1, <1>2, <1>4, <1>5 DEF ProgramInv

LEMMA NextProgram == ProgramInv /\ [ProgramNext]_programVars => ProgramInv'
<1> SUFFICES ASSUME ProgramInv, [ProgramNext]_programVars PROVE ProgramInv'
  OBVIOUS
<1>0. IInv /\ Typed /\ SimulatorTypeOK(Channels) /\ OneSession /\ Walk
  BY DEF ProgramInv, IInv
<1>1. IInv'
  BY <1>0, ProgramStep, Inductive
<1>2. CASE ProgramNext
  BY <1>0, <1>1, <1>2, NextSimulator, NextSession, NextWalk DEF ProgramInv
<1>3. CASE UNCHANGED programVars
  <2>1. UNCHANGED <<told, linked>> /\ UNCHANGED <<simulator, core, pending>>
    BY <1>3 DEF programVars, vars, channels, streams
  <2>2. SimulatorTypeOK(Channels)'
    BY <1>0, <2>1 DEF simulator, SimulatorTypeOK
  <2>3. OneSession'
    BY <1>0, <2>1 DEF simulator, core, OneSession
  <2>4. Walk'
    BY <1>0, <2>1 DEF simulator, Walk
  <2> QED
    BY <1>1, <2>2, <2>3, <2>4 DEF ProgramInv
<1> QED
  BY <1>2, <1>3

THEOREM ProgramInvariance == ProgramSpec => []ProgramInv
BY InitProgram, NextProgram, PTL DEF ProgramSpec

(* For any number of other pilots: a pilot is set up at the facade only    *)
(* after the core has opened a session for it, and one run of the program  *)
(* has at most one.                                                        *)
THEOREM OneSessionOfCore == ProgramSpec => []SetupHasSession
<1>1. ProgramInv => SetupHasSession
  BY DEF ProgramInv, OneSession, SetupHasSession
<1> QED
  BY <1>1, ProgramInvariance, PTL

(* The traffic thread of pilotSim finds every channel it is about to send  *)
(* on, whatever the other pilots and the facade do, and main destroys no   *)
(* pilot whose channels the simulator still knows.                         *)
THEOREM ThreadFindsChannel == ProgramSpec => []TrafficFindsChannel
<1>1. ProgramInv => TrafficFindsChannel
  <2> SUFFICES ASSUME ProgramInv PROVE TrafficFindsChannel
    OBVIOUS
  <2>1. told[Own] \subseteq open[Own]
    BY ProgramAssumption DEF ProgramInv, IInv, PilotInv, Knows
  <2> QED
    BY <2>1 DEF ProgramInv, Walk, TrafficFindsChannel
<1> QED
  BY <1>1, ProgramInvariance, PTL
=============================================================================
