------------------------ MODULE DeviceProgramProofs ------------------------
(***************************************************************************)
(* Proofs about the program deviceSim, for any set of channels and all     *)
(* bounds: what is proved of the device and its facade holds in it, and    *)
(* its traffic thread finds the channels it sends on.                      *)
(***************************************************************************)
EXTENDS DeviceProgram, DeviceFacadeProofs

(* The program's own variables have their types, but for the bound on the  *)
(* RELEASEs.                                                               *)
Typed == /\ SimulatorTypeOK(Channels)
         /\ CoreTypeOK
         /\ attach \in BOOLEAN
         /\ releases \in Nat

(* RELEASE is posted once for an operation, when the device has ended it.  *)
PostedOnce ==
  /\ releases <= operations
  /\ operation # "none" /\ ~Has(up, Ends) => releases < operations

(* What the simulator knows of the device's channels.                      *)
Walk ==
  ~crashed => /\ known = told
              /\ left \subseteq known
              /\ main \in {"leaving", "ended"} => known = {}

(* No handler has thrown in a device that is disconnected.                 *)
Resting == state = "Disconnected" => live

ProgramInv == IInv /\ Typed /\ PostedOnce /\ Walk /\ Resting

-----------------------------------------------------------------------------
(* The program's steps are steps of the device and its facade.             *)
LEMMA StepOfDevice ==
  ASSUME ProgramNext
  PROVE  \/ DeviceStep /\ UNCHANGED facade
         \/ FacadeAnswer \/ FacadeInitiative
         \/ UNCHANGED vars
<1>1. CASE PostedAttach \/ RequestStep \/ Traffic \/ Exit
  BY <1>1 DEF PostedAttach, RequestStep, Traffic, Exit
<1>2. CASE Attached \/ NotAttached
  BY <1>2 DEF Attached, NotAttached, DeviceStep, UserStep
<1>3. CASE PostedRelease
  BY <1>3 DEF PostedRelease, DeviceStep, UserStep, vars
<1>4. CASE Received
  BY <1>4 DEF Received, SetupAnswered, Opened, Closed, Ended, Unheard, DeviceStep, ReceiveStep
<1>5. CASE Closing
  BY <1>5 DEF Closing, DeviceStep
<1>6. CASE Facade
  BY <1>6 DEF Facade
<1> QED
  BY <1>1, <1>2, <1>3, <1>4, <1>5, <1>6 DEF ProgramNext

LEMMA ProgramStep == [ProgramNext]_programVars => [Next]_vars
<1> SUFFICES ASSUME [ProgramNext]_programVars PROVE [Next]_vars
  OBVIOUS
<1>1. CASE ProgramNext
  BY <1>1, StepOfDevice DEF Next, DeviceStep
<1>2. CASE UNCHANGED programVars
  BY <1>2 DEF programVars
<1> QED
  BY <1>1, <1>2

(* The program's device and facade are a device and its facade: all that   *)
(* is proved of those holds in the program.                                *)
THEOREM RunsTheDevice == ProgramSpec => Spec
<1>1. ProgramInit => Init
  BY DEF ProgramInit
<1> QED
  BY <1>1, ProgramStep, PTL DEF ProgramSpec, Spec

-----------------------------------------------------------------------------
(* The types.                                                              *)
LEMMA CoreTyped ==
  ASSUME CoreTypeOK, CoreStep \/ Execute("attach") \/ (\E o : Outcome(o)) \/ UNCHANGED core
  PROVE  CoreTypeOK'
<1>1. CASE ConnectToCore \/ WriteRequest \/ ReadReply \/ ShutDown
  BY <1>1 DEF ConnectToCore, WriteRequest, ReadReply, ShutDown, Proceed, Throw, CoreTypeOK
<1>2. CASE Perform
  <2>1. sessions' \in {sessions, sessions + 1} /\ sessions \in Nat
    BY <1>2 DEF Perform, CoreTypeOK
  <2>2. reply' \in {"success", "refusal", "garbled"}
    BY <1>2 DEF Perform
  <2> QED
    BY <1>2, <2>1, <2>2 DEF Perform, CoreTypeOK
<1>3. CASE ReplyLost \/ Evaluate
  BY <1>3 DEF ReplyLost, Evaluate, Throw, CoreTypeOK
<1>4. CASE Execute("attach")
  BY <1>4 DEF Execute, CoreTypeOK
<1>5. CASE \E o : Outcome(o)
  BY <1>5 DEF Outcome, CoreTypeOK
<1>6. CASE UNCHANGED core
  BY <1>6 DEF core, CoreTypeOK
<1> QED
  BY <1>1, <1>2, <1>3, <1>4, <1>5, <1>6 DEF CoreStep

LEMMA CoreInProgram ==
  ASSUME ProgramNext
  PROVE  CoreStep \/ Execute("attach") \/ (\E o : Outcome(o)) \/ UNCHANGED core
BY DEF ProgramNext, PostedAttach, RequestStep, Attached, NotAttached, PostedRelease,
       Received, Closing, Facade, Traffic, Exit

(* The simulator's operations keep its types.  It has nothing to send on   *)
(* when it knows no channel.                                               *)
LEMMA SimulatorTyped ==
  ASSUME SimulatorTypeOK(Channels), Walk,
         NEW ids \in SUBSET Channels,
         \/ ~crashed /\ AddChannels(ids)
         \/ OnClosed(ids) \/ Done \/ ThreadStep \/ Leave \/ Join \/ ClosingFails
         \/ UNCHANGED simulator
  PROVE  SimulatorTypeOK(Channels)'
<1>1. CASE ~crashed /\ AddChannels(ids)
  <2>1. known = {} => left = {}
    BY <1>1 DEF Walk
  <2>2. crashed' \in BOOLEAN
    BY <1>1 DEF AddChannels
  <2>3. /\ known' = known \cup ids /\ UNCHANGED <<left, done, main>>
        /\ walker' = IF known = {} THEN "asleep" ELSE walker
    BY <1>1 DEF AddChannels
  <2> QED
    BY <2>1, <2>2, <2>3 DEF SimulatorTypeOK
<1>2. CASE OnClosed(ids) \/ Done
  BY <1>2 DEF OnClosed, Done, SimulatorTypeOK
<1>3. CASE ThreadStep
  BY <1>3 DEF ThreadStep, Wake, SendNext, SimulatorTypeOK
<1>4. CASE Leave \/ Join \/ ClosingFails
  BY <1>4 DEF Leave, Join, ClosingFails, MainIs, SimulatorTypeOK
<1>5. CASE UNCHANGED simulator
  BY <1>5 DEF simulator, SimulatorTypeOK
<1> QED
  BY <1>1, <1>2, <1>3, <1>4, <1>5

(* What the steps of the program do to the simulator.                      *)
LEMMA SimulatorStep ==
  ASSUME IInv, Typed, ProgramNext
  PROVE  \E ids \in SUBSET Channels :
           \/ ~crashed /\ AddChannels(ids)
           \/ OnClosed(ids) \/ Done \/ ThreadStep \/ Leave \/ Join \/ ClosingFails
           \/ UNCHANGED simulator
<1>1. CASE PostedAttach \/ RequestStep \/ Attached \/ NotAttached \/ PostedRelease
  BY <1>1 DEF PostedAttach, RequestStep, Attached, NotAttached, PostedRelease
<1>2. CASE Received
  <2>1. TypeOK'
    BY <1>2, DeviceTyped DEF Received, SetupAnswered, Opened, Closed, Ended, Unheard, IInv,
                             DeviceStep, ReceiveStep
  <2>2. told \in SUBSET Channels /\ told' \in SUBSET Channels
    BY <2>1 DEF IInv, TypeOK, DeviceTypeOK
  <2>3. (told' \ told) \in SUBSET Channels /\ (told \ told') \in SUBSET Channels
    BY <2>2
  <2> QED
    BY <1>2, <2>2, <2>3 DEF Received, SetupAnswered, Opened, Closed, Ended, Unheard, Running
<1>3. CASE Closing \/ Facade \/ Traffic \/ Exit
  BY <1>3 DEF Closing, Facade, Traffic, Exit
<1> QED
  BY <1>1, <1>2, <1>3 DEF ProgramNext

(* The RELEASEs.                                                           *)
LEMMA ReleasesTyped ==
  ASSUME Typed, ProgramNext
  PROVE  attach' \in BOOLEAN /\ releases' \in Nat
<1>1. CASE PostedAttach \/ RequestStep \/ Attached \/ NotAttached
  BY <1>1 DEF PostedAttach, RequestStep, Attached, NotAttached, posted, Typed
<1>2. CASE PostedRelease
  BY <1>2 DEF PostedRelease, Typed
<1>3. CASE Received
  BY <1>3 DEF Received, SetupAnswered, Opened, Closed, Ended, Unheard, Typed
<1>4. CASE Closing \/ Facade \/ Traffic \/ Exit
  BY <1>4 DEF Closing, Facade, Traffic, Exit, posted, Typed
<1> QED
  BY <1>1, <1>2, <1>3, <1>4 DEF ProgramNext

LEMMA NextTyped ==
  ASSUME IInv, Typed, Walk, ProgramNext
  PROVE  Typed'
<1>1. CoreTypeOK'
  BY CoreInProgram, CoreTyped DEF Typed
<1>2. SimulatorTypeOK(Channels)'
  BY SimulatorStep, SimulatorTyped DEF Typed
<1> QED
  BY <1>1, <1>2, ReleasesTyped DEF Typed

-----------------------------------------------------------------------------
(* The RELEASEs posted.                                                    *)

(* No operation ends: what there was of its end on its way to the facade   *)
(* is still there, or there was no operation.                              *)
LEMMA NoneEnds ==
  ASSUME Typed, PostedOnce, releases' \in Nat, releases' <= releases,
         UNCHANGED facade, Has(up, Ends) => Has(up', Ends) \/ operation = "none",
         IInv
  PROVE  PostedOnce'
<1>1. UNCHANGED <<operation, operations>>
  BY DEF facade, records
<1>2. releases \in Nat /\ operations \in Nat
  BY OperationsAssumption DEF Typed, IInv, TypeOK
<1> QED
  BY <1>1, <1>2 DEF PostedOnce

(* What the device sends does not take the end of an operation back.       *)
LEMMA SentKeeps ==
  ASSUME IInv, NEW m \in Messages, up' = Append(up, m)
  PROVE  Has(up, Ends) => Has(up', Ends)
<1>1. up \in Seq(Messages)
  BY DEF IInv, TypeOK, DeviceTypeOK
<1> QED
  BY <1>1, PutNamed

LEMMA DeviceEnds ==
  ASSUME IInv, DeviceStep, UNCHANGED facade
  PROVE  OperationEnded \/ (Has(up, Ends) => Has(up', Ends) \/ operation = "none")
<1>0. TypeOK
  BY DEF IInv
<1>1. CASE UNCHANGED up
  BY <1>1
<1>2. CASE state \in {"Disconnected", "Disconnecting"}
  <2>1. ~admitted
    BY <1>2 DEF IInv, Call
  <2> QED
    BY <2>1 DEF IInv, Call
<1>3. CASE Release
  <2>1. /\ Message("RELEASE", "NONE", {}) \in Messages
        /\ up' = Append(up, Message("RELEASE", "NONE", {}))
    BY <1>3, MessageType DEF Release, Send, Commands
  <2> QED
    BY <2>1, SentKeeps
<1>4. CASE ChannelsAttached
  <2>1. \/ UNCHANGED up
        \/ \E C \in SUBSET Channels : up' = Append(up, Message("ATTACH_CHANNELS", "ACCEPTED", C))
    BY <1>4, AttachingStep
  <2>2. ASSUME NEW C \in SUBSET Channels PROVE Message("ATTACH_CHANNELS", "ACCEPTED", C) \in Messages
    BY Answers DEF Commands
  <2> QED
    BY <2>1, <2>2, SentKeeps
<1>5. CASE ChannelsReleased
  <2>1. /\ up' = Append(up, Message("RELEASE_CHANNELS", "ACCEPTED", Head(down).ids))
        /\ Head(down).ids \in SUBSET Channels
    BY <1>0, <1>5, TakeDown DEF ChannelsReleased, Send
  <2>2. Message("RELEASE_CHANNELS", "ACCEPTED", Head(down).ids) \in Messages
    BY <2>1, Answers DEF Commands
  <2> QED
    BY <2>1, <2>2, SentKeeps
<1>6. CASE HandleHeartbeat
  <2>1. /\ up' = Append(up, Heartbeat("ACCEPTED", Head(down).key))
        /\ Head(down) \in Messages
    BY <1>0, <1>6, TakeDown DEF HandleHeartbeat, Send
  <2>2. Heartbeat("ACCEPTED", Head(down).key) \in Messages
    BY <2>1, Kinds, BeatAnswers
  <2> QED
    BY <2>1, <2>2, SentKeeps
<1> QED
  BY <1>1, <1>2, <1>3, <1>4, <1>5, <1>6
     DEF DeviceStep, UserStep, ReceiveStep, AttachFails, Attach, Go, Setup, Released, Drop,
         Disconnect, DisconnectFails, stream

(* The facade starts an operation when there is none, and no other step of *)
(* it begins to wait for the end of one.                                   *)
LEMMA FacadeStarts ==
  ASSUME IInv, PostedOnce, Typed, FacadeAnswer \/ FacadeInitiative, UNCHANGED releases
  PROVE  PostedOnce'
<1>0. TypeOK /\ releases \in Nat /\ operations \in Nat /\ up \in Seq(Messages)
  BY OperationsAssumption DEF Typed, IInv, TypeOK, DeviceTypeOK
<1>1. CASE StartOperation
  <2>1. operations' = operations + 1
    BY <1>1 DEF StartOperation
  <2> QED
    BY <1>0, <2>1 DEF PostedOnce
<1>2. CASE AttachMore \/ ReleaseSome \/ EndOperation \/ Beat
  <2>1. /\ operations' = operations /\ up' = up
        /\ operation' # "none" => operation # "none"
    BY <1>2 DEF AttachMore, ReleaseSome, EndOperation, Beat, Initiate, records
  <2> QED
    BY <2>1 DEF PostedOnce
<1>3. CASE AnswerSetup
  <2>1. ~admitted /\ operations' = operations /\ operation' = operation
    BY <1>0, <1>3, SetupComesFirst DEF AnswerSetup, records, IInv
  <2>2. operation = "none"
    BY <2>1 DEF IInv, Call
  <2> QED
    BY <2>1, <2>2 DEF PostedOnce
<1>4. ASSUME NEW command, NEW response, Take(command, response), command # "OPERATION_ENDED",
             operations' = operations, operation' \in {operation, "none"}
      PROVE  PostedOnce'
  <2>1. /\ up # <<>> /\ up' = Tail(up) /\ Head(up) \in Messages
        /\ Head(up).command = command
    BY <1>0, <1>4, TakeUp
  <2>2. Head(up) \notin Ends
    BY <1>4, <2>1, Kinds DEF Ends
  <2>3. Has(up', Ends) <=> Has(up, Ends)
    BY <1>0, <2>1, <2>2, TakeNamed
  <2> QED
    BY <1>4, <2>3 DEF PostedOnce
<1>5. CASE AnswerRelease
  BY <1>4, <1>5 DEF AnswerRelease, NoRecords, records
<1>6. CASE ChannelsConfirmed
  BY <1>4, <1>6 DEF ChannelsConfirmed
<1>7. CASE ReleaseConfirmed
  BY <1>4, <1>7 DEF ReleaseConfirmed
<1>8. CASE BeatAnswered
  BY <1>4, <1>8 DEF BeatAnswered, records
<1>9. CASE EndConfirmed
  BY <1>9 DEF EndConfirmed, NoRecords, PostedOnce
<1> QED
  BY <1>1, <1>2, <1>3, <1>5, <1>6, <1>7, <1>8, <1>9 DEF FacadeAnswer, FacadeInitiative

(* The device ends an operation that the facade still waits for.           *)
LEMMA EndIsAwaited ==
  ASSUME IInv, OperationEnded, UNCHANGED facade
  PROVE  operation # "none" /\ ~Has(up, Ends) /\ Has(up', Ends)
<1>1. admitted /\ live /\ state = "Flying"
  BY TakenInOperation DEF OperationEnded
<1>2. operation # "none" /\ ~Has(up, Ends)
  BY <1>1 DEF IInv, Admitted, Following
<1>3. /\ Message("OPERATION_ENDED", "ACCEPTED", {}) \in Messages
      /\ Message("OPERATION_ENDED", "ACCEPTED", {}) \in Ends
  BY Answers DEF Commands, Ends
<1>4. /\ up' = Append(up, Message("OPERATION_ENDED", "ACCEPTED", {}))
      /\ up \in Seq(Messages)
  BY DEF OperationEnded, Send, IInv, TypeOK, DeviceTypeOK
<1> QED
  BY <1>2, <1>3, <1>4, PutNamed

LEMMA NextPosted ==
  ASSUME IInv, Typed, PostedOnce, ProgramNext
  PROVE  PostedOnce'
<1>0. releases \in Nat /\ operations \in Nat
  BY OperationsAssumption DEF Typed, IInv, TypeOK
<1>1. CASE UNCHANGED vars /\ releases' \in Nat /\ releases' <= releases
  BY <1>0, <1>1 DEF vars, facade, records, stream, PostedOnce
<1>2. ASSUME DeviceStep, UNCHANGED facade, releases' \in Nat, releases' <= releases
      PROVE  PostedOnce'
  <2>1. CASE OperationEnded
    <3>1. Has(up', Ends) /\ operations' = operations
      BY <1>2, <2>1, EndIsAwaited DEF facade
    <3> QED
      BY <1>0, <1>2, <3>1 DEF PostedOnce
  <2>2. CASE ~OperationEnded
    BY <1>2, <2>2, DeviceEnds, NoneEnds
  <2> QED
    BY <2>1, <2>2
<1>3. CASE Received
  <2>1. CASE Ended
    <3>1. releases' = releases + 1 /\ OperationEnded /\ UNCHANGED facade
      BY <1>3, <2>1 DEF Ended, Received
    <3>2. releases < operations /\ Has(up', Ends) /\ operations' = operations
      BY <3>1, EndIsAwaited DEF PostedOnce, facade
    <3> QED
      BY <1>0, <3>1, <3>2 DEF PostedOnce
  <2>2. CASE SetupAnswered \/ Opened \/ Closed \/ Unheard
    <3>1. DeviceStep /\ UNCHANGED facade /\ releases' = releases
      BY <1>3, <2>2 DEF Received, SetupAnswered, Opened, Closed, Unheard, DeviceStep, ReceiveStep
    <3> QED
      BY <1>0, <1>2, <3>1
  <2> QED
    BY <1>3, <2>1, <2>2 DEF Received
<1>4. CASE Attached \/ NotAttached \/ Closing
  <2>1. DeviceStep /\ UNCHANGED facade /\ releases' = releases
    BY <1>4 DEF Attached, NotAttached, Closing, posted, DeviceStep, UserStep
  <2> QED
    BY <1>0, <1>2, <2>1
<1>5. CASE PostedRelease
  <2>1. UNCHANGED facade /\ releases' \in Nat /\ releases' <= releases
    BY <1>0, <1>5 DEF PostedRelease
  <2>2. CASE Release
    BY <1>2, <2>1, <2>2 DEF DeviceStep, UserStep
  <2>3. CASE UNCHANGED <<device, stream>>
    BY <1>1, <2>1, <2>3 DEF vars
  <2> QED
    BY <1>5, <2>2, <2>3 DEF PostedRelease
<1>6. CASE PostedAttach \/ RequestStep \/ Traffic \/ Exit
  BY <1>0, <1>1, <1>6 DEF PostedAttach, RequestStep, Traffic, Exit, posted
<1>7. CASE Facade
  BY <1>7, FacadeStarts DEF Facade, posted
<1> QED
  BY <1>3, <1>4, <1>5, <1>6, <1>7 DEF ProgramNext

-----------------------------------------------------------------------------
(* The channels of the simulator.                                          *)

(* A handler throws while the device flies or closes its connection.       *)
LEMMA NextResting ==
  ASSUME IInv, Resting, ProgramNext
  PROVE  Resting'
<1>1. CASE UNCHANGED device
  BY <1>1 DEF device, Resting
<1>2. CASE UserStep \/ Disconnect \/ DisconnectFails
  BY <1>2 DEF UserStep, AttachFails, Attach, Release, Go, Disconnect, DisconnectFails, Resting
<1>3. CASE Setup
  BY <1>3 DEF Setup, Resting
<1>4. CASE ChannelsAttached \/ ChannelsReleased \/ OperationEnded
  BY <1>4 DEF ChannelsAttached, ChannelsReleased, OperationEnded, Receive, Resting
<1>5. CASE Released \/ HandleHeartbeat \/ Drop
  BY <1>5 DEF Released, LeaveConnected, HandleHeartbeat, Drop, Resting
<1>6. CASE FacadeAnswer
  BY <1>1, <1>6 DEF FacadeAnswer, AnswerSetup, AnswerRelease, ChannelsConfirmed,
                    ReleaseConfirmed, EndConfirmed, BeatAnswered, Take
<1>7. CASE FacadeInitiative
  BY <1>1, <1>7 DEF FacadeInitiative, StartOperation, AttachMore, ReleaseSome, EndOperation,
                    Beat, Initiate
<1>8. CASE UNCHANGED vars
  BY <1>1, <1>8 DEF vars
<1> QED
  BY <1>2, <1>3, <1>4, <1>5, <1>6, <1>7, <1>8, StepOfDevice DEF DeviceStep, ReceiveStep

(* A device without channels is one that main may leave.                   *)
LEMMA WalkSame ==
  ASSUME Walk, UNCHANGED <<told, known>>,
         crashed' = crashed,
         left' \subseteq left \cup known,
         main' \in {"leaving", "ended"} => main \in {"leaving", "ended"} \/ told = {}
  PROVE  Walk'
BY DEF Walk

LEMMA FacadeKeepsTold ==
  ASSUME FacadeAnswer \/ FacadeInitiative
  PROVE  told' = told
<1>1. CASE FacadeAnswer
  BY <1>1 DEF FacadeAnswer, AnswerSetup, AnswerRelease, ChannelsConfirmed,
              ReleaseConfirmed, EndConfirmed, BeatAnswered, Take, device, channels
<1>2. CASE FacadeInitiative
  BY <1>2 DEF FacadeInitiative, StartOperation, AttachMore, ReleaseSome, EndOperation,
              Beat, Initiate, device, channels
<1> QED
  BY <1>1, <1>2

LEMMA NextWalk ==
  ASSUME IInv, Typed, Walk, Resting, ProgramNext
  PROVE  Walk'
<1>0. told \subseteq open /\ (live /\ state # "Flying" => open = {})
  BY DEF IInv, UserKnowsChannels
<1>1. CASE PostedAttach \/ RequestStep \/ Attached \/ PostedRelease \/ Facade
  <2>1. told' = told
    BY <1>1, FacadeKeepsTold
       DEF PostedAttach, RequestStep, Attached, Attach, PostedRelease, Release, Go, Facade,
           vars, device, channels
  <2>2. UNCHANGED simulator
    BY <1>1 DEF PostedAttach, RequestStep, Attached, PostedRelease, Facade
  <2> QED
    BY <2>1, <2>2, WalkSame DEF simulator
<1>2. CASE NotAttached
  <2>1. told' = told
    BY <1>2 DEF NotAttached, AttachFails, Go, channels
  <2>2. UNCHANGED <<known, left, main, crashed>>
    BY <1>2 DEF NotAttached, Done
  <2> QED
    BY <2>1, <2>2, WalkSame
<1>3. CASE SetupAnswered
  BY <1>3, WalkSame DEF SetupAnswered, Setup, channels, Done, simulator
<1>4. CASE Running /\ Opened
  <2>1. told \subseteq told' /\ (~live' => told' = told)
    <3>1. PICK C : live = TRUE /\ AttachChannels(C)
      BY <1>4 DEF Opened, ChannelsAttached, Receive, IInv, TypeOK, DeviceTypeOK
    <3> QED
      BY <3>1 DEF AttachChannels
  <2>2. CASE live'
    <3>1. known' = known \cup (told' \ told) /\ left' = left /\ main' = main
      BY <1>4, <2>2 DEF Opened, AddChannels
    <3> QED
      BY <1>4, <2>1, <3>1 DEF Walk, Running
  <2>3. CASE ~live'
    BY <1>4, <2>1, <2>3, WalkSame DEF Opened, simulator
  <2> QED
    BY <2>2, <2>3
<1>5. ASSUME Running, NEW ids, OnClosed(ids), told' = told \ ids, Typed
      PROVE  Walk'
  <2>1. /\ ids # {} => left = {}
        /\ known' = known \ ids /\ UNCHANGED <<left, main, crashed>>
    BY <1>5 DEF OnClosed, Typed, SimulatorTypeOK
  <2> QED
    BY <1>5, <2>1 DEF Walk, Running
<1>6. CASE Running /\ Closed
  <2>1. told' \subseteq told /\ OnClosed(told \ told')
    BY <1>6 DEF Closed, ChannelsReleased
  <2>2. told' = told \ (told \ told')
    BY <2>1
  <2> QED
    BY <1>5, <1>6, <2>1, <2>2
<1>7. CASE Running /\ Ended
  <2>1. told' = told \ open /\ OnClosed(told)
    BY <1>7 DEF Ended, OperationEnded
  <2>2. told' = told \ told
    BY <1>0, <2>1
  <2> QED
    BY <1>5, <1>7, <2>1, <2>2
<1>8. CASE Unheard
  BY <1>8, WalkSame DEF Unheard, Released, HandleHeartbeat, Drop, channels, simulator
<1>9. CASE Closing
  <2>1. told' = told /\ live /\ state = "Disconnecting"
    BY <1>9 DEF Closing, Disconnect, DisconnectFails, Go, channels
  <2>2. told = {}
    BY <1>0, <2>1
  <2> QED
    BY <1>9, <2>1, <2>2, WalkSame DEF Closing, Done, ClosingFails, MainIs
<1>10. CASE Traffic
  BY <1>10, WalkSame DEF Traffic, ThreadStep, Wake, SendNext, vars, device, channels
<1>11. CASE Exit
  <2>1. told' = told
    BY <1>11 DEF Exit, vars, device, channels
  <2>2. CASE state = "Disconnected" /\ Leave
    <3>1. told = {}
      BY <1>0, <2>2 DEF Resting
    <3> QED
      BY <2>1, <2>2, <3>1, WalkSame DEF Leave, MainIs
  <2>3. CASE Join
    BY <2>1, <2>3, WalkSame DEF Join, MainIs
  <2> QED
    BY <1>11, <2>2, <2>3 DEF Exit
<1> QED
  BY <1>1, <1>2, <1>3, <1>4, <1>6, <1>7, <1>8, <1>9, <1>10, <1>11 DEF ProgramNext, Received

-----------------------------------------------------------------------------
LEMMA InitProgram == ProgramInit => ProgramInv
<1> SUFFICES ASSUME ProgramInit PROVE ProgramInv
  OBVIOUS
<1>1. IInv
  BY InitInvariant DEF ProgramInit
<1>2. Typed
  BY DEF ProgramInit, SimulatorInit, CoreInit, Typed, SimulatorTypeOK, CoreTypeOK
<1>3. PostedOnce
  BY DEF ProgramInit, Init, PostedOnce
<1>4. Walk /\ Resting
  BY DEF ProgramInit, SimulatorInit, Init, DeviceInit, Walk, Resting
<1> QED
  BY <1>1, <1>2, <1>3, <1>4 DEF ProgramInv

LEMMA NextProgram == ProgramInv /\ [ProgramNext]_programVars => ProgramInv'
<1> SUFFICES ASSUME ProgramInv, [ProgramNext]_programVars PROVE ProgramInv'
  OBVIOUS
<1>1. IInv'
  BY ProgramStep, NextInvariant DEF ProgramInv
<1>2. CASE ProgramNext
  BY <1>1, <1>2, NextTyped, NextPosted, NextWalk, NextResting DEF ProgramInv
<1>3. CASE UNCHANGED programVars
  <2>1. UNCHANGED <<vars, simulator, core, posted>>
    BY <1>3 DEF programVars
  <2>2. Typed'
    BY <2>1 DEF simulator, core, posted, ProgramInv, Typed, SimulatorTypeOK, CoreTypeOK
  <2>3. PostedOnce'
    BY <2>1 DEF vars, stream, facade, records, posted, ProgramInv, PostedOnce
  <2>4. Walk' /\ Resting'
    BY <2>1 DEF vars, device, channels, simulator, ProgramInv, Walk, Resting
  <2> QED
    BY <1>1, <2>2, <2>3, <2>4 DEF ProgramInv
<1> QED
  BY <1>2, <1>3

THEOREM ProgramInvariance == ProgramSpec => []ProgramInv
BY InitProgram, NextProgram, PTL DEF ProgramSpec

(* Every variable of the program keeps its type; no more RELEASEs are      *)
(* posted than there were operations.                                      *)
THEOREM ProgramTypes == ProgramSpec => []ProgramTypeOK
<1>1. ProgramInv => ProgramTypeOK
  <2> SUFFICES ASSUME ProgramInv PROVE ProgramTypeOK
    OBVIOUS
  <2>1. releases \in Nat /\ releases <= operations /\ operations \in 0..MaxOperations
    BY DEF ProgramInv, Typed, PostedOnce, IInv, TypeOK
  <2>2. releases \in 0..MaxOperations
    BY <2>1, OperationsAssumption
  <2> QED
    BY <2>2 DEF ProgramInv, Typed, IInv, ProgramTypeOK
<1> QED
  BY <1>1, ProgramInvariance, PTL

(* The traffic thread finds every channel it is about to send on, and main *)
(* destroys no device whose channels the simulator still knows.            *)
THEOREM ThreadFindsChannel == ProgramSpec => []TrafficFindsChannel
<1>1. ProgramInv => TrafficFindsChannel
  BY DEF ProgramInv, Walk, IInv, UserKnowsChannels, TrafficFindsChannel
<1> QED
  BY <1>1, ProgramInvariance, PTL
=============================================================================
