--------------------------- MODULE DeviceProgram ---------------------------
(***************************************************************************)
(* The example program deviceSim: a device (Device) under a facade         *)
(* (DeviceFacade), its simulator (Simulator) and its request to the core   *)
(* (CoreClient), all on one io_service thread but for the traffic thread.  *)
(*                                                                         *)
(* Its user is the simulator: it attaches once, and posts RELEASE each     *)
(* time an operation ends.                                                 *)
(***************************************************************************)
EXTENDS DeviceFacade, Simulator, CoreClient

VARIABLES attach,   \* ATTACH is posted and not yet handled
          releases  \* the RELEASEs posted and not yet handled

posted == <<attach, releases>>
programVars == <<vars, simulator, core, posted>>

ProgramTypeOK == /\ TypeOK
                 /\ SimulatorTypeOK(Channels)
                 /\ CoreTypeOK
                 /\ attach \in BOOLEAN
                 /\ releases \in 0..MaxOperations

ProgramInit == /\ Init
               /\ SimulatorInit
               /\ CoreInit
               /\ main = "running"
               /\ attach = TRUE
               /\ releases = 0

-----------------------------------------------------------------------------
(* The posted events.                                                      *)
PostedAttach == /\ Running
                /\ attach /\ attach' = FALSE
                /\ Execute("attach")
                /\ UNCHANGED <<vars, simulator, releases>>

RequestStep == /\ Running
               /\ CoreStep
               /\ UNCHANGED <<vars, simulator, posted>>

(* Connecting::start goes on with the answer of the core.                  *)
Attached == /\ Running
            /\ Outcome("ok")
            /\ Attach
            /\ UNCHANGED <<facade, simulator, posted>>

(* The request has thrown, or opening the connection does: ERROR.          *)
NotAttached == /\ Running
               /\ Outcome("failed") \/ Outcome("ok")
               /\ AttachFails
               /\ Done
               /\ UNCHANGED <<facade, posted>>

(* Outside Ready the event is logged and dropped.                          *)
PostedRelease == /\ Running /\ live
                 /\ releases > 0 /\ releases' = releases - 1
                 /\ \/ Release
                    \/ state # "Ready" /\ UNCHANGED <<device, stream>>
                 /\ UNCHANGED <<facade, simulator, core, attach>>

-----------------------------------------------------------------------------
(* The events of the device, and what the simulator does in onEvent.       *)
SetupAnswered == /\ Setup
                 /\ IF state' = "Disconnecting" THEN Done ELSE UNCHANGED simulator
                 /\ UNCHANGED releases

(* CHANNELS_OPENED tells of those validated, be there any or not.          *)
Opened == /\ ChannelsAttached
          /\ IF live' THEN AddChannels(told' \ told) ELSE UNCHANGED simulator
          /\ UNCHANGED releases

Closed == /\ ChannelsReleased
          /\ OnClosed(told \ told')
          /\ UNCHANGED releases

Ended == /\ OperationEnded
         /\ OnClosed(told)
         /\ releases' = releases + 1

Unheard == /\ Released \/ HandleHeartbeat \/ Drop
           /\ UNCHANGED <<simulator, releases>>

Received == /\ Running
            /\ SetupAnswered \/ Opened \/ Closed \/ Ended \/ Unheard
            /\ UNCHANGED <<facade, core, attach>>

(* RELEASED.                                                               *)
Closing == /\ Running
           /\ \/ Disconnect /\ Done
              \/ DisconnectFails /\ ClosingFails
           /\ UNCHANGED <<facade, core, posted>>

-----------------------------------------------------------------------------
Facade == /\ FacadeAnswer \/ FacadeInitiative
          /\ UNCHANGED <<simulator, core, posted>>

Traffic == ThreadStep /\ UNCHANGED <<vars, core, posted>>

(* run() returns when there is nothing more to do.                         *)
Exit == /\ \/ /\ state = "Disconnected" /\ step = "idle" /\ releases = 0
              /\ Leave
           \/ Join
        /\ UNCHANGED <<vars, core, posted>>

ProgramNext == \/ PostedAttach \/ RequestStep \/ Attached \/ NotAttached
               \/ PostedRelease \/ Received \/ Closing
               \/ Facade \/ Traffic \/ Exit

(* The threads run what is ready, and the facade answers.  Nothing is      *)
(* assumed of the core.                                                    *)
ProgramFairness == /\ WF_programVars(PostedRelease)
                   /\ WF_programVars(Received) /\ WF_programVars(Closing)
                   /\ WF_programVars(FacadeAnswer /\ UNCHANGED <<simulator, core, posted>>)
                   /\ WF_programVars(Traffic)
                   /\ WF_programVars(Exit)

ProgramSpec == ProgramInit /\ [][ProgramNext]_programVars /\ ProgramFairness

-----------------------------------------------------------------------------
(* The traffic thread only uses channels that are there: the simulator     *)
(* knows those it was told of and not of their end, and a channel the      *)
(* thread has still to send on is not taken away under its hands.  When    *)
(* main destroys the device, the simulator knows none.                     *)
TrafficFindsChannel ==
  ~crashed => /\ known = told /\ left \subseteq open
              /\ main \in {"leaving", "ended"} => known = {}

(* Every channel the simulator knows is sent on again and again, until it  *)
(* is closed: addChannels starts the traffic thread when there is none,    *)
(* and the thread does not end before the channels do.                     *)
Served == \A c \in Channels : c \in known ~> c \in left \/ c \notin known \/ crashed
=============================================================================
