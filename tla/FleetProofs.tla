---------------------------- MODULE FleetProofs ----------------------------
(***************************************************************************)
(* Proofs about pilots and the facade they share that hold for any number  *)
(* of pilots and channels: that the invariant of FleetInvariant is         *)
(* inductive, and with it what a pilot and its user know of its channels,  *)
(* who controls them, and that a channel is a lock.                        *)
(***************************************************************************)
EXTENDS FleetInvariant

(* The initial states have their types.                                    *)
LEMMA InitTyped == Init => Typed
<1> SUFFICES ASSUME Init PROVE Typed
  OBVIOUS
<1>1. <<>> \in Seq(Messages)
  BY EmptySeq
<1>2. state \in [Pilots -> States] /\ arg \in [Pilots -> SUBSET Channels]
  BY DEF Init, PilotInit, States
<1>3. /\ open \in [Pilots -> SUBSET Channels] /\ owned \in [Pilots -> SUBSET Channels]
      /\ told \in [Pilots -> SUBSET Channels] /\ refused \in [Pilots -> SUBSET Channels]
  BY DEF Init, PilotInit
<1>4. /\ live \in [Pilots -> BOOLEAN] /\ linked \in [Pilots -> BOOLEAN]
      /\ asked \in [Pilots -> BOOLEAN]
  BY DEF Init, PilotInit
<1>5. up \in [Pilots -> Seq(Messages)] /\ down \in [Pilots -> Seq(Messages)]
  BY <1>1 DEF Init, PilotInit
<1>6. calls \in Counts
  BY MaxCallsAssumption DEF Init, PilotInit, Counts
<1>7. FacadeTypeOK
  BY DEF Init, FacadeTypeOK, NoHandover, Stages
<1> QED
  BY <1>2, <1>3, <1>4, <1>5, <1>6, <1>7 DEF Typed, PilotTyped

(* What is sent is a message.                                              *)
LEMMA MessageType ==
  ASSUME NEW command \in Commands, NEW C \in SUBSET Channels
  PROVE  /\ Plain(command) \in Messages /\ Indicate(command, C) \in Messages
         /\ Accept(command) \in Messages /\ AcceptIds(command, C) \in Messages
         /\ Reject(command) \in Messages
BY DEF Plain, Indicate, Accept, AcceptIds, Reject, Messages

(* A message is put on its way to the facade.                              *)
LEMMA PutUp ==
  ASSUME Typed, NEW p \in Pilots, NEW m \in Messages, SendUp(p, m)
  PROVE  /\ up' \in [Pilots -> Seq(Messages)]
         /\ up'[p] = Append(up[p], m) /\ \A r \in Pilots : r # p => up'[r] = up[r]
<1>1. up \in [Pilots -> Seq(Messages)]
  BY DEF Typed, PilotTyped
<1>2. Append(up[p], m) \in Seq(Messages)
  BY <1>1, PutElements
<1> QED
  BY <1>1, <1>2 DEF SendUp

(* A pilot takes the next message on its way to it.                        *)
LEMMA TakeDown ==
  ASSUME Typed, NEW p \in Pilots, down[p] # <<>>, down' = [down EXCEPT ![p] = Tail(@)]
  PROVE  /\ down' \in [Pilots -> Seq(Messages)]
         /\ down'[p] = Tail(down[p]) /\ \A r \in Pilots : r # p => down'[r] = down[r]
         /\ Head(down[p]) \in Messages /\ Head(down[p]).ids \in SUBSET Channels
<1>1. down \in [Pilots -> Seq(Messages)]
  BY DEF Typed, PilotTyped
<1>2. Tail(down[p]) \in Seq(Messages) /\ Head(down[p]) \in Messages
  BY <1>1, TakeElements
<1>3. Head(down[p]).ids \in SUBSET Channels
  BY <1>2 DEF Messages
<1> QED
  BY <1>1, <1>2, <1>3

(* The parts of the handlers keep the types: of messages,                  *)
LEMMA ReceiveTyped ==
  ASSUME Typed, NEW p \in Pilots, NEW command, NEW response, NEW s,
         Receive(p, command, response, s)
  PROVE  /\ down' \in [Pilots -> Seq(Messages)] /\ calls' \in Counts
         /\ Head(down[p]).ids \in SUBSET Channels
BY TakeDown DEF Receive, Typed, PilotTyped

(* of user events,                                                         *)
LEMMA UserTyped ==
  ASSUME Typed, NEW p \in Pilots, NEW event, NEW s,
         User(p, event, s) \/ Answer(p, event, s)
  PROVE  /\ down' \in [Pilots -> Seq(Messages)] /\ calls' \in Counts
         /\ asked' \in [Pilots -> BOOLEAN]
<1>1. Unasked(p) => calls' \in Counts
  <2> SUFFICES ASSUME Unasked(p) PROVE calls' \in Counts
    OBVIOUS
  <2>1. /\ calls \in [Pilots -> Nat] /\ \A q \in Pilots : calls[q] <= MaxCalls[q]
        /\ calls[p] < MaxCalls[p] /\ calls' = [calls EXCEPT ![p] = @ + 1]
    BY DEF Unasked, Typed, PilotTyped, Counts
  <2>2. calls[p] + 1 <= MaxCalls[p]
    <3>1. calls[p] \in Nat /\ MaxCalls[p] \in Nat
      BY <2>1, MaxCallsAssumption
    <3> QED
      BY <2>1, <3>1
  <2>3. calls' \in [Pilots -> Nat] /\ \A q \in Pilots : calls'[q] <= MaxCalls[q]
    BY <2>1, <2>2
  <2> QED
    BY <2>3 DEF Counts
<1>2. calls' \in Counts
  BY <1>1 DEF User, Answer, Typed, PilotTyped
<1>3. asked' \in [Pilots -> BOOLEAN]
  BY DEF User, Answer, Unasked, Typed, PilotTyped
<1>4. down' \in [Pilots -> Seq(Messages)]
  BY DEF User, Answer, UserEvent, Typed, PilotTyped
<1> QED
  BY <1>2, <1>3, <1>4

(* of transitions,                                                         *)
LEMMA BecomeTyped ==
  ASSUME Typed, NEW p \in Pilots, NEW s \in States, NEW C \in SUBSET Channels, Become(p, s, C)
  PROVE  state' \in [Pilots -> States] /\ arg' \in [Pilots -> SUBSET Channels]
BY DEF Become, Typed, PilotTyped

(* and of the validation of channels.                                      *)
LEMMA ValidateTyped ==
  ASSUME Typed, NEW p \in Pilots, NEW C \in SUBSET Channels, Validate(p, C)
  PROVE  /\ state' \in [Pilots -> States] /\ arg' \in [Pilots -> SUBSET Channels]
         /\ open' \in [Pilots -> SUBSET Channels] /\ owned' \in [Pilots -> SUBSET Channels]
         /\ live' \in [Pilots -> BOOLEAN] /\ up' \in [Pilots -> Seq(Messages)]
<1> USE DEF Typed, PilotTyped
<1>1. "ValidatingChannels" \in States
  BY DEF States, Connected
<1>2. ASSUME NEW validated \in SUBSET C,
             open' = [open EXCEPT ![p] = (@ \ C) \cup validated],
             owned' = [owned EXCEPT ![p] = @ \ (C \ validated)],
             Become(p, "ValidatingChannels", validated),
             SendUp(p, Indicate("CHANNELS_READY", validated)),
             UNCHANGED live
      PROVE  /\ state' \in [Pilots -> States] /\ arg' \in [Pilots -> SUBSET Channels]
             /\ open' \in [Pilots -> SUBSET Channels] /\ owned' \in [Pilots -> SUBSET Channels]
             /\ live' \in [Pilots -> BOOLEAN] /\ up' \in [Pilots -> Seq(Messages)]
  <2>1. Indicate("CHANNELS_READY", validated) \in Messages
    BY MessageType DEF Commands
  <2>2. up' \in [Pilots -> Seq(Messages)]
    BY <1>2, <2>1, PutUp
  <2>3. state' \in [Pilots -> States] /\ arg' \in [Pilots -> SUBSET Channels]
    BY <1>1, <1>2, BecomeTyped
  <2>4. open' \in [Pilots -> SUBSET Channels] /\ owned' \in [Pilots -> SUBSET Channels]
    BY <1>2
  <2> QED
    BY <1>2, <2>2, <2>3, <2>4
<1>3. ASSUME NEW failed \in SUBSET C, NEW begun \in SUBSET C,
             open' = [open EXCEPT ![p] = (@ \cup begun) \ failed],
             owned' = [owned EXCEPT ![p] = @ \ failed],
             Become(p, "ValidatingChannels", {}),
             live' = [live EXCEPT ![p] = FALSE],
             UNCHANGED up
      PROVE  /\ state' \in [Pilots -> States] /\ arg' \in [Pilots -> SUBSET Channels]
             /\ open' \in [Pilots -> SUBSET Channels] /\ owned' \in [Pilots -> SUBSET Channels]
             /\ live' \in [Pilots -> BOOLEAN] /\ up' \in [Pilots -> Seq(Messages)]
  <2>1. state' \in [Pilots -> States] /\ arg' \in [Pilots -> SUBSET Channels]
    BY <1>1, <1>3, BecomeTyped
  <2>2. open' \in [Pilots -> SUBSET Channels] /\ owned' \in [Pilots -> SUBSET Channels]
    BY <1>3
  <2> QED
    BY <1>3, <2>1, <2>2
<1> QED
  BY <1>2, <1>3 DEF Validate

(* The user's events keep the types.                                       *)
LEMMA UserStepTyped ==
  ASSUME Typed, NEW p \in Pilots, UserStep(p), UNCHANGED facadeVars
  PROVE  Typed'
<1>0. FacadeTypeOK'
  BY DEF facadeVars, Typed, FacadeTypeOK
<1> DEFINE Rest == /\ down' \in [Pilots -> Seq(Messages)] /\ calls' \in Counts
                   /\ asked' \in [Pilots -> BOOLEAN]
<1>1. ASSUME NEW m \in Messages, NEW s \in States, NEW C \in SUBSET Channels, Rest,
             SendUp(p, m), Become(p, s, C), UNCHANGED <<channels, live, refused>>,
             linked' \in [Pilots -> BOOLEAN]
      PROVE  Typed'
  <2>1. up' \in [Pilots -> Seq(Messages)]
    BY <1>1, PutUp
  <2>2. state' \in [Pilots -> States] /\ arg' \in [Pilots -> SUBSET Channels]
    BY <1>1, BecomeTyped
  <2>3. /\ open' \in [Pilots -> SUBSET Channels] /\ owned' \in [Pilots -> SUBSET Channels]
        /\ told' \in [Pilots -> SUBSET Channels] /\ refused' \in [Pilots -> SUBSET Channels]
    BY <1>1 DEF channels, Typed, PilotTyped
  <2>4. live' \in [Pilots -> BOOLEAN]
    BY <1>1 DEF Typed, PilotTyped
  <2> QED
    BY <1>0, <1>1, <2>1, <2>2, <2>3, <2>4 DEF Typed, PilotTyped
<1>2. ASSUME NEW m \in Messages, Rest,
             SendUp(p, m), Stay, UNCHANGED <<channels, live, linked, refused>>
      PROVE  Typed'
  <2>1. up' \in [Pilots -> Seq(Messages)]
    BY <1>2, PutUp
  <2>2. /\ open' \in [Pilots -> SUBSET Channels] /\ owned' \in [Pilots -> SUBSET Channels]
        /\ told' \in [Pilots -> SUBSET Channels] /\ refused' \in [Pilots -> SUBSET Channels]
        /\ state' \in [Pilots -> States] /\ arg' \in [Pilots -> SUBSET Channels]
    BY <1>2 DEF channels, Stay, Typed, PilotTyped
  <2>3. live' \in [Pilots -> BOOLEAN] /\ linked' \in [Pilots -> BOOLEAN]
    BY <1>2 DEF Typed, PilotTyped
  <2> QED
    BY <1>0, <1>2, <2>1, <2>2, <2>3 DEF Typed, PilotTyped
<1>3. \A C \in Requests : C \in SUBSET Channels
  BY RequestsAssumption
<1>4. /\ "Connecting" \in States /\ "OpeningChannels" \in States /\ "ClosingChannels" \in States
      /\ "RequestingControl" \in States /\ "Operating" \in States
  BY DEF States, Connected
<1>5. linked' = linked => linked' \in [Pilots -> BOOLEAN]
  BY DEF Typed, PilotTyped
<1>6. CASE OperateFails(p)
  <2>1. Rest
    BY <1>6, UserTyped DEF OperateFails
  <2>2. /\ open' \in [Pilots -> SUBSET Channels] /\ owned' \in [Pilots -> SUBSET Channels]
        /\ told' \in [Pilots -> SUBSET Channels] /\ refused' \in [Pilots -> SUBSET Channels]
        /\ state' \in [Pilots -> States] /\ arg' \in [Pilots -> SUBSET Channels]
        /\ up' \in [Pilots -> Seq(Messages)]
    BY <1>6 DEF OperateFails, User, channels, Typed, PilotTyped
  <2>3. live' \in [Pilots -> BOOLEAN] /\ linked' \in [Pilots -> BOOLEAN]
    BY <1>6 DEF OperateFails, Typed, PilotTyped
  <2> QED
    BY <1>0, <2>1, <2>2, <2>3 DEF Typed, PilotTyped
<1>7. CASE Operate(p)
  <2>1. Rest
    BY <1>7, UserTyped DEF Operate
  <2>2. Plain("SETUP") \in Messages /\ {} \in SUBSET Channels
    BY MessageType DEF Commands
  <2>3. linked' \in [Pilots -> BOOLEAN]
    BY <1>7 DEF Operate, Typed, PilotTyped
  <2> HIDE DEF Rest
  <2> QED
    BY <1>1, <1>4, <1>7, <2>1, <2>2, <2>3 DEF Operate, User
<1>8. CASE OpenChannels(p)
  <2>1. PICK C \in Requests :
          /\ User(p, "OPEN_CHANNELS", "Operating")
          /\ SendUp(p, Indicate("ADD_CHANNELS", C))
          /\ Become(p, "OpeningChannels", C)
          /\ UNCHANGED <<channels, live, linked>>
    BY <1>8 DEF OpenChannels
  <2>2. Rest
    BY <2>1, UserTyped
  <2>3. Indicate("ADD_CHANNELS", C) \in Messages /\ C \in SUBSET Channels
    BY <1>3, MessageType DEF Commands
  <2> HIDE DEF Rest
  <2> QED
    BY <1>1, <1>4, <1>5, <2>1, <2>2, <2>3 DEF User
<1>9. ASSUME NEW C \in SUBSET Channels, NEW event, NEW s,
             User(p, event, s), StartClosing(p, C)
      PROVE  Typed'
  <2>1. Rest
    BY <1>9, UserTyped
  <2>2. Indicate("REMOVE_CHANNELS", C) \in Messages
    BY MessageType DEF Commands
  <2> HIDE DEF Rest
  <2> QED
    BY <1>1, <1>4, <1>5, <1>9, <2>1, <2>2 DEF StartClosing, User
<1>10. CASE CloseSome(p)
  BY <1>3, <1>9, <1>10 DEF CloseSome
<1>11. CASE Release(p)
  <2>1. open[p] \in SUBSET Channels
    BY DEF Typed, PilotTyped
  <2> QED
    BY <1>9, <1>11, <2>1 DEF Release
<1>12. CASE RequestControl(p)
  <2>1. PICK c \in Channels :
          /\ User(p, "REQUEST_CONTROL", "Operating")
          /\ SendUp(p, Indicate("REQUEST_CONTROL", {c}))
          /\ Become(p, "RequestingControl", {c})
          /\ UNCHANGED <<channels, live, linked>>
    BY <1>12 DEF RequestControl
  <2>2. Rest
    BY <2>1, UserTyped
  <2>3. {c} \in SUBSET Channels
    OBVIOUS
  <2>4. Indicate("REQUEST_CONTROL", {c}) \in Messages
    BY <2>3, MessageType DEF Commands
  <2> HIDE DEF Rest
  <2> QED
    BY <1>1, <1>4, <1>5, <2>1, <2>2, <2>3, <2>4 DEF User
<1>13. CASE ControlReady(p)
  <2>1. Rest
    BY <1>13, UserTyped DEF ControlReady
  <2>2. Plain("CONTROL_READY") \in Messages
    BY MessageType DEF Commands
  <2> HIDE DEF Rest
  <2> QED
    BY <1>2, <1>13, <2>1, <2>2 DEF ControlReady
<1>14. CASE ReleaseAccepted(p)
  <2>1. Rest
    BY <1>14, UserTyped DEF ReleaseAccepted
  <2>2. Accept("RELEASE_CONTROL") \in Messages
    BY MessageType DEF Commands
  <2> HIDE DEF Rest
  <2> QED
    BY <1>2, <1>14, <2>1, <2>2 DEF ReleaseAccepted
<1>15. CASE ReleaseRejected(p)
  <2>1. Rest
    BY <1>15, UserTyped DEF ReleaseRejected
  <2>2. Accept("RELEASE_CONTROL") \in Messages /\ {} \in SUBSET Channels
    BY MessageType DEF Commands
  <2>3. up' \in [Pilots -> Seq(Messages)]
    BY <1>15, <2>2, PutUp DEF ReleaseRejected
  <2>4. state' \in [Pilots -> States] /\ arg' \in [Pilots -> SUBSET Channels]
    BY <1>4, <1>15, <2>2, BecomeTyped DEF ReleaseRejected
  <2>5. /\ open' \in [Pilots -> SUBSET Channels] /\ owned' \in [Pilots -> SUBSET Channels]
        /\ told' \in [Pilots -> SUBSET Channels] /\ refused' \in [Pilots -> SUBSET Channels]
    BY <1>15 DEF ReleaseRejected, channels, Typed, PilotTyped
  <2>6. live' \in [Pilots -> BOOLEAN] /\ linked' \in [Pilots -> BOOLEAN]
    BY <1>15 DEF ReleaseRejected, Typed, PilotTyped
  <2> QED
    BY <1>0, <2>1, <2>3, <2>4, <2>5, <2>6 DEF Typed, PilotTyped
<1> QED
  BY <1>6, <1>7, <1>8, <1>10, <1>11, <1>12, <1>13, <1>14, <1>15 DEF UserStep

(* So do the messages a pilot takes up,                                    *)
LEMMA ReceiveStepTyped ==
  ASSUME Typed, NEW p \in Pilots, ReceiveStep(p), UNCHANGED facadeVars
  PROVE  Typed'
<1>0. FacadeTypeOK'
  BY DEF facadeVars, Typed, FacadeTypeOK
<1> DEFINE Taken == down' \in [Pilots -> Seq(Messages)] /\ calls' \in Counts
           Moved == state' \in [Pilots -> States] /\ arg' \in [Pilots -> SUBSET Channels]
           Chans == /\ open' \in [Pilots -> SUBSET Channels]
                    /\ owned' \in [Pilots -> SUBSET Channels]
                    /\ told' \in [Pilots -> SUBSET Channels]
           Puts == up' \in [Pilots -> Seq(Messages)]
<1>1. ASSUME Taken, Moved, Chans, Puts, UNCHANGED <<live, linked, asked, refused>> PROVE Typed'
  <2>1. /\ live' \in [Pilots -> BOOLEAN] /\ linked' \in [Pilots -> BOOLEAN]
        /\ asked' \in [Pilots -> BOOLEAN] /\ refused' \in [Pilots -> SUBSET Channels]
    BY <1>1 DEF Typed, PilotTyped
  <2> QED
    BY <1>0, <1>1, <2>1 DEF Typed, PilotTyped
<1>2. UNCHANGED channels => Chans
  BY DEF channels, Typed, PilotTyped
<1>3. UNCHANGED up => Puts
  BY DEF Typed, PilotTyped
<1>4. ASSUME NEW s \in States, Become(p, s, {}) PROVE Moved
  <2>1. {} \in SUBSET Channels
    OBVIOUS
  <2> QED
    BY <1>4, <2>1, BecomeTyped
<1>5. "Operating" \in States /\ "Disconnecting" \in States /\ "ReleasingControl" \in States
  BY DEF States, Connected
<1>6. ASSUME NEW C \in SUBSET Channels, CloseChannels(p, C) PROVE Chans
  BY <1>6 DEF CloseChannels, Typed, PilotTyped
<1>7. ASSUME NEW C \in SUBSET Channels, NEW command, NEW s,
             ReceiveQuietly(p, command, "ACCEPTED", s), Validate(p, C),
             UNCHANGED <<told, linked>>
      PROVE  Typed'
  <2>1. Taken
    BY <1>7, ReceiveTyped DEF ReceiveQuietly
  <2>2. /\ Moved /\ Puts /\ live' \in [Pilots -> BOOLEAN]
        /\ open' \in [Pilots -> SUBSET Channels] /\ owned' \in [Pilots -> SUBSET Channels]
    BY <1>7, ValidateTyped
  <2>3. /\ linked' \in [Pilots -> BOOLEAN] /\ told' \in [Pilots -> SUBSET Channels]
        /\ asked' \in [Pilots -> BOOLEAN] /\ refused' \in [Pilots -> SUBSET Channels]
    BY <1>7 DEF ReceiveQuietly, Typed, PilotTyped
  <2> QED
    BY <1>0, <2>1, <2>2, <2>3 DEF Typed, PilotTyped
<1>8. ASSUME NEW command, NEW response, NEW s, Receive(p, command, response, s)
      PROVE  Taken /\ Head(down[p]).ids \in SUBSET Channels
  BY <1>8, ReceiveTyped
<1> HIDE DEF Taken, Moved, Chans, Puts
<1>9. CASE SetupAccepted(p)
  BY <1>7, <1>8, <1>9 DEF SetupAccepted, ReceiveQuietly
<1>10. CASE AddAccepted(p)
  BY <1>7, <1>8, <1>10 DEF AddAccepted, ReceiveQuietly
<1>11. CASE SetupRejected(p)
  BY <1>1, <1>2, <1>3, <1>4, <1>5, <1>8, <1>11 DEF SetupRejected, ReceiveQuietly
<1>12. CASE ChannelsReadyAccepted(p)
  <2>1. Chans
    <3>1. Head(down[p]).ids \in SUBSET Channels
      BY <1>8, <1>12 DEF ChannelsReadyAccepted, ReceiveQuietly
    <3> QED
      BY <1>12, <3>1 DEF Chans, ChannelsReadyAccepted, Typed, PilotTyped
  <2> QED
    BY <1>1, <1>3, <1>4, <1>5, <1>8, <1>12, <2>1 DEF ChannelsReadyAccepted, ReceiveQuietly
<1>13. CASE ReleaseControlAsked(p)
  <2>1. Taken /\ Head(down[p]).ids \in SUBSET Channels
    BY <1>8, <1>13 DEF ReleaseControlAsked
  <2>2. Moved
    BY <1>5, <1>13, <2>1, BecomeTyped DEF ReleaseControlAsked, Moved
  <2>3. asked' \in [Pilots -> BOOLEAN] /\ refused' \in [Pilots -> SUBSET Channels]
    BY <1>13 DEF ReleaseControlAsked, Typed, PilotTyped
  <2>4. live' \in [Pilots -> BOOLEAN] /\ linked' \in [Pilots -> BOOLEAN]
    BY <1>13 DEF ReleaseControlAsked, Typed, PilotTyped
  <2>5. Chans /\ Puts
    BY <1>2, <1>3, <1>13 DEF ReleaseControlAsked
  <2> QED
    BY <1>0, <2>1, <2>2, <2>3, <2>4, <2>5 DEF Typed, PilotTyped, Taken, Moved, Chans, Puts
<1>14. CASE Released(p)
  <2>1. PICK s \in {"Operating", "ClosingChannels"} : ReceiveQuietly(p, "RELEASE", "NONE", s)
    BY <1>14 DEF Released
  <2>2. /\ CloseChannels(p, open[p]) /\ SendUp(p, Accept("RELEASE")) /\ LeaveConnected(p)
        /\ UNCHANGED <<live, linked>>
    BY <1>14 DEF Released
  <2>3. open[p] \in SUBSET Channels
    BY DEF Typed, PilotTyped
  <2>4. Chans
    BY <1>6, <2>2, <2>3
  <2>5. Accept("RELEASE") \in Messages
    BY MessageType DEF Commands
  <2>6. Puts
    BY <2>2, <2>5, PutUp DEF Puts
  <2> QED
    BY <1>1, <1>4, <1>5, <1>8, <2>1, <2>2, <2>4, <2>6 DEF LeaveConnected, ReceiveQuietly
<1>15. CASE AddRejected(p)
  BY <1>1, <1>2, <1>3, <1>4, <1>5, <1>8, <1>15 DEF AddRejected, ReceiveQuietly
<1>16. CASE RemoveAccepted(p)
  <2>1. arg[p] \in SUBSET Channels
    BY DEF Typed, PilotTyped
  <2>2. Chans
    BY <1>6, <1>16, <2>1 DEF RemoveAccepted
  <2>3. Accept("REMOVE_CHANNELS") \in Messages
    BY MessageType DEF Commands
  <2>4. Puts
    BY <1>16, <2>3, PutUp DEF Puts, RemoveAccepted
  <2> QED
    BY <1>1, <1>4, <1>5, <1>8, <1>16, <2>2, <2>4 DEF RemoveAccepted, ReceiveQuietly
<1>17. CASE RemoveRejected(p)
  BY <1>1, <1>2, <1>3, <1>4, <1>5, <1>8, <1>17 DEF RemoveRejected, ReceiveQuietly
<1>18. CASE RequestAccepted(p)
  <2>1. Moved
    BY <1>18 DEF RequestAccepted, Stay, Moved, Typed, PilotTyped
  <2>2. asked' \in [Pilots -> BOOLEAN] /\ refused' \in [Pilots -> SUBSET Channels]
    BY <1>18 DEF RequestAccepted, Typed, PilotTyped
  <2>3. live' \in [Pilots -> BOOLEAN] /\ linked' \in [Pilots -> BOOLEAN]
    BY <1>18 DEF RequestAccepted, Typed, PilotTyped
  <2>4. Chans /\ Puts /\ Taken
    BY <1>2, <1>3, <1>8, <1>18 DEF RequestAccepted
  <2> QED
    BY <1>0, <2>1, <2>2, <2>3, <2>4 DEF Typed, PilotTyped, Taken, Moved, Chans, Puts
<1>19. CASE RequestRejected(p)
  BY <1>1, <1>2, <1>3, <1>4, <1>5, <1>8, <1>19 DEF RequestRejected, ReceiveQuietly
<1>20. CASE HandoverDone(p)
  <2>1. Chans
    BY <1>20 DEF Chans, HandoverDone, Typed, PilotTyped
  <2> QED
    BY <1>1, <1>3, <1>4, <1>5, <1>8, <1>20, <2>1 DEF HandoverDone, ReceiveQuietly
<1>21. CASE ControlReleased(p)
  <2>1. Chans
    BY <1>21 DEF Chans, ControlReleased, Typed, PilotTyped
  <2>2. Accept("CONTROL_RELEASED") \in Messages
    BY MessageType DEF Commands
  <2>3. Puts
    BY <1>21, <2>2, PutUp DEF Puts, ControlReleased
  <2> QED
    BY <1>1, <1>4, <1>5, <1>8, <1>21, <2>1, <2>3 DEF ControlReleased, ReceiveQuietly
<1>22. CASE Drop(p)
  <2>1. Taken
    BY <1>22, TakeDown DEF Drop, Taken, user, Typed, PilotTyped
  <2>2. Moved
    BY <1>22 DEF Drop, Moved, Typed, PilotTyped
  <2> QED
    BY <1>1, <1>2, <1>3, <1>22, <2>1, <2>2 DEF Drop, user
<1> QED
  BY <1>9, <1>10, <1>11, <1>12, <1>13, <1>14, <1>15, <1>16, <1>17, <1>18, <1>19, <1>20,
     <1>21, <1>22 DEF ReceiveStep

(* and the end of its connection.                                          *)
LEMMA LeaveTyped ==
  ASSUME Typed, NEW p \in Pilots, Disconnect(p) \/ DisconnectFails(p), UNCHANGED facadeVars
  PROVE  Typed'
<1>0. FacadeTypeOK'
  BY DEF facadeVars, Typed, FacadeTypeOK
<1>1. CASE Disconnect(p)
  <2>1. "Disconnected" \in States /\ {} \in SUBSET Channels /\ <<>> \in Seq(Messages)
    BY EmptySeq DEF States, Connected
  <2>2. state' \in [Pilots -> States] /\ arg' \in [Pilots -> SUBSET Channels]
    BY <1>1, <2>1, BecomeTyped DEF Disconnect
  <2>3. up' \in [Pilots -> Seq(Messages)] /\ down' \in [Pilots -> Seq(Messages)]
    BY <1>1, <2>1 DEF Disconnect, Typed, PilotTyped
  <2>4. /\ open' \in [Pilots -> SUBSET Channels] /\ owned' \in [Pilots -> SUBSET Channels]
        /\ told' \in [Pilots -> SUBSET Channels] /\ refused' \in [Pilots -> SUBSET Channels]
        /\ calls' \in Counts
    BY <1>1 DEF Disconnect, channels, user, Typed, PilotTyped
  <2>5. /\ live' \in [Pilots -> BOOLEAN] /\ linked' \in [Pilots -> BOOLEAN]
        /\ asked' \in [Pilots -> BOOLEAN]
    BY <1>1 DEF Disconnect, user, Typed, PilotTyped
  <2> QED
    BY <1>0, <2>2, <2>3, <2>4, <2>5 DEF Typed, PilotTyped
<1>2. CASE DisconnectFails(p)
  <2>1. /\ live' \in [Pilots -> BOOLEAN] /\ linked' \in [Pilots -> BOOLEAN]
        /\ asked' \in [Pilots -> BOOLEAN]
    BY <1>2 DEF DisconnectFails, streams, user, Typed, PilotTyped
  <2> QED
    BY <1>0, <1>2, <2>1 DEF DisconnectFails, streams, channels, user, Typed, PilotTyped
<1> QED
  BY <1>1, <1>2

(* A message is put on its way to a pilot.                                 *)
LEMMA PutDown ==
  ASSUME NEW f \in [Pilots -> Seq(Messages)], NEW p \in Pilots, NEW m \in Messages
  PROVE  /\ [f EXCEPT ![p] = Append(@, m)] \in [Pilots -> Seq(Messages)]
         /\ [f EXCEPT ![p] = Append(@, m)][p] = Append(f[p], m)
         /\ \A r \in Pilots : r # p => [f EXCEPT ![p] = Append(@, m)][r] = f[r]
<1>1. Append(f[p], m) \in Seq(Messages)
  BY PutElements
<1> QED
  BY <1>1

(* The facade takes the next message on its way to it.                     *)
LEMMA TakeUp ==
  ASSUME Typed, NEW p \in Pilots, NEW command, NEW response, Take(p, command, response)
  PROVE  /\ up' \in [Pilots -> Seq(Messages)]
         /\ up'[p] = Tail(up[p]) /\ \A r \in Pilots : r # p => up'[r] = up[r]
         /\ Head(up[p]) \in Messages /\ Head(up[p]).ids \in SUBSET Channels
         /\ up[p] # <<>> /\ linked[p]
<1>1. /\ up \in [Pilots -> Seq(Messages)] /\ up[p] # <<>> /\ linked[p]
      /\ up' = [up EXCEPT ![p] = Tail(@)]
  BY DEF Take, Typed, PilotTyped
<1>2. Tail(up[p]) \in Seq(Messages) /\ Head(up[p]) \in Messages
  BY <1>1, TakeElements
<1>3. Head(up[p]).ids \in SUBSET Channels
  BY <1>2 DEF Messages
<1> QED
  BY <1>1, <1>2, <1>3

(* To refuse a requester keeps the types.                                  *)
LEMMA RefuseTyped ==
  ASSUME Typed, NEW p \in Pilots, NEW C, NEW sent \in [Pilots -> Seq(Messages)],
         Refuse(p, C, sent)
  PROVE  down' \in [Pilots -> Seq(Messages)]
<1>1. Reject("REQUEST_CONTROL") \in Messages
  BY MessageType DEF Commands
<1>2. handover.to # Nobody => handover.to \in Pilots
  BY DEF Typed, FacadeTypeOK
<1> QED
  BY <1>1, <1>2, PutDown DEF Refuse

(* What the facade does keeps the types.                                   *)
LEMMA FacadeTyped ==
  ASSUME Typed, NEW p \in Pilots, FacadeAnswer(p) \/ AskRelease(p)
  PROVE  Typed'
<1>1. ASSUME UNCHANGED facadeLeaves, FacadeTypeOK', linked' \in [Pilots -> BOOLEAN],
             up' \in [Pilots -> Seq(Messages)], down' \in [Pilots -> Seq(Messages)]
      PROVE  Typed'
  <2>1. /\ state' \in [Pilots -> States] /\ arg' \in [Pilots -> SUBSET Channels]
        /\ open' \in [Pilots -> SUBSET Channels] /\ owned' \in [Pilots -> SUBSET Channels]
        /\ told' \in [Pilots -> SUBSET Channels] /\ refused' \in [Pilots -> SUBSET Channels]
        /\ calls' \in Counts
    BY <1>1 DEF facadeLeaves, channels, user, Typed, PilotTyped
  <2>2. live' \in [Pilots -> BOOLEAN] /\ asked' \in [Pilots -> BOOLEAN]
    BY <1>1 DEF facadeLeaves, user, Typed, PilotTyped
  <2> QED
    BY <1>1, <2>1, <2>2 DEF Typed, PilotTyped
<1>2. ASSUME NEW command, NEW response, Take(p, command, response)
      PROVE  UNCHANGED facadeLeaves /\ up' \in [Pilots -> Seq(Messages)]
             /\ Head(up[p]).ids \in SUBSET Channels
  BY <1>2, TakeUp DEF Take
<1>3. ASSUME NEW q \in Pilots, NEW m \in Messages, SendDown(q, m)
      PROVE  down' \in [Pilots -> Seq(Messages)]
  BY <1>3, PutDown DEF SendDown, Typed, PilotTyped
<1>4. UNCHANGED facadeVars => FacadeTypeOK'
  BY DEF facadeVars, FacadeTypeOK, Typed
<1>5. /\ UNCHANGED linked => linked' \in [Pilots -> BOOLEAN]
      /\ linked' = [linked EXCEPT ![p] = FALSE] => linked' \in [Pilots -> BOOLEAN]
      /\ UNCHANGED down => down' \in [Pilots -> Seq(Messages)]
      /\ UNCHANGED up => up' \in [Pilots -> Seq(Messages)]
  BY DEF Typed, PilotTyped
<1>6. /\ standing \in [Pilots -> {"none", "admitted", "releasing"}]
      /\ granted \in [Pilots -> SUBSET Channels]
      /\ removing \in [Pilots -> SUBSET Channels]
      /\ owner \in [Channels -> Pilots \cup {Nobody}]
      /\ handover \in [stage : Stages, to : Pilots \cup {Nobody},
                       from : Pilots \cup {Nobody}, ids : SUBSET Channels]
      /\ handover.to \in Pilots \cup {Nobody} /\ handover.from \in Pilots \cup {Nobody}
  BY DEF Typed, FacadeTypeOK
<1>7. \A command \in Commands, C \in SUBSET Channels :
        /\ Plain(command) \in Messages /\ Indicate(command, C) \in Messages
        /\ Accept(command) \in Messages /\ AcceptIds(command, C) \in Messages
        /\ Reject(command) \in Messages
  BY MessageType
<1>8. NoHandover \in [stage : Stages, to : Pilots \cup {Nobody},
                      from : Pilots \cup {Nobody}, ids : SUBSET Channels]
  BY DEF NoHandover, Stages
<1>9. CASE AnswerSetup(p)
  <2>1. down' \in [Pilots -> Seq(Messages)]
    BY <1>3, <1>7, <1>9 DEF AnswerSetup, Commands
  <2>2. linked' \in [Pilots -> BOOLEAN]
    BY <1>5, <1>9 DEF AnswerSetup
  <2> QED
    BY <1>1, <1>2, <1>4, <1>9, <2>1, <2>2 DEF AnswerSetup
<1>10. CASE AnswerReady(p)
  <2> DEFINE C == Head(up[p]).ids
             new == {c \in C : owner[c] = Nobody /\ c \notin handover.ids}
  <2>1. /\ Take(p, "CHANNELS_READY", "NONE")
        /\ granted' = [granted EXCEPT ![p] = @ \cup C]
        /\ owner' = [c \in Channels |-> IF c \in new THEN p ELSE owner[c]]
        /\ SendDown(p, AcceptIds("CHANNELS_READY", new))
        /\ standing' = [standing EXCEPT ![p] = IF @ = "none" THEN "admitted" ELSE @]
        /\ UNCHANGED <<linked, removing, handover>>
    BY <1>10 DEF AnswerReady
  <2>2. C \in SUBSET Channels
    BY <1>2, <2>1
  <2>3. new \in SUBSET Channels
    BY <2>2
  <2> HIDE DEF C, new
  <2>4. down' \in [Pilots -> Seq(Messages)]
    BY <1>3, <1>7, <2>1, <2>3 DEF Commands
  <2>5. owner' \in [Channels -> Pilots \cup {Nobody}]
    BY <1>6, <2>1
  <2>6. granted' \in [Pilots -> SUBSET Channels]
    BY <1>6, <2>1, <2>2
  <2>7. standing' \in [Pilots -> {"none", "admitted", "releasing"}]
    BY <1>6, <2>1
  <2>8. FacadeTypeOK'
    BY <1>6, <2>1, <2>5, <2>6, <2>7 DEF FacadeTypeOK
  <2> QED
    BY <1>1, <1>2, <1>5, <2>1, <2>4, <2>8
<1>11. CASE EndCall(p)
  <2>1. /\ standing' = [standing EXCEPT ![p] = "none"]
        /\ granted' = [granted EXCEPT ![p] = {}]
        /\ removing' = [removing EXCEPT ![p] = {}]
        /\ owner' = [c \in Channels |-> IF owner[c] = p THEN Nobody ELSE owner[c]]
        /\ handover' \in {NoHandover, handover, [handover EXCEPT !.to = Nobody]}
        /\ linked' = [linked EXCEPT ![p] = FALSE]
        /\ Take(p, "RELEASE", "ACCEPTED") /\ Refuse(p, Channels, down)
    BY <1>11 DEF EndCall
  <2>2. standing' \in [Pilots -> {"none", "admitted", "releasing"}]
    BY <1>6, <2>1
  <2>3. granted' \in [Pilots -> SUBSET Channels] /\ removing' \in [Pilots -> SUBSET Channels]
    BY <1>6, <2>1
  <2>4. owner' \in [Channels -> Pilots \cup {Nobody}]
    BY <1>6, <2>1
  <2>5. handover' \in [stage : Stages, to : Pilots \cup {Nobody},
                       from : Pilots \cup {Nobody}, ids : SUBSET Channels]
    BY <1>6, <1>8, <2>1
  <2>6. down' \in [Pilots -> Seq(Messages)]
    BY <2>1, RefuseTyped DEF Typed, PilotTyped
  <2>7. FacadeTypeOK'
    BY <2>2, <2>3, <2>4, <2>5 DEF FacadeTypeOK
  <2> QED
    BY <1>1, <1>2, <1>5, <2>1, <2>6, <2>7
<1>12. CASE AnswerAdd(p)
  <2>1. Head(up[p]).ids \in SUBSET Channels
    BY <1>2, <1>12 DEF AnswerAdd
  <2>2. down' \in [Pilots -> Seq(Messages)]
    <3>1. CASE SendDown(p, Reject("ADD_CHANNELS"))
      BY <1>3, <1>7, <3>1 DEF Commands
    <3>2. CASE \E C \in SUBSET (Head(up[p]).ids \ granted[p]) :
                 C # {} /\ SendDown(p, AcceptIds("ADD_CHANNELS", C))
      <4>1. PICK C \in SUBSET (Head(up[p]).ids \ granted[p]) :
              SendDown(p, AcceptIds("ADD_CHANNELS", C))
        BY <3>2
      <4>2. C \in SUBSET Channels
        BY <2>1
      <4> QED
        BY <1>3, <1>7, <4>1, <4>2 DEF Commands
    <3> QED
      BY <1>12, <3>1, <3>2 DEF AnswerAdd
  <2> QED
    BY <1>1, <1>2, <1>4, <1>5, <1>12, <2>2 DEF AnswerAdd
<1>13. CASE AnswerRemove(p)
  <2> DEFINE C == Head(up[p]).ids
  <2>1. C \in SUBSET Channels
    BY <1>2, <1>13 DEF AnswerRemove
  <2>2. CASE SendDown(p, Reject("REMOVE_CHANNELS")) /\ UNCHANGED <<removing, handover>>
    <3>1. FacadeTypeOK'
      BY <1>4, <1>13, <2>2 DEF AnswerRemove, facadeVars
    <3>2. down' \in [Pilots -> Seq(Messages)]
      BY <1>3, <1>7, <2>2 DEF Commands
    <3> QED
      BY <1>1, <1>2, <1>5, <1>13, <3>1, <3>2 DEF AnswerRemove
  <2>3. CASE /\ removing' = [removing EXCEPT ![p] = C]
             /\ Refuse(p, C, [down EXCEPT ![p] = Append(@, Accept("REMOVE_CHANNELS"))])
             /\ handover' = IF Losing(p, C) THEN NoHandover ELSE handover
    <3>1. removing' \in [Pilots -> SUBSET Channels]
      BY <1>6, <2>1, <2>3
    <3>2. handover' \in [stage : Stages, to : Pilots \cup {Nobody},
                         from : Pilots \cup {Nobody}, ids : SUBSET Channels]
      BY <1>6, <1>8, <2>3
    <3>3. FacadeTypeOK'
      BY <1>6, <1>13, <3>1, <3>2 DEF AnswerRemove, FacadeTypeOK
    <3>4. [down EXCEPT ![p] = Append(@, Accept("REMOVE_CHANNELS"))] \in [Pilots -> Seq(Messages)]
      BY <1>7, PutDown DEF Commands, Typed, PilotTyped
    <3>5. down' \in [Pilots -> Seq(Messages)]
      BY <2>3, <3>4, RefuseTyped
    <3> QED
      BY <1>1, <1>2, <1>5, <1>13, <3>3, <3>5 DEF AnswerRemove
  <2> QED
    BY <1>13, <2>2, <2>3 DEF AnswerRemove
<1>14. CASE ConfirmRemove(p)
  <2>1. /\ granted' = [granted EXCEPT ![p] = @ \ removing[p]]
        /\ owner' = [c \in Channels |-> IF c \in removing[p] /\ owner[c] = p
                                        THEN Nobody ELSE owner[c]]
        /\ removing' = [removing EXCEPT ![p] = {}]
        /\ UNCHANGED <<linked, down, standing, handover>>
        /\ Take(p, "REMOVE_CHANNELS", "ACCEPTED")
    BY <1>14 DEF ConfirmRemove
  <2>2. granted' \in [Pilots -> SUBSET Channels] /\ removing' \in [Pilots -> SUBSET Channels]
    BY <1>6, <2>1
  <2>3. owner' \in [Channels -> Pilots \cup {Nobody}]
    BY <1>6, <2>1
  <2>4. FacadeTypeOK'
    BY <1>6, <2>1, <2>2, <2>3 DEF FacadeTypeOK
  <2> QED
    BY <1>1, <1>2, <1>5, <2>1, <2>4
<1>15. CASE AnswerRequest(p)
  <2> DEFINE C == Head(up[p]).ids
  <2>1. C \in SUBSET Channels
    BY <1>2, <1>15 DEF AnswerRequest
  <2>2. CASE SendDown(p, Reject("REQUEST_CONTROL")) /\ UNCHANGED handover
    <3>1. FacadeTypeOK'
      BY <1>4, <1>15, <2>2 DEF AnswerRequest, facadeVars
    <3>2. down' \in [Pilots -> Seq(Messages)]
      BY <1>3, <1>7, <2>2 DEF Commands
    <3> QED
      BY <1>1, <1>2, <1>5, <1>15, <3>1, <3>2 DEF AnswerRequest
  <2>3. ASSUME NEW c \in C,
               handover' = [stage |-> IF owner[c] = Nobody THEN "agreed" ELSE "asked",
                            to |-> p, from |-> owner[c], ids |-> C],
               IF owner[c] = Nobody THEN SendDown(p, Accept("REQUEST_CONTROL"))
               ELSE SendDown(owner[c], Indicate("RELEASE_CONTROL", C))
        PROVE  Typed'
    <3>1. owner[c] \in Pilots \cup {Nobody}
      BY <1>6, <2>1
    <3>2. handover' \in [stage : Stages, to : Pilots \cup {Nobody},
                         from : Pilots \cup {Nobody}, ids : SUBSET Channels]
      BY <2>1, <2>3, <3>1 DEF Stages
    <3>3. FacadeTypeOK'
      BY <1>6, <1>15, <3>2 DEF AnswerRequest, FacadeTypeOK
    <3>4. Accept("REQUEST_CONTROL") \in Messages /\ Indicate("RELEASE_CONTROL", C) \in Messages
      BY <1>7, <2>1 DEF Commands
    <3> HIDE DEF C
    <3>5. down' \in [Pilots -> Seq(Messages)]
      BY <1>3, <2>3, <3>1, <3>4
    <3> QED
      BY <1>1, <1>2, <1>5, <1>15, <3>3, <3>5 DEF AnswerRequest
  <2> QED
    BY <1>15, <2>2, <2>3 DEF AnswerRequest
<1>16. CASE OwnerAgreed(p)
  <2>1. /\ handover' \in {handover, [handover EXCEPT !.stage = "agreed"],
                          [handover EXCEPT !.stage = "switching"]}
    BY <1>16 DEF OwnerAgreed
  <2>2. handover' \in [stage : Stages, to : Pilots \cup {Nobody},
                       from : Pilots \cup {Nobody}, ids : SUBSET Channels]
    BY <1>6, <2>1 DEF Stages
  <2>3. FacadeTypeOK'
    BY <1>6, <1>16, <2>2 DEF OwnerAgreed, FacadeTypeOK
  <2>4. down' \in [Pilots -> Seq(Messages)]
    BY <1>3, <1>5, <1>6, <1>7, <1>16 DEF OwnerAgreed, Commands
  <2> QED
    BY <1>1, <1>2, <1>5, <1>16, <2>3, <2>4 DEF OwnerAgreed
<1>17. ASSUME NEW q \in Pilots \cup {Nobody}, GiveControl(q, handover.ids)
       PROVE  /\ owner' \in [Channels -> Pilots \cup {Nobody}]
              /\ handover' \in [stage : Stages, to : Pilots \cup {Nobody},
                                from : Pilots \cup {Nobody}, ids : SUBSET Channels]
  BY <1>6, <1>8, <1>17 DEF GiveControl
<1>18. CASE RequesterReady(p)
  <2>1. owner' \in [Channels -> Pilots \cup {Nobody}]
    BY <1>6, <1>17, <1>18 DEF RequesterReady
  <2>2. handover' \in [stage : Stages, to : Pilots \cup {Nobody},
                       from : Pilots \cup {Nobody}, ids : SUBSET Channels]
    <3>1. \/ GiveControl(p, handover.ids)
          \/ handover' \in {handover, [handover EXCEPT !.stage = "switching"]}
      BY <1>18 DEF RequesterReady
    <3>2. [handover EXCEPT !.stage = "switching"]
             \in [stage : Stages, to : Pilots \cup {Nobody},
                  from : Pilots \cup {Nobody}, ids : SUBSET Channels]
      BY <1>6 DEF Stages
    <3> QED
      BY <1>6, <1>17, <3>1, <3>2
  <2>3. FacadeTypeOK'
    BY <1>6, <1>18, <2>1, <2>2 DEF RequesterReady, FacadeTypeOK
  <2>4. down' \in [Pilots -> Seq(Messages)]
    BY <1>3, <1>6, <1>7, <1>18 DEF RequesterReady, Commands
  <2> QED
    BY <1>1, <1>2, <1>5, <1>18, <2>3, <2>4 DEF RequesterReady
<1>19. CASE OwnerLetGo(p)
  <2>1. owner' \in [Channels -> Pilots \cup {Nobody}]
    BY <1>6, <1>17, <1>19 DEF OwnerLetGo
  <2>2. handover' \in [stage : Stages, to : Pilots \cup {Nobody},
                       from : Pilots \cup {Nobody}, ids : SUBSET Channels]
    BY <1>6, <1>17, <1>19 DEF OwnerLetGo
  <2>3. FacadeTypeOK'
    BY <1>6, <1>19, <2>1, <2>2 DEF OwnerLetGo, FacadeTypeOK
  <2>4. down' \in [Pilots -> Seq(Messages)]
    BY <1>3, <1>5, <1>6, <1>7, <1>19 DEF OwnerLetGo, Commands
  <2> QED
    BY <1>1, <1>2, <1>5, <1>19, <2>3, <2>4 DEF OwnerLetGo
<1>20. CASE AskRelease(p)
  <2>1. standing' \in [Pilots -> {"none", "admitted", "releasing"}]
    BY <1>6, <1>20 DEF AskRelease
  <2>2. FacadeTypeOK'
    BY <1>6, <1>20, <2>1 DEF AskRelease, FacadeTypeOK
  <2>3. down' \in [Pilots -> Seq(Messages)]
    BY <1>3, <1>7, <1>20 DEF AskRelease, Commands
  <2> QED
    BY <1>1, <1>5, <1>20, <2>2, <2>3 DEF AskRelease
<1> QED
  BY <1>9, <1>10, <1>11, <1>12, <1>13, <1>14, <1>15, <1>16, <1>18, <1>19, <1>20
     DEF FacadeAnswer

(* Every step keeps the types.                                             *)
LEMMA NextTyped == Typed /\ [Next]_vars => Typed'
<1> SUFFICES ASSUME Typed, [Next]_vars PROVE Typed'
  OBVIOUS
<1>1. CASE UNCHANGED vars
  <2>1. /\ live' \in [Pilots -> BOOLEAN] /\ linked' \in [Pilots -> BOOLEAN]
        /\ asked' \in [Pilots -> BOOLEAN]
    BY <1>1 DEF vars, streams, user, Typed, PilotTyped
  <2>2. FacadeTypeOK'
    BY <1>1 DEF vars, facadeVars, Typed, FacadeTypeOK
  <2> QED
    BY <1>1, <2>1, <2>2 DEF vars, channels, streams, user, Typed, PilotTyped
<1>2. ASSUME NEW p \in Pilots, PilotStep(p), UNCHANGED facadeVars PROVE Typed'
  BY <1>2, UserStepTyped, ReceiveStepTyped, LeaveTyped DEF PilotStep
<1> QED
  BY <1>1, <1>2, FacadeTyped DEF Next


(* The kinds by command and response.                                      *)
LEMMA Kind ==
  ASSUME NEW m \in Messages
  PROVE  /\ m \in Requested <=> /\ m.response = "NONE"
                                /\ m.command \in {"SETUP", "CHANNELS_READY", "ADD_CHANNELS",
                                                  "REMOVE_CHANNELS", "REQUEST_CONTROL"}
         /\ m \in IsReady <=> m.response = "NONE" /\ m.command = "CONTROL_READY"
         /\ m \in Removed <=> m.response = "ACCEPTED" /\ m.command = "REMOVE_CHANNELS"
         /\ m \in LetGo <=> m.response = "ACCEPTED" /\ m.command = "CONTROL_RELEASED"
         /\ m \in Bye <=> m.response = "ACCEPTED" /\ m.command = "RELEASE"
         /\ m \in Admits <=> m.response = "ACCEPTED" /\ m.command = "SETUP"
         /\ m \in Validates <=> m.response = "ACCEPTED" /\ m.command = "CHANNELS_READY"
         /\ m \in Adds <=> m.response = "ACCEPTED" /\ m.command = "ADD_CHANNELS"
         /\ m \in Removes <=> m.response = "ACCEPTED" /\ m.command = "REMOVE_CHANNELS"
         /\ m \in Gives <=> m.response = "ACCEPTED" /\ m.command = "CONTROL_READY"
         /\ m \in Refuses <=> /\ m.response = "REJECTED"
                              /\ m.command \in {"SETUP", "ADD_CHANNELS", "REMOVE_CHANNELS",
                                                "REQUEST_CONTROL"}
         /\ m \in Agreed <=> m.response = "ACCEPTED" /\ m.command = "REQUEST_CONTROL"
         /\ m \in Asking <=> m.response = "NONE" /\ m.command = "RELEASE_CONTROL"
         /\ m \in Switch <=> m.response = "NONE" /\ m.command = "CONTROL_RELEASED"
BY DEF Of, Requested, IsReady, Removed, LetGo, Bye, Admits, Validates, Adds, Removes, Gives,
       Refuses, Agreed, Asking, Switch

(* What the facade may send at any time.                                   *)
LEMMA KindLater ==
  ASSUME NEW m \in Messages
  PROVE  m \in Later => \/ /\ m.response = "NONE"
                           /\ m.command \in {"RELEASE_CONTROL", "CONTROL_RELEASED", "RELEASE"}
                        \/ m = Reject("CONTROL_READY")
BY DEF Of, Asking, Switch, Later

(* All of them are messages.                                               *)
LEMMA InKind ==
  /\ Requested \subseteq Messages /\ IsReady \subseteq Messages /\ Removed \subseteq Messages
  /\ LetGo \subseteq Messages /\ Bye \subseteq Messages /\ Final \subseteq Messages
  /\ Agreed \subseteq Messages /\ Asking \subseteq Messages /\ Switch \subseteq Messages
  /\ Later \subseteq Messages
<1>1. Reject("CONTROL_READY") \in Messages
  BY MessageType DEF Commands
<1> QED
  BY <1>1 DEF Of, Requested, IsReady, Removed, LetGo, Bye, Admits, Validates, Adds, Removes,
              Gives, Refuses, Final, Agreed, Asking, Switch, Later

(* The kinds of a direction are disjoint.                                  *)
LEMMA Kinds ==
  /\ Requested \cap (IsReady \cup Removed \cup LetGo \cup Bye) = {}
  /\ Bye \cap (IsReady \cup Removed \cup LetGo) = {}
  /\ LetGo \cap (IsReady \cup Removed) = {} /\ IsReady \cap Removed = {}
  /\ Final \cap (Later \cup Agreed) = {} /\ Agreed \cap Later = {}
  /\ Asking \cap Switch = {} /\ Asking \subseteq Later /\ Switch \subseteq Later
  /\ Final \cap (Asking \cup Switch) = {} /\ Agreed \cap (Asking \cup Switch) = {}
  /\ Admits \subseteq Final /\ Validates \subseteq Final /\ Adds \subseteq Final
  /\ Removes \subseteq Final /\ Gives \subseteq Final /\ Refuses \subseteq Final
<1>1. \A m \in Messages : m \in Final => m \notin Later /\ m \notin Agreed
  <2> SUFFICES ASSUME NEW m \in Messages, m \in Final PROVE m \notin Later /\ m \notin Agreed
    OBVIOUS
  <2>1. m \notin Agreed
    BY Kind DEF Final
  <2>2. ~(m.response = "NONE")
    BY Kind DEF Final
  <2>3. m # Reject("CONTROL_READY")
    BY Kind DEF Final, Reject
  <2> QED
    BY <2>1, <2>2, <2>3, KindLater
<1>2. \A m \in Messages : m \in Agreed => m \notin Later
  BY Kind, KindLater DEF Reject
<1>3. Asking \subseteq Later /\ Switch \subseteq Later
  BY DEF Later
<1>4. /\ Admits \subseteq Final /\ Validates \subseteq Final /\ Adds \subseteq Final
      /\ Removes \subseteq Final /\ Gives \subseteq Final /\ Refuses \subseteq Final
  BY DEF Final
<1>5. Asking \cap Switch = {}
  BY Kind, InKind
<1>6. /\ Requested \cap (IsReady \cup Removed \cup LetGo \cup Bye) = {}
      /\ Bye \cap (IsReady \cup Removed \cup LetGo) = {}
      /\ LetGo \cap (IsReady \cup Removed) = {} /\ IsReady \cap Removed = {}
  BY Kind, InKind
<1>7. Final \cap (Later \cup Agreed) = {} /\ Agreed \cap Later = {}
  BY <1>1, <1>2, InKind
<1>8. Final \cap (Asking \cup Switch) = {} /\ Agreed \cap (Asking \cup Switch) = {}
  BY <1>3, <1>7
<1> QED
  BY <1>3, <1>4, <1>5, <1>6, <1>7, <1>8

(* The states that wait, and what for.                                     *)
LEMMA WaitsFor ==
  ASSUME NEW s \in States
  PROVE  /\ s \in Waiting \/ s = "Disconnecting" <=> Waits(s) # {}
         /\ "SETUP" \in Waits(s) <=> s = "Connecting"
         /\ "CHANNELS_READY" \in Waits(s) <=> s = "ValidatingChannels"
         /\ "ADD_CHANNELS" \in Waits(s) <=> s = "OpeningChannels"
         /\ "REMOVE_CHANNELS" \in Waits(s) <=> s \in {"ClosingChannels", "Disconnecting"}
         /\ "REQUEST_CONTROL" \in Waits(s) <=> s = "RequestingControl"
         /\ "CONTROL_READY" \in Waits(s) <=> s = "RequestingControl"
BY DEF Waits, Waiting, States, Connected

(* The invariant holds initially.                                          *)
LEMMA InitInv == Init => Typed /\ Handover /\ \A p \in Pilots : PilotInv(p)
<1> SUFFICES ASSUME Init PROVE Typed /\ Handover /\ \A p \in Pilots : PilotInv(p)
  OBVIOUS
<1>1. Typed
  BY InitTyped
<1>2. Handover
  BY DEF Init, Handover, NoHandover
<1>3. ASSUME NEW p \in Pilots PROVE PilotInv(p)
  <2>1. /\ state[p] = "Disconnected" /\ arg[p] = {} /\ open[p] = {} /\ owned[p] = {}
        /\ told[p] = {} /\ live[p] = TRUE /\ linked[p] = FALSE
        /\ granted[p] = {} /\ removing[p] = {} /\ OwnedBy(p) = {}
    BY <1>3, NobodyAssumption DEF Init, PilotInit, OwnedBy
  <2>2. /\ up[p] = <<>> /\ down[p] = <<>>
    BY <1>3 DEF Init, PilotInit
  <2>3. /\ \A K : Up(p, K) = {} /\ Down(p, K) = {}
        /\ \A K, L : After(up[p], K, L) /\ After(down[p], K, L)
        /\ ToSet(down[p]) = {}
    BY <2>2, NoElements DEF Up, Down
  <2>4. /\ handover.to # p /\ handover.from # p
    BY <1>3, NobodyAssumption DEF Init, NoHandover
  <2>5. "Disconnected" \notin Connected \cup Waiting
    BY DEF Connected, Waiting
  <2>6. Asks(p)
    BY <2>1, <2>2, <2>3, <2>5 DEF Asks, Answered
  <2>7. Gets(p)
    BY <2>1, <2>2, <2>3, <2>5 DEF Gets, Answered
  <2>8. Hands(p)
    BY <2>1, <2>2, <2>3, <2>4 DEF Hands, Answered
  <2>9. Knows(p) /\ Controls(p)
    BY <2>1, <2>2, <2>3, <2>5 DEF Knows, Controls
  <2> QED
    BY <2>6, <2>7, <2>8, <2>9 DEF PilotInv
<1> QED
  BY <1>1, <1>2, <1>3

(* What a step leaves alone keeps its invariant; a pilot that is no party  *)
(* to the handover is not concerned when it changes.                       *)
Same(p) ==
  /\ state'[p] = state[p] /\ arg'[p] = arg[p] /\ live'[p] = live[p] /\ linked'[p] = linked[p]
  /\ up'[p] = up[p] /\ down'[p] = down[p]
  /\ open'[p] = open[p] /\ owned'[p] = owned[p] /\ told'[p] = told[p]
  /\ granted'[p] = granted[p] /\ removing'[p] = removing[p] /\ OwnedBy(p)' = OwnedBy(p)

(* A step that leaves a pilot and the handover alone,                      *)
LEMMA Frame ==
  ASSUME NEW p \in Pilots, PilotInv(p), Same(p), handover' = handover
  PROVE  PilotInv(p)'
<1>1. Asks(p)'
  BY DEF PilotInv, Same, Asks, Answered, Up
<1>2. Gets(p)'
  BY DEF PilotInv, Same, Gets, Answered, Up, Down
<1>3. Hands(p)'
  BY DEF PilotInv, Same, Hands, Tokens, Answered, Up, Down
<1>4. Controls(p)'
  BY DEF PilotInv, Same, Controls, Accounted, Up, Down
<1> QED
  BY <1>1, <1>2, <1>3, <1>4 DEF PilotInv, Same, Knows, Up, Down

(* and one that changes a handover of others.                              *)
LEMMA Bystander ==
  ASSUME NEW p \in Pilots, PilotInv(p), Same(p), handover.to # p, handover.from # p,
         handover'.to # p, handover'.from # p
  PROVE  PilotInv(p)'
<1>1. Asks(p)'
  BY DEF PilotInv, Same, Asks, Answered, Up
<1>2. Gets(p)'
  BY DEF PilotInv, Same, Gets, Answered, Up, Down
<1>3. Hands(p)'
  BY DEF PilotInv, Same, Hands, Tokens, Answered, Up, Down
<1>4. Controls(p)'
  BY DEF PilotInv, Same, Controls, Hands, Accounted, Up, Down
<1> QED
  BY <1>1, <1>2, <1>3, <1>4 DEF PilotInv, Same, Knows, Up, Down

-----------------------------------------------------------------------------
(* Taking a message, and sending one.                                      *)

(* What a pilot's step leaves alone: all that is the facade's.             *)
Still(p) ==
  /\ granted'[p] = granted[p] /\ removing'[p] = removing[p] /\ OwnedBy(p)' = OwnedBy(p)
  /\ handover' = handover

(* The types of one pilot.                                                 *)
LEMMA QueueTypes ==
  ASSUME Typed, NEW p \in Pilots
  PROVE  /\ up[p] \in Seq(Messages) /\ down[p] \in Seq(Messages)
         /\ state[p] \in States /\ live[p] \in BOOLEAN /\ linked[p] \in BOOLEAN
         /\ arg[p] \subseteq Channels /\ open[p] \subseteq Channels
         /\ owned[p] \subseteq Channels /\ told[p] \subseteq Channels
BY DEF Typed, PilotTyped

(* A message is taken from the pilot's queue.                              *)
LEMMA DownTaken ==
  ASSUME Typed, NEW p \in Pilots, Gets(p), down[p] # <<>>, down'[p] = Tail(down[p])
  PROVE  /\ Head(down[p]) \in Messages /\ Head(down[p]) \in ToSet(down[p])
         /\ ToSet(down[p]) = {Head(down[p])} \cup ToSet(down'[p])
         /\ \A K : Down(p, K)' \subseteq Down(p, K)
         /\ \A K : Head(down[p]) \notin K => Down(p, K)' = Down(p, K)
         /\ \A K : Head(down[p]) \in K => Head(down[p]) \in Down(p, K)
         /\ After(down'[p], Final, Later)
         /\ Head(down[p]) \in Final => ToSet(down'[p]) \subseteq Later
         /\ state[p] # "Disconnected"
<1>1. down[p] \in Seq(Messages)
  BY QueueTypes
<1>2. /\ Head(down[p]) \in Messages
      /\ ToSet(down[p]) = {Head(down[p])} \cup ToSet(down'[p])
  BY <1>1, TakeElements
<1>3. /\ After(down'[p], Final, Later)
      /\ Head(down[p]) \in Final => ToSet(down'[p]) \subseteq Later
  BY <1>1, TakeAfter DEF Gets
<1>4. /\ \A K : Down(p, K)' \subseteq Down(p, K)
      /\ \A K : Head(down[p]) \notin K => Down(p, K)' = Down(p, K)
      /\ \A K : Head(down[p]) \in K => Head(down[p]) \in Down(p, K)
  BY <1>2 DEF Down
<1>5. state[p] # "Disconnected"
  BY DEF Gets
<1> QED
  BY <1>2, <1>3, <1>4, <1>5

(* What is fresh in the rest of a queue was so one place later.            *)
LEMMA FreshTaken ==
  ASSUME NEW q \in Seq(Messages), q # <<>>, NEW K
  PROVE  /\ \A i \in Fresh(Tail(q), K, Final) : /\ i + 1 \in Fresh(q, K, Final)
                                               /\ Tail(q)[i] = q[i + 1]
         /\ AtMostOne(Fresh(q, K, Final)) => AtMostOne(Fresh(Tail(q), K, Final))
BY TakeFresh

(* What is left in the queue are messages of the same handover.            *)
LEMMA TokensTaken ==
  ASSUME Typed, NEW p \in Pilots, Tokens(p), down[p] # <<>>, down'[p] = Tail(down[p]),
         handover' = handover
  PROVE  Tokens(p)'
<1> DEFINE q == down[p]
<1>1. q \in Seq(Messages) /\ q # <<>>
  BY QueueTypes
<1>2. AtMostOne(Fresh(q, Asking, Final)) /\ AtMostOne(Fresh(q, Switch, Final))
  BY DEF Tokens
<1>3. /\ \A i \in Fresh(q, Asking, Final) : handover.from = p /\ q[i].ids = handover.ids
      /\ \A i \in Fresh(q, Switch, Final) : handover.from = p /\ handover.stage = "switching"
  BY DEF Tokens
<1>4. down'[p] = Tail(q)
  OBVIOUS
<1> HIDE DEF q
<1>5. /\ \A i \in Fresh(Tail(q), Asking, Final) : /\ i + 1 \in Fresh(q, Asking, Final)
                                                 /\ Tail(q)[i] = q[i + 1]
      /\ \A i \in Fresh(Tail(q), Switch, Final) : i + 1 \in Fresh(q, Switch, Final)
  BY <1>1, FreshTaken
<1>6. AtMostOne(Fresh(Tail(q), Asking, Final))
  BY <1>1, <1>2, FreshTaken
<1>7. AtMostOne(Fresh(Tail(q), Switch, Final))
  BY <1>1, <1>2, FreshTaken
<1>8. \A i \in Fresh(Tail(q), Asking, Final) : handover.from = p /\ Tail(q)[i].ids = handover.ids
  BY <1>3, <1>5
<1>9. \A i \in Fresh(Tail(q), Switch, Final) : handover.from = p /\ handover.stage = "switching"
  BY <1>3, <1>5
<1> QED
  BY <1>4, <1>6, <1>7, <1>8, <1>9 DEF Tokens

(* Taking a message makes none fresh.                                      *)
LEMMA StaleTaken ==
  ASSUME Typed, NEW p \in Pilots, down[p] # <<>>, down'[p] = Tail(down[p]), NEW K
  PROVE  Fresh(down[p], K, Final) = {} => Fresh(down'[p], K, Final) = {}
<1>1. down[p] \in Seq(Messages)
  BY QueueTypes
<1> QED
  BY <1>1, TakeFresh

(* A message is put into the queue to the facade.                          *)
LEMMA UpPut ==
  ASSUME Typed, NEW p \in Pilots, NEW m \in Messages, up'[p] = Append(up[p], m), Asks(p),
         Answered(p) \/ m \in IsReady \cup Bye, Up(p, Bye) = {},
         Up(p, LetGo) = {} \/ m \notin LetGo
  PROVE  /\ ToSet(up'[p]) = ToSet(up[p]) \cup {m}
         /\ \A K : m \notin K => Up(p, K)' = Up(p, K)
         /\ \A K : m \in K => Up(p, K)' = Up(p, K) \cup {m}
         /\ After(up'[p], Requested, IsReady \cup Bye)
         /\ After(up'[p], Bye, {})
         /\ After(up'[p], LetGo, Messages \ LetGo)
<1>1. up[p] \in Seq(Messages)
  BY QueueTypes
<1>2. ToSet(up'[p]) = ToSet(up[p]) \cup {m}
  BY <1>1, PutElements
<1>3. After(up'[p], Requested, IsReady \cup Bye)
  <2>1. ToSet(up[p]) \cap Requested = {} \/ m \in IsReady \cup Bye
    BY DEF Answered, Up
  <2> QED
    BY <1>1, <2>1, PutAfter DEF Asks
<1>4. After(up'[p], Bye, {})
  <2>1. ToSet(up[p]) \cap Bye = {}
    BY DEF Up
  <2> QED
    BY <1>1, <2>1, PutAfter DEF Asks
<1>5. After(up'[p], LetGo, Messages \ LetGo)
  <2>1. ToSet(up[p]) \cap LetGo = {} \/ m \in Messages \ LetGo
    BY DEF Up
  <2> QED
    BY <1>1, <2>1, PutAfter DEF Asks
<1> QED
  BY <1>2, <1>3, <1>4, <1>5 DEF Up

(* A pilot whose answer is on its way: nothing else is in the queues.      *)
LEMMA Settled ==
  ASSUME Typed, NEW p \in Pilots, PilotInv(p), state[p] \in Waiting, Down(p, Final) # {}
  PROVE  /\ Answered(p) /\ ToSet(up[p]) \subseteq IsReady
         /\ Up(p, Requested) = {} /\ Up(p, Removed) = {} /\ Up(p, LetGo) = {} /\ Up(p, Bye) = {}
         /\ handover.to # p /\ state[p] # "Disconnecting"
         /\ live[p] => granted[p] \subseteq open[p]
<1>1. Answered(p) /\ ToSet(up[p]) \subseteq IsReady
  BY DEF PilotInv, Gets, Asks
<1>2. Up(p, Requested) = {} /\ Up(p, Removed) = {} /\ Up(p, LetGo) = {} /\ Up(p, Bye) = {}
  BY <1>1, Kinds DEF Up
<1>3. state[p] # "Disconnecting"
  BY DEF Waiting
<1>4. handover.to # p
  BY DEF PilotInv, Hands
<1> QED
  BY <1>1, <1>2, <1>3, <1>4 DEF PilotInv, Knows

(* The answer to a request is taken: the pilot no longer waits, or waits   *)
(* for the next answer.                                                    *)
LEMMA Returns ==
  ASSUME Typed, NEW p \in Pilots, PilotInv(p), state[p] \in Waiting, live[p] = TRUE,
         down[p] # <<>>, Head(down[p]) \in Final, Still(p),
         down'[p] = Tail(down[p]), up'[p] = up[p], live'[p] = live[p], linked'[p] = linked[p],
         state'[p] \in {"Operating", "Disconnecting"},
         state[p] = "Connecting" => state'[p] = "Disconnecting"
  PROVE  Asks(p)' /\ Gets(p)' /\ Hands(p)'
<1>1. Head(down[p]) \in Down(p, Final) /\ ToSet(down'[p]) \subseteq Later
      /\ After(down'[p], Final, Later)
  BY DownTaken DEF PilotInv
<1>2. /\ Answered(p) /\ ToSet(up[p]) \subseteq IsReady
      /\ Up(p, Requested) = {} /\ Up(p, LetGo) = {} /\ Up(p, Bye) = {} /\ handover.to # p
  BY <1>1, Settled
<1>3. /\ Up(p, Requested)' = {} /\ Up(p, LetGo)' = {} /\ Up(p, Bye)' = {}
  BY <1>2 DEF Up
<1>4. Down(p, Final)' = {} /\ Down(p, Agreed)' = {} /\ Down(p, Admits)' = {}
  BY <1>1, Kinds DEF Down
<1>5. /\ state'[p] \notin Waiting /\ state'[p] # "ReleasingControl" /\ state'[p] # "RequestingControl"
      /\ state'[p] # "Connecting" /\ state'[p] # "Disconnected"
      /\ state'[p] \in Connected => state[p] \in Connected
  <2>1. state[p] # "Connecting" => state[p] \in Connected
    BY DEF Waiting, Connected
  <2>2. "Disconnecting" \notin Connected
    BY DEF Connected
  <2>3. "Operating" \notin Waiting /\ "Disconnecting" \notin Waiting
    BY DEF Waiting
  <2> QED
    BY <2>1, <2>2, <2>3
<1>6. Asks(p)'
  BY <1>2, <1>3, <1>5 DEF Asks, PilotInv
<1>7. Gets(p)'
  BY <1>1, <1>4, <1>5 DEF Gets
<1>8. linked[p] => Tokens(p)'
  BY TokensTaken DEF PilotInv, Hands, Still
<1>9. Hands(p)'
  BY <1>2, <1>3, <1>5, <1>8 DEF Hands, PilotInv, Still
<1> QED
  BY <1>6, <1>7, <1>9

-----------------------------------------------------------------------------
(* What the steps of a pilot do, whatever led to them.                     *)

(* In a state that waits for nothing, nothing is awaited.                  *)
LEMMA AtRest ==
  ASSUME Typed, NEW p \in Pilots, PilotInv(p),
         state[p] \in {"Operating", "ReleasingControl", "Disconnected"}
  PROVE  /\ Up(p, Requested) = {} /\ Answered(p) /\ Up(p, Bye) = {}
         /\ Down(p, Final) = {} /\ Down(p, Agreed) = {}
         /\ Down(p, Validates) = {} /\ Down(p, Gives) = {} /\ Down(p, Adds) = {}
         /\ Down(p, Removes) = {} /\ Down(p, Admits) = {}
         /\ handover.to # p
<1>1. Waits(state[p]) = {}
  BY DEF Waits
<1>2. Up(p, Requested) = {} /\ Up(p, Bye) = {} /\ Down(p, Final) = {} /\ Down(p, Agreed) = {}
  BY <1>1 DEF PilotInv, Asks, Gets
<1>3. /\ Down(p, Validates) = {} /\ Down(p, Gives) = {} /\ Down(p, Adds) = {}
      /\ Down(p, Removes) = {} /\ Down(p, Admits) = {}
  BY <1>2, Kinds DEF Down
<1> QED
  BY <1>2, <1>3 DEF PilotInv, Hands, Answered

(* The user starts something in Operating.                                 *)
LEMMA Starts ==
  ASSUME Typed, NEW p \in Pilots, PilotInv(p), state[p] = "Operating", live[p] = TRUE,
         NEW m \in Messages, m \in Requested, m.ids = arg'[p], m.command \in Waits(state'[p]),
         state'[p] \in {"OpeningChannels", "ClosingChannels", "RequestingControl"},
         state'[p] = "RequestingControl" => \E c \in Channels : arg'[p] = {c},
         up'[p] = Append(up[p], m), down'[p] = down[p],
         live'[p] = live[p], linked'[p] = linked[p], open'[p] = open[p],
         owned'[p] = owned[p], told'[p] = told[p], Still(p)
  PROVE  PilotInv(p)'
<1>1. /\ Up(p, Requested) = {} /\ Answered(p) /\ Up(p, Bye) = {}
      /\ Down(p, Final) = {} /\ Down(p, Agreed) = {}
      /\ Down(p, Validates) = {} /\ Down(p, Gives) = {} /\ Down(p, Adds) = {}
      /\ Down(p, Removes) = {} /\ Down(p, Admits) = {}
      /\ handover.to # p
  BY AtRest
<1>2. m \notin Bye /\ m \notin LetGo /\ m \notin Removed /\ m \notin IsReady
  BY Kinds
<1>3. /\ ToSet(up'[p]) = ToSet(up[p]) \cup {m}
      /\ Up(p, Requested)' = {m} /\ Up(p, Bye)' = {}
      /\ Up(p, LetGo)' = Up(p, LetGo) /\ Up(p, Removed)' = Up(p, Removed)
      /\ After(up'[p], Requested, IsReady \cup Bye)
      /\ After(up'[p], Bye, {})
      /\ After(up'[p], LetGo, Messages \ LetGo)
  <2>1. /\ ToSet(up'[p]) = ToSet(up[p]) \cup {m}
        /\ \A K : m \notin K => Up(p, K)' = Up(p, K)
        /\ \A K : m \in K => Up(p, K)' = Up(p, K) \cup {m}
        /\ After(up'[p], Requested, IsReady \cup Bye)
        /\ After(up'[p], Bye, {})
        /\ After(up'[p], LetGo, Messages \ LetGo)
    BY <1>1, <1>2, UpPut DEF PilotInv
  <2>2. /\ Up(p, Requested)' = {m} /\ Up(p, Bye)' = {}
        /\ Up(p, LetGo)' = Up(p, LetGo) /\ Up(p, Removed)' = Up(p, Removed)
    BY <1>1, <1>2, <2>1
  <2> QED
    BY <2>1, <2>2
<1>4. \A K : Down(p, K)' = Down(p, K)
  BY DEF Down
<1>5. /\ state'[p] # "Operating" /\ state'[p] # "Disconnecting" /\ state'[p] # "Connecting"
      /\ state'[p] # "ReleasingControl" /\ state'[p] # "Disconnected"
      /\ state'[p] # "ValidatingChannels" /\ state'[p] \in Connected
      /\ state[p] # "ValidatingChannels" /\ state[p] # "Disconnecting" /\ state[p] \in Connected
  BY DEF Connected
<1>6. Asks(p)'
  BY <1>3, <1>5 DEF PilotInv, Asks, Answered
<1>7. Gets(p)'
  BY <1>1, <1>4, <1>5 DEF PilotInv, Gets
<1>8. Hands(p)'
  <2>1. Tokens(p)' <=> Tokens(p)
    BY DEF Tokens, Still
  <2> QED
    BY <1>1, <1>3, <1>5, <2>1 DEF PilotInv, Hands, Still
<1>9. Knows(p)'
  BY <1>1, <1>3, <1>4, <1>5 DEF PilotInv, Knows, Still
<1>10. Controls(p)'
  BY <1>1, <1>3, <1>4, <1>5 DEF PilotInv, Controls, Accounted, Still
<1> QED
  BY <1>6, <1>7, <1>8, <1>9, <1>10 DEF PilotInv

(* A message that answers no request is taken and changes nothing else.    *)
LEMMA Pops ==
  ASSUME Typed, NEW p \in Pilots, PilotInv(p), down[p] # <<>>, Head(down[p]) \notin Final,
         down'[p] = Tail(down[p]), up'[p] = up[p], state'[p] = state[p], arg'[p] = arg[p],
         live'[p] = live[p], linked'[p] = linked[p], open'[p] = open[p],
         owned'[p] = owned[p], told'[p] = told[p], Still(p)
  PROVE  PilotInv(p)'
<1>1. /\ \A K : Down(p, K)' \subseteq Down(p, K)
      /\ \A K : Head(down[p]) \notin K => Down(p, K)' = Down(p, K)
      /\ ToSet(down[p]) = {Head(down[p])} \cup ToSet(down'[p])
      /\ After(down'[p], Final, Later) /\ state[p] # "Disconnected"
  BY DownTaken DEF PilotInv
<1>2. \A K : Up(p, K)' = Up(p, K)
  BY DEF Up
<1>3. Down(p, Validates)' = Down(p, Validates) /\ Down(p, Gives)' = Down(p, Gives)
  BY <1>1, Kinds
<1>4. Asks(p)'
  BY <1>2 DEF PilotInv, Asks, Answered
<1>5. Gets(p)'
  BY <1>1, <1>2 DEF PilotInv, Gets, Answered
<1>6. Hands(p)'
  <2>1. Tokens(p) => Tokens(p)'
    BY TokensTaken DEF Still
  <2>2. Fresh(down[p], Asking, Final) = {} => Fresh(down'[p], Asking, Final) = {}
    BY StaleTaken
  <2>3. Fresh(down[p], Switch, Final) = {} => Fresh(down'[p], Switch, Final) = {}
    BY StaleTaken
  <2> QED
    BY <1>1, <1>2, <2>1, <2>2, <2>3 DEF PilotInv, Hands, Still, Answered
<1>7. Knows(p)'
  BY <1>1, <1>2 DEF PilotInv, Knows, Still
<1>8. Controls(p)'
  BY <1>2, <1>3 DEF PilotInv, Controls, Accounted, Still
<1> QED
  BY <1>4, <1>5, <1>6, <1>7, <1>8 DEF PilotInv

(* The user answers in a handover.                                         *)
LEMMA Says ==
  ASSUME Typed, NEW p \in Pilots, PilotInv(p), NEW m \in Messages,
         \/ state[p] = "RequestingControl" /\ m \in IsReady
         \/ state[p] = "ReleasingControl" /\ m \notin Requested \cup Bye \cup LetGo \cup Removed,
         \/ state'[p] = state[p] /\ arg'[p] = arg[p]
         \/ state[p] = "ReleasingControl" /\ state'[p] = "Operating",
         up'[p] = Append(up[p], m), down'[p] = down[p],
         live'[p] = live[p], linked'[p] = linked[p], open'[p] = open[p],
         owned'[p] = owned[p], told'[p] = told[p], Still(p)
  PROVE  PilotInv(p)'
<1>1. m \notin Requested /\ m \notin Bye /\ m \notin LetGo /\ m \notin Removed
  BY Kinds
<1>2. Up(p, Bye) = {} /\ (Answered(p) \/ m \in IsReady)
  <2>1. CASE state[p] = "RequestingControl"
    BY <2>1 DEF PilotInv, Asks
  <2>2. CASE state[p] = "ReleasingControl"
    BY <2>2, AtRest
  <2> QED
    BY <2>1, <2>2
<1>3. /\ ToSet(up'[p]) = ToSet(up[p]) \cup {m}
      /\ Up(p, Requested)' = Up(p, Requested) /\ Up(p, Bye)' = Up(p, Bye)
      /\ Up(p, LetGo)' = Up(p, LetGo) /\ Up(p, Removed)' = Up(p, Removed)
      /\ After(up'[p], Requested, IsReady \cup Bye)
      /\ After(up'[p], Bye, {})
      /\ After(up'[p], LetGo, Messages \ LetGo)
  <2>1. Up(p, Bye) = {}
    BY DEF PilotInv, Asks
  <2> QED
    BY <1>1, <1>2, <2>1, UpPut DEF PilotInv
<1>4. \A K : Down(p, K)' = Down(p, K)
  BY DEF Down
<1>5. Tokens(p)' <=> Tokens(p)
  BY DEF Tokens, Still
<1>6. CASE state[p] = "RequestingControl"
  <2>1. state'[p] = state[p] /\ arg'[p] = arg[p] /\ m \in IsReady
    BY <1>6
  <2>2. state[p] # "Connecting"
    BY <1>6
  <2>3. Asks(p)'
    <3>1. Up(p, Requested)' = Up(p, Requested) /\ Up(p, Bye)' = Up(p, Bye)
          /\ ToSet(up[p]) \subseteq IsReady => ToSet(up'[p]) \subseteq IsReady
      BY <1>3, <2>1
    <3>2. linked[p] = TRUE
      BY <1>6, QueueTypes DEF PilotInv, Asks, Connected
    <3> QED
      BY <1>3, <2>1, <2>2, <3>1, <3>2 DEF PilotInv, Asks, Answered
  <2>4. Gets(p)'
    BY <1>3, <1>4, <2>1 DEF PilotInv, Gets, Answered
  <2>5. Hands(p)'
    BY <1>3, <1>4, <1>5, <2>1 DEF PilotInv, Hands, Still, Answered
  <2>6. Knows(p)'
    BY <1>3, <1>4, <2>1 DEF PilotInv, Knows, Still
  <2>7. Controls(p)'
    BY <1>3, <1>4, <2>1 DEF PilotInv, Controls, Accounted, Still
  <2> QED
    BY <2>3, <2>4, <2>5, <2>6, <2>7 DEF PilotInv
<1>7. CASE state[p] = "ReleasingControl"
  <2>1. /\ Up(p, Requested) = {} /\ Answered(p) /\ Up(p, Bye) = {}
        /\ Down(p, Final) = {} /\ Down(p, Agreed) = {}
        /\ Down(p, Validates) = {} /\ Down(p, Gives) = {} /\ Down(p, Adds) = {}
        /\ Down(p, Removes) = {} /\ Down(p, Admits) = {}
        /\ handover.to # p
    BY <1>7, AtRest
  <2>2. /\ state'[p] \notin Waiting /\ state'[p] # "Disconnecting" /\ state'[p] # "Connecting"
        /\ state'[p] # "Disconnected" /\ state'[p] # "ValidatingChannels"
        /\ state'[p] # "RequestingControl"
        /\ state'[p] \in Connected /\ state[p] \in Connected
        /\ state'[p] = "ReleasingControl" => arg'[p] = arg[p]
    BY <1>7 DEF Waiting, Connected
  <2>3. Asks(p)'
    BY <1>3, <1>7, <2>1, <2>2 DEF PilotInv, Asks, Answered
  <2>4. Gets(p)'
    BY <1>3, <1>4, <2>1, <2>2 DEF PilotInv, Gets, Answered
  <2>5. Hands(p)'
    BY <1>3, <1>4, <1>5, <1>7, <2>1, <2>2 DEF PilotInv, Hands, Still
  <2>6. Knows(p)'
    BY <1>3, <1>4, <1>7, <2>1, <2>2 DEF PilotInv, Knows, Still
  <2>7. Controls(p)'
    BY <1>3, <1>4, <1>7, <2>1, <2>2 DEF PilotInv, Controls, Accounted, Still
  <2> QED
    BY <2>3, <2>4, <2>5, <2>6, <2>7 DEF PilotInv
<1> QED
  BY <1>6, <1>7

(* The answer that is taken is the only one.                               *)
LEMMA Alone ==
  ASSUME Typed, NEW p \in Pilots, PilotInv(p), down[p] # <<>>, Head(down[p]) \in Final,
         down'[p] = Tail(down[p])
  PROVE  /\ Head(down[p]) \in Messages /\ Head(down[p]).command \in Waits(state[p])
         /\ Down(p, Final) # {}
         /\ Down(p, Validates)' = {} /\ Down(p, Gives)' = {} /\ Down(p, Adds)' = {}
         /\ Down(p, Removes)' = {}
         /\ Down(p, Validates) = IF Head(down[p]) \in Validates THEN {Head(down[p])} ELSE {}
         /\ Down(p, Gives) = IF Head(down[p]) \in Gives THEN {Head(down[p])} ELSE {}
<1>1. /\ Head(down[p]) \in Messages
      /\ ToSet(down[p]) = {Head(down[p])} \cup ToSet(down'[p])
      /\ ToSet(down'[p]) \subseteq Later
      /\ Head(down[p]) \in Down(p, Final)
  BY DownTaken DEF PilotInv
<1>2. Head(down[p]).command \in Waits(state[p])
  BY <1>1 DEF PilotInv, Gets
<1>3. Later \cap Validates = {} /\ Later \cap Gives = {} /\ Later \cap Adds = {}
      /\ Later \cap Removes = {}
  BY Kinds
<1>4. /\ Down(p, Validates)' = {} /\ Down(p, Gives)' = {} /\ Down(p, Adds)' = {}
      /\ Down(p, Removes)' = {}
  BY <1>1, <1>3 DEF Down
<1>5. /\ Down(p, Validates) = IF Head(down[p]) \in Validates THEN {Head(down[p])} ELSE {}
      /\ Down(p, Gives) = IF Head(down[p]) \in Gives THEN {Head(down[p])} ELSE {}
  BY <1>1, <1>3 DEF Down
<1> QED
  BY <1>1, <1>2, <1>4, <1>5

(* A request is refused.                                                   *)
LEMMA ReturnsRefused ==
  ASSUME Typed, NEW p \in Pilots, PilotInv(p), state[p] \in Waiting, live[p] = TRUE,
         down[p] # <<>>, Head(down[p]) \in Refuses, Still(p),
         down'[p] = Tail(down[p]), up'[p] = up[p], live'[p] = live[p], linked'[p] = linked[p],
         state'[p] = IF state[p] = "Connecting" THEN "Disconnecting" ELSE "Operating",
         open'[p] = open[p], owned'[p] = owned[p], told'[p] = told[p]
  PROVE  PilotInv(p)'
<1>1. Head(down[p]) \in Final /\ Head(down[p]) \notin Validates /\ Head(down[p]) \notin Gives
      /\ Head(down[p]) \in Messages
  <2>1. Head(down[p]) \in Messages
    BY QueueTypes, TakeElements
  <2> QED
    BY <2>1, Kind, Kinds
<1>2. Asks(p)' /\ Gets(p)' /\ Hands(p)'
  BY <1>1, Returns
<1>3. /\ Up(p, Removed) = {} /\ Up(p, LetGo) = {} /\ granted[p] \subseteq open[p]
      /\ Head(down[p]).command \in Waits(state[p])
      /\ Down(p, Validates) = {} /\ Down(p, Gives) = {}
      /\ Down(p, Validates)' = {} /\ Down(p, Gives)' = {} /\ Down(p, Adds)' = {}
      /\ Down(p, Removes)' = {}
  BY <1>1, Settled, Alone
<1>4. Up(p, Removed)' = {} /\ Up(p, LetGo)' = {}
  BY <1>3 DEF Up
<1>5. state[p] # "ValidatingChannels" /\ state[p] \in States
  <2>1. state[p] \in States
    BY QueueTypes
  <2>2. Head(down[p]).command # "CHANNELS_READY"
    BY <1>1, Kind
  <2> QED
    BY <1>3, <2>1, <2>2 DEF Waits
<1>6. /\ state'[p] # "ValidatingChannels" /\ state'[p] # "Connecting" /\ state'[p] # "Disconnected"
      /\ state'[p] \notin Connected => state[p] \notin Connected
      /\ state'[p] # "Disconnecting" => state[p] # "Disconnecting"
  BY DEF Connected, Waiting
<1>7. Knows(p)'
  BY <1>3, <1>4, <1>5, <1>6 DEF PilotInv, Knows, Still
<1>8. Controls(p)'
  BY <1>3, <1>4, <1>6 DEF PilotInv, Controls, Accounted, Still
<1> QED
  BY <1>2, <1>7, <1>8 DEF PilotInv

(* CHANNELS_READY is accepted: the channels are told to the user, and some *)
(* are the pilot's to control.                                             *)
LEMMA ReturnsValidated ==
  ASSUME Typed, NEW p \in Pilots, PilotInv(p), state[p] = "ValidatingChannels", live[p] = TRUE,
         down[p] # <<>>, Head(down[p]) \in Validates, Still(p),
         down'[p] = Tail(down[p]), up'[p] = up[p], live'[p] = live[p], linked'[p] = linked[p],
         state'[p] = "Operating", open'[p] = open[p],
         owned'[p] = owned[p] \cup Head(down[p]).ids, told'[p] = told[p] \cup arg[p]
  PROVE  PilotInv(p)'
<1>1. Head(down[p]) \in Final /\ Head(down[p]) \notin Gives /\ Head(down[p]) \in Messages
  <2>1. Head(down[p]) \in Messages
    BY QueueTypes, TakeElements
  <2> QED
    BY <2>1, Kind, Kinds
<1>2. state[p] \in Waiting /\ state[p] \in Connected
  BY DEF Waiting, Connected
<1>3. Asks(p)' /\ Gets(p)' /\ Hands(p)'
  BY <1>1, <1>2, Returns
<1>4. /\ Up(p, Removed) = {} /\ Up(p, LetGo) = {} /\ granted[p] \subseteq open[p]
      /\ Down(p, Validates) = {Head(down[p])} /\ Down(p, Gives) = {}
      /\ Down(p, Validates)' = {} /\ Down(p, Gives)' = {} /\ Down(p, Adds)' = {}
      /\ Down(p, Removes)' = {}
  BY <1>1, <1>2, Settled, Alone
<1>5. Up(p, Removed)' = {} /\ Up(p, LetGo)' = {}
  BY <1>4 DEF Up
<1>6. /\ Head(down[p]).ids \subseteq arg[p] /\ Head(down[p]).ids \subseteq OwnedBy(p)
      /\ open[p] = told[p] \cup arg[p] /\ told[p] \subseteq granted[p]
      /\ arg[p] \subseteq granted[p] /\ owned[p] \subseteq open[p]
  BY <1>4 DEF PilotInv, Controls, Knows
<1>7. /\ state'[p] # "ValidatingChannels" /\ state'[p] # "Connecting" /\ state'[p] # "Disconnected"
      /\ state'[p] \in Connected
  BY DEF Connected
<1>8. linked[p]
  BY <1>2 DEF PilotInv, Asks
<1>9. Knows(p)'
  BY <1>4, <1>5, <1>6, <1>7, <1>8 DEF Knows, Still
<1>10. Controls(p)'
  <2>1. ASSUME NEW c \in OwnedBy(p) PROVE c \in owned'[p]
    BY <1>4 DEF PilotInv, Controls, Accounted
  <2> QED
    BY <1>4, <1>6, <2>1 DEF PilotInv, Controls, Accounted, Still
<1> QED
  BY <1>3, <1>9, <1>10 DEF PilotInv

(* CONTROL_READY is accepted: the pilot takes control.                     *)
LEMMA ReturnsGiven ==
  ASSUME Typed, NEW p \in Pilots, PilotInv(p), state[p] = "RequestingControl", live[p] = TRUE,
         down[p] # <<>>, Head(down[p]) \in Gives, Still(p),
         down'[p] = Tail(down[p]), up'[p] = up[p], live'[p] = live[p], linked'[p] = linked[p],
         state'[p] = "Operating", open'[p] = open[p],
         owned'[p] = owned[p] \cup arg[p], told'[p] = told[p]
  PROVE  PilotInv(p)'
<1>1. Head(down[p]) \in Final /\ Head(down[p]) \notin Validates /\ Head(down[p]) \in Messages
  <2>1. Head(down[p]) \in Messages
    BY QueueTypes, TakeElements
  <2> QED
    BY <2>1, Kind, Kinds
<1>2. state[p] \in Waiting /\ state[p] \in Connected
  BY DEF Waiting, Connected
<1>3. Asks(p)' /\ Gets(p)' /\ Hands(p)'
  BY <1>1, <1>2, Returns
<1>4. /\ Up(p, Removed) = {} /\ Up(p, LetGo) = {} /\ granted[p] \subseteq open[p]
      /\ Down(p, Validates) = {} /\ Down(p, Gives) = {Head(down[p])}
      /\ Down(p, Validates)' = {} /\ Down(p, Gives)' = {} /\ Down(p, Adds)' = {}
      /\ Down(p, Removes)' = {}
  BY <1>1, <1>2, Settled, Alone
<1>5. Up(p, Removed)' = {} /\ Up(p, LetGo)' = {}
  BY <1>4 DEF Up
<1>6. /\ arg[p] \subseteq OwnedBy(p) /\ OwnedBy(p) \subseteq granted[p]
      /\ told[p] = open[p] /\ open[p] \subseteq granted[p] /\ owned[p] \subseteq open[p]
  BY <1>4 DEF PilotInv, Controls, Knows
<1>7. /\ state'[p] # "ValidatingChannels" /\ state'[p] # "Connecting" /\ state'[p] # "Disconnected"
      /\ state'[p] \in Connected
  BY DEF Connected
<1>8. linked[p]
  BY <1>2 DEF PilotInv, Asks
<1>9. Knows(p)'
  BY <1>4, <1>5, <1>6, <1>7, <1>8 DEF Knows, Still
<1>10. Controls(p)'
  <2>1. ASSUME NEW c \in OwnedBy(p) PROVE c \in owned'[p]
    BY <1>4 DEF PilotInv, Controls, Accounted
  <2> QED
    BY <1>4, <1>6, <2>1 DEF PilotInv, Controls, Accounted, Still
<1> QED
  BY <1>3, <1>9, <1>10 DEF PilotInv

(* REMOVE_CHANNELS is accepted: the channels are closed and the facade is  *)
(* told so.                                                                *)
LEMMA ReturnsRemoved ==
  ASSUME Typed, NEW p \in Pilots, PilotInv(p), state[p] = "ClosingChannels", live[p] = TRUE,
         down[p] # <<>>, Head(down[p]) \in Removes, Still(p),
         NEW m \in Removed, down'[p] = Tail(down[p]), up'[p] = Append(up[p], m),
         live'[p] = live[p], linked'[p] = linked[p],
         state'[p] = "Operating", open'[p] = open[p] \ arg[p],
         owned'[p] = owned[p] \ arg[p], told'[p] = told[p] \ arg[p]
  PROVE  PilotInv(p)'
<1>1. Head(down[p]) \in Final /\ Head(down[p]) \notin Validates /\ Head(down[p]) \notin Gives
      /\ Head(down[p]) \in Messages
  <2>1. Head(down[p]) \in Messages
    BY QueueTypes, TakeElements
  <2> QED
    BY <2>1, Kind, Kinds
<1>2. state[p] \in Waiting /\ state[p] \in Connected
  BY DEF Waiting, Connected
<1>3. /\ Answered(p) /\ Up(p, Requested) = {} /\ Up(p, Bye) = {}
      /\ Up(p, Removed) = {} /\ Up(p, LetGo) = {} /\ granted[p] \subseteq open[p]
      /\ Down(p, Validates) = {} /\ Down(p, Gives) = {}
      /\ Down(p, Validates)' = {} /\ Down(p, Gives)' = {} /\ Down(p, Adds)' = {}
      /\ Down(p, Removes)' = {} /\ handover.to # p
  BY <1>1, <1>2, Settled, Alone
<1>4. m \in Messages /\ m \notin Requested /\ m \notin LetGo /\ m \notin Bye
  BY InKind, Kinds
<1>5. /\ \A K : m \notin K => Up(p, K)' = Up(p, K)
      /\ \A K : m \in K => Up(p, K)' = Up(p, K) \cup {m}
      /\ After(up'[p], Requested, IsReady \cup Bye)
      /\ After(up'[p], Bye, {})
      /\ After(up'[p], LetGo, Messages \ LetGo)
  BY <1>3, <1>4, UpPut DEF PilotInv
<1>6. Up(p, Requested)' = {} /\ Up(p, LetGo)' = {} /\ Up(p, Bye)' = {} /\ Up(p, Removed)' # {}
  BY <1>3, <1>4, <1>5
<1>7. /\ state'[p] \notin Waiting /\ state'[p] # "ReleasingControl"
      /\ state'[p] # "ValidatingChannels" /\ state'[p] # "Connecting" /\ state'[p] # "Disconnected"
      /\ state'[p] # "RequestingControl" /\ state'[p] # "Disconnecting" /\ state'[p] \in Connected
  BY DEF Connected, Waiting
<1>8. linked[p]
  BY <1>2 DEF PilotInv, Asks
<1>9. /\ ToSet(down'[p]) \subseteq Later /\ After(down'[p], Final, Later)
  BY <1>1, DownTaken DEF PilotInv
<1>10. Down(p, Final)' = {} /\ Down(p, Agreed)' = {} /\ Down(p, Admits)' = {}
  BY <1>9, Kinds DEF Down
<1>11. Asks(p)'
  BY <1>5, <1>6, <1>7, <1>8 DEF PilotInv, Asks
<1>12. Gets(p)'
  BY <1>7, <1>8, <1>9, <1>10 DEF Gets
<1>13. Hands(p)'
  <2>1. Tokens(p)'
    BY <1>8, TokensTaken DEF PilotInv, Hands, Still
  <2> QED
    BY <1>3, <1>6, <1>7, <2>1 DEF PilotInv, Hands, Still
<1>14. /\ removing[p] = arg[p] /\ arg[p] \subseteq granted[p]
       /\ told[p] = open[p] /\ open[p] \subseteq granted[p] /\ owned[p] \subseteq open[p]
  <2>1. Down(p, Removes) # {}
    BY <1>9, DownTaken DEF PilotInv
  <2> QED
    BY <2>1 DEF PilotInv, Knows
<1>15. Knows(p)'
  <2>1. granted[p] \subseteq open'[p] \cup removing[p]
    BY <1>3, <1>14
  <2> QED
    BY <1>3, <1>6, <1>7, <1>8, <1>14, <2>1 DEF Knows, Still
<1>16. Controls(p)'
  <2>1. ASSUME NEW c \in OwnedBy(p) PROVE c \in owned'[p] \/ c \in removing[p]
    BY <1>3, <1>14 DEF PilotInv, Controls, Accounted
  <2>2. \A c \in OwnedBy(p) : Accounted(p, c)'
    BY <1>6, <2>1 DEF Accounted, Still
  <2> QED
    BY <1>3, <2>2 DEF PilotInv, Controls, Still
<1> QED
  BY <1>11, <1>12, <1>13, <1>15, <1>16 DEF PilotInv

(* The channels of an answer, before they are validated.                   *)
LEMMA Offered ==
  ASSUME Typed, NEW p \in Pilots, PilotInv(p), live[p] = TRUE, down[p] # <<>>,
         down'[p] = Tail(down[p]),
         \/ state[p] = "Connecting" /\ Head(down[p]) \in Admits
         \/ state[p] = "OpeningChannels" /\ Head(down[p]) \in Adds
  PROVE  /\ Head(down[p]) \in Final /\ state[p] \in Waiting
         /\ open[p] \cap Head(down[p]).ids = {} /\ told[p] = open[p] /\ open[p] = granted[p]
         /\ owned[p] = OwnedBy(p) /\ owned[p] \subseteq open[p] /\ linked[p]
         /\ Answered(p) /\ ToSet(up[p]) \subseteq IsReady /\ handover.to # p
         /\ Up(p, Removed) = {} /\ Up(p, LetGo) = {} /\ Up(p, Requested) = {} /\ Up(p, Bye) = {}
         /\ Down(p, Validates)' = {} /\ Down(p, Gives)' = {} /\ Down(p, Adds)' = {}
         /\ Down(p, Removes)' = {}
         /\ ToSet(down'[p]) \subseteq Later /\ After(down'[p], Final, Later)
<1>1. Head(down[p]) \in Final /\ Head(down[p]) \notin Validates /\ Head(down[p]) \notin Gives
      /\ Head(down[p]) \in Messages
  <2>1. Head(down[p]) \in Messages
    BY QueueTypes, TakeElements
  <2> QED
    BY <2>1, Kind, Kinds
<1>2. /\ state[p] \in Waiting /\ state[p] # "ValidatingChannels" /\ state[p] # "Disconnecting"
  BY DEF Waiting
<1>3. /\ ToSet(down'[p]) \subseteq Later /\ After(down'[p], Final, Later)
      /\ \A K : Head(down[p]) \in K => Head(down[p]) \in Down(p, K)
  BY <1>1, DownTaken DEF PilotInv
<1>4. /\ Answered(p) /\ ToSet(up[p]) \subseteq IsReady /\ handover.to # p
      /\ Up(p, Removed) = {} /\ Up(p, LetGo) = {} /\ Up(p, Requested) = {} /\ Up(p, Bye) = {}
      /\ granted[p] \subseteq open[p]
      /\ Down(p, Validates) = {} /\ Down(p, Gives) = {}
      /\ Down(p, Validates)' = {} /\ Down(p, Gives)' = {} /\ Down(p, Adds)' = {}
      /\ Down(p, Removes)' = {}
  BY <1>1, <1>2, Settled, Alone
<1>5. told[p] = open[p] /\ open[p] = granted[p] /\ owned[p] \subseteq open[p]
  BY <1>2, <1>4 DEF PilotInv, Knows
<1>6. owned[p] = OwnedBy(p)
  <2>1. ASSUME NEW c \in OwnedBy(p) PROVE c \in owned[p]
    BY <1>2, <1>4 DEF PilotInv, Controls, Accounted
  <2> QED
    BY <2>1 DEF PilotInv, Controls
<1>7. linked[p]
  <2>1. CASE state[p] = "Connecting"
    <3>1. Head(down[p]) \in Down(p, Admits)
      BY <1>3, <2>1
    <3> QED
      BY <3>1 DEF PilotInv, Gets
  <2>2. CASE state[p] = "OpeningChannels"
    BY <2>2 DEF PilotInv, Asks, Connected
  <2> QED
    BY <2>1, <2>2
<1>8. open[p] \cap Head(down[p]).ids = {}
  <2>1. CASE state[p] = "Connecting"
    BY <2>1 DEF PilotInv, Knows, Connected
  <2>2. CASE state[p] = "OpeningChannels"
    <3>1. Head(down[p]) \in Down(p, Adds)
      BY <1>3, <2>2
    <3> QED
      BY <3>1 DEF PilotInv, Knows
  <2> QED
    BY <2>1, <2>2
<1> QED
  BY <1>1, <1>2, <1>3, <1>4, <1>5, <1>6, <1>7, <1>8

(* The channels are validated, and announced.                              *)
LEMMA Announces ==
  ASSUME Typed, NEW p \in Pilots, PilotInv(p), live[p] = TRUE, down[p] # <<>>,
         down'[p] = Tail(down[p]),
         \/ state[p] = "Connecting" /\ Head(down[p]) \in Admits
         \/ state[p] = "OpeningChannels" /\ Head(down[p]) \in Adds,
         NEW V \in SUBSET Head(down[p]).ids, NEW m \in Messages, m \in Requested,
         m.ids = V, m.command = "CHANNELS_READY", Still(p),
         up'[p] = Append(up[p], m), live'[p] = live[p], linked'[p] = linked[p],
         state'[p] = "ValidatingChannels", arg'[p] = V,
         open'[p] = (open[p] \ Head(down[p]).ids) \cup V,
         owned'[p] = owned[p] \ (Head(down[p]).ids \ V), told'[p] = told[p]
  PROVE  PilotInv(p)'
<1>1. /\ open[p] \cap Head(down[p]).ids = {} /\ told[p] = open[p] /\ open[p] = granted[p]
      /\ owned[p] = OwnedBy(p) /\ owned[p] \subseteq open[p] /\ linked[p]
      /\ Answered(p) /\ handover.to # p
      /\ Up(p, Removed) = {} /\ Up(p, LetGo) = {} /\ Up(p, Requested) = {} /\ Up(p, Bye) = {}
      /\ Down(p, Validates)' = {} /\ Down(p, Gives)' = {} /\ Down(p, Adds)' = {}
      /\ Down(p, Removes)' = {}
      /\ ToSet(down'[p]) \subseteq Later /\ After(down'[p], Final, Later)
  BY Offered
<1>2. m \notin Removed /\ m \notin LetGo /\ m \notin Bye
  BY Kinds
<1>3. /\ \A K : m \notin K => Up(p, K)' = Up(p, K)
      /\ \A K : m \in K => Up(p, K)' = Up(p, K) \cup {m}
      /\ After(up'[p], Requested, IsReady \cup Bye)
      /\ After(up'[p], Bye, {})
      /\ After(up'[p], LetGo, Messages \ LetGo)
  BY <1>1, <1>2, UpPut DEF PilotInv
<1>4. Up(p, Requested)' = {m} /\ Up(p, LetGo)' = {} /\ Up(p, Bye)' = {} /\ Up(p, Removed)' = {}
  BY <1>1, <1>2, <1>3
<1>5. Down(p, Final)' = {} /\ Down(p, Agreed)' = {} /\ Down(p, Admits)' = {}
  BY <1>1, Kinds DEF Down
<1>6. /\ state'[p] # "Connecting" /\ state'[p] # "RequestingControl" /\ state'[p] # "Disconnected"
      /\ state'[p] # "ReleasingControl" /\ state'[p] # "Disconnecting" /\ state'[p] \in Connected
      /\ m.command \in Waits(state'[p])
  BY DEF Connected, Waits
<1>7. Asks(p)'
  BY <1>1, <1>3, <1>4, <1>6 DEF Asks, Answered
<1>8. Gets(p)'
  BY <1>1, <1>5, <1>6 DEF Gets
<1>9. Hands(p)'
  <2>1. Tokens(p)'
    BY <1>1, TokensTaken DEF PilotInv, Hands, Still
  <2> QED
    BY <1>1, <1>4, <1>6, <2>1 DEF PilotInv, Hands, Still
<1>10. /\ open'[p] = open[p] \cup V /\ owned'[p] = owned[p]
  BY <1>1
<1>11. Knows(p)'
  BY <1>1, <1>4, <1>6, <1>10 DEF Knows, Still
<1>12. Controls(p)'
  BY <1>1, <1>10 DEF PilotInv, Controls, Accounted, Still
<1> QED
  BY <1>7, <1>8, <1>9, <1>11, <1>12 DEF PilotInv

(* A socket fails and the handler throws: the pilot is as good as dead.    *)
LEMMA Throws ==
  ASSUME Typed, NEW p \in Pilots, PilotInv(p), live[p] = TRUE, down[p] # <<>>,
         down'[p] = Tail(down[p]),
         \/ state[p] = "Connecting" /\ Head(down[p]) \in Admits
         \/ state[p] = "OpeningChannels" /\ Head(down[p]) \in Adds,
         NEW failed \in SUBSET Head(down[p]).ids, NEW begun \in SUBSET Head(down[p]).ids, Still(p),
         up'[p] = up[p], live'[p] = FALSE, linked'[p] = linked[p],
         state'[p] = "ValidatingChannels", arg'[p] = {},
         open'[p] = (open[p] \cup begun) \ failed,
         owned'[p] = owned[p] \ failed, told'[p] = told[p]
  PROVE  PilotInv(p)'
<1>1. /\ open[p] \cap Head(down[p]).ids = {} /\ told[p] = open[p] /\ open[p] = granted[p]
      /\ owned[p] = OwnedBy(p) /\ owned[p] \subseteq open[p] /\ linked[p]
      /\ Answered(p) /\ ToSet(up[p]) \subseteq IsReady /\ handover.to # p
      /\ Up(p, Removed) = {} /\ Up(p, LetGo) = {} /\ Up(p, Requested) = {} /\ Up(p, Bye) = {}
      /\ Down(p, Validates)' = {} /\ Down(p, Gives)' = {} /\ Down(p, Adds)' = {}
      /\ Down(p, Removes)' = {}
      /\ ToSet(down'[p]) \subseteq Later /\ After(down'[p], Final, Later)
  BY Offered
<1>2. Up(p, Requested)' = {} /\ Up(p, LetGo)' = {} /\ Up(p, Bye)' = {} /\ Up(p, Removed)' = {}
  BY <1>1 DEF Up
<1>3. Down(p, Final)' = {} /\ Down(p, Agreed)' = {} /\ Down(p, Admits)' = {}
  BY <1>1, Kinds DEF Down
<1>4. /\ state'[p] # "Connecting" /\ state'[p] # "RequestingControl" /\ state'[p] # "Disconnected"
      /\ state'[p] # "ReleasingControl" /\ state'[p] # "Disconnecting" /\ state'[p] \in Connected
  BY DEF Connected
<1>5. Asks(p)'
  BY <1>1, <1>2, <1>4 DEF PilotInv, Asks
<1>6. Gets(p)'
  BY <1>1, <1>3, <1>4 DEF Gets
<1>7. Hands(p)'
  <2>1. Tokens(p)'
    BY <1>1, TokensTaken DEF PilotInv, Hands, Still
  <2> QED
    BY <1>1, <1>2, <1>4, <2>1 DEF PilotInv, Hands, Still
<1>8. open'[p] = open[p] \cup (begun \ failed) /\ owned'[p] = owned[p]
  BY <1>1
<1>9. Knows(p)'
  BY <1>1, <1>2, <1>4, <1>8 DEF Knows, Still
<1>10. Controls(p)'
  BY <1>1, <1>8 DEF PilotInv, Controls, Still
<1> QED
  BY <1>5, <1>6, <1>7, <1>9, <1>10 DEF PilotInv

(* The owner is asked to release, and holds the only message that asks.    *)
LEMMA Asked ==
  ASSUME Typed, NEW p \in Pilots, PilotInv(p), state[p] = "Operating", live[p] = TRUE,
         down[p] # <<>>, Head(down[p]) \in Asking, Still(p),
         down'[p] = Tail(down[p]), up'[p] = up[p], live'[p] = live[p], linked'[p] = linked[p],
         state'[p] = "ReleasingControl", arg'[p] = Head(down[p]).ids,
         open'[p] = open[p], owned'[p] = owned[p], told'[p] = told[p]
  PROVE  PilotInv(p)'
<1>1. /\ Up(p, Requested) = {} /\ Answered(p) /\ Up(p, Bye) = {}
      /\ Down(p, Final) = {} /\ Down(p, Agreed) = {}
      /\ Down(p, Validates) = {} /\ Down(p, Gives) = {} /\ Down(p, Adds) = {}
      /\ Down(p, Removes) = {} /\ Down(p, Admits) = {}
      /\ handover.to # p
  BY AtRest
<1>2. /\ \A K : Down(p, K)' \subseteq Down(p, K)
      /\ ToSet(down[p]) = {Head(down[p])} \cup ToSet(down'[p])
      /\ After(down'[p], Final, Later)
  BY DownTaken DEF PilotInv
<1>3. \A K : Up(p, K)' = Up(p, K)
  BY DEF Up
<1>4. /\ Down(p, Final)' = {} /\ Down(p, Agreed)' = {}
      /\ Down(p, Validates)' = {} /\ Down(p, Gives)' = {} /\ Down(p, Adds)' = {}
      /\ Down(p, Removes)' = {} /\ Down(p, Admits)' = {}
  BY <1>1, <1>2
<1>5. linked[p] /\ Tokens(p)
  BY DEF PilotInv, Asks, Hands, Connected
<1>6. /\ 1 \in Fresh(down[p], Asking, Final) /\ down[p][1] = Head(down[p])
      /\ Fresh(down'[p], Asking, Final) = {}
  <2>1. ToSet(down'[p]) \cap Final = {}
    BY <1>4 DEF Down
  <2>2. down[p] \in Seq(Messages) /\ AtMostOne(Fresh(down[p], Asking, Final))
    BY <1>5, QueueTypes DEF Tokens
  <2>3. down[p][1] = Head(down[p])
    OBVIOUS
  <2> QED
    BY <2>1, <2>2, <2>3, TakeFresh
<1>7. handover.from = p /\ arg'[p] = handover.ids
  BY <1>5, <1>6 DEF Tokens
<1>8. Up(p, LetGo) = {}
  BY <1>6 DEF PilotInv, Hands
<1>9. /\ state'[p] \notin Waiting /\ state'[p] # "Disconnecting" /\ state'[p] # "Connecting"
      /\ state'[p] # "Disconnected" /\ state'[p] # "ValidatingChannels"
      /\ state'[p] # "RequestingControl"
      /\ state'[p] \in Connected /\ state[p] \in Connected
  BY DEF Waiting, Connected
<1>10. Asks(p)'
  BY <1>1, <1>3, <1>9 DEF PilotInv, Asks
<1>11. Gets(p)'
  BY <1>2, <1>4, <1>9 DEF PilotInv, Gets
<1>12. Hands(p)'
  <2>1. Tokens(p)'
    BY <1>5, TokensTaken DEF Still
  <2> QED
    BY <1>1, <1>3, <1>6, <1>7, <1>8, <1>9, <2>1 DEF PilotInv, Hands, Still
<1>13. Knows(p)'
  BY <1>3, <1>4, <1>5, <1>9 DEF PilotInv, Knows, Still
<1>14. Controls(p)'
  BY <1>1, <1>3, <1>4, <1>9 DEF PilotInv, Controls, Accounted, Still
<1> QED
  BY <1>10, <1>11, <1>12, <1>13, <1>14 DEF PilotInv

(* The owner lets go.                                                      *)
LEMMA LetsGo ==
  ASSUME Typed, NEW p \in Pilots, PilotInv(p), state[p] = "ReleasingControl", live[p] = TRUE,
         down[p] # <<>>, Head(down[p]) \in Switch, Still(p),
         NEW m \in LetGo, down'[p] = Tail(down[p]), up'[p] = Append(up[p], m),
         live'[p] = live[p], linked'[p] = linked[p],
         state'[p] = "Operating",
         open'[p] = open[p], owned'[p] = owned[p] \ arg[p], told'[p] = told[p]
  PROVE  PilotInv(p)'
<1>1. /\ Up(p, Requested) = {} /\ Answered(p) /\ Up(p, Bye) = {}
      /\ Down(p, Final) = {} /\ Down(p, Agreed) = {}
      /\ Down(p, Validates) = {} /\ Down(p, Gives) = {} /\ Down(p, Adds) = {}
      /\ Down(p, Removes) = {} /\ Down(p, Admits) = {}
      /\ handover.to # p
  BY AtRest
<1>2. /\ \A K : Down(p, K)' \subseteq Down(p, K)
      /\ ToSet(down[p]) = {Head(down[p])} \cup ToSet(down'[p])
      /\ After(down'[p], Final, Later)
  BY DownTaken DEF PilotInv
<1>3. m \in Messages /\ m \notin Requested /\ m \notin Bye /\ m \notin Removed
  BY InKind, Kinds
<1>4. /\ Down(p, Final)' = {} /\ Down(p, Agreed)' = {}
      /\ Down(p, Validates)' = {} /\ Down(p, Gives)' = {} /\ Down(p, Adds)' = {}
      /\ Down(p, Removes)' = {} /\ Down(p, Admits)' = {}
  BY <1>1, <1>2
<1>5. /\ linked[p] /\ Tokens(p)
      /\ handover.from = p /\ arg[p] = handover.ids
      /\ Fresh(down[p], Asking, Final) = {} /\ Up(p, LetGo) = {}
  BY DEF PilotInv, Asks, Hands, Connected
<1>6. /\ \A K : m \notin K => Up(p, K)' = Up(p, K)
      /\ \A K : m \in K => Up(p, K)' = Up(p, K) \cup {m}
      /\ After(up'[p], Requested, IsReady \cup Bye)
      /\ After(up'[p], Bye, {})
      /\ After(up'[p], LetGo, Messages \ LetGo)
  BY <1>1, <1>3, <1>5, UpPut DEF PilotInv
<1>7. /\ Up(p, Requested)' = {} /\ Up(p, LetGo)' = {m} /\ Up(p, Bye)' = {}
      /\ Up(p, Removed)' = Up(p, Removed)
  BY <1>1, <1>3, <1>5, <1>6
<1>8. /\ handover.stage = "switching" /\ Fresh(down'[p], Switch, Final) = {}
      /\ Fresh(down'[p], Asking, Final) = {}
  <2>1. ToSet(down'[p]) \cap Final = {}
    BY <1>4 DEF Down
  <2>2. down[p] \in Seq(Messages) /\ AtMostOne(Fresh(down[p], Switch, Final))
    BY <1>5, QueueTypes DEF Tokens
  <2>3. 1 \in Fresh(down[p], Switch, Final) /\ Fresh(down'[p], Switch, Final) = {}
    BY <2>1, <2>2, TakeFresh
  <2>4. Fresh(down'[p], Asking, Final) = {}
    BY <1>5, StaleTaken
  <2> QED
    BY <1>5, <2>3, <2>4 DEF Tokens
<1>9. /\ state'[p] \notin Waiting /\ state'[p] # "Disconnecting" /\ state'[p] # "Connecting"
      /\ state'[p] # "Disconnected" /\ state'[p] # "ValidatingChannels"
      /\ state'[p] # "RequestingControl" /\ state'[p] # "ReleasingControl"
      /\ state'[p] \in Connected /\ state[p] \in Connected
  BY DEF Waiting, Connected
<1>10. Asks(p)'
  BY <1>1, <1>5, <1>6, <1>7, <1>9 DEF Asks
<1>11. Gets(p)'
  BY <1>2, <1>4, <1>9 DEF PilotInv, Gets
<1>12. Hands(p)'
  <2>1. Tokens(p)'
    BY <1>5, TokensTaken DEF Still
  <2> QED
    BY <1>1, <1>5, <1>8, <1>9, <2>1 DEF PilotInv, Hands, Still
<1>13. Knows(p)'
  BY <1>4, <1>5, <1>7, <1>9 DEF PilotInv, Knows, Still
<1>14. Controls(p)'
  <2>1. ASSUME NEW c \in OwnedBy(p) PROVE Accounted(p, c)'
    <3>1. c \in owned[p] \/ (Up(p, Removed) # {} /\ c \in removing[p])
      BY <1>1, <1>5 DEF PilotInv, Controls, Accounted
    <3>2. c \in owned'[p] \/ c \in handover.ids \/ (Up(p, Removed) # {} /\ c \in removing[p])
      BY <1>5, <3>1
    <3> QED
      BY <1>7, <3>2 DEF Accounted, Still
  <2>2. \A c \in OwnedBy(p)' : Accounted(p, c)'
    BY <2>1 DEF Still
  <2> QED
    BY <1>4, <2>2 DEF PilotInv, Controls, Still
<1> QED
  BY <1>10, <1>11, <1>12, <1>13, <1>14 DEF PilotInv

(* The facade releases the pilot, which closes its channels and leaves.    *)
LEMMA SaysBye ==
  ASSUME Typed, NEW p \in Pilots, PilotInv(p), state[p] \in {"Operating", "ClosingChannels"},
         live[p] = TRUE, down[p] # <<>>, Head(down[p]).response = "NONE", Still(p),
         NEW m \in Bye, down'[p] = Tail(down[p]), up'[p] = Append(up[p], m),
         live'[p] = live[p], linked'[p] = linked[p],
         state'[p] = "Disconnecting",
         open'[p] = {}, owned'[p] = {}, told'[p] = {}
  PROVE  PilotInv(p)'
<1>1. /\ \A K : Down(p, K)' \subseteq Down(p, K)
      /\ ToSet(down[p]) = {Head(down[p])} \cup ToSet(down'[p])
      /\ After(down'[p], Final, Later)
  BY DownTaken DEF PilotInv
<1>2. m \in Messages /\ m \notin Requested /\ m \notin LetGo /\ m \notin Removed
  BY InKind, Kinds
<1>3. /\ state[p] # "Disconnecting" /\ state[p] # "RequestingControl" /\ state[p] \in Connected
      /\ state[p] # "ValidatingChannels"
      /\ Waits(state[p]) \subseteq {"REMOVE_CHANNELS"}
      /\ Waits(state'[p]) = {"REMOVE_CHANNELS"}
      /\ state'[p] \notin Waiting /\ state'[p] # "Connecting"
      /\ state'[p] # "Disconnected" /\ state'[p] # "ValidatingChannels"
      /\ state'[p] # "RequestingControl" /\ state'[p] # "ReleasingControl"
      /\ state'[p] \notin Connected
  BY DEF Waiting, Connected, Waits
<1>4. linked[p] /\ Up(p, Bye) = {} /\ handover.to # p /\ Down(p, Agreed) = {} /\ Tokens(p)
  BY <1>3 DEF PilotInv, Asks, Hands, Gets
<1>5. /\ \A K : m \notin K => Up(p, K)' = Up(p, K)
      /\ After(up'[p], Requested, IsReady \cup Bye)
      /\ After(up'[p], Bye, {})
      /\ After(up'[p], LetGo, Messages \ LetGo)
  BY <1>2, <1>4, UpPut DEF PilotInv
<1>6. /\ Up(p, Requested)' = Up(p, Requested) /\ Up(p, LetGo)' = Up(p, LetGo)
  BY <1>2, <1>5
<1>7. Down(p, Adds) = {} /\ Down(p, Validates) = {} /\ Down(p, Gives) = {} /\ Down(p, Admits) = {}
  <2>1. ASSUME NEW x \in Down(p, Final)
        PROVE  x \notin Adds /\ x \notin Validates /\ x \notin Gives /\ x \notin Admits
    <3>1. x \in Messages /\ x.command = "REMOVE_CHANNELS"
      BY <1>3, InKind DEF PilotInv, Gets, Down
    <3> QED
      BY <3>1, Kind
  <2> QED
    BY <2>1, Kinds DEF Down
<1>8. /\ Down(p, Adds)' = {} /\ Down(p, Validates)' = {} /\ Down(p, Gives)' = {}
      /\ Down(p, Admits)' = {} /\ Down(p, Agreed)' = {}
  BY <1>1, <1>4, <1>7
<1>9. Asks(p)'
  BY <1>3, <1>4, <1>5, <1>6 DEF PilotInv, Asks
<1>10. Gets(p)'
  BY <1>1, <1>3, <1>6, <1>8 DEF PilotInv, Gets, Answered
<1>11. Hands(p)'
  <2>1. Tokens(p)'
    BY <1>4, TokensTaken DEF Still
  <2>2. Fresh(down[p], Asking, Final) = {} => Fresh(down'[p], Asking, Final) = {}
    BY StaleTaken
  <2>3. Fresh(down[p], Switch, Final) = {} => Fresh(down'[p], Switch, Final) = {}
    BY StaleTaken
  <2> QED
    BY <1>3, <1>4, <1>6, <2>1, <2>2, <2>3 DEF PilotInv, Hands, Still
<1>12. Knows(p)'
  BY <1>3, <1>4, <1>8 DEF PilotInv, Knows, Still
<1>13. Controls(p)'
  BY <1>3, <1>8 DEF PilotInv, Controls, Still
<1> QED
  BY <1>9, <1>10, <1>11, <1>12, <1>13 DEF PilotInv

(* The connection is closed, or closing it fails.                          *)
LEMMA Leaves ==
  ASSUME Typed, NEW p \in Pilots, PilotInv(p), state[p] = "Disconnecting", Still(p),
         open'[p] = open[p], owned'[p] = owned[p], told'[p] = told[p], linked'[p] = linked[p],
         \/ /\ linked[p] = FALSE /\ live'[p] = live[p] /\ state'[p] = "Disconnected"
            /\ up'[p] = <<>> /\ down'[p] = <<>> /\ live[p] = TRUE
         \/ /\ live'[p] = FALSE /\ state'[p] = state[p] /\ arg'[p] = arg[p]
            /\ up'[p] = up[p] /\ down'[p] = down[p]
  PROVE  PilotInv(p)'
<1>0. /\ handover.to # p /\ open[p] = {} /\ owned[p] = {} /\ told[p] = {}
  BY DEF PilotInv, Hands, Knows, Connected
<1>1. CASE /\ linked[p] = FALSE /\ live'[p] = live[p] /\ state'[p] = "Disconnected"
           /\ up'[p] = <<>> /\ down'[p] = <<>> /\ live[p] = TRUE
  <2>1. /\ \A K : Up(p, K)' = {} /\ Down(p, K)' = {}
        /\ \A K, L : After(up'[p], K, L) /\ After(down'[p], K, L)
        /\ ToSet(down'[p]) = {} /\ ToSet(up'[p]) = {}
    BY <1>1, NoElements DEF Up, Down
  <2>2. /\ granted[p] = {} /\ removing[p] = {} /\ OwnedBy(p) = {}
    BY <1>1 DEF PilotInv, Knows, Controls
  <2>3. "Disconnected" \notin Connected \cup Waiting
    BY DEF Connected, Waiting
  <2>4. Asks(p)'
    BY <1>1, <2>1, <2>3 DEF Asks
  <2>5. Gets(p)'
    BY <1>1, <2>1, <2>3 DEF Gets, Answered
  <2>6. Hands(p)'
    BY <1>0, <1>1, <2>1, <2>2 DEF PilotInv, Hands, Still
  <2>7. Knows(p)' /\ Controls(p)'
    BY <1>0, <1>1, <2>1, <2>2, <2>3 DEF Knows, Controls, Still
  <2> QED
    BY <2>4, <2>5, <2>6, <2>7 DEF PilotInv
<1>2. CASE /\ live'[p] = FALSE /\ state'[p] = state[p] /\ arg'[p] = arg[p]
           /\ up'[p] = up[p] /\ down'[p] = down[p]
  <2>1. (\A K : Up(p, K)' = Up(p, K)) /\ (\A K : Down(p, K)' = Down(p, K))
    BY <1>2 DEF Up, Down
  <2>2. Asks(p)'
    BY <1>2, <2>1 DEF PilotInv, Asks, Answered
  <2>3. Gets(p)'
    BY <1>2, <2>1 DEF PilotInv, Gets, Answered
  <2>4. Hands(p)'
    <3>1. Tokens(p) => Tokens(p)'
      BY <1>2 DEF Tokens, Still
    <3> QED
      BY <1>0, <1>2, <2>1, <3>1 DEF PilotInv, Hands, Still
  <2>5. Knows(p)'
    BY <1>2, <2>1 DEF PilotInv, Knows, Still
  <2>6. Controls(p)'
    BY <1>2, <2>1 DEF PilotInv, Controls, Still
  <2> QED
    BY <2>2, <2>3, <2>4, <2>5, <2>6 DEF PilotInv
<1> QED
  BY <1>1, <1>2

(* The call is opened with SETUP.                                          *)
LEMMA Calls ==
  ASSUME Typed, NEW p \in Pilots, PilotInv(p), state[p] = "Disconnected", live[p] = TRUE, Still(p),
         NEW m \in Messages, m \in Requested, m.command = "SETUP", m.ids = arg'[p],
         up'[p] = Append(up[p], m), down'[p] = down[p], state'[p] = "Connecting",
         live'[p] = live[p], linked'[p] = TRUE,
         open'[p] = open[p], owned'[p] = owned[p], told'[p] = told[p]
  PROVE  PilotInv(p)'
<1>1. down[p] = <<>> /\ linked[p] = FALSE /\ up[p] = <<>>
  BY QueueTypes DEF PilotInv, Gets, Asks
<1>2. /\ \A K : Down(p, K)' = {} /\ Up(p, K) = {}
      /\ \A K, L : After(down'[p], K, L)
      /\ \A K : Fresh(down'[p], K, Final) = {}
      /\ ToSet(down'[p]) = {} /\ ToSet(up[p]) = {}
  BY <1>1, NoElements DEF Down, Up
<1>3. m \notin LetGo /\ m \notin Bye /\ m \notin Removed
  BY Kinds
<1>4. /\ ToSet(up'[p]) = ToSet(up[p]) \cup {m}
      /\ \A K : m \notin K => Up(p, K)' = Up(p, K)
      /\ \A K : m \in K => Up(p, K)' = Up(p, K) \cup {m}
      /\ After(up'[p], Requested, IsReady \cup Bye)
      /\ After(up'[p], Bye, {})
      /\ After(up'[p], LetGo, Messages \ LetGo)
  BY <1>2, <1>3, UpPut DEF PilotInv, Answered
<1>5. /\ ToSet(up'[p]) = {m} /\ Up(p, Requested)' = {m} /\ Up(p, LetGo)' = {}
      /\ Up(p, Bye)' = {} /\ Up(p, Removed)' = {}
  BY <1>2, <1>3, <1>4
<1>6. /\ granted[p] = {} /\ removing[p] = {} /\ OwnedBy(p) = {} /\ handover.to # p
      /\ open[p] = {} /\ owned[p] = {} /\ told[p] = {}
  BY DEF PilotInv, Knows, Controls, Hands, Connected
<1>7. /\ state'[p] # "Disconnected" /\ state'[p] # "Disconnecting"
      /\ state'[p] # "ValidatingChannels" /\ state'[p] # "RequestingControl"
      /\ state'[p] # "ReleasingControl" /\ state'[p] \notin Connected
      /\ "SETUP" \in Waits(state'[p])
  BY DEF Connected, Waits
<1>8. Asks(p)'
  BY <1>4, <1>5, <1>7 DEF Asks, Answered
<1>9. Gets(p)'
  BY <1>2, <1>7 DEF Gets, Answered
<1>10. Hands(p)'
  <2>1. Tokens(p)'
    BY <1>2 DEF Tokens, AtMostOne
  <2> QED
    BY <1>5, <1>6, <1>7, <2>1 DEF PilotInv, Hands, Still
<1>11. Knows(p)'
  BY <1>2, <1>5, <1>6, <1>7 DEF Knows, Still
<1>12. Controls(p)'
  BY <1>2, <1>6 DEF Controls, Still
<1> QED
  BY <1>8, <1>9, <1>10, <1>11, <1>12 DEF PilotInv

-----------------------------------------------------------------------------
(* The steps of a pilot.                                                   *)

(* A pilot's step is its own.                                              *)
LEMMA Bystanders ==
  ASSUME Typed, NEW p \in Pilots, PilotStep(p), UNCHANGED facadeVars,
         NEW r \in Pilots, r # p
  PROVE  Same(r)
<1> USE DEF Same
<1>0. /\ granted'[r] = granted[r] /\ removing'[r] = removing[r] /\ OwnedBy(r)' = OwnedBy(r)
  BY DEF facadeVars, OwnedBy
<1>1. ASSUME NEW s, NEW C, Become(p, s, C) PROVE state'[r] = state[r] /\ arg'[r] = arg[r]
  BY <1>1 DEF Become, Typed, PilotTyped
<1>2. ASSUME NEW m, SendUp(p, m) PROVE up'[r] = up[r]
  BY <1>2 DEF SendUp, Typed, PilotTyped
<1>3. ASSUME NEW s, NEW command, NEW response, Receive(p, command, response, s)
      PROVE  down'[r] = down[r]
  BY <1>3 DEF Receive, Typed, PilotTyped
<1>4. ASSUME NEW C, CloseChannels(p, C)
      PROVE  open'[r] = open[r] /\ owned'[r] = owned[r] /\ told'[r] = told[r]
  BY <1>4 DEF CloseChannels, Typed, PilotTyped
<1>5. ASSUME NEW C, Validate(p, C)
      PROVE  /\ open'[r] = open[r] /\ owned'[r] = owned[r] /\ live'[r] = live[r]
             /\ up'[r] = up[r] /\ state'[r] = state[r] /\ arg'[r] = arg[r]
  BY <1>1, <1>2, <1>5 DEF Validate, Typed, PilotTyped
<1>6. ASSUME UserStep(p) PROVE Same(r)
  <2>1. CASE OperateFails(p)
    BY <1>0, <2>1 DEF OperateFails, User, UserEvent, channels
  <2>2. CASE Operate(p)
    BY <1>0, <1>1, <1>2, <2>2 DEF Operate, User, UserEvent, channels, Typed, PilotTyped
  <2>3. CASE OpenChannels(p)
    BY <1>0, <1>1, <1>2, <2>3 DEF OpenChannels, User, UserEvent, channels
  <2>4. CASE CloseSome(p)
    BY <1>0, <1>1, <1>2, <2>4 DEF CloseSome, StartClosing, User, UserEvent, channels
  <2>5. CASE Release(p)
    BY <1>0, <1>1, <1>2, <2>5 DEF Release, StartClosing, User, UserEvent, channels
  <2>6. CASE RequestControl(p)
    BY <1>0, <1>1, <1>2, <2>6 DEF RequestControl, User, UserEvent, channels
  <2>7. CASE ControlReady(p)
    BY <1>0, <1>2, <2>7 DEF ControlReady, Answer, UserEvent, channels, Stay
  <2>8. CASE ReleaseAccepted(p)
    BY <1>0, <1>2, <2>8 DEF ReleaseAccepted, Answer, UserEvent, channels, Stay
  <2>9. CASE ReleaseRejected(p)
    BY <1>0, <1>1, <1>2, <2>9 DEF ReleaseRejected, Answer, UserEvent, channels
  <2> QED
    BY <1>6, <2>1, <2>2, <2>3, <2>4, <2>5, <2>6, <2>7, <2>8, <2>9 DEF UserStep
<1>7. ASSUME ReceiveStep(p) PROVE Same(r)
  <2>1. CASE SetupAccepted(p)
    BY <1>0, <1>3, <1>5, <2>1 DEF SetupAccepted, ReceiveQuietly
  <2>2. CASE SetupRejected(p)
    BY <1>0, <1>1, <1>3, <2>2 DEF SetupRejected, ReceiveQuietly, channels
  <2>3. CASE ChannelsReadyAccepted(p)
    BY <1>0, <1>1, <1>3, <2>3 DEF ChannelsReadyAccepted, ReceiveQuietly, Typed, PilotTyped
  <2>4. CASE ReleaseControlAsked(p)
    BY <1>0, <1>1, <1>3, <2>4 DEF ReleaseControlAsked, channels
  <2>5. CASE Released(p)
    BY <1>0, <1>1, <1>2, <1>3, <1>4, <2>5 DEF Released, ReceiveQuietly, LeaveConnected
  <2>6. CASE AddAccepted(p)
    BY <1>0, <1>3, <1>5, <2>6 DEF AddAccepted, ReceiveQuietly
  <2>7. CASE AddRejected(p)
    BY <1>0, <1>1, <1>3, <2>7 DEF AddRejected, ReceiveQuietly, channels
  <2>8. CASE RemoveAccepted(p)
    BY <1>0, <1>1, <1>2, <1>3, <1>4, <2>8 DEF RemoveAccepted, ReceiveQuietly
  <2>9. CASE RemoveRejected(p)
    BY <1>0, <1>1, <1>3, <2>9 DEF RemoveRejected, ReceiveQuietly, channels
  <2>10. CASE RequestAccepted(p)
    BY <1>0, <1>3, <2>10 DEF RequestAccepted, Stay, channels
  <2>11. CASE RequestRejected(p)
    BY <1>0, <1>1, <1>3, <2>11 DEF RequestRejected, ReceiveQuietly, channels
  <2>12. CASE HandoverDone(p)
    BY <1>0, <1>1, <1>3, <2>12 DEF HandoverDone, ReceiveQuietly, Typed, PilotTyped
  <2>13. CASE ControlReleased(p)
    BY <1>0, <1>1, <1>2, <1>3, <2>13 DEF ControlReleased, ReceiveQuietly, Typed, PilotTyped
  <2>14. CASE Drop(p)
    BY <1>0, <2>14 DEF Drop, channels, user, Typed, PilotTyped
  <2> QED
    BY <1>7, <2>1, <2>2, <2>3, <2>4, <2>5, <2>6, <2>7, <2>8, <2>9, <2>10, <2>11, <2>12,
       <2>13, <2>14 DEF ReceiveStep
<1>8. CASE Disconnect(p)
  BY <1>0, <1>1, <1>8 DEF Disconnect, channels, Typed, PilotTyped
<1>9. CASE DisconnectFails(p)
  BY <1>0, <1>9 DEF DisconnectFails, channels, streams, Typed, PilotTyped
<1> QED
  BY <1>6, <1>7, <1>8, <1>9 DEF PilotStep

(* What the parts of a handler do to the pilot.                            *)
LEMMA Effects ==
  ASSUME Typed, NEW p \in Pilots
  PROVE  /\ \A s, C : Become(p, s, C) => state'[p] = s /\ arg'[p] = C
         /\ \A m : SendUp(p, m) => up'[p] = Append(up[p], m)
         /\ \A s, command, response : Receive(p, command, response, s) =>
              /\ state[p] = s /\ live[p] = TRUE /\ down[p] # <<>> /\ down'[p] = Tail(down[p])
              /\ Head(down[p]) \in Messages
              /\ Head(down[p]).command = command /\ Head(down[p]).response = response
         /\ \A s, event : User(p, event, s) \/ Answer(p, event, s) =>
              state[p] = s /\ live[p] = TRUE /\ down'[p] = down[p]
         /\ UNCHANGED facadeVars => Still(p)
<1>1. \A s, C : Become(p, s, C) => state'[p] = s /\ arg'[p] = C
  BY DEF Become, Typed, PilotTyped
<1>2. \A m : SendUp(p, m) => up'[p] = Append(up[p], m)
  BY DEF SendUp, Typed, PilotTyped
<1>3. ASSUME NEW s, NEW command, NEW response, Receive(p, command, response, s)
      PROVE  /\ state[p] = s /\ live[p] = TRUE /\ down[p] # <<>> /\ down'[p] = Tail(down[p])
             /\ Head(down[p]) \in Messages
             /\ Head(down[p]).command = command /\ Head(down[p]).response = response
  <2>1. /\ state[p] = s /\ live[p] /\ down[p] # <<>>
        /\ down' = [down EXCEPT ![p] = Tail(@)]
        /\ Head(down[p]).command = command /\ Head(down[p]).response = response
    BY <1>3 DEF Receive
  <2>2. live[p] = TRUE
    BY <2>1, QueueTypes
  <2> QED
    BY <2>1, <2>2, TakeDown
<1>4. ASSUME NEW s, NEW event, User(p, event, s) \/ Answer(p, event, s)
      PROVE  state[p] = s /\ live[p] = TRUE /\ down'[p] = down[p]
  <2>1. live[p] = TRUE
    BY <1>4, QueueTypes DEF User, Answer, UserEvent
  <2> QED
    BY <1>4, <2>1 DEF User, Answer, UserEvent
<1>5. UNCHANGED facadeVars => Still(p)
  BY DEF facadeVars, Still, OwnedBy
<1> QED
  BY <1>1, <1>2, <1>3, <1>4, <1>5

(* The messages of the pilot.                                              *)
LEMMA Sent ==
  /\ Plain("SETUP") \in Messages /\ Plain("SETUP") \in Requested
  /\ Plain("CONTROL_READY") \in Messages /\ Plain("CONTROL_READY") \in IsReady
  /\ Accept("RELEASE_CONTROL") \in Messages
  /\ Accept("RELEASE_CONTROL") \notin Requested \cup Bye \cup LetGo \cup Removed
  /\ Accept("CONTROL_RELEASED") \in LetGo /\ Accept("REMOVE_CHANNELS") \in Removed
  /\ Accept("RELEASE") \in Bye
  /\ \A C \in SUBSET Channels, command \in {"CHANNELS_READY", "ADD_CHANNELS",
                                            "REMOVE_CHANNELS", "REQUEST_CONTROL"} :
        /\ Indicate(command, C) \in Messages /\ Indicate(command, C) \in Requested
        /\ Indicate(command, C).command = command /\ Indicate(command, C).ids = C
  /\ Plain("SETUP").command = "SETUP" /\ Plain("SETUP").ids = {}
<1>1. \A command \in Commands : Plain(command) \in Messages /\ Accept(command) \in Messages
  BY MessageType
<1>2. /\ Plain("SETUP") \in Messages /\ Plain("CONTROL_READY") \in Messages
      /\ Accept("RELEASE_CONTROL") \in Messages /\ Accept("CONTROL_RELEASED") \in Messages
      /\ Accept("REMOVE_CHANNELS") \in Messages /\ Accept("RELEASE") \in Messages
  BY <1>1 DEF Commands
<1>3. /\ \A command : Plain(command).command = command /\ Plain(command).response = "NONE"
                      /\ Plain(command).ids = {}
      /\ \A command : Accept(command).command = command /\ Accept(command).response = "ACCEPTED"
      /\ \A command, C : /\ Indicate(command, C).command = command
                         /\ Indicate(command, C).response = "NONE"
                         /\ Indicate(command, C).ids = C
  BY DEF Plain, Accept, Indicate
<1>4. ASSUME NEW C \in SUBSET Channels,
             NEW command \in {"CHANNELS_READY", "ADD_CHANNELS",
                              "REMOVE_CHANNELS", "REQUEST_CONTROL"}
      PROVE  Indicate(command, C) \in Messages /\ Indicate(command, C) \in Requested
  <2>1. Indicate(command, C) \in Messages
    BY MessageType DEF Commands
  <2> QED
    BY <1>3, <2>1, Kind
<1>5. Plain("SETUP") \in Requested /\ Plain("CONTROL_READY") \in IsReady
  BY <1>2, <1>3, Kind
<1>6. /\ Accept("CONTROL_RELEASED") \in LetGo /\ Accept("REMOVE_CHANNELS") \in Removed
      /\ Accept("RELEASE") \in Bye
  BY <1>2, <1>3, Kind
<1>7. Accept("RELEASE_CONTROL") \notin Requested \cup Bye \cup LetGo \cup Removed
  BY <1>2, <1>3, Kind
<1> QED
  BY <1>2, <1>3, <1>4, <1>5, <1>6, <1>7

(* Every event of the user keeps the invariant of its pilot.               *)
LEMMA UserKeeps ==
  ASSUME Typed, NEW p \in Pilots, PilotInv(p), UserStep(p), UNCHANGED facadeVars
  PROVE  PilotInv(p)'
<1>0. Still(p) /\ \A C \in Requests : C \in SUBSET Channels
  BY Effects, RequestsAssumption
<1>1. /\ "ADD_CHANNELS" \in Waits("OpeningChannels")
      /\ "REMOVE_CHANNELS" \in Waits("ClosingChannels")
      /\ "REQUEST_CONTROL" \in Waits("RequestingControl")
  BY DEF Waits
<1>2. CASE OperateFails(p)
  <2>1. Same(p) /\ handover' = handover
    BY <1>0, <1>2 DEF OperateFails, User, UserEvent, channels, Same, Still
  <2> QED
    BY <2>1, Frame
<1>3. CASE Operate(p)
  <2>1. /\ state[p] = "Disconnected" /\ live[p] = TRUE /\ down'[p] = down[p]
        /\ up'[p] = Append(up[p], Plain("SETUP")) /\ state'[p] = "Connecting" /\ arg'[p] = {}
    BY <1>3, Effects DEF Operate
  <2>2. /\ linked'[p] = TRUE /\ live'[p] = live[p]
        /\ open'[p] = open[p] /\ owned'[p] = owned[p] /\ told'[p] = told[p]
    BY <1>3 DEF Operate, channels, Typed, PilotTyped
  <2> DEFINE m == Plain("SETUP")
  <2>3. m \in Messages /\ m \in Requested /\ m.command = "SETUP" /\ m.ids = arg'[p]
    BY <2>1, Sent
  <2>4. up'[p] = Append(up[p], m)
    BY <2>1
  <2> HIDE DEF m
  <2> QED
    BY <1>0, <2>1, <2>2, <2>3, <2>4, Calls
<1>4. ASSUME NEW C \in SUBSET Channels,
             NEW command \in {"ADD_CHANNELS", "REMOVE_CHANNELS", "REQUEST_CONTROL"}, NEW event,
             User(p, event, "Operating"), SendUp(p, Indicate(command, C)),
             NEW s \in {"OpeningChannels", "ClosingChannels", "RequestingControl"},
             Become(p, s, C), command \in Waits(s), UNCHANGED <<channels, live, linked>>,
             s = "RequestingControl" => \E c \in Channels : C = {c}
      PROVE  PilotInv(p)'
  <2> DEFINE m == Indicate(command, C)
  <2>1. /\ m \in Messages /\ m \in Requested /\ m.command = command /\ m.ids = C
    BY Sent
  <2>2. /\ state[p] = "Operating" /\ live[p] = TRUE /\ down'[p] = down[p]
        /\ up'[p] = Append(up[p], m) /\ state'[p] = s /\ arg'[p] = C
    BY <1>4, Effects
  <2>3. /\ linked'[p] = linked[p] /\ live'[p] = live[p]
        /\ open'[p] = open[p] /\ owned'[p] = owned[p] /\ told'[p] = told[p]
    BY <1>4 DEF channels
  <2> HIDE DEF m
  <2> QED
    BY <1>0, <1>4, <2>1, <2>2, <2>3, Starts
<1>5. CASE OpenChannels(p)
  BY <1>0, <1>1, <1>4, <1>5 DEF OpenChannels
<1>6. CASE CloseSome(p)
  BY <1>0, <1>1, <1>4, <1>6 DEF CloseSome, StartClosing
<1>7. CASE Release(p)
  <2>1. open[p] \in SUBSET Channels
    BY QueueTypes
  <2> QED
    BY <1>0, <1>1, <1>4, <1>7, <2>1 DEF Release, StartClosing
<1>8. CASE RequestControl(p)
  <2>1. \A c \in Channels : {c} \in SUBSET Channels
    OBVIOUS
  <2> QED
    BY <1>0, <1>1, <1>4, <1>8, <2>1 DEF RequestControl
<1>9. ASSUME NEW m \in Messages, NEW event, NEW s, Answer(p, event, s), SendUp(p, m),
             \/ s = "RequestingControl" /\ m \in IsReady
             \/ s = "ReleasingControl" /\ m \notin Requested \cup Bye \cup LetGo \cup Removed,
             \/ Stay
             \/ s = "ReleasingControl" /\ Become(p, "Operating", {}),
             UNCHANGED <<channels, live, linked>>
      PROVE  PilotInv(p)'
  <2>1. /\ state[p] = s /\ down'[p] = down[p] /\ up'[p] = Append(up[p], m)
    BY <1>9, Effects
  <2>2. \/ state'[p] = state[p] /\ arg'[p] = arg[p]
        \/ state[p] = "ReleasingControl" /\ state'[p] = "Operating"
    BY <1>9, <2>1, Effects DEF Stay
  <2>3. /\ linked'[p] = linked[p] /\ live'[p] = live[p]
        /\ open'[p] = open[p] /\ owned'[p] = owned[p] /\ told'[p] = told[p]
    BY <1>9 DEF channels
  <2> QED
    BY <1>0, <1>9, <2>1, <2>2, <2>3, Says
<1>10. CASE ControlReady(p)
  BY <1>9, <1>10, Sent DEF ControlReady
<1>11. CASE ReleaseAccepted(p)
  BY <1>9, <1>11, Sent DEF ReleaseAccepted
<1>12. CASE ReleaseRejected(p)
  BY <1>9, <1>12, Sent DEF ReleaseRejected
<1> QED
  BY <1>2, <1>3, <1>5, <1>6, <1>7, <1>8, <1>10, <1>11, <1>12 DEF UserStep

(* So does every message that a pilot takes up.                            *)
LEMMA ReceiveKeeps ==
  ASSUME Typed, NEW p \in Pilots, PilotInv(p), ReceiveStep(p), UNCHANGED facadeVars
  PROVE  PilotInv(p)'
<1>0. Still(p)
  BY Effects
<1>1. ASSUME NEW command, NEW response, NEW s, Receive(p, command, response, s)
      PROVE  /\ state[p] = s /\ live[p] = TRUE /\ down[p] # <<>> /\ down'[p] = Tail(down[p])
             /\ Head(down[p]) \in Messages /\ Head(down[p]).ids \in SUBSET Channels
             /\ Head(down[p]).command = command /\ Head(down[p]).response = response
  <2>1. /\ state[p] = s /\ live[p] = TRUE /\ down[p] # <<>> /\ down'[p] = Tail(down[p])
        /\ Head(down[p]) \in Messages
        /\ Head(down[p]).command = command /\ Head(down[p]).response = response
    BY <1>1, Effects
  <2>2. Head(down[p]).ids \in SUBSET Channels
    BY <2>1 DEF Messages
  <2> QED
    BY <2>1, <2>2
<1>2. \A s, C : Become(p, s, C) => state'[p] = s /\ arg'[p] = C
  BY Effects
<1>3. \A m : SendUp(p, m) => up'[p] = Append(up[p], m)
  BY Effects
<1>4. Head(down[p]) \in Messages =>
        /\ Head(down[p]) \in Refuses <=> /\ Head(down[p]).response = "REJECTED"
                                         /\ Head(down[p]).command \in {"SETUP", "ADD_CHANNELS",
                                                 "REMOVE_CHANNELS", "REQUEST_CONTROL"}
        /\ Head(down[p]) \in Admits <=> /\ Head(down[p]).response = "ACCEPTED"
                                        /\ Head(down[p]).command = "SETUP"
        /\ Head(down[p]) \in Adds <=> /\ Head(down[p]).response = "ACCEPTED"
                                      /\ Head(down[p]).command = "ADD_CHANNELS"
        /\ Head(down[p]) \in Validates <=> /\ Head(down[p]).response = "ACCEPTED"
                                           /\ Head(down[p]).command = "CHANNELS_READY"
        /\ Head(down[p]) \in Removes <=> /\ Head(down[p]).response = "ACCEPTED"
                                         /\ Head(down[p]).command = "REMOVE_CHANNELS"
        /\ Head(down[p]) \in Gives <=> /\ Head(down[p]).response = "ACCEPTED"
                                       /\ Head(down[p]).command = "CONTROL_READY"
        /\ Head(down[p]) \in Agreed <=> /\ Head(down[p]).response = "ACCEPTED"
                                        /\ Head(down[p]).command = "REQUEST_CONTROL"
        /\ Head(down[p]) \in Asking <=> /\ Head(down[p]).response = "NONE"
                                        /\ Head(down[p]).command = "RELEASE_CONTROL"
        /\ Head(down[p]) \in Switch <=> /\ Head(down[p]).response = "NONE"
                                        /\ Head(down[p]).command = "CONTROL_RELEASED"
  BY Kind
<1> DEFINE h == Head(down[p])
<1> HIDE DEF h
<1>5. ASSUME NEW command \in {"SETUP", "ADD_CHANNELS", "REMOVE_CHANNELS", "REQUEST_CONTROL"},
             NEW s \in Waiting, ReceiveQuietly(p, command, "REJECTED", s),
             Become(p, IF s = "Connecting" THEN "Disconnecting" ELSE "Operating", {}),
             UNCHANGED <<channels, live, linked, up>>
      PROVE  PilotInv(p)'
  <2>1. /\ state[p] = s /\ live[p] = TRUE /\ down[p] # <<>> /\ down'[p] = Tail(down[p])
        /\ Head(down[p]) \in Refuses
    BY <1>1, <1>4, <1>5 DEF ReceiveQuietly
  <2>2. /\ state'[p] = IF state[p] = "Connecting" THEN "Disconnecting" ELSE "Operating"
    BY <1>2, <1>5, <2>1
  <2>3. /\ up'[p] = up[p] /\ live'[p] = live[p] /\ linked'[p] = linked[p]
        /\ open'[p] = open[p] /\ owned'[p] = owned[p] /\ told'[p] = told[p]
    BY <1>5 DEF channels
  <2> QED
    BY <1>0, <2>1, <2>2, <2>3, ReturnsRefused
<1>6. /\ "Connecting" \in Waiting /\ "OpeningChannels" \in Waiting
      /\ "ClosingChannels" \in Waiting /\ "RequestingControl" \in Waiting
  BY DEF Waiting
<1>7. CASE SetupRejected(p)
  BY <1>5, <1>6, <1>7 DEF SetupRejected
<1>8. CASE AddRejected(p)
  BY <1>5, <1>6, <1>8 DEF AddRejected
<1>9. CASE RemoveRejected(p)
  BY <1>5, <1>6, <1>9 DEF RemoveRejected
<1>10. CASE RequestRejected(p)
  BY <1>5, <1>6, <1>10 DEF RequestRejected
<1>11. ASSUME NEW command, NEW s, ReceiveQuietly(p, command, "ACCEPTED", s),
              \/ s = "Connecting" /\ command = "SETUP"
              \/ s = "OpeningChannels" /\ command = "ADD_CHANNELS",
              Validate(p, Head(down[p]).ids), UNCHANGED <<told, linked>>
       PROVE  PilotInv(p)'
  <2> DEFINE C == Head(down[p]).ids
  <2>1. /\ live[p] = TRUE /\ down[p] # <<>> /\ down'[p] = Tail(down[p])
        /\ C \in SUBSET Channels
        /\ \/ state[p] = "Connecting" /\ Head(down[p]) \in Admits
           \/ state[p] = "OpeningChannels" /\ Head(down[p]) \in Adds
    BY <1>1, <1>4, <1>11 DEF ReceiveQuietly
  <2>2. told'[p] = told[p] /\ linked'[p] = linked[p]
    BY <1>11
  <2>3. ASSUME NEW V \in SUBSET C,
               open' = [open EXCEPT ![p] = (@ \ C) \cup V],
               owned' = [owned EXCEPT ![p] = @ \ (C \ V)],
               Become(p, "ValidatingChannels", V),
               SendUp(p, Indicate("CHANNELS_READY", V)),
               UNCHANGED live
        PROVE  PilotInv(p)'
    <3> DEFINE m == Indicate("CHANNELS_READY", V)
    <3>1. /\ open'[p] = (open[p] \ C) \cup V /\ owned'[p] = owned[p] \ (C \ V)
          /\ live'[p] = live[p]
      BY <2>3 DEF Typed, PilotTyped
    <3>2. /\ state'[p] = "ValidatingChannels" /\ arg'[p] = V /\ up'[p] = Append(up[p], m)
      BY <1>2, <1>3, <2>3
    <3>3. m \in Messages /\ m \in Requested /\ m.ids = V /\ m.command = "CHANNELS_READY"
      <4>1. V \in SUBSET Channels
        BY <2>1
      <4> QED
        BY <4>1, Sent
    <3> HIDE DEF m
    <3> QED
      BY <1>0, <2>1, <2>2, <3>1, <3>2, <3>3, Announces
  <2>4. ASSUME NEW failed \in SUBSET C, NEW begun \in SUBSET C,
               open' = [open EXCEPT ![p] = (@ \cup begun) \ failed],
               owned' = [owned EXCEPT ![p] = @ \ failed],
               Become(p, "ValidatingChannels", {}),
               live' = [live EXCEPT ![p] = FALSE],
               UNCHANGED up
        PROVE  PilotInv(p)'
    <3>1. /\ open'[p] = (open[p] \cup begun) \ failed /\ owned'[p] = owned[p] \ failed
          /\ live'[p] = FALSE /\ up'[p] = up[p]
      BY <2>4 DEF Typed, PilotTyped
    <3>2. /\ state'[p] = "ValidatingChannels" /\ arg'[p] = {}
      BY <1>2, <2>4
    <3> QED
      BY <1>0, <2>1, <2>2, <3>1, <3>2, Throws
  <2> QED
    BY <1>11, <2>3, <2>4 DEF Validate
<1>12. CASE SetupAccepted(p)
  BY <1>11, <1>12 DEF SetupAccepted
<1>13. CASE AddAccepted(p)
  BY <1>11, <1>13 DEF AddAccepted
<1>14. CASE ChannelsReadyAccepted(p)
  <2>1. /\ state[p] = "ValidatingChannels" /\ live[p] = TRUE /\ down[p] # <<>>
        /\ down'[p] = Tail(down[p]) /\ Head(down[p]) \in Validates
    BY <1>1, <1>4, <1>14 DEF ChannelsReadyAccepted, ReceiveQuietly
  <2>2. state'[p] = "Operating"
    BY <1>2, <1>14 DEF ChannelsReadyAccepted
  <2>3. /\ up'[p] = up[p] /\ live'[p] = live[p] /\ linked'[p] = linked[p]
        /\ open'[p] = open[p] /\ owned'[p] = owned[p] \cup Head(down[p]).ids
        /\ told'[p] = told[p] \cup arg[p]
    BY <1>14 DEF ChannelsReadyAccepted, Typed, PilotTyped
  <2> QED
    BY <1>0, <2>1, <2>2, <2>3, ReturnsValidated
<1>15. CASE HandoverDone(p)
  <2>1. /\ state[p] = "RequestingControl" /\ live[p] = TRUE /\ down[p] # <<>>
        /\ down'[p] = Tail(down[p]) /\ Head(down[p]) \in Gives
    BY <1>1, <1>4, <1>15 DEF HandoverDone, ReceiveQuietly
  <2>2. state'[p] = "Operating"
    BY <1>2, <1>15 DEF HandoverDone
  <2>3. /\ up'[p] = up[p] /\ live'[p] = live[p] /\ linked'[p] = linked[p]
        /\ open'[p] = open[p] /\ owned'[p] = owned[p] \cup arg[p]
        /\ told'[p] = told[p]
    BY <1>15 DEF HandoverDone, Typed, PilotTyped
  <2> QED
    BY <1>0, <2>1, <2>2, <2>3, ReturnsGiven
<1>16. CASE RemoveAccepted(p)
  <2>1. /\ state[p] = "ClosingChannels" /\ live[p] = TRUE /\ down[p] # <<>>
        /\ down'[p] = Tail(down[p]) /\ Head(down[p]) \in Removes
    BY <1>1, <1>4, <1>16 DEF RemoveAccepted, ReceiveQuietly
  <2>2. state'[p] = "Operating" /\ up'[p] = Append(up[p], Accept("REMOVE_CHANNELS"))
    BY <1>2, <1>3, <1>16 DEF RemoveAccepted
  <2>3. /\ live'[p] = live[p] /\ linked'[p] = linked[p]
        /\ open'[p] = open[p] \ arg[p] /\ owned'[p] = owned[p] \ arg[p]
        /\ told'[p] = told[p] \ arg[p]
    <3>1. live'[p] = live[p] /\ linked'[p] = linked[p] /\ CloseChannels(p, arg[p])
      BY <1>16 DEF RemoveAccepted
    <3>2. /\ open \in [Pilots -> SUBSET Channels] /\ owned \in [Pilots -> SUBSET Channels]
          /\ told \in [Pilots -> SUBSET Channels]
      BY DEF Typed, PilotTyped
    <3>3. open'[p] = open[p] \ arg[p]
      BY <3>1, <3>2 DEF CloseChannels
    <3>4. owned'[p] = owned[p] \ arg[p]
      BY <3>1, <3>2 DEF CloseChannels
    <3>5. told'[p] = told[p] \ arg[p]
      BY <3>1, <3>2 DEF CloseChannels
    <3> QED
      BY <3>1, <3>3, <3>4, <3>5
  <2>4. Accept("REMOVE_CHANNELS") \in Removed
    BY Sent
  <2> QED
    BY <1>0, <2>1, <2>2, <2>3, <2>4, ReturnsRemoved
<1>17. CASE RequestAccepted(p)
  <2>1. /\ down[p] # <<>> /\ down'[p] = Tail(down[p]) /\ Head(down[p]) \in Agreed
    BY <1>1, <1>4, <1>17 DEF RequestAccepted
  <2>2. Head(down[p]) \notin Final
    BY <2>1, Kinds
  <2>3. /\ up'[p] = up[p] /\ live'[p] = live[p] /\ linked'[p] = linked[p]
        /\ open'[p] = open[p] /\ owned'[p] = owned[p] /\ told'[p] = told[p]
        /\ state'[p] = state[p] /\ arg'[p] = arg[p]
    BY <1>17 DEF RequestAccepted, Stay, channels
  <2> QED
    BY <1>0, <2>1, <2>2, <2>3, Pops
<1>18. CASE ReleaseControlAsked(p)
  <2>1. /\ state[p] = "Operating" /\ live[p] = TRUE /\ down[p] # <<>>
        /\ down'[p] = Tail(down[p]) /\ Head(down[p]) \in Asking
    BY <1>1, <1>4, <1>18 DEF ReleaseControlAsked
  <2>2. state'[p] = "ReleasingControl" /\ arg'[p] = Head(down[p]).ids
    BY <1>2, <1>18 DEF ReleaseControlAsked
  <2>3. /\ up'[p] = up[p] /\ live'[p] = live[p] /\ linked'[p] = linked[p]
        /\ open'[p] = open[p] /\ owned'[p] = owned[p] /\ told'[p] = told[p]
    BY <1>18 DEF ReleaseControlAsked, channels
  <2> QED
    BY <1>0, <2>1, <2>2, <2>3, Asked
<1>19. CASE ControlReleased(p)
  <2>1. /\ state[p] = "ReleasingControl" /\ live[p] = TRUE /\ down[p] # <<>>
        /\ down'[p] = Tail(down[p]) /\ Head(down[p]) \in Switch
    BY <1>1, <1>4, <1>19 DEF ControlReleased, ReceiveQuietly
  <2>2. state'[p] = "Operating" /\ up'[p] = Append(up[p], Accept("CONTROL_RELEASED"))
    BY <1>2, <1>3, <1>19 DEF ControlReleased
  <2>3. /\ live'[p] = live[p] /\ linked'[p] = linked[p]
        /\ open'[p] = open[p] /\ owned'[p] = owned[p] \ arg[p] /\ told'[p] = told[p]
    BY <1>19 DEF ControlReleased, Typed, PilotTyped
  <2>4. Accept("CONTROL_RELEASED") \in LetGo
    BY Sent
  <2> QED
    BY <1>0, <2>1, <2>2, <2>3, <2>4, LetsGo
<1>20. CASE Released(p)
  <2>1. PICK s \in {"Operating", "ClosingChannels"} : ReceiveQuietly(p, "RELEASE", "NONE", s)
    BY <1>20 DEF Released
  <2>2. /\ state[p] \in {"Operating", "ClosingChannels"} /\ live[p] = TRUE /\ down[p] # <<>>
        /\ down'[p] = Tail(down[p]) /\ Head(down[p]).response = "NONE"
    BY <1>1, <2>1 DEF ReceiveQuietly
  <2>3. state'[p] = "Disconnecting" /\ up'[p] = Append(up[p], Accept("RELEASE"))
    BY <1>2, <1>3, <1>20 DEF Released, LeaveConnected
  <2>4. /\ live'[p] = live[p] /\ linked'[p] = linked[p]
        /\ open'[p] = open[p] \ open[p] /\ owned'[p] = owned[p] \ open[p]
        /\ told'[p] = told[p] \ open[p]
    BY <1>20 DEF Released, CloseChannels, Typed, PilotTyped
  <2>5. open'[p] = {} /\ owned'[p] = {} /\ told'[p] = {}
    BY <2>4 DEF PilotInv, Knows
  <2> DEFINE m == Accept("RELEASE")
  <2>6. m \in Bye /\ up'[p] = Append(up[p], m)
    BY <2>3, Sent
  <2>7. live'[p] = live[p] /\ linked'[p] = linked[p]
    BY <2>4
  <2> HIDE DEF m
  <2> QED
    BY <1>0, <2>2, <2>3, <2>5, <2>6, <2>7, SaysBye
<1>21. CASE Drop(p)
  <2>1. /\ down[p] # <<>> /\ down'[p] = Tail(down[p]) /\ ~Expected(state[p], Head(down[p]))
        /\ state[p] \in Connected \cup {"Connecting"}
    BY <1>21 DEF Drop, Typed, PilotTyped
  <2>2. Head(down[p]) \notin Final
    <3>1. SUFFICES ASSUME Head(down[p]) \in Final PROVE FALSE
      OBVIOUS
    <3>2. Head(down[p]) \in Messages /\ Head(down[p]).command \in Waits(state[p])
      BY <2>1, <3>1, Alone
    <3>3. /\ Head(down[p]).command \in {"CHANNELS_READY", "CONTROL_READY"}
               => Head(down[p]).response = "ACCEPTED"
      BY <3>1, <3>2, Kind DEF Final
    <3> QED
      BY <2>1, <3>2, <3>3 DEF Expected, Waits, Connected
  <2>3. /\ up'[p] = up[p] /\ live'[p] = live[p] /\ linked'[p] = linked[p]
        /\ open'[p] = open[p] /\ owned'[p] = owned[p] /\ told'[p] = told[p]
        /\ state'[p] = state[p] /\ arg'[p] = arg[p]
    BY <1>21 DEF Drop, channels
  <2> QED
    BY <1>0, <2>1, <2>2, <2>3, Pops
<1> QED
  BY <1>7, <1>8, <1>9, <1>10, <1>12, <1>13, <1>14, <1>15, <1>16, <1>17, <1>18, <1>19,
     <1>20, <1>21 DEF ReceiveStep

(* What a pilot does keeps the invariant.                                  *)
LEMMA PilotKeeps ==
  ASSUME IInv, NEW p \in Pilots, PilotStep(p), UNCHANGED facadeVars
  PROVE  Handover' /\ \A r \in Pilots : PilotInv(r)'
<1>1. Typed /\ Handover /\ \A r \in Pilots : PilotInv(r)
  BY DEF IInv
<1>2. Handover'
  BY <1>1 DEF Handover, facadeVars, NoHandover
<1>3. ASSUME NEW r \in Pilots, r # p PROVE PilotInv(r)'
  <2>1. Same(r)
    BY <1>1, <1>3, Bystanders
  <2>2. handover' = handover
    BY DEF facadeVars
  <2> QED
    BY <1>1, <2>1, <2>2, Frame
<1>4. PilotInv(p)'
  <2>1. CASE Disconnect(p)
    <3>1. /\ state[p] = "Disconnecting" /\ linked[p] = FALSE /\ live[p] = TRUE
          /\ open'[p] = open[p] /\ owned'[p] = owned[p] /\ told'[p] = told[p]
          /\ linked'[p] = linked[p] /\ live'[p] = live[p]
          /\ up'[p] = <<>> /\ down'[p] = <<>>
      BY <1>1, <2>1 DEF Disconnect, channels, Typed, PilotTyped
    <3>2. state'[p] = "Disconnected" /\ Still(p)
      BY <1>1, <2>1, Effects DEF Disconnect
    <3> QED
      BY <1>1, <3>1, <3>2, Leaves
  <2>2. CASE DisconnectFails(p)
    <3>1. /\ state[p] = "Disconnecting" /\ state'[p] = state[p] /\ arg'[p] = arg[p]
          /\ open'[p] = open[p] /\ owned'[p] = owned[p] /\ told'[p] = told[p]
          /\ linked'[p] = linked[p] /\ live'[p] = FALSE
          /\ up'[p] = up[p] /\ down'[p] = down[p]
      BY <1>1, <2>2 DEF DisconnectFails, channels, streams, Typed, PilotTyped
    <3>2. Still(p)
      BY <1>1, Effects
    <3> QED
      BY <1>1, <3>1, <3>2, Leaves
  <2> QED
    BY <1>1, <2>1, <2>2, UserKeeps, ReceiveKeeps DEF PilotStep
<1> QED
  BY <1>2, <1>3, <1>4

(* What the facade's step leaves alone: all that is the pilot's.           *)
Kept(p) ==
  /\ state'[p] = state[p] /\ arg'[p] = arg[p] /\ live'[p] = live[p]
  /\ open'[p] = open[p] /\ owned'[p] = owned[p] /\ told'[p] = told[p]

(* What the facade knows of the pilot.                                     *)
Known(p) ==
  granted'[p] = granted[p] /\ removing'[p] = removing[p] /\ OwnedBy(p)' = OwnedBy(p)

(* The facade takes a message.                                             *)
LEMMA UpTaken ==
  ASSUME Typed, NEW p \in Pilots, Asks(p), up[p] # <<>>, up'[p] = Tail(up[p])
  PROVE  /\ Head(up[p]) \in Messages /\ linked[p] = TRUE
         /\ ToSet(up[p]) = {Head(up[p])} \cup ToSet(up'[p])
         /\ \A K : Up(p, K)' \subseteq Up(p, K)
         /\ \A K : Head(up[p]) \notin K => Up(p, K)' = Up(p, K)
         /\ \A K : Head(up[p]) \in K => Head(up[p]) \in Up(p, K)
         /\ After(up'[p], Requested, IsReady \cup Bye)
         /\ After(up'[p], Bye, {})
         /\ After(up'[p], LetGo, Messages \ LetGo)
         /\ Head(up[p]) \in Requested => ToSet(up'[p]) \subseteq IsReady \cup Bye
         /\ Head(up[p]) \in Bye => ToSet(up'[p]) = {}
         /\ Head(up[p]) \in LetGo => Up(p, LetGo)' = {}
         /\ ToSet(up'[p]) = {} => up'[p] = <<>>
<1>1. up[p] \in Seq(Messages)
  BY QueueTypes
<1>2. /\ Head(up[p]) \in Messages /\ up'[p] \in Seq(Messages)
      /\ ToSet(up[p]) = {Head(up[p])} \cup ToSet(up'[p])
  BY <1>1, TakeElements
<1>3. /\ After(up'[p], Requested, IsReady \cup Bye)
      /\ Head(up[p]) \in Requested => ToSet(up'[p]) \subseteq IsReady \cup Bye
  BY <1>1, TakeAfter DEF Asks
<1>4. /\ After(up'[p], Bye, {})
      /\ Head(up[p]) \in Bye => ToSet(up'[p]) = {}
  BY <1>1, TakeAfter DEF Asks
<1>5. /\ After(up'[p], LetGo, Messages \ LetGo)
      /\ Head(up[p]) \in LetGo => ToSet(up'[p]) \subseteq Messages \ LetGo
  BY <1>1, TakeAfter DEF Asks
<1>6. ToSet(up'[p]) = {} => up'[p] = <<>>
  <2> DEFINE q == up'[p]
  <2>1. q \in Seq(Messages)
    BY <1>2
  <2> HIDE DEF q
  <2>2. q # <<>> => Head(q) \in ToSet(q)
    BY <2>1, TakeElements
  <2> QED
    BY <2>2 DEF q
<1>7. linked[p] = TRUE
  BY QueueTypes DEF Asks
<1>8. /\ \A K : Up(p, K)' \subseteq Up(p, K)
      /\ \A K : Head(up[p]) \notin K => Up(p, K)' = Up(p, K)
      /\ \A K : Head(up[p]) \in K => Head(up[p]) \in Up(p, K)
      /\ Head(up[p]) \in LetGo => Up(p, LetGo)' = {}
  BY <1>2, <1>5 DEF Up
<1> QED
  BY <1>2, <1>3, <1>4, <1>5, <1>6, <1>7, <1>8

(* What is left is what Asks says of the queue to the facade.              *)
LEMMA AsksTaken ==
  ASSUME Typed, NEW p \in Pilots, Asks(p), up[p] # <<>>, up'[p] = Tail(up[p]), Kept(p),
         linked'[p] = linked[p] \/ (ToSet(up'[p]) = {} /\ state[p] \notin Connected)
  PROVE  Asks(p)'
<1>1. /\ linked[p] = TRUE
      /\ ToSet(up[p]) = {Head(up[p])} \cup ToSet(up'[p])
      /\ \A K : Up(p, K)' \subseteq Up(p, K)
      /\ Head(up[p]) \notin Requested => Up(p, Requested)' = Up(p, Requested)
      /\ After(up'[p], Requested, IsReady \cup Bye)
      /\ After(up'[p], Bye, {})
      /\ After(up'[p], LetGo, Messages \ LetGo)
      /\ Head(up[p]) \in Requested => ToSet(up'[p]) \subseteq IsReady \cup Bye
      /\ ToSet(up'[p]) = {} => up'[p] = <<>>
  BY UpTaken
<1>2. state'[p] \in Waiting /\ Answered(p)' => ToSet(up'[p]) \subseteq IsReady
  <2> SUFFICES ASSUME state'[p] \in Waiting, Answered(p)'
               PROVE  ToSet(up'[p]) \subseteq IsReady
    OBVIOUS
  <2>1. state[p] \in Waiting /\ Up(p, Bye) = {}
    BY DEF Kept, Asks, Waiting
  <2>2. CASE Head(up[p]) \in Requested
    <3>1. Up(p, Bye)' = {}
      BY <1>1, <2>1
    <3> QED
      BY <1>1, <2>2, <3>1 DEF Up
  <2>3. CASE Head(up[p]) \notin Requested
    BY <1>1, <2>1, <2>3 DEF Asks, Answered
  <2> QED
    BY <2>2, <2>3
<1>3. /\ \A m \in Up(p, Requested)' : /\ m.command \in Waits(state[p])
                                      /\ state[p] # "Disconnecting" => live[p] /\ m.ids = arg[p]
      /\ state[p] # "Disconnecting" => Up(p, Bye)' = {}
      /\ state[p] = "Connecting" => ToSet(up'[p]) \subseteq Requested
      /\ ~linked'[p] => up'[p] = <<>>
      /\ state[p] \in Connected => linked'[p]
      /\ state[p] = "RequestingControl" => \E c \in Channels : arg[p] = {c}
      /\ live[p] \/ state[p] \in {"ValidatingChannels", "Disconnecting"}
  BY <1>1 DEF Asks
<1> QED
  BY <1>1, <1>2, <1>3 DEF Asks, Kept

(* The facade sends a message.                                             *)
LEMMA DownPut ==
  ASSUME Typed, NEW p \in Pilots, NEW m \in Messages, Gets(p), down'[p] = Append(down[p], m),
         m \in Later \/ Down(p, Final) = {}
  PROVE  /\ ToSet(down'[p]) = ToSet(down[p]) \cup {m}
         /\ \A K : m \notin K => Down(p, K)' = Down(p, K)
         /\ \A K : m \in K => Down(p, K)' = Down(p, K) \cup {m}
         /\ After(down'[p], Final, Later)
<1>1. down[p] \in Seq(Messages)
  BY QueueTypes
<1>2. ToSet(down'[p]) = ToSet(down[p]) \cup {m}
  BY <1>1, PutElements
<1>3. After(down'[p], Final, Later)
  <2>1. ToSet(down[p]) \cap Final = {} \/ m \in Later
    BY DEF Down
  <2> QED
    BY <1>1, <2>1, PutAfter DEF Gets
<1> QED
  BY <1>2, <1>3 DEF Down

(* A final answer makes the messages of a handover stale; those it does    *)
(* not concern leave them as they are.                                     *)
LEMMA FreshPut ==
  ASSUME Typed, NEW p \in Pilots, NEW m \in Messages, down'[p] = Append(down[p], m)
  PROVE  /\ m \in Final => /\ Fresh(down'[p], Asking, Final) = {}
                           /\ Fresh(down'[p], Switch, Final) = {}
         /\ m \notin Final /\ m \notin Asking =>
              /\ Fresh(down'[p], Asking, Final) = Fresh(down[p], Asking, Final)
              /\ \A i \in Fresh(down[p], Asking, Final) : down'[p][i] = down[p][i]
         /\ m \notin Final /\ m \notin Switch =>
              Fresh(down'[p], Switch, Final) = Fresh(down[p], Switch, Final)
         /\ m \notin Final =>
              /\ Fresh(down'[p], Asking, Final) \subseteq
                   Fresh(down[p], Asking, Final) \cup {Len(down[p]) + 1}
              /\ Fresh(down'[p], Switch, Final) \subseteq
                   Fresh(down[p], Switch, Final) \cup {Len(down[p]) + 1}
              /\ down'[p][Len(down[p]) + 1] = m
<1> DEFINE q == down[p]
           r == down'[p]
<1>1. q \in Seq(Messages) /\ r = Append(q, m)
  BY QueueTypes
<1> HIDE DEF q, r
<1>2. m \in Final => m \notin Asking /\ m \notin Switch
  BY Kinds
<1>3. /\ m \in Final /\ m \notin Asking => Fresh(Append(q, m), Asking, Final) = {}
      /\ m \notin Final /\ m \notin Asking =>
           Fresh(Append(q, m), Asking, Final) = Fresh(q, Asking, Final)
  BY <1>1, PutFresh
<1>4. /\ m \notin Final =>
           Fresh(Append(q, m), Asking, Final) \subseteq Fresh(q, Asking, Final) \cup {Len(q) + 1}
      /\ \A i \in Fresh(q, Asking, Final) : Append(q, m)[i] = q[i]
      /\ Append(q, m)[Len(q) + 1] = m
  <2>1. m \notin Final =>
          Fresh(Append(q, m), Asking, Final) \subseteq Fresh(q, Asking, Final) \cup {Len(q) + 1}
    BY <1>1, PutFresh
  <2>2. \A i \in Fresh(q, Asking, Final) : Append(q, m)[i] = q[i]
    <3>1. Fresh(q, Asking, Final) \subseteq 1..Len(q)
      BY <1>1, LenProperties DEF Fresh
    <3> QED
      BY <1>1, <3>1, AppendProperties
  <2>3. Append(q, m)[Len(q) + 1] = m
    BY <1>1, AppendProperties
  <2> QED
    BY <2>1, <2>2, <2>3
<1>5. /\ m \in Final /\ m \notin Switch => Fresh(Append(q, m), Switch, Final) = {}
      /\ m \notin Final /\ m \notin Switch =>
           Fresh(Append(q, m), Switch, Final) = Fresh(q, Switch, Final)
  BY <1>1, PutFresh
<1>6. m \notin Final =>
        Fresh(Append(q, m), Switch, Final) \subseteq Fresh(q, Switch, Final) \cup {Len(q) + 1}
  BY <1>1, PutFresh
<1> QED
  BY <1>1, <1>2, <1>3, <1>4, <1>5, <1>6 DEF q, r

(* No message of a handover is on its way.                                 *)
LEMMA NoTokens ==
  ASSUME NEW p, Fresh(down'[p], Asking, Final) = {}, Fresh(down'[p], Switch, Final) = {}
  PROVE  Tokens(p)'
BY DEF Tokens, AtMostOne

(* A party to whom nothing final happens: what it is to the facade stays.  *)
LEMMA Rest ==
  ASSUME Typed, NEW p \in Pilots, PilotInv(p), Kept(p), Known(p), linked'[p] = linked[p],
         linked[p] = TRUE,
         \/ up'[p] = up[p]
         \/ /\ up[p] # <<>> /\ up'[p] = Tail(up[p])
            /\ Head(up[p]) \notin Requested \cup LetGo \cup Removed,
         \/ down'[p] = down[p]
         \/ \E m \in Messages :
              /\ down'[p] = Append(down[p], m)
              /\ \/ m \in Later
                 \/ m \in Agreed /\ state[p] = "RequestingControl" /\ Down(p, Final) = {},
         handover'.ids = handover.ids \/ Up(p, LetGo) = {}
  PROVE  Asks(p)' /\ Gets(p)' /\ Knows(p)' /\ Controls(p)'
<1>1. /\ Up(p, Requested)' = Up(p, Requested) /\ Up(p, LetGo)' = Up(p, LetGo)
      /\ Up(p, Removed)' = Up(p, Removed)
      /\ Asks(p)'
  <2>1. CASE up'[p] = up[p]
    BY <2>1 DEF PilotInv, Asks, Answered, Up, Kept
  <2>2. CASE /\ up[p] # <<>> /\ up'[p] = Tail(up[p])
             /\ Head(up[p]) \notin Requested \cup LetGo \cup Removed
    <3>1. Asks(p)'
      BY <2>2, AsksTaken DEF PilotInv
    <3>2. \A K : Head(up[p]) \notin K => Up(p, K)' = Up(p, K)
      BY <2>2, UpTaken DEF PilotInv
    <3> QED
      BY <2>2, <3>1, <3>2
  <2> QED
    BY <2>1, <2>2
<1>2. /\ \A K : K \subseteq Final => Down(p, K)' = Down(p, K)
      /\ After(down'[p], Final, Later)
      /\ state[p] # "RequestingControl" => Down(p, Agreed)' = {}
      /\ ToSet(down'[p]) \subseteq Final \cup Later \cup Agreed
      /\ state[p] # "Disconnected"
  <2>0. state[p] # "Disconnected"
    BY DEF PilotInv, Gets
  <2>1. CASE down'[p] = down[p]
    BY <2>0, <2>1 DEF PilotInv, Gets, Down
  <2>2. ASSUME NEW m \in Messages, down'[p] = Append(down[p], m),
               \/ m \in Later
               \/ m \in Agreed /\ state[p] = "RequestingControl" /\ Down(p, Final) = {}
        PROVE  /\ \A K : K \subseteq Final => Down(p, K)' = Down(p, K)
               /\ After(down'[p], Final, Later)
               /\ state[p] # "RequestingControl" => Down(p, Agreed)' = {}
               /\ ToSet(down'[p]) \subseteq Final \cup Later \cup Agreed
    <3>1. /\ ToSet(down'[p]) = ToSet(down[p]) \cup {m}
          /\ \A K : m \notin K => Down(p, K)' = Down(p, K)
          /\ After(down'[p], Final, Later)
      BY <2>2, DownPut DEF PilotInv
    <3>2. m \notin Final /\ (m \in Later => m \notin Agreed)
      BY <2>2, Kinds
    <3> QED
      BY <2>2, <3>1, <3>2 DEF PilotInv, Gets
  <2> QED
    BY <2>0, <2>1, <2>2
<1>3. /\ Down(p, Final)' = Down(p, Final) /\ Down(p, Validates)' = Down(p, Validates)
      /\ Down(p, Gives)' = Down(p, Gives) /\ Down(p, Adds)' = Down(p, Adds)
      /\ Down(p, Removes)' = Down(p, Removes) /\ Down(p, Admits)' = Down(p, Admits)
  BY <1>2, Kinds
<1>4. Gets(p)'
  BY <1>1, <1>2, <1>3 DEF PilotInv, Gets, Answered, Kept
<1>5. Knows(p)'
  BY <1>1, <1>3 DEF PilotInv, Knows, Kept, Known
<1>6. Controls(p)'
  BY <1>1, <1>3 DEF PilotInv, Controls, Accounted, Kept, Known
<1> QED
  BY <1>1, <1>4, <1>5, <1>6

-----------------------------------------------------------------------------
(* The answer to a request.                                                *)

(* A request is taken up.                                                  *)
LEMMA TakenUp ==
  ASSUME Typed, NEW p \in Pilots, PilotInv(p), up[p] # <<>>, up'[p] = Tail(up[p]),
         Head(up[p]) \in Requested
  PROVE  /\ Head(up[p]) \in Messages /\ linked[p] = TRUE
         /\ Head(up[p]).command \in Waits(state[p])
         /\ state[p] # "Disconnecting" => live[p] /\ Head(up[p]).ids = arg[p]
         /\ state[p] \notin {"ReleasingControl", "Disconnected", "Operating"}
         /\ Up(p, Requested)' = {} /\ Up(p, LetGo)' = {} /\ Up(p, Removed)' = {}
         /\ Up(p, LetGo) = {} /\ Up(p, Removed) = {}
         /\ Down(p, Final) = {} /\ Down(p, Validates) = {} /\ Down(p, Gives) = {}
         /\ Down(p, Adds) = {} /\ Down(p, Removes) = {} /\ Down(p, Admits) = {}
         /\ handover.to # p
         /\ state[p] = "Connecting" => ToSet(up'[p]) = {}
<1>1. /\ Head(up[p]) \in Messages /\ linked[p] = TRUE
      /\ ToSet(up[p]) = {Head(up[p])} \cup ToSet(up'[p])
      /\ \A K : Up(p, K)' \subseteq Up(p, K)
      /\ Head(up[p]) \in Up(p, Requested)
      /\ ToSet(up'[p]) \subseteq IsReady \cup Bye
  BY UpTaken DEF PilotInv
<1>2. /\ Head(up[p]).command \in Waits(state[p])
      /\ state[p] # "Disconnecting" => live[p] /\ Head(up[p]).ids = arg[p]
  BY <1>1 DEF PilotInv, Asks
<1>3. state[p] \notin {"ReleasingControl", "Disconnected", "Operating"}
  BY <1>2 DEF Waits
<1>4. Up(p, Requested)' = {} /\ Up(p, LetGo)' = {} /\ Up(p, Removed)' = {}
  BY <1>1, Kinds DEF Up
<1>5. Up(p, LetGo) = {} /\ Up(p, Removed) = {}
  BY <1>1, Kinds DEF Up
<1>6. Down(p, Final) = {} /\ handover.to # p
  BY <1>1 DEF PilotInv, Gets, Hands, Answered
<1>7. /\ Down(p, Validates) = {} /\ Down(p, Gives) = {}
      /\ Down(p, Adds) = {} /\ Down(p, Removes) = {} /\ Down(p, Admits) = {}
  BY <1>6, Kinds DEF Down
<1>8. state[p] = "Connecting" => ToSet(up'[p]) = {}
  BY <1>1, Kinds DEF PilotInv, Asks
<1> QED
  BY <1>1, <1>2, <1>3, <1>4, <1>5, <1>6, <1>7, <1>8

(* It is answered: nothing that was sent before matters any more.          *)
LEMMA Answers ==
  ASSUME Typed, NEW p \in Pilots, PilotInv(p), up[p] # <<>>, up'[p] = Tail(up[p]),
         Head(up[p]) \in Requested, Kept(p),
         NEW m \in Messages, m \in Final, m.command \in Waits(state[p]),
         down'[p] = Append(down[p], m),
         \/ linked'[p] = linked[p]
         \/ linked'[p] = FALSE /\ state[p] = "Connecting" /\ m \notin Admits,
         handover'.to # p,
         handover'.from = p => handover'.ids \cap removing'[p] = {}
  PROVE  /\ Asks(p)' /\ Gets(p)' /\ Hands(p)'
         /\ Down(p, Validates)' = IF m \in Validates THEN {m} ELSE {}
         /\ Down(p, Gives)' = IF m \in Gives THEN {m} ELSE {}
         /\ Down(p, Adds)' = IF m \in Adds THEN {m} ELSE {}
         /\ Down(p, Removes)' = IF m \in Removes THEN {m} ELSE {}
<1>1. /\ linked[p] = TRUE
      /\ state[p] \notin {"ReleasingControl", "Disconnected", "Operating"}
      /\ Up(p, Requested)' = {} /\ Up(p, LetGo)' = {}
      /\ Down(p, Final) = {} /\ Down(p, Validates) = {} /\ Down(p, Gives) = {}
      /\ Down(p, Adds) = {} /\ Down(p, Removes) = {} /\ Down(p, Admits) = {}
      /\ state[p] = "Connecting" => ToSet(up'[p]) = {}
  BY TakenUp
<1>2. /\ ToSet(down'[p]) = ToSet(down[p]) \cup {m}
      /\ \A K : m \notin K => Down(p, K)' = Down(p, K)
      /\ \A K : m \in K => Down(p, K)' = Down(p, K) \cup {m}
      /\ After(down'[p], Final, Later)
  BY <1>1, DownPut DEF PilotInv
<1>3. /\ Down(p, Validates)' = IF m \in Validates THEN {m} ELSE {}
      /\ Down(p, Gives)' = IF m \in Gives THEN {m} ELSE {}
      /\ Down(p, Adds)' = IF m \in Adds THEN {m} ELSE {}
      /\ Down(p, Removes)' = IF m \in Removes THEN {m} ELSE {}
      /\ Down(p, Admits)' = IF m \in Admits THEN {m} ELSE {}
      /\ Down(p, Final)' = {m}
      /\ Down(p, Agreed)' = Down(p, Agreed)
  BY <1>1, <1>2, Kinds
<1>4. Asks(p)'
  <2>1. state[p] = "Connecting" => state[p] \notin Connected
    BY DEF Connected
  <2> QED
    BY <1>1, <2>1, AsksTaken DEF PilotInv
<1>5. Gets(p)'
  <2>1. Down(p, Admits)' # {} => linked'[p]
    BY <1>1, <1>3
  <2> QED
    BY <1>1, <1>2, <1>3, <2>1 DEF PilotInv, Gets, Answered, Kept
<1>6. Hands(p)'
  <2>1. /\ Fresh(down'[p], Asking, Final) = {} /\ Fresh(down'[p], Switch, Final) = {}
    BY FreshPut
  <2>2. Tokens(p)'
    BY <2>1, NoTokens
  <2>3. state'[p] # "ReleasingControl"
    BY <1>1 DEF Kept
  <2> QED
    BY <1>1, <2>2, <2>3 DEF Hands
<1> QED
  BY <1>3, <1>4, <1>5, <1>6

(* An answer that changes nothing for the facade.                          *)
LEMMA AnswersOnly ==
  ASSUME Typed, NEW p \in Pilots, PilotInv(p), up[p] # <<>>, up'[p] = Tail(up[p]),
         Head(up[p]) \in Requested, Kept(p), Known(p), handover' = handover,
         NEW m \in Messages, m.command = Head(up[p]).command,
         \/ m \in Refuses \/ m \in Admits
         \/ m \in Adds /\ m.ids \subseteq Head(up[p]).ids \ granted[p],
         down'[p] = Append(down[p], m),
         \/ linked'[p] = linked[p]
         \/ linked'[p] = FALSE /\ state[p] = "Connecting" /\ m \notin Admits
  PROVE  PilotInv(p)'
<1>1. /\ linked[p] = TRUE
      /\ Head(up[p]).command \in Waits(state[p])
      /\ Up(p, Requested)' = {} /\ Up(p, LetGo)' = {} /\ Up(p, Removed)' = {}
      /\ Up(p, LetGo) = {} /\ Up(p, Removed) = {}
      /\ Down(p, Validates) = {} /\ Down(p, Gives) = {} /\ handover.to # p
      /\ state[p] # "Disconnecting" => live[p]
  BY TakenUp
<1>2. m \in Final /\ m \notin Validates /\ m \notin Gives /\ m \notin Removes
  BY Kind, Kinds
<1>3. handover'.from = p => handover'.ids \cap removing'[p] = {}
  BY DEF PilotInv, Hands, Known
<1>4. /\ Asks(p)' /\ Gets(p)' /\ Hands(p)'
      /\ Down(p, Validates)' = {} /\ Down(p, Gives)' = {} /\ Down(p, Removes)' = {}
      /\ Down(p, Adds)' = IF m \in Adds THEN {m} ELSE {}
  BY <1>1, <1>2, <1>3, Answers
<1>5. m \in Adds => m.ids \cap (open[p] \cup granted[p]) = {}
  <2> SUFFICES ASSUME m \in Adds PROVE m.ids \cap (open[p] \cup granted[p]) = {}
    OBVIOUS
  <2>1. m.command = "ADD_CHANNELS" /\ m \notin Refuses /\ m \notin Admits
    BY Kind
  <2>2. state[p] = "OpeningChannels"
    <3>1. state[p] \in States /\ "ADD_CHANNELS" \in Waits(state[p])
      BY <1>1, <2>1, QueueTypes
    <3> QED
      BY <3>1, WaitsFor
  <2>3. open[p] \subseteq granted[p]
    BY <1>1, <2>2 DEF PilotInv, Knows
  <2> QED
    BY <2>1, <2>3
<1>6. linked'[p] = linked[p] \/ state[p] = "Connecting"
  OBVIOUS
<1>7. Knows(p)'
  BY <1>1, <1>4, <1>5, <1>6 DEF PilotInv, Knows, Kept, Known
<1>8. Controls(p)'
  BY <1>1, <1>4 DEF PilotInv, Controls, Accounted, Kept, Known
<1> QED
  BY <1>4, <1>7, <1>8 DEF PilotInv

(* Channels may be removed.                                                *)
LEMMA AnswersRemove ==
  ASSUME Typed, NEW p \in Pilots, PilotInv(p), up[p] # <<>>, up'[p] = Tail(up[p]),
         Head(up[p]) \in Requested, Head(up[p]).command = "REMOVE_CHANNELS", Kept(p),
         linked'[p] = linked[p], granted'[p] = granted[p], OwnedBy(p)' = OwnedBy(p),
         removing'[p] = Head(up[p]).ids, Head(up[p]).ids \subseteq granted[p],
         NEW m \in Messages, m \in Removes, down'[p] = Append(down[p], m),
         handover'.to # p, handover'.from = p => handover'.ids \cap removing'[p] = {}
  PROVE  PilotInv(p)'
<1>1. /\ linked[p] = TRUE
      /\ Head(up[p]).command \in Waits(state[p])
      /\ Up(p, Requested)' = {} /\ Up(p, LetGo)' = {} /\ Up(p, Removed)' = {}
      /\ Up(p, LetGo) = {} /\ Up(p, Removed) = {}
      /\ Down(p, Validates) = {} /\ Down(p, Gives) = {}
      /\ state[p] # "Disconnecting" => Head(up[p]).ids = arg[p]
  BY TakenUp
<1>2. m \in Final /\ m \notin Validates /\ m \notin Gives /\ m \notin Adds
      /\ m.command = "REMOVE_CHANNELS"
  BY Kind, Kinds
<1>3. /\ Asks(p)' /\ Gets(p)' /\ Hands(p)'
      /\ Down(p, Validates)' = {} /\ Down(p, Gives)' = {} /\ Down(p, Adds)' = {}
  BY <1>1, <1>2, Answers
<1>4. state[p] \in {"ClosingChannels", "Disconnecting"}
  <2>1. state[p] \in States /\ "REMOVE_CHANNELS" \in Waits(state[p])
    BY <1>1, QueueTypes
  <2> QED
    BY <2>1, WaitsFor
<1>5. Knows(p)'
  BY <1>1, <1>3, <1>4 DEF PilotInv, Knows, Kept
<1>6. Controls(p)'
  BY <1>1, <1>3 DEF PilotInv, Controls, Accounted, Kept
<1> QED
  BY <1>3, <1>5, <1>6 DEF PilotInv

(* The channels are granted.                                               *)
LEMMA AnswersReady ==
  ASSUME Typed, NEW p \in Pilots, PilotInv(p), up[p] # <<>>, up'[p] = Tail(up[p]),
         Head(up[p]) \in Requested, Head(up[p]).command = "CHANNELS_READY", Kept(p),
         linked'[p] = linked[p], granted'[p] = granted[p] \cup Head(up[p]).ids,
         NEW new \in SUBSET Head(up[p]).ids,
         OwnedBy(p)' = OwnedBy(p) \cup new, removing'[p] = removing[p],
         NEW m \in Messages, m \in Validates, m.ids = new, down'[p] = Append(down[p], m),
         handover' = handover
  PROVE  PilotInv(p)'
<1>1. /\ linked[p] = TRUE
      /\ Head(up[p]).command \in Waits(state[p])
      /\ Up(p, Requested)' = {} /\ Up(p, LetGo)' = {} /\ Up(p, Removed)' = {}
      /\ Up(p, LetGo) = {} /\ Up(p, Removed) = {}
      /\ Down(p, Validates) = {} /\ Down(p, Gives) = {} /\ handover.to # p
      /\ state[p] # "Disconnecting" => live[p] /\ Head(up[p]).ids = arg[p]
  BY TakenUp
<1>2. m \in Final /\ m \notin Removes /\ m \notin Gives /\ m \notin Adds
      /\ m.command = "CHANNELS_READY"
  BY Kind, Kinds
<1>3. state[p] = "ValidatingChannels" /\ state[p] # "Disconnecting"
  <2>1. state[p] \in States /\ "CHANNELS_READY" \in Waits(state[p])
    BY <1>1, QueueTypes
  <2> QED
    BY <2>1, WaitsFor
<1>4. handover'.from = p => handover'.ids \cap removing'[p] = {}
  BY DEF PilotInv, Hands
<1>5. /\ Asks(p)' /\ Gets(p)' /\ Hands(p)'
      /\ Down(p, Validates)' = {m} /\ Down(p, Gives)' = {} /\ Down(p, Adds)' = {}
      /\ Down(p, Removes)' = {}
  BY <1>1, <1>2, <1>4, Answers
<1>6. open[p] = told[p] \cup arg[p] /\ told[p] \subseteq granted[p]
      /\ granted[p] \subseteq open[p] /\ owned[p] \subseteq open[p]
  BY <1>1, <1>3 DEF PilotInv, Knows
<1>7. Knows(p)'
  <2>1. state'[p] \in Connected /\ linked'[p]
    BY <1>1, <1>3 DEF Kept, Connected
  <2> QED
    BY <1>1, <1>3, <1>5, <1>6, <2>1 DEF Knows, Kept
<1>8. Controls(p)'
  <2>1. ASSUME NEW c \in OwnedBy(p)' PROVE Accounted(p, c)'
    <3>1. CASE c \in new
      BY <1>5, <3>1 DEF Accounted
    <3>2. CASE c \in OwnedBy(p)
      <4>1. c \in owned[p]
        BY <1>1, <1>3, <3>2 DEF PilotInv, Controls, Accounted
      <4> QED
        BY <4>1 DEF Accounted, Kept
    <3> QED
      BY <2>1, <3>1, <3>2
  <2>2. owned'[p] \subseteq OwnedBy(p)' /\ OwnedBy(p)' \subseteq granted'[p]
    BY DEF PilotInv, Controls, Kept
  <2>3. \A x \in Down(p, Validates)' : x.ids \subseteq arg'[p] \cap OwnedBy(p)'
    BY <1>1, <1>3, <1>5 DEF Kept
  <2> QED
    BY <1>5, <2>1, <2>2, <2>3 DEF Controls
<1> QED
  BY <1>5, <1>7, <1>8 DEF PilotInv

-----------------------------------------------------------------------------
(* Channels that are given up, and the parties of a handover.              *)

(* A pilot that says that it has let go or removed waits for no answer.    *)
LEMMA SaysMore ==
  ASSUME Typed, NEW p \in Pilots, PilotInv(p), Up(p, LetGo \cup Removed) # {}
  PROVE  /\ Down(p, Validates) = {} /\ Down(p, Gives) = {} /\ Down(p, Adds) = {}
         /\ Down(p, Removes) # {} => state[p] = "Disconnecting"
         /\ handover.to # p
<1>1. ~(state[p] \in Waiting /\ Answered(p))
  BY Kinds DEF PilotInv, Asks, Up
<1>2. \A m \in Down(p, Final) : state[p] = "Disconnecting" /\ m.command = "REMOVE_CHANNELS"
  <2> SUFFICES ASSUME NEW m \in Down(p, Final)
               PROVE  state[p] = "Disconnecting" /\ m.command = "REMOVE_CHANNELS"
    OBVIOUS
  <2>1. Answered(p) /\ m.command \in Waits(state[p])
    BY DEF PilotInv, Gets
  <2>2. state[p] \in States /\ state[p] \notin Waiting
    BY <1>1, <2>1, QueueTypes
  <2>3. state[p] = "Disconnecting"
    BY <2>1, <2>2, WaitsFor
  <2> QED
    BY <2>1, <2>3 DEF Waits
<1>3. \A m \in Down(p, Final) : m \notin Validates /\ m \notin Gives /\ m \notin Adds
  BY <1>2, Kind, InKind DEF Down
<1>4. handover.to # p
  BY <1>1 DEF PilotInv, Hands, Waiting
<1> QED
  BY <1>2, <1>3, <1>4, Kinds DEF Down

(* The channels are gone on both sides.                                    *)
LEMMA Confirms ==
  ASSUME Typed, NEW p \in Pilots, PilotInv(p), up[p] # <<>>, up'[p] = Tail(up[p]),
         Head(up[p]) \in Removed, Kept(p), linked'[p] = linked[p], down'[p] = down[p],
         granted'[p] = granted[p] \ removing[p], OwnedBy(p)' = OwnedBy(p) \ removing[p],
         removing'[p] = {}, handover' = handover
  PROVE  PilotInv(p)'
<1>1. /\ Up(p, Requested)' = Up(p, Requested) /\ Up(p, LetGo)' = Up(p, LetGo)
      /\ Up(p, Removed) # {}
  BY UpTaken, Kinds DEF PilotInv
<1>2. /\ Down(p, Validates) = {} /\ Down(p, Gives) = {} /\ Down(p, Adds) = {}
      /\ Down(p, Removes) # {} => state[p] = "Disconnecting"
      /\ handover.to # p
  BY <1>1, SaysMore DEF Up
<1>3. \A K : Down(p, K)' = Down(p, K)
  BY DEF Down
<1>4. Asks(p)'
  BY AsksTaken DEF PilotInv
<1>5. Gets(p)'
  BY <1>1, <1>3 DEF PilotInv, Gets, Answered, Kept
<1>6. Hands(p)'
  BY <1>1, <1>2 DEF PilotInv, Hands, Tokens, Kept
<1>7. Knows(p)'
  BY <1>1, <1>2, <1>3 DEF PilotInv, Knows, Kept
<1>8. Controls(p)'
  BY <1>1, <1>2, <1>3 DEF PilotInv, Controls, Knows, Accounted, Kept
<1> QED
  BY <1>4, <1>5, <1>6, <1>7, <1>8 DEF PilotInv

(* The requester of a handover.                                            *)
LEMMA Requester ==
  ASSUME Typed, NEW r \in Pilots, PilotInv(r), handover.to = r
  PROVE  /\ state[r] = "RequestingControl" /\ handover.ids = arg[r]
         /\ handover.ids \subseteq granted[r] /\ linked[r] = TRUE /\ live[r]
         /\ Answered(r) /\ Up(r, LetGo) = {} /\ Up(r, Removed) = {}
         /\ Down(r, Final) = {} /\ Down(r, Validates) = {} /\ Down(r, Gives) = {}
         /\ Down(r, Adds) = {} /\ Down(r, Removes) = {} /\ Down(r, Admits) = {}
         /\ handover.from # r
         /\ Fresh(down[r], Asking, Final) = {} /\ Fresh(down[r], Switch, Final) = {}
<1>1. /\ state[r] = "RequestingControl" /\ handover.ids = arg[r]
      /\ handover.ids \subseteq granted[r] /\ Answered(r) /\ Down(r, Final) = {}
      /\ handover.from # r
  BY DEF PilotInv, Hands
<1>2. linked[r] = TRUE /\ live[r]
  BY <1>1, QueueTypes DEF PilotInv, Asks, Connected
<1>3. Up(r, LetGo) = {} /\ Up(r, Removed) = {}
  BY <1>1, Kinds DEF PilotInv, Asks, Waiting, Up
<1>4. /\ Down(r, Validates) = {} /\ Down(r, Gives) = {}
      /\ Down(r, Adds) = {} /\ Down(r, Removes) = {} /\ Down(r, Admits) = {}
  BY <1>1, Kinds DEF Down
<1>5. Fresh(down[r], Asking, Final) = {} /\ Fresh(down[r], Switch, Final) = {}
  BY <1>1, <1>2 DEF PilotInv, Hands, Tokens
<1> QED
  BY <1>1, <1>2, <1>3, <1>4, <1>5

(* It is refused, or given control.                                        *)
LEMMA EndOfHandover ==
  ASSUME Typed, NEW r \in Pilots, PilotInv(r), handover.to = r, Kept(r),
         linked'[r] = linked[r], granted'[r] = granted[r], removing'[r] = removing[r],
         handover' = NoHandover,
         \/ up'[r] = up[r]
         \/ up[r] # <<>> /\ up'[r] = Tail(up[r]) /\ Head(up[r]) \in IsReady,
         NEW m \in Messages, down'[r] = Append(down[r], m),
         \/ m = Reject("REQUEST_CONTROL") /\ OwnedBy(r)' = OwnedBy(r)
         \/ m = Accept("CONTROL_READY") /\ OwnedBy(r)' = OwnedBy(r) \cup handover.ids
  PROVE  PilotInv(r)'
<1>1. /\ state[r] = "RequestingControl" /\ handover.ids = arg[r]
      /\ handover.ids \subseteq granted[r] /\ linked[r] = TRUE /\ live[r]
      /\ Answered(r) /\ Up(r, LetGo) = {} /\ Up(r, Removed) = {}
      /\ Down(r, Final) = {} /\ Down(r, Validates) = {} /\ Down(r, Gives) = {}
      /\ Down(r, Adds) = {} /\ Down(r, Removes) = {} /\ Down(r, Admits) = {}
  BY Requester
<1>2. /\ m \in Final /\ m \notin Validates /\ m \notin Adds /\ m \notin Removes /\ m \notin Admits
      /\ m \in Gives <=> m = Accept("CONTROL_READY")
      /\ m.command \in {"REQUEST_CONTROL", "CONTROL_READY"}
  <2>1. CASE m = Reject("REQUEST_CONTROL")
    <3>1. m.command = "REQUEST_CONTROL" /\ m.response = "REJECTED"
      BY <2>1 DEF Reject
    <3>2. m # Accept("CONTROL_READY")
      BY <3>1 DEF Accept
    <3> QED
      BY <3>1, <3>2, Kind DEF Final
  <2>2. CASE m = Accept("CONTROL_READY")
    <3>1. m.command = "CONTROL_READY" /\ m.response = "ACCEPTED"
      BY <2>2 DEF Accept
    <3> QED
      BY <2>2, <3>1, Kind DEF Final
  <2> QED
    BY <2>1, <2>2
<1>3. /\ Up(r, Requested)' = {} /\ Up(r, LetGo)' = {} /\ Up(r, Removed)' = {} /\ Asks(r)'
  <2>1. CASE up'[r] = up[r]
    BY <1>1, <2>1 DEF PilotInv, Asks, Answered, Up, Kept
  <2>2. CASE up[r] # <<>> /\ up'[r] = Tail(up[r]) /\ Head(up[r]) \in IsReady
    <3>1. Asks(r)'
      BY <2>2, AsksTaken DEF PilotInv
    <3>2. \A K : Up(r, K)' \subseteq Up(r, K)
      BY <2>2, UpTaken DEF PilotInv
    <3> QED
      BY <1>1, <3>1, <3>2 DEF Answered
  <2> QED
    BY <2>1, <2>2
<1>4. /\ ToSet(down'[r]) = ToSet(down[r]) \cup {m}
      /\ \A K : m \notin K => Down(r, K)' = Down(r, K)
      /\ \A K : m \in K => Down(r, K)' = Down(r, K) \cup {m}
      /\ After(down'[r], Final, Later)
  BY <1>1, DownPut DEF PilotInv
<1>5. /\ Down(r, Final)' = {m} /\ Down(r, Validates)' = {} /\ Down(r, Adds)' = {}
      /\ Down(r, Removes)' = {} /\ Down(r, Admits)' = {}
      /\ Down(r, Gives)' = IF m \in Gives THEN {m} ELSE {}
  BY <1>1, <1>2, <1>4
<1>6. Gets(r)'
  <2>1. m.command \in Waits(state[r])
    BY <1>1, <1>2 DEF Waits
  <2> QED
    BY <1>1, <1>2, <1>3, <1>4, <1>5, <2>1 DEF PilotInv, Gets, Answered, Kept
<1>7. Hands(r)'
  <2>1. Fresh(down'[r], Asking, Final) = {} /\ Fresh(down'[r], Switch, Final) = {}
    BY <1>2, FreshPut
  <2>2. Tokens(r)'
    BY <2>1, NoTokens
  <2>3. handover'.to # r /\ handover'.from # r
    BY NobodyAssumption DEF NoHandover
  <2> QED
    BY <1>1, <1>3, <2>2, <2>3 DEF Hands, Kept
<1>8. Knows(r)'
  BY <1>1, <1>3, <1>5 DEF PilotInv, Knows, Kept
<1>9. Controls(r)'
  <2>1. \A c \in OwnedBy(r) : c \in owned[r]
    BY <1>1 DEF PilotInv, Controls, Accounted
  <2>2. owned'[r] \subseteq OwnedBy(r)' /\ OwnedBy(r)' \subseteq granted'[r]
    BY <1>1 DEF PilotInv, Controls, Kept
  <2>3. m \in Gives => arg'[r] \subseteq OwnedBy(r)'
    <3>1. Reject("REQUEST_CONTROL") # Accept("CONTROL_READY")
      BY DEF Reject, Accept
    <3> QED
      BY <1>1, <1>2, <3>1 DEF Kept
  <2>4. \A c \in OwnedBy(r)' : c \in owned'[r] \/ (m \in Gives /\ c \in arg'[r])
    BY <1>1, <1>2, <2>1 DEF Kept
  <2>5. \A c \in OwnedBy(r)' : Accounted(r, c)'
    BY <1>5, <2>4 DEF Accounted
  <2> QED
    BY <1>5, <2>2, <2>3, <2>5 DEF Controls
<1> QED
  BY <1>3, <1>6, <1>7, <1>8, <1>9 DEF PilotInv

(* The owner of a handover has let go.                                     *)
LEMMA Loses ==
  ASSUME Typed, NEW q \in Pilots, PilotInv(q), up[q] # <<>>, up'[q] = Tail(up[q]),
         Head(up[q]) \in LetGo, Kept(q), linked'[q] = linked[q], down'[q] = down[q],
         granted'[q] = granted[q], removing'[q] = removing[q],
         OwnedBy(q)' = OwnedBy(q) \ handover.ids, handover' = NoHandover
  PROVE  PilotInv(q)'
<1>1. /\ Up(q, Requested)' = Up(q, Requested) /\ Up(q, Removed)' = Up(q, Removed)
      /\ Up(q, LetGo)' = {} /\ Up(q, LetGo) # {}
  BY UpTaken, Kinds DEF PilotInv
<1>2. /\ Down(q, Validates) = {} /\ Down(q, Gives) = {}
  BY <1>1, SaysMore DEF Up
<1>3. \A K : Down(q, K)' = Down(q, K)
  BY DEF Down
<1>4. /\ owned[q] \cap handover.ids = {} /\ state[q] # "ReleasingControl"
      /\ Fresh(down[q], Asking, Final) = {} /\ Fresh(down[q], Switch, Final) = {}
  BY <1>1 DEF PilotInv, Hands
<1>5. Asks(q)'
  BY AsksTaken DEF PilotInv
<1>6. Gets(q)'
  BY <1>1, <1>3 DEF PilotInv, Gets, Answered, Kept
<1>7. Hands(q)'
  <2>1. handover'.to # q /\ handover'.from # q
    BY NobodyAssumption DEF NoHandover
  <2>2. Tokens(q)'
    BY <1>4, NoTokens
  <2> QED
    BY <1>1, <1>4, <2>1, <2>2 DEF Hands, Kept
<1>8. Knows(q)'
  BY <1>1, <1>3 DEF PilotInv, Knows, Kept
<1>9. Controls(q)'
  BY <1>1, <1>2, <1>3, <1>4 DEF PilotInv, Controls, Accounted, Kept
<1> QED
  BY <1>5, <1>6, <1>7, <1>8, <1>9 DEF PilotInv

(* The facade ends the call of a pilot that agrees to leave.               *)
LEMMA Left ==
  ASSUME Typed, NEW p \in Pilots, PilotInv(p), up[p] # <<>>, up'[p] = Tail(up[p]),
         Head(up[p]) \in Bye, Kept(p), linked'[p] = FALSE, down'[p] = down[p],
         granted'[p] = {}, removing'[p] = {}, OwnedBy(p)' = {},
         handover'.to # p, handover'.from # p
  PROVE  PilotInv(p)'
<1>1. up'[p] = <<>> /\ Up(p, Bye) # {}
  BY UpTaken DEF PilotInv
<1>2. state[p] = "Disconnecting" /\ state[p] \notin Connected /\ state[p] \notin Waiting
  BY <1>1 DEF PilotInv, Asks, Connected, Waiting
<1>3. /\ \A K : Up(p, K)' = {}
      /\ \A K, L : After(up'[p], K, L)
  BY <1>1, NoElements DEF Up
<1>4. \A K : Down(p, K)' = Down(p, K)
  BY DEF Down
<1>5. Down(p, Validates) = {} /\ Down(p, Gives) = {} /\ Down(p, Admits) = {}
  <2>1. \A m \in Down(p, Final) : m.command = "REMOVE_CHANNELS"
    BY <1>2 DEF PilotInv, Gets, Waits
  <2> QED
    BY <2>1, Kind, InKind, Kinds DEF Down
<1>6. Asks(p)'
  BY <1>1, <1>2, <1>3 DEF PilotInv, Asks, Answered, Kept
<1>7. Gets(p)'
  BY <1>2, <1>3, <1>4, <1>5 DEF PilotInv, Gets, Answered, Kept
<1>8. Hands(p)'
  BY <1>2, <1>3 DEF Hands, Kept
<1>9. Knows(p)' /\ Controls(p)'
  <2>1. open[p] = {} /\ owned[p] = {} /\ told[p] = {}
    BY <1>2 DEF PilotInv, Knows
  <2>2. Knows(p)'
    BY <1>2, <1>3, <1>4, <1>5, <2>1 DEF Knows, Kept
  <2> QED
    BY <1>2, <1>3, <1>4, <1>5, <2>1, <2>2 DEF Controls, Kept
<1> QED
  BY <1>6, <1>7, <1>8, <1>9 DEF PilotInv

(* What the facade takes up or sends beside the handover.                  *)
LEMMA Unconcerned ==
  ASSUME Typed, NEW p \in Pilots, PilotInv(p), Kept(p), Known(p), linked'[p] = linked[p],
         linked[p] = TRUE,
         \/ up'[p] = up[p]
         \/ /\ up[p] # <<>> /\ up'[p] = Tail(up[p])
            /\ Head(up[p]) \notin Requested \cup LetGo \cup Removed,
         \/ down'[p] = down[p]
         \/ \E m \in Messages : /\ down'[p] = Append(down[p], m)
                                /\ m \in Later /\ m \notin Asking \cup Switch,
         handover' = handover
  PROVE  PilotInv(p)'
<1>1. Asks(p)' /\ Gets(p)' /\ Knows(p)' /\ Controls(p)'
  <2>1. \/ down'[p] = down[p]
        \/ \E m \in Messages : down'[p] = Append(down[p], m) /\ m \in Later
    OBVIOUS
  <2> QED
    BY <2>1, Rest
<1>2. Up(p, Requested)' = Up(p, Requested) /\ Up(p, LetGo)' = Up(p, LetGo)
  <2>1. CASE up'[p] = up[p]
    BY <2>1 DEF Up
  <2>2. CASE /\ up[p] # <<>> /\ up'[p] = Tail(up[p])
             /\ Head(up[p]) \notin Requested \cup LetGo \cup Removed
    <3>1. \A K : Head(up[p]) \notin K => Up(p, K)' = Up(p, K)
      BY <2>2, UpTaken DEF PilotInv
    <3> QED
      BY <2>2, <3>1
  <2> QED
    BY <2>1, <2>2
<1>3. /\ Down(p, Final)' = Down(p, Final)
      /\ Fresh(down'[p], Asking, Final) = Fresh(down[p], Asking, Final)
      /\ Fresh(down'[p], Switch, Final) = Fresh(down[p], Switch, Final)
      /\ \A i \in Fresh(down[p], Asking, Final) : down'[p][i] = down[p][i]
  <2>1. CASE down'[p] = down[p]
    BY <2>1 DEF Down
  <2>2. ASSUME NEW m \in Messages, down'[p] = Append(down[p], m),
               m \in Later, m \notin Asking \cup Switch
        PROVE  /\ Down(p, Final)' = Down(p, Final)
               /\ Fresh(down'[p], Asking, Final) = Fresh(down[p], Asking, Final)
               /\ Fresh(down'[p], Switch, Final) = Fresh(down[p], Switch, Final)
               /\ \A i \in Fresh(down[p], Asking, Final) : down'[p][i] = down[p][i]
    <3>1. m \notin Final
      BY <2>2, Kinds
    <3>2. \A K : m \notin K => Down(p, K)' = Down(p, K)
      BY <2>2, DownPut DEF PilotInv
    <3>3. /\ Fresh(down'[p], Asking, Final) = Fresh(down[p], Asking, Final)
          /\ Fresh(down'[p], Switch, Final) = Fresh(down[p], Switch, Final)
          /\ \A i \in Fresh(down[p], Asking, Final) : down'[p][i] = down[p][i]
      BY <2>2, <3>1, FreshPut
    <3> QED
      BY <3>1, <3>2, <3>3
  <2> QED
    BY <2>1, <2>2
<1>4. Tokens(p)'
  BY <1>3 DEF PilotInv, Hands, Tokens
<1>5. Hands(p)'
  BY <1>2, <1>3, <1>4 DEF PilotInv, Hands, Answered, Kept, Known
<1> QED
  BY <1>1, <1>5 DEF PilotInv

(* The requester, while the handover goes on.                              *)
LEMMA RequesterKeeps ==
  ASSUME Typed, NEW p \in Pilots, PilotInv(p), Kept(p), Known(p), linked'[p] = linked[p],
         \/ up'[p] = up[p]
         \/ up[p] # <<>> /\ up'[p] = Tail(up[p]) /\ Head(up[p]) \in IsReady,
         \/ down'[p] = down[p]
         \/ \E m \in Messages : down'[p] = Append(down[p], m) /\ m \in Agreed,
         handover.to = p, handover'.to = p, handover'.ids = handover.ids,
         handover'.from = handover.from
  PROVE  PilotInv(p)'
<1>1. /\ state[p] = "RequestingControl" /\ handover.ids = arg[p]
      /\ handover.ids \subseteq granted[p] /\ linked[p] = TRUE
      /\ Answered(p) /\ Up(p, LetGo) = {} /\ Down(p, Final) = {} /\ handover.from # p
      /\ Fresh(down[p], Asking, Final) = {} /\ Fresh(down[p], Switch, Final) = {}
  BY Requester
<1>2. Asks(p)' /\ Gets(p)' /\ Knows(p)' /\ Controls(p)'
  <2>1. \/ up'[p] = up[p]
        \/ /\ up[p] # <<>> /\ up'[p] = Tail(up[p])
           /\ Head(up[p]) \notin Requested \cup LetGo \cup Removed
    BY Kinds
  <2>2. \/ down'[p] = down[p]
        \/ \E m \in Messages :
              /\ down'[p] = Append(down[p], m)
              /\ m \in Agreed /\ state[p] = "RequestingControl" /\ Down(p, Final) = {}
    BY <1>1
  <2> QED
    BY <1>1, <2>1, <2>2, Rest
<1>3. Up(p, Requested)' = {} /\ Up(p, LetGo)' = {}
  <2>1. CASE up'[p] = up[p]
    BY <1>1, <2>1 DEF Up, Answered
  <2>2. CASE up[p] # <<>> /\ up'[p] = Tail(up[p]) /\ Head(up[p]) \in IsReady
    <3>1. \A K : Up(p, K)' \subseteq Up(p, K)
      BY <2>2, UpTaken DEF PilotInv
    <3> QED
      BY <1>1, <3>1 DEF Answered
  <2> QED
    BY <2>1, <2>2
<1>4. /\ Down(p, Final)' = {}
      /\ Fresh(down'[p], Asking, Final) = {} /\ Fresh(down'[p], Switch, Final) = {}
  <2>1. CASE down'[p] = down[p]
    BY <1>1, <2>1 DEF Down
  <2>2. ASSUME NEW m \in Messages, down'[p] = Append(down[p], m), m \in Agreed
        PROVE  /\ Down(p, Final)' = {}
               /\ Fresh(down'[p], Asking, Final) = {} /\ Fresh(down'[p], Switch, Final) = {}
    <3>1. m \notin Final /\ m \notin Asking /\ m \notin Switch
      BY <2>2, Kinds
    <3>2. Down(p, Final)' = Down(p, Final)
      <4>1. \A K : m \notin K => Down(p, K)' = Down(p, K)
        BY <1>1, <2>2, DownPut DEF PilotInv
      <4> QED
        BY <3>1, <4>1
    <3>3. /\ Fresh(down'[p], Asking, Final) = Fresh(down[p], Asking, Final)
          /\ Fresh(down'[p], Switch, Final) = Fresh(down[p], Switch, Final)
      BY <2>2, <3>1, FreshPut
    <3> QED
      BY <1>1, <3>2, <3>3
  <2> QED
    BY <2>1, <2>2
<1>5. Tokens(p)'
  BY <1>4, NoTokens
<1>6. Hands(p)'
  BY <1>1, <1>3, <1>4, <1>5 DEF Hands, Answered, Kept, Known
<1> QED
  BY <1>2, <1>6 DEF PilotInv

(* The owner, while the handover goes on; it is told once to let go.       *)
LEMMA OwnerKeeps ==
  ASSUME Typed, NEW p \in Pilots, PilotInv(p), Kept(p), Known(p), linked'[p] = linked[p],
         linked[p] = TRUE,
         \/ up'[p] = up[p]
         \/ /\ up[p] # <<>> /\ up'[p] = Tail(up[p])
            /\ Head(up[p]) \notin Requested \cup LetGo \cup Removed,
         \/ down'[p] = down[p]
         \/ \E m \in Messages : /\ down'[p] = Append(down[p], m) /\ m \in Switch
                                /\ handover'.stage = "switching",
         handover.from = p, handover'.from = p, handover'.ids = handover.ids,
         handover'.to = handover.to, handover.stage # "switching"
  PROVE  PilotInv(p)'
<1>1. /\ handover.to # p /\ handover.ids \cap removing[p] = {} /\ Up(p, LetGo) = {}
      /\ Fresh(down[p], Switch, Final) = {}
      /\ \A i \in Fresh(down[p], Asking, Final) : down[p][i].ids = handover.ids
      /\ AtMostOne(Fresh(down[p], Asking, Final))
      /\ state[p] = "ReleasingControl" =>
           arg[p] = handover.ids /\ Fresh(down[p], Asking, Final) = {}
  BY DEF PilotInv, Hands, Tokens
<1>2. Asks(p)' /\ Gets(p)' /\ Knows(p)' /\ Controls(p)'
  <2>1. \/ down'[p] = down[p]
        \/ \E m \in Messages : down'[p] = Append(down[p], m) /\ m \in Later
    BY Kinds
  <2> QED
    BY <2>1, Rest
<1>3. Up(p, LetGo)' = {}
  <2>1. CASE up'[p] = up[p]
    BY <1>1, <2>1 DEF Up
  <2>2. CASE up[p] # <<>> /\ up'[p] = Tail(up[p])
    <3>1. \A K : Up(p, K)' \subseteq Up(p, K)
      BY <2>2, UpTaken DEF PilotInv
    <3> QED
      BY <1>1, <3>1
  <2> QED
    BY <2>1, <2>2
<1>4. /\ Fresh(down'[p], Asking, Final) = Fresh(down[p], Asking, Final)
      /\ \A i \in Fresh(down[p], Asking, Final) : down'[p][i] = down[p][i]
      /\ AtMostOne(Fresh(down'[p], Switch, Final))
      /\ Fresh(down'[p], Switch, Final) # {} => handover'.stage = "switching"
  <2>1. CASE down'[p] = down[p]
    BY <1>1, <2>1 DEF AtMostOne
  <2>2. ASSUME NEW m \in Messages, down'[p] = Append(down[p], m), m \in Switch,
               handover'.stage = "switching"
        PROVE  /\ Fresh(down'[p], Asking, Final) = Fresh(down[p], Asking, Final)
               /\ \A i \in Fresh(down[p], Asking, Final) : down'[p][i] = down[p][i]
               /\ AtMostOne(Fresh(down'[p], Switch, Final))
    <3>1. m \notin Final /\ m \notin Asking
      BY <2>2, Kinds
    <3>2. /\ Fresh(down'[p], Asking, Final) = Fresh(down[p], Asking, Final)
          /\ \A i \in Fresh(down[p], Asking, Final) : down'[p][i] = down[p][i]
          /\ Fresh(down'[p], Switch, Final) \subseteq
               Fresh(down[p], Switch, Final) \cup {Len(down[p]) + 1}
      BY <2>2, <3>1, FreshPut
    <3>3. AtMostOne(Fresh(down'[p], Switch, Final))
      BY <1>1, <3>2 DEF AtMostOne
    <3> QED
      BY <3>2, <3>3
  <2> QED
    BY <2>1, <2>2
<1>5. Tokens(p)'
  BY <1>1, <1>4 DEF Tokens
<1>6. Hands(p)'
  BY <1>1, <1>3, <1>4, <1>5 DEF Hands, Kept, Known
<1> QED
  BY <1>2, <1>6 DEF PilotInv

(* A handover begins: the requester, and the owner that is asked.          *)
LEMMA BeginsRequester ==
  ASSUME Typed, NEW p \in Pilots, PilotInv(p), up[p] # <<>>, up'[p] = Tail(up[p]),
         Head(up[p]) \in Requested, Head(up[p]).command = "REQUEST_CONTROL",
         Kept(p), Known(p), linked'[p] = linked[p],
         \/ down'[p] = down[p]
         \/ \E m \in Messages : down'[p] = Append(down[p], m) /\ m \in Agreed,
         handover = NoHandover, handover'.to = p, handover'.from # p,
         handover'.ids = Head(up[p]).ids, handover'.ids \subseteq granted[p]
  PROVE  PilotInv(p)'
<1>1. /\ linked[p] = TRUE /\ Head(up[p]).command \in Waits(state[p])
      /\ state[p] # "Disconnecting" => live[p] /\ Head(up[p]).ids = arg[p]
      /\ Up(p, Requested)' = {} /\ Up(p, LetGo)' = {} /\ Up(p, Removed)' = {}
      /\ Up(p, LetGo) = {} /\ Up(p, Removed) = {}
      /\ Down(p, Final) = {} /\ Down(p, Validates) = {} /\ Down(p, Gives) = {}
      /\ Down(p, Adds) = {} /\ Down(p, Removes) = {} /\ Down(p, Admits) = {}
  BY TakenUp
<1>2. state[p] = "RequestingControl" /\ handover'.ids = arg[p] /\ live[p]
  <2>1. state[p] \in States /\ "REQUEST_CONTROL" \in Waits(state[p])
    BY <1>1, QueueTypes
  <2>2. state[p] = "RequestingControl"
    BY <2>1, WaitsFor
  <2> QED
    BY <1>1, <2>2
<1>3. Fresh(down[p], Asking, Final) = {} /\ Fresh(down[p], Switch, Final) = {}
  BY <1>1, NobodyAssumption DEF PilotInv, Hands, Tokens, NoHandover
<1>4. /\ Down(p, Final)' = {}
      /\ ToSet(down'[p]) \subseteq Final \cup Later \cup Agreed
      /\ After(down'[p], Final, Later)
      /\ Fresh(down'[p], Asking, Final) = {} /\ Fresh(down'[p], Switch, Final) = {}
  <2>1. CASE down'[p] = down[p]
    BY <1>1, <1>3, <2>1 DEF Down, PilotInv, Gets
  <2>2. ASSUME NEW m \in Messages, down'[p] = Append(down[p], m), m \in Agreed
        PROVE  /\ Down(p, Final)' = {}
               /\ ToSet(down'[p]) \subseteq Final \cup Later \cup Agreed
               /\ After(down'[p], Final, Later)
               /\ Fresh(down'[p], Asking, Final) = {} /\ Fresh(down'[p], Switch, Final) = {}
    <3>1. m \notin Final /\ m \notin Asking /\ m \notin Switch
      BY <2>2, Kinds
    <3>2. /\ \A K : m \notin K => Down(p, K)' = Down(p, K)
          /\ ToSet(down'[p]) = ToSet(down[p]) \cup {m}
          /\ After(down'[p], Final, Later)
      BY <1>1, <2>2, DownPut DEF PilotInv
    <3>3. Down(p, Final)' = {}
      BY <1>1, <3>1, <3>2
    <3>4. ToSet(down'[p]) \subseteq Final \cup Later \cup Agreed
      BY <2>2, <3>2 DEF PilotInv, Gets
    <3>5. /\ Fresh(down'[p], Asking, Final) = Fresh(down[p], Asking, Final)
          /\ Fresh(down'[p], Switch, Final) = Fresh(down[p], Switch, Final)
      BY <2>2, <3>1, FreshPut
    <3> QED
      BY <1>3, <3>2, <3>3, <3>4, <3>5
  <2> QED
    BY <2>1, <2>2
<1>5. /\ Down(p, Validates)' = {} /\ Down(p, Gives)' = {}
      /\ Down(p, Adds)' = {} /\ Down(p, Removes)' = {} /\ Down(p, Admits)' = {}
  BY <1>4, Kinds DEF Down
<1>6. Asks(p)'
  BY AsksTaken DEF PilotInv
<1>7. Gets(p)'
  BY <1>1, <1>2, <1>4, <1>5 DEF Gets, Answered, Kept
<1>8. Hands(p)'
  <2>1. Tokens(p)'
    BY <1>4, NoTokens
  <2> QED
    BY <1>1, <1>2, <1>4, <2>1 DEF Hands, Answered, Kept, Known
<1>9. Knows(p)'
  BY <1>1, <1>5 DEF PilotInv, Knows, Kept, Known
<1>10. Controls(p)'
  BY <1>1, <1>5 DEF PilotInv, Controls, Accounted, Kept, Known
<1> QED
  BY <1>6, <1>7, <1>8, <1>9, <1>10 DEF PilotInv

(* The owner is asked: it is a party to no other handover.                 *)
LEMMA BeginsOwner ==
  ASSUME Typed, NEW p \in Pilots, PilotInv(p), Kept(p), Known(p), linked'[p] = linked[p],
         linked[p] = TRUE, up'[p] = up[p],
         NEW m \in Messages, m \in Asking, down'[p] = Append(down[p], m),
         handover = NoHandover, handover'.from = p, handover'.to # p, handover'.ids = m.ids,
         handover'.ids \cap removing[p] = {}
  PROVE  PilotInv(p)'
<1>1. /\ Up(p, LetGo) = {} /\ state[p] # "ReleasingControl"
      /\ Fresh(down[p], Asking, Final) = {} /\ Fresh(down[p], Switch, Final) = {}
  BY NobodyAssumption DEF PilotInv, Hands, Tokens, NoHandover
<1>2. Asks(p)' /\ Gets(p)' /\ Knows(p)' /\ Controls(p)'
  <2>1. \E n \in Messages : down'[p] = Append(down[p], n) /\ n \in Later
    BY Kinds
  <2> QED
    BY <1>1, <2>1, Rest
<1>3. /\ Fresh(down'[p], Asking, Final) \subseteq {Len(down[p]) + 1}
      /\ Fresh(down'[p], Switch, Final) = {}
      /\ down'[p][Len(down[p]) + 1] = m
  <2>1. m \notin Final /\ m \notin Switch
    BY Kinds
  <2> QED
    BY <1>1, <2>1, FreshPut
<1>4. Tokens(p)'
  BY <1>3 DEF Tokens, AtMostOne
<1>5. Hands(p)'
  BY <1>1, <1>4 DEF Hands, Up, Kept, Known
<1> QED
  BY <1>2, <1>5 DEF PilotInv

-----------------------------------------------------------------------------
(* The steps of the facade.                                                *)

(* The facade takes up a message and leaves the pilots alone.              *)
LEMMA TakesUp ==
  ASSUME Typed, NEW p \in Pilots, NEW command, NEW response, Take(p, command, response)
  PROVE  /\ up[p] # <<>> /\ up'[p] = Tail(up[p]) /\ linked[p] = TRUE
         /\ Head(up[p]) \in Messages /\ Head(up[p]).ids \subseteq Channels
         /\ Head(up[p]).command = command /\ Head(up[p]).response = response
         /\ \A r \in Pilots : Kept(r) /\ (r # p => up'[r] = up[r])
<1>1. \A r \in Pilots : Kept(r)
  BY DEF Take, facadeLeaves, channels, Kept
<1>2. /\ Head(up[p]).command = command /\ Head(up[p]).response = response /\ linked[p]
  BY DEF Take
<1>3. linked[p] = TRUE
  BY <1>2, QueueTypes
<1> QED
  BY <1>1, <1>2, <1>3, TakeUp

(* It sends to one pilot.                                                  *)
LEMMA SendsDown ==
  ASSUME Typed, NEW p \in Pilots, NEW m \in Messages, SendDown(p, m)
  PROVE  /\ down'[p] = Append(down[p], m)
         /\ \A r \in Pilots : r # p => down'[r] = down[r]
BY PutDown DEF SendDown, Typed, PilotTyped

(* A pilot that an action of the facade does not touch.                    *)
LEMMA Untouched ==
  ASSUME NEW r \in Pilots, Kept(r), Known(r), linked'[r] = linked[r],
         up'[r] = up[r], down'[r] = down[r]
  PROVE  Same(r)
BY DEF Kept, Known, Same

(* Whom a handover is between.                                             *)
LEMMA Parties ==
  ASSUME Typed, Handover
  PROVE  /\ handover.stage # "none" => handover.to \in Pilots
         /\ handover.from # Nobody => handover.from \in Pilots /\ handover.to \in Pilots
         /\ handover.to # Nobody => handover.to \in Pilots
         /\ handover.ids \subseteq Channels
<1>1. /\ handover.to \in Pilots \cup {Nobody} /\ handover.from \in Pilots \cup {Nobody}
      /\ handover.ids \subseteq Channels
  BY DEF Typed, FacadeTypeOK
<1>2. handover.from # Nobody => handover.stage # "none"
  BY DEF Handover, NoHandover
<1> QED
  BY <1>1, <1>2 DEF Handover

(* The owner of a handover is linked.                                      *)
LEMMA OwnerLinked ==
  ASSUME Typed, NEW q \in Pilots, PilotInv(q), NEW c \in Channels, owner[c] = q
  PROVE  linked[q] = TRUE /\ c \in granted[q]
<1>1. c \in granted[q]
  BY DEF OwnedBy, PilotInv, Controls
<1> QED
  BY <1>1, QueueTypes DEF PilotInv, Knows

(* Admission.                                                              *)
LEMMA SetupKeeps ==
  ASSUME IInv, NEW p \in Pilots, AnswerSetup(p)
  PROVE  Handover' /\ \A r \in Pilots : PilotInv(r)'
<1>1. Typed /\ Handover /\ \A r \in Pilots : PilotInv(r)
  BY DEF IInv
<1>2. /\ up[p] # <<>> /\ up'[p] = Tail(up[p]) /\ linked[p] = TRUE
      /\ Head(up[p]) \in Messages /\ Head(up[p]).ids \subseteq Channels
      /\ Head(up[p]).command = "SETUP" /\ Head(up[p]).response = "NONE"
      /\ \A r \in Pilots : Kept(r) /\ (r # p => up'[r] = up[r])
  BY <1>1, TakesUp DEF AnswerSetup
<1>3. /\ handover' = handover /\ owner' = owner /\ \A r \in Pilots : Known(r)
  BY DEF AnswerSetup, facadeVars, Known, OwnedBy
<1>4. Handover'
  BY <1>1, <1>3 DEF Handover, NoHandover
<1>5. Head(up[p]) \in Requested
  BY <1>2, Kind
<1>6. \A r \in Pilots : r # p => linked'[r] = linked[r]
  BY <1>1 DEF AnswerSetup, Typed, PilotTyped
<1>7. PilotInv(p)' /\ \A r \in Pilots : r # p => down'[r] = down[r]
  <2>1. ASSUME NEW C \in SUBSET Channels, SendDown(p, AcceptIds("SETUP", C)), UNCHANGED linked
        PROVE  PilotInv(p)' /\ \A r \in Pilots : r # p => down'[r] = down[r]
    <3> DEFINE m == AcceptIds("SETUP", C)
    <3>1. m \in Messages
      BY <2>1, MessageType DEF Commands
    <3>2. m.command = "SETUP" /\ m.response = "ACCEPTED"
      BY DEF AcceptIds
    <3>3. SendDown(p, m)
      BY <2>1
    <3> HIDE DEF m
    <3>4. m \in Admits
      BY <3>1, <3>2, Kind
    <3>5. down'[p] = Append(down[p], m) /\ \A r \in Pilots : r # p => down'[r] = down[r]
      BY <1>1, <3>1, <3>3, SendsDown
    <3>6. linked'[p] = linked[p]
      BY <2>1
    <3> QED
      BY <1>1, <1>2, <1>3, <1>5, <3>1, <3>2, <3>4, <3>5, <3>6, AnswersOnly
  <2>2. ASSUME SendDown(p, Reject("SETUP")), linked' = [linked EXCEPT ![p] = FALSE]
        PROVE  PilotInv(p)' /\ \A r \in Pilots : r # p => down'[r] = down[r]
    <3> DEFINE m == Reject("SETUP")
    <3>1. m \in Messages
      BY MessageType DEF Commands
    <3>2. m.command = "SETUP" /\ m.response = "REJECTED"
      BY DEF Reject
    <3>3. SendDown(p, m)
      BY <2>2
    <3> HIDE DEF m
    <3>4. m \in Refuses /\ m \notin Admits
      BY <3>1, <3>2, Kind
    <3>5. down'[p] = Append(down[p], m) /\ \A r \in Pilots : r # p => down'[r] = down[r]
      BY <1>1, <3>1, <3>3, SendsDown
    <3>6. linked'[p] = FALSE
      BY <1>1, <2>2 DEF Typed, PilotTyped
    <3>7. state[p] = "Connecting"
      <4>1. Typed /\ PilotInv(p)
        BY <1>1
      <4>2. Head(up[p]).command \in Waits(state[p])
        BY <1>2, <1>5, <4>1, TakenUp
      <4>3. state[p] \in States /\ "SETUP" \in Waits(state[p])
        BY <1>2, <4>1, <4>2, QueueTypes
      <4> QED
        BY <4>3, WaitsFor
    <3> QED
      BY <1>1, <1>2, <1>3, <1>5, <3>1, <3>2, <3>4, <3>5, <3>6, <3>7, AnswersOnly
  <2> QED
    BY <2>1, <2>2 DEF AnswerSetup
<1>8. ASSUME NEW r \in Pilots, r # p PROVE PilotInv(r)'
  BY <1>1, <1>2, <1>3, <1>6, <1>7, <1>8, Untouched, Frame
<1> QED
  BY <1>4, <1>7, <1>8

(* The channels are granted; those nobody controls are given to the        *)
(* pilot.                                                                  *)
LEMMA ReadyKeeps ==
  ASSUME IInv, NEW p \in Pilots, AnswerReady(p)
  PROVE  Handover' /\ \A r \in Pilots : PilotInv(r)'
<1>1. Typed /\ Handover /\ \A r \in Pilots : PilotInv(r)
  BY DEF IInv
<1>2. /\ up[p] # <<>> /\ up'[p] = Tail(up[p]) /\ linked[p] = TRUE
      /\ Head(up[p]) \in Messages /\ Head(up[p]).ids \subseteq Channels
      /\ Head(up[p]).command = "CHANNELS_READY" /\ Head(up[p]).response = "NONE"
      /\ \A r \in Pilots : Kept(r) /\ (r # p => up'[r] = up[r])
  BY <1>1, TakesUp DEF AnswerReady
<1> DEFINE C == Head(up[p]).ids
           new == {c \in C : owner[c] = Nobody /\ c \notin handover.ids}
           m == AcceptIds("CHANNELS_READY", new)
<1>3. /\ granted' = [granted EXCEPT ![p] = @ \cup C]
      /\ owner' = [c \in Channels |-> IF c \in new THEN p ELSE owner[c]]
      /\ SendDown(p, m) /\ UNCHANGED <<linked, removing, handover>>
  BY DEF AnswerReady
<1>4. C \subseteq Channels /\ new \subseteq C /\ new \subseteq Channels
  BY <1>2
<1>5. \A c \in new : owner[c] = Nobody /\ c \notin handover.ids
  OBVIOUS
<1>6. m \in Messages
  BY <1>4, MessageType DEF Commands
<1>7. m.command = "CHANNELS_READY" /\ m.response = "ACCEPTED" /\ m.ids = new
  BY DEF AcceptIds
<1>8. C = Head(up[p]).ids
  OBVIOUS
<1> HIDE DEF m, new, C
<1>9. m \in Validates /\ Head(up[p]) \in Requested
  BY <1>2, <1>6, <1>7, Kind
<1>10. down'[p] = Append(down[p], m) /\ \A r \in Pilots : r # p => down'[r] = down[r]
  BY <1>1, <1>3, <1>6, SendsDown
<1>11. /\ granted'[p] = granted[p] \cup C /\ \A r \in Pilots : r # p => granted'[r] = granted[r]
       /\ removing' = removing /\ linked' = linked /\ handover' = handover
  BY <1>1, <1>3 DEF Typed, FacadeTypeOK
<1>12. \A c \in Channels : owner'[c] = IF c \in new THEN p ELSE owner[c]
  BY <1>3
<1>13. OwnedBy(p)' = OwnedBy(p) \cup new
  BY <1>4, <1>12 DEF OwnedBy
<1>14. \A r \in Pilots : r # p => OwnedBy(r)' = OwnedBy(r)
  BY <1>5, <1>12, NobodyAssumption DEF OwnedBy
<1>15. Handover'
  <2>1. handover.ids \subseteq Channels
    BY <1>1, Parties
  <2>2. \A c \in handover.ids : owner'[c] = owner[c]
    BY <1>5, <1>12, <2>1
  <2> QED
    BY <1>1, <1>11, <2>2 DEF Handover, NoHandover
<1>16. PilotInv(p)'
  <2>1. /\ Kept(p) /\ linked'[p] = linked[p] /\ removing'[p] = removing[p]
        /\ granted'[p] = granted[p] \cup Head(up[p]).ids /\ new \in SUBSET Head(up[p]).ids
    BY <1>2, <1>4, <1>8, <1>11
  <2> QED
    BY <1>1, <1>2, <1>6, <1>7, <1>9, <1>10, <1>11, <1>13, <2>1, AnswersReady
<1>17. ASSUME NEW r \in Pilots, r # p PROVE PilotInv(r)'
  <2>1. Same(r)
    BY <1>2, <1>10, <1>11, <1>14, <1>17, Untouched DEF Known
  <2> QED
    BY <1>1, <1>11, <2>1, Frame
<1> QED
  BY <1>15, <1>16, <1>17

(* The facade asks a pilot to leave.                                       *)
LEMMA AskKeeps ==
  ASSUME IInv, NEW p \in Pilots, AskRelease(p)
  PROVE  Handover' /\ \A r \in Pilots : PilotInv(r)'
<1>1. Typed /\ Handover /\ \A r \in Pilots : PilotInv(r)
  BY DEF IInv
<1> DEFINE m == Plain("RELEASE")
<1>2. /\ linked' = linked /\ up' = up /\ handover' = handover /\ owner' = owner
      /\ \A r \in Pilots : Kept(r) /\ Known(r)
      /\ SendDown(p, m) /\ linked[p]
  BY DEF AskRelease, facadeLeaves, channels, Kept, Known, OwnedBy
<1>3. m \in Messages
  BY MessageType DEF Commands
<1>4. m.command = "RELEASE" /\ m.response = "NONE"
  BY DEF Plain
<1> HIDE DEF m
<1>5. m \in Later /\ m \notin Asking \cup Switch
  BY <1>3, <1>4, Kind DEF Later, Of
<1>6. down'[p] = Append(down[p], m) /\ \A r \in Pilots : r # p => down'[r] = down[r]
  BY <1>1, <1>2, <1>3, SendsDown
<1>7. Handover'
  BY <1>1, <1>2 DEF Handover, NoHandover
<1>8. PilotInv(p)'
  <2>1. linked[p] = TRUE
    BY <1>1, <1>2, QueueTypes
  <2>2. \E n \in Messages : /\ down'[p] = Append(down[p], n)
                            /\ n \in Later /\ n \notin Asking \cup Switch
    BY <1>3, <1>5, <1>6
  <2>3. /\ up'[p] = up[p] /\ linked'[p] = linked[p] /\ handover' = handover
        /\ Kept(p) /\ Known(p)
    BY <1>2
  <2> QED
    BY <1>1, <2>1, <2>2, <2>3, Unconcerned
<1>9. ASSUME NEW r \in Pilots, r # p PROVE PilotInv(r)'
  BY <1>1, <1>2, <1>6, <1>9, Untouched, Frame
<1> QED
  BY <1>7, <1>8, <1>9

(* The requester of a handover of channels that are given up is refused.   *)
LEMMA RefusesRequester ==
  ASSUME Typed, Handover, NEW p \in Pilots, NEW C,
         NEW sent \in [Pilots -> Seq(Messages)], Refuse(p, C, sent)
  PROVE  /\ Losing(p, C) => /\ handover.to \in Pilots
                            /\ down'[handover.to] = Append(sent[handover.to],
                                                           Reject("REQUEST_CONTROL"))
                            /\ \A r \in Pilots : r # handover.to => down'[r] = sent[r]
         /\ ~Losing(p, C) => down' = sent
<1>1. Losing(p, C) => handover.to \in Pilots /\ handover.to # Nobody
  BY Parties, NobodyAssumption DEF Losing
<1>2. Reject("REQUEST_CONTROL") \in Messages
  BY MessageType DEF Commands
<1> QED
  BY <1>1, <1>2, PutDown DEF Refuse

(* A pilot leaves; it cannot be the requester of a handover, but may be    *)
(* the owner.                                                              *)
LEMMA EndKeeps ==
  ASSUME IInv, NEW p \in Pilots, EndCall(p)
  PROVE  Handover' /\ \A r \in Pilots : PilotInv(r)'
<1>1. Typed /\ Handover /\ \A r \in Pilots : PilotInv(r)
  BY DEF IInv
<1>2. /\ up[p] # <<>> /\ up'[p] = Tail(up[p]) /\ linked[p] = TRUE
      /\ Head(up[p]) \in Messages /\ Head(up[p]).ids \subseteq Channels
      /\ Head(up[p]).command = "RELEASE" /\ Head(up[p]).response = "ACCEPTED"
      /\ \A r \in Pilots : Kept(r) /\ (r # p => up'[r] = up[r])
  BY <1>1, TakesUp DEF EndCall
<1>3. Head(up[p]) \in Bye
  BY <1>2, Kind
<1>4. handover.to # p
  <2>1. state[p] = "Disconnecting"
    BY <1>1, <1>2, <1>3, UpTaken DEF PilotInv, Asks
  <2> QED
    BY <1>1, <2>1 DEF PilotInv, Hands
<1>5. /\ linked' = [linked EXCEPT ![p] = FALSE]
      /\ granted' = [granted EXCEPT ![p] = {}]
      /\ removing' = [removing EXCEPT ![p] = {}]
      /\ owner' = [c \in Channels |-> IF owner[c] = p THEN Nobody ELSE owner[c]]
      /\ Refuse(p, Channels, down)
      /\ handover' = IF handover.from = p THEN NoHandover ELSE handover
  BY <1>4 DEF EndCall
<1>6. /\ linked'[p] = FALSE /\ granted'[p] = {} /\ removing'[p] = {}
      /\ \A r \in Pilots : r # p => /\ linked'[r] = linked[r] /\ granted'[r] = granted[r]
                                    /\ removing'[r] = removing[r]
  BY <1>1, <1>5 DEF Typed, PilotTyped, FacadeTypeOK
<1>7. OwnedBy(p)' = {} /\ \A r \in Pilots : r # p => OwnedBy(r)' = OwnedBy(r)
  BY <1>5, NobodyAssumption DEF OwnedBy
<1>8. down \in [Pilots -> Seq(Messages)]
  BY <1>1 DEF Typed, PilotTyped
<1>9. Losing(p, Channels) <=> handover.from = p
  BY <1>1, Parties, NobodyAssumption DEF Losing, Handover
<1>10. /\ handover.from = p => /\ handover.to \in Pilots
                               /\ down'[handover.to] = Append(down[handover.to],
                                                              Reject("REQUEST_CONTROL"))
                               /\ \A r \in Pilots : r # handover.to => down'[r] = down[r]
       /\ handover.from # p => down' = down
  BY <1>1, <1>5, <1>8, <1>9, RefusesRequester
<1>11. Handover'
  <2>1. CASE handover.from = p
    BY <1>5, <2>1 DEF Handover, NoHandover
  <2>2. CASE handover.from # p
    <3>1. \A c \in handover.ids : owner'[c] = owner[c]
      BY <1>1, <1>5, <2>2, Parties DEF Handover
    <3> QED
      BY <1>1, <1>5, <2>2, <3>1 DEF Handover, NoHandover
  <2> QED
    BY <2>1, <2>2
<1>12. handover'.to # p /\ handover'.from # p
  BY <1>4, <1>5, NobodyAssumption DEF NoHandover
<1>13. PilotInv(p)'
  <2>1. down'[p] = down[p]
    BY <1>4, <1>10
  <2> QED
    BY <1>1, <1>2, <1>3, <1>6, <1>7, <1>12, <2>1, Left
<1>14. ASSUME NEW r \in Pilots, r # p PROVE PilotInv(r)'
  <2>1. Kept(r) /\ Known(r) /\ up'[r] = up[r] /\ linked'[r] = linked[r]
    BY <1>2, <1>6, <1>7, <1>14 DEF Known
  <2>2. CASE handover.from # p
    <3>1. Same(r) /\ handover' = handover
      BY <1>5, <1>10, <2>1, <2>2, Untouched
    <3> QED
      BY <1>1, <3>1, Frame
  <2>3. CASE handover.from = p /\ handover.to # r
    <3>1. Same(r)
      BY <1>10, <2>1, <2>3, Untouched
    <3>2. handover'.to # r /\ handover'.from # r /\ handover.from # r
      BY <1>5, <1>14, <2>3, NobodyAssumption DEF NoHandover
    <3> QED
      BY <1>1, <2>3, <3>1, <3>2, Bystander
  <2>4. CASE handover.from = p /\ handover.to = r
    <3> DEFINE m == Reject("REQUEST_CONTROL")
    <3>1. m \in Messages
      BY MessageType DEF Commands
    <3>2. down'[r] = Append(down[r], m)
      BY <1>10, <2>4
    <3>3. m = Reject("REQUEST_CONTROL")
      OBVIOUS
    <3> HIDE DEF m
    <3>4. /\ handover' = NoHandover /\ granted'[r] = granted[r] /\ removing'[r] = removing[r]
          /\ OwnedBy(r)' = OwnedBy(r)
      BY <1>5, <2>1, <2>4 DEF Known
    <3> QED
      BY <1>1, <2>1, <2>4, <3>1, <3>2, <3>3, <3>4, EndOfHandover
  <2> QED
    BY <2>2, <2>3, <2>4
<1> QED
  BY <1>11, <1>13, <1>14

(* Channels.                                                               *)
LEMMA AddKeeps ==
  ASSUME IInv, NEW p \in Pilots, AnswerAdd(p)
  PROVE  Handover' /\ \A r \in Pilots : PilotInv(r)'
<1>1. Typed /\ Handover /\ \A r \in Pilots : PilotInv(r)
  BY DEF IInv
<1>2. /\ up[p] # <<>> /\ up'[p] = Tail(up[p]) /\ linked[p] = TRUE
      /\ Head(up[p]) \in Messages /\ Head(up[p]).ids \subseteq Channels
      /\ Head(up[p]).command = "ADD_CHANNELS" /\ Head(up[p]).response = "NONE"
      /\ \A r \in Pilots : Kept(r) /\ (r # p => up'[r] = up[r])
  BY <1>1, TakesUp DEF AnswerAdd
<1>3. /\ handover' = handover /\ owner' = owner /\ linked' = linked
      /\ \A r \in Pilots : Known(r)
  BY DEF AnswerAdd, facadeVars, Known, OwnedBy
<1>4. Handover'
  BY <1>1, <1>3 DEF Handover, NoHandover
<1>5. Head(up[p]) \in Requested
  BY <1>2, Kind
<1>6. PICK m \in Messages : /\ m.command = "ADD_CHANNELS" /\ SendDown(p, m)
                            /\ \/ m \in Refuses
                               \/ m \in Adds /\ m.ids \subseteq Head(up[p]).ids \ granted[p]
  <2>1. CASE SendDown(p, Reject("ADD_CHANNELS"))
    <3>1. /\ Reject("ADD_CHANNELS") \in Messages
          /\ Reject("ADD_CHANNELS").command = "ADD_CHANNELS"
          /\ Reject("ADD_CHANNELS").response = "REJECTED"
      BY MessageType DEF Commands, Reject
    <3> QED
      BY <2>1, <3>1, Kind
  <2>2. ASSUME NEW C \in SUBSET (Head(up[p]).ids \ granted[p]),
               SendDown(p, AcceptIds("ADD_CHANNELS", C))
        PROVE  \E m \in Messages : /\ m.command = "ADD_CHANNELS" /\ SendDown(p, m)
                                   /\ m \in Adds /\ m.ids \subseteq Head(up[p]).ids \ granted[p]
    <3> DEFINE m == AcceptIds("ADD_CHANNELS", C)
    <3>1. m \in Messages
      BY <1>2, <2>2, MessageType DEF Commands
    <3>2. m.command = "ADD_CHANNELS" /\ m.response = "ACCEPTED" /\ m.ids = C
      BY DEF AcceptIds
    <3>3. SendDown(p, m)
      BY <2>2
    <3> HIDE DEF m
    <3>4. m \in Adds
      BY <3>1, <3>2, Kind
    <3> QED
      BY <3>1, <3>2, <3>3, <3>4
  <2> QED
    BY <2>1, <2>2 DEF AnswerAdd
<1>7. down'[p] = Append(down[p], m) /\ \A r \in Pilots : r # p => down'[r] = down[r]
  BY <1>1, <1>6, SendsDown
<1>8. PilotInv(p)'
  BY <1>1, <1>2, <1>3, <1>5, <1>6, <1>7, AnswersOnly
<1>9. ASSUME NEW r \in Pilots, r # p PROVE PilotInv(r)'
  BY <1>1, <1>2, <1>3, <1>7, <1>9, Untouched, Frame
<1> QED
  BY <1>4, <1>8, <1>9

(* Channels are removed, and with them a handover of one of them ends.     *)
LEMMA RemoveKeeps ==
  ASSUME IInv, NEW p \in Pilots, AnswerRemove(p)
  PROVE  Handover' /\ \A r \in Pilots : PilotInv(r)'
<1>1. Typed /\ Handover /\ \A r \in Pilots : PilotInv(r)
  BY DEF IInv
<1>2. /\ up[p] # <<>> /\ up'[p] = Tail(up[p]) /\ linked[p] = TRUE
      /\ Head(up[p]) \in Messages /\ Head(up[p]).ids \subseteq Channels
      /\ Head(up[p]).command = "REMOVE_CHANNELS" /\ Head(up[p]).response = "NONE"
      /\ \A r \in Pilots : Kept(r) /\ (r # p => up'[r] = up[r])
  BY <1>1, TakesUp DEF AnswerRemove
<1>3. /\ owner' = owner /\ linked' = linked /\ granted' = granted
      /\ \A r \in Pilots : OwnedBy(r)' = OwnedBy(r)
  BY DEF AnswerRemove, OwnedBy
<1>4. Head(up[p]) \in Requested
  BY <1>2, Kind
<1>5. CASE SendDown(p, Reject("REMOVE_CHANNELS")) /\ UNCHANGED <<removing, handover>>
  <2> DEFINE m == Reject("REMOVE_CHANNELS")
  <2>1. m \in Messages
    BY MessageType DEF Commands
  <2>2. m.command = "REMOVE_CHANNELS" /\ m.response = "REJECTED"
    BY DEF Reject
  <2>3. SendDown(p, m)
    BY <1>5
  <2> HIDE DEF m
  <2>4. m \in Refuses
    BY <2>1, <2>2, Kind
  <2>5. down'[p] = Append(down[p], m) /\ \A r \in Pilots : r # p => down'[r] = down[r]
    BY <1>1, <2>1, <2>3, SendsDown
  <2>6. handover' = handover /\ \A r \in Pilots : Known(r)
    BY <1>3, <1>5 DEF Known
  <2>7. Handover'
    BY <1>1, <1>3, <2>6 DEF Handover, NoHandover
  <2>8. PilotInv(p)'
    BY <1>1, <1>2, <1>3, <1>4, <2>1, <2>2, <2>4, <2>5, <2>6, AnswersOnly
  <2>9. ASSUME NEW r \in Pilots, r # p PROVE PilotInv(r)'
    BY <1>1, <1>2, <1>3, <2>5, <2>6, <2>9, Untouched, Frame
  <2> QED
    BY <2>7, <2>8, <2>9
<1> DEFINE C == Head(up[p]).ids
<1>6. ASSUME C \subseteq granted[p], removing' = [removing EXCEPT ![p] = C],
             Refuse(p, C, [down EXCEPT ![p] = Append(@, Accept("REMOVE_CHANNELS"))]),
             handover' = IF Losing(p, C) THEN NoHandover ELSE handover
      PROVE  Handover' /\ \A r \in Pilots : PilotInv(r)'
  <2> DEFINE m == Accept("REMOVE_CHANNELS")
             sent == [down EXCEPT ![p] = Append(@, m)]
  <2>1. m \in Messages
    BY MessageType DEF Commands
  <2>2. m.command = "REMOVE_CHANNELS" /\ m.response = "ACCEPTED"
    BY DEF Accept
  <2>3. Refuse(p, C, sent)
    BY <1>6
  <2>4. C = Head(up[p]).ids
    OBVIOUS
  <2> HIDE DEF m, C
  <2>5. /\ sent \in [Pilots -> Seq(Messages)] /\ sent[p] = Append(down[p], m)
        /\ \A r \in Pilots : r # p => sent[r] = down[r]
    BY <1>1, <2>1, PutDown DEF Typed, PilotTyped
  <2> HIDE DEF sent
  <2>6. m \in Removes
    BY <2>1, <2>2, Kind
  <2>7. /\ Losing(p, C) => /\ handover.to \in Pilots
                           /\ down'[handover.to] = Append(sent[handover.to],
                                                          Reject("REQUEST_CONTROL"))
                           /\ \A r \in Pilots : r # handover.to => down'[r] = sent[r]
        /\ ~Losing(p, C) => down' = sent
    BY <1>1, <2>3, <2>5, RefusesRequester
  <2>8. handover.to # p
    BY <1>1, <1>2, <1>4, TakenUp
  <2>9. down'[p] = Append(down[p], m)
    BY <2>5, <2>7, <2>8
  <2>10. removing'[p] = C /\ \A r \in Pilots : r # p => removing'[r] = removing[r]
    BY <1>1, <1>6 DEF Typed, FacadeTypeOK
  <2>11. Handover'
    <3>1. CASE Losing(p, C)
      BY <1>6, <3>1 DEF Handover, NoHandover
    <3>2. CASE ~Losing(p, C)
      BY <1>1, <1>3, <1>6, <3>2 DEF Handover, NoHandover
    <3> QED
      BY <3>1, <3>2
  <2>12. handover'.to # p /\ (handover'.from = p => handover'.ids \cap removing'[p] = {})
    BY <1>6, <2>8, <2>10, NobodyAssumption DEF Losing, NoHandover
  <2>13. PilotInv(p)'
    <3>1. /\ Kept(p) /\ linked'[p] = linked[p] /\ granted'[p] = granted[p]
          /\ OwnedBy(p)' = OwnedBy(p) /\ removing'[p] = Head(up[p]).ids
          /\ Head(up[p]).ids \subseteq granted[p]
      BY <1>2, <1>3, <1>6, <2>4, <2>10
    <3> QED
      BY <1>1, <1>2, <1>4, <2>1, <2>6, <2>9, <2>12, <3>1, AnswersRemove
  <2>14. ASSUME NEW r \in Pilots, r # p PROVE PilotInv(r)'
    <3>1. Kept(r) /\ Known(r) /\ up'[r] = up[r] /\ linked'[r] = linked[r] /\ sent[r] = down[r]
      BY <1>2, <1>3, <2>5, <2>10, <2>14 DEF Known
    <3>2. CASE ~Losing(p, C)
      <4>1. Same(r) /\ handover' = handover
        BY <1>6, <2>7, <3>1, <3>2, Untouched
      <4> QED
        BY <1>1, <4>1, Frame
    <3>3. CASE Losing(p, C) /\ handover.to # r
      <4>1. Same(r)
        BY <2>7, <3>1, <3>3, Untouched
      <4>2. handover'.to # r /\ handover'.from # r /\ handover.from # r
        BY <1>6, <2>14, <3>3, NobodyAssumption DEF NoHandover, Losing
      <4> QED
        BY <1>1, <3>3, <4>1, <4>2, Bystander
    <3>4. CASE Losing(p, C) /\ handover.to = r
      <4> DEFINE n == Reject("REQUEST_CONTROL")
      <4>1. n \in Messages
        BY MessageType DEF Commands
      <4>2. down'[r] = Append(down[r], n)
        BY <2>7, <3>1, <3>4
      <4>3. n = Reject("REQUEST_CONTROL")
        OBVIOUS
      <4> HIDE DEF n
      <4>4. /\ handover' = NoHandover /\ granted'[r] = granted[r] /\ removing'[r] = removing[r]
            /\ OwnedBy(r)' = OwnedBy(r)
        BY <1>6, <3>1, <3>4 DEF Known
      <4> QED
        BY <1>1, <3>1, <3>4, <4>1, <4>2, <4>3, <4>4, EndOfHandover
    <3> QED
      BY <3>2, <3>3, <3>4
  <2> QED
    BY <2>11, <2>13, <2>14
<1> QED
  BY <1>5, <1>6 DEF AnswerRemove

(* The pilot has removed them.                                             *)
LEMMA ConfirmKeeps ==
  ASSUME IInv, NEW p \in Pilots, ConfirmRemove(p)
  PROVE  Handover' /\ \A r \in Pilots : PilotInv(r)'
<1>1. Typed /\ Handover /\ \A r \in Pilots : PilotInv(r)
  BY DEF IInv
<1>2. /\ up[p] # <<>> /\ up'[p] = Tail(up[p]) /\ linked[p] = TRUE
      /\ Head(up[p]) \in Messages
      /\ Head(up[p]).command = "REMOVE_CHANNELS" /\ Head(up[p]).response = "ACCEPTED"
      /\ \A r \in Pilots : Kept(r) /\ (r # p => up'[r] = up[r])
  BY <1>1, TakesUp DEF ConfirmRemove
<1>3. /\ granted' = [granted EXCEPT ![p] = @ \ removing[p]]
      /\ owner' = [c \in Channels |-> IF c \in removing[p] /\ owner[c] = p
                                     THEN Nobody ELSE owner[c]]
      /\ removing' = [removing EXCEPT ![p] = {}]
      /\ linked' = linked /\ down' = down /\ handover' = handover
  BY DEF ConfirmRemove
<1>4. /\ granted'[p] = granted[p] \ removing[p] /\ removing'[p] = {}
      /\ \A r \in Pilots : r # p => granted'[r] = granted[r] /\ removing'[r] = removing[r]
  BY <1>1, <1>3 DEF Typed, FacadeTypeOK
<1>5. /\ OwnedBy(p)' = OwnedBy(p) \ removing[p]
      /\ \A r \in Pilots : r # p => OwnedBy(r)' = OwnedBy(r)
  BY <1>3, NobodyAssumption DEF OwnedBy
<1>6. Head(up[p]) \in Removed
  BY <1>2, Kind
<1>7. Handover'
  <2>1. handover.from = p => handover.ids \cap removing[p] = {}
    BY <1>1 DEF PilotInv, Hands
  <2>2. handover.ids \subseteq Channels
    BY <1>1, Parties
  <2>3. \A c \in handover.ids : owner'[c] = owner[c]
    BY <1>1, <1>3, <2>1, <2>2 DEF Handover
  <2> QED
    BY <1>1, <1>3, <2>3 DEF Handover, NoHandover
<1>8. PilotInv(p)'
  BY <1>1, <1>2, <1>3, <1>4, <1>5, <1>6, Confirms
<1>9. ASSUME NEW r \in Pilots, r # p PROVE PilotInv(r)'
  <2>1. Same(r)
    BY <1>2, <1>3, <1>4, <1>5, <1>9, Untouched DEF Known
  <2> QED
    BY <1>1, <1>3, <2>1, Frame
<1> QED
  BY <1>7, <1>8, <1>9

(* Handover.                                                               *)
LEMMA RequestKeeps ==
  ASSUME IInv, NEW p \in Pilots, AnswerRequest(p)
  PROVE  Handover' /\ \A r \in Pilots : PilotInv(r)'
<1>1. Typed /\ Handover /\ \A r \in Pilots : PilotInv(r)
  BY DEF IInv
<1>2. /\ up[p] # <<>> /\ up'[p] = Tail(up[p]) /\ linked[p] = TRUE
      /\ Head(up[p]) \in Messages /\ Head(up[p]).ids \subseteq Channels
      /\ Head(up[p]).command = "REQUEST_CONTROL" /\ Head(up[p]).response = "NONE"
      /\ \A r \in Pilots : Kept(r) /\ (r # p => up'[r] = up[r])
  BY <1>1, TakesUp DEF AnswerRequest
<1>3. /\ owner' = owner /\ linked' = linked /\ \A r \in Pilots : Known(r)
  BY DEF AnswerRequest, Known, OwnedBy
<1>4. Head(up[p]) \in Requested
  BY <1>2, Kind
<1>5. CASE SendDown(p, Reject("REQUEST_CONTROL")) /\ UNCHANGED handover
  <2> DEFINE m == Reject("REQUEST_CONTROL")
  <2>1. m \in Messages
    BY MessageType DEF Commands
  <2>2. m.command = "REQUEST_CONTROL" /\ m.response = "REJECTED"
    BY DEF Reject
  <2>3. SendDown(p, m)
    BY <1>5
  <2> HIDE DEF m
  <2>4. m \in Refuses
    BY <2>1, <2>2, Kind
  <2>5. down'[p] = Append(down[p], m) /\ \A r \in Pilots : r # p => down'[r] = down[r]
    BY <1>1, <2>1, <2>3, SendsDown
  <2>6. handover' = handover
    BY <1>5
  <2>7. Handover'
    BY <1>1, <1>3, <2>6 DEF Handover, NoHandover
  <2>8. PilotInv(p)'
    BY <1>1, <1>2, <1>3, <1>4, <2>1, <2>2, <2>4, <2>5, <2>6, AnswersOnly
  <2>9. ASSUME NEW r \in Pilots, r # p PROVE PilotInv(r)'
    BY <1>1, <1>2, <1>3, <2>5, <2>6, <2>9, Untouched, Frame
  <2> QED
    BY <2>7, <2>8, <2>9
<1> DEFINE C == Head(up[p]).ids
<1>6. ASSUME NEW c \in C, handover = NoHandover, c \in granted[p], owner[c] # p,
             owner[c] # Nobody => c \notin removing[owner[c]],
             handover' = [stage |-> IF owner[c] = Nobody THEN "agreed" ELSE "asked",
                          to |-> p, from |-> owner[c], ids |-> C],
             IF owner[c] = Nobody THEN SendDown(p, Accept("REQUEST_CONTROL"))
             ELSE SendDown(owner[c], Indicate("RELEASE_CONTROL", C))
      PROVE  Handover' /\ \A r \in Pilots : PilotInv(r)'
  <2>1. C = {c} /\ c \in Channels
    <3>1. /\ Head(up[p]).command \in Waits(state[p]) /\ state[p] \in States
          /\ state[p] # "Disconnecting" => Head(up[p]).ids = arg[p]
      BY <1>1, <1>2, <1>4, TakenUp, QueueTypes
    <3>2. state[p] = "RequestingControl"
      BY <1>2, <3>1, WaitsFor
    <3>3. \E d \in Channels : arg[p] = {d}
      BY <1>1, <3>2 DEF PilotInv, Asks
    <3> QED
      BY <1>6, <3>1, <3>2, <3>3
  <2>2. /\ handover'.stage \in {"agreed", "asked"} /\ handover'.to = p
        /\ handover'.from = owner[c] /\ handover'.ids = C
    BY <1>6
  <2>3. C = Head(up[p]).ids
    OBVIOUS
  <2> HIDE DEF C
  <2>4. owner[c] \in Pilots \cup {Nobody}
    BY <1>1, <2>1 DEF Typed, FacadeTypeOK
  <2>5. Handover'
    BY <1>3, <2>1, <2>2, NobodyAssumption DEF Handover
  <2>6. \A r \in Pilots : handover.to # r /\ handover.from # r
    BY <1>6, NobodyAssumption DEF NoHandover
  <2>7. CASE owner[c] = Nobody
    <3> DEFINE m == Accept("REQUEST_CONTROL")
    <3>1. m \in Messages
      BY MessageType DEF Commands
    <3>2. m.command = "REQUEST_CONTROL" /\ m.response = "ACCEPTED"
      BY DEF Accept
    <3>3. SendDown(p, m)
      BY <1>6, <2>7
    <3> HIDE DEF m
    <3>4. m \in Agreed
      BY <3>1, <3>2, Kind
    <3>5. down'[p] = Append(down[p], m) /\ \A r \in Pilots : r # p => down'[r] = down[r]
      BY <1>1, <3>1, <3>3, SendsDown
    <3>6. PilotInv(p)'
      <4>1. \E n \in Messages : down'[p] = Append(down[p], n) /\ n \in Agreed
        BY <3>1, <3>4, <3>5
      <4>2. /\ handover'.from # p /\ handover'.ids = Head(up[p]).ids
            /\ handover'.ids \subseteq granted[p] /\ linked'[p] = linked[p]
        BY <1>3, <1>6, <2>1, <2>2, <2>3
      <4> QED
        BY <1>1, <1>2, <1>3, <1>4, <1>6, <2>2, <4>1, <4>2, BeginsRequester
    <3>7. ASSUME NEW r \in Pilots, r # p PROVE PilotInv(r)'
      <4>1. Same(r)
        BY <1>2, <1>3, <3>5, <3>7, Untouched
      <4>2. handover'.to # r /\ handover'.from # r
        BY <2>2, <2>7, <3>7, NobodyAssumption
      <4> QED
        BY <1>1, <2>6, <4>1, <4>2, Bystander
    <3> QED
      BY <2>5, <3>6, <3>7
  <2>8. CASE owner[c] # Nobody
    <3> DEFINE m == Indicate("RELEASE_CONTROL", C)
    <3>0. PICK q \in Pilots : q = owner[c]
      BY <2>4, <2>8
    <3>1. m \in Messages
      BY <2>1, MessageType DEF Commands
    <3>2. m.command = "RELEASE_CONTROL" /\ m.response = "NONE" /\ m.ids = C
      BY DEF Indicate
    <3>3. q # p /\ c \notin removing[q] /\ SendDown(q, m) /\ owner[c] = q
      BY <1>6, <2>8, <3>0
    <3>4. handover'.from = q
      BY <2>2, <3>0
    <3> HIDE DEF m
    <3>5. m \in Asking
      BY <3>1, <3>2, Kind
    <3>6. down'[q] = Append(down[q], m) /\ \A r \in Pilots : r # q => down'[r] = down[r]
      BY <1>1, <3>1, <3>3, SendsDown
    <3>7. PilotInv(q)'
      <4>1. linked[q] = TRUE
        BY <1>1, <2>1, <3>3, OwnerLinked
      <4>2. /\ handover'.to # q /\ handover'.ids = m.ids /\ handover'.ids \cap removing[q] = {}
            /\ up'[q] = up[q] /\ linked'[q] = linked[q]
        BY <1>2, <1>3, <2>1, <2>2, <3>2, <3>3
      <4> QED
        BY <1>1, <1>2, <1>3, <1>6, <3>1, <3>3, <3>4, <3>5, <3>6, <4>1, <4>2, BeginsOwner
    <3>8. PilotInv(p)'
      <4>1. /\ handover'.from # p /\ handover'.ids = Head(up[p]).ids /\ down'[p] = down[p]
            /\ handover'.ids \subseteq granted[p] /\ linked'[p] = linked[p]
        BY <1>3, <1>6, <2>1, <2>2, <2>3, <3>3, <3>6
      <4> QED
        BY <1>1, <1>2, <1>3, <1>4, <1>6, <2>2, <4>1, BeginsRequester
    <3>9. ASSUME NEW r \in Pilots, r # p, r # q PROVE PilotInv(r)'
      <4>1. Same(r)
        BY <1>2, <1>3, <3>6, <3>9, Untouched
      <4>2. handover'.to # r /\ handover'.from # r
        BY <2>2, <3>4, <3>9
      <4> QED
        BY <1>1, <2>6, <4>1, <4>2, Bystander
    <3> QED
      BY <2>5, <3>7, <3>8, <3>9
  <2> QED
    BY <2>7, <2>8
<1> QED
  BY <1>5, <1>6 DEF AnswerRequest

(* The owner agrees, and the requester is told.                            *)
LEMMA AgreedKeeps ==
  ASSUME IInv, NEW q \in Pilots, OwnerAgreed(q)
  PROVE  Handover' /\ \A r \in Pilots : PilotInv(r)'
<1>1. Typed /\ Handover /\ \A r \in Pilots : PilotInv(r)
  BY DEF IInv
<1>2. /\ up[q] # <<>> /\ up'[q] = Tail(up[q]) /\ linked[q] = TRUE
      /\ Head(up[q]) \in Messages
      /\ Head(up[q]).command = "RELEASE_CONTROL" /\ Head(up[q]).response = "ACCEPTED"
      /\ \A r \in Pilots : Kept(r) /\ (r # q => up'[r] = up[r])
  BY <1>1, TakesUp DEF OwnerAgreed
<1>3. /\ owner' = owner /\ linked' = linked /\ \A r \in Pilots : Known(r)
  BY DEF OwnerAgreed, Known, OwnedBy
<1>4. Head(up[q]) \notin Requested \cup LetGo \cup Removed
  BY <1>2, Kind
<1>5. CASE handover.stage = "asked" /\ handover.from = q
  <2> DEFINE m == Accept("REQUEST_CONTROL")
  <2>0. PICK t \in Pilots : t = handover.to
    BY <1>1, <1>5, Parties
  <2>1. m \in Messages
    BY MessageType DEF Commands
  <2>2. m.command = "REQUEST_CONTROL" /\ m.response = "ACCEPTED"
    BY DEF Accept
  <2>3. t # Nobody /\ t # q
    BY <1>1, <1>5, <2>0, NobodyAssumption DEF PilotInv, Hands
  <2>4. handover' = [handover EXCEPT !.stage = "agreed"] /\ SendDown(t, m)
    BY <1>5, <2>0, <2>3 DEF OwnerAgreed
  <2>5. /\ handover'.stage = "agreed" /\ handover'.to = handover.to
        /\ handover'.from = handover.from /\ handover'.ids = handover.ids
    BY <1>1, <2>4 DEF Typed, FacadeTypeOK
  <2>6. handover.to = t /\ handover.from = q /\ handover.stage # "switching"
    BY <1>5, <2>0
  <2> HIDE DEF m
  <2>7. m \in Agreed
    BY <2>1, <2>2, Kind
  <2>8. down'[t] = Append(down[t], m) /\ \A r \in Pilots : r # t => down'[r] = down[r]
    BY <1>1, <2>1, <2>3, <2>4, SendsDown
  <2>9. Handover'
    BY <1>1, <1>3, <2>3, <2>5, <2>6 DEF Handover
  <2>10. PilotInv(q)'
    <3>1. down'[q] = down[q] /\ linked'[q] = linked[q] /\ handover'.from = q
      BY <1>3, <2>3, <2>5, <2>6, <2>8
    <3> QED
      BY <1>1, <1>2, <1>3, <1>4, <2>5, <2>6, <3>1, OwnerKeeps
  <2>11. PilotInv(t)'
    <3>1. \E n \in Messages : down'[t] = Append(down[t], n) /\ n \in Agreed
      BY <2>1, <2>7, <2>8
    <3>2. up'[t] = up[t] /\ linked'[t] = linked[t] /\ handover'.to = t
      BY <1>2, <1>3, <2>3, <2>5, <2>6
    <3> QED
      BY <1>1, <1>2, <1>3, <2>3, <2>5, <2>6, <3>1, <3>2, RequesterKeeps
  <2>12. ASSUME NEW r \in Pilots, r # q, r # t PROVE PilotInv(r)'
    <3>1. Same(r)
      BY <1>2, <1>3, <2>8, <2>12, Untouched
    <3>2. /\ handover.to # r /\ handover.from # r /\ handover'.to # r /\ handover'.from # r
      BY <2>5, <2>6, <2>12
    <3> QED
      BY <1>1, <3>1, <3>2, Bystander
  <2> QED
    BY <2>9, <2>10, <2>11, <2>12
<1>6. CASE ~(handover.stage = "asked" /\ handover.from = q)
  <2>1. handover' = handover /\ down' = down
    BY <1>6 DEF OwnerAgreed
  <2>2. Handover'
    BY <1>1, <1>3, <2>1 DEF Handover, NoHandover
  <2>3. PilotInv(q)'
    BY <1>1, <1>2, <1>3, <1>4, <2>1, Unconcerned
  <2>4. ASSUME NEW r \in Pilots, r # q PROVE PilotInv(r)'
    BY <1>1, <1>2, <1>3, <2>1, <2>4, Untouched, Frame
  <2> QED
    BY <2>2, <2>3, <2>4
<1> QED
  BY <1>5, <1>6

(* The requester is ready: it gets control, or the owner is told to let    *)
(* go, or it is too late.                                                  *)
LEMMA ReadyToTakeKeeps ==
  ASSUME IInv, NEW p \in Pilots, RequesterReady(p)
  PROVE  Handover' /\ \A r \in Pilots : PilotInv(r)'
<1>1. Typed /\ Handover /\ \A r \in Pilots : PilotInv(r)
  BY DEF IInv
<1>2. /\ up[p] # <<>> /\ up'[p] = Tail(up[p]) /\ linked[p] = TRUE
      /\ Head(up[p]) \in Messages
      /\ Head(up[p]).command = "CONTROL_READY" /\ Head(up[p]).response = "NONE"
      /\ \A r \in Pilots : Kept(r) /\ (r # p => up'[r] = up[r])
  BY <1>1, TakesUp DEF RequesterReady
<1>3. /\ linked' = linked /\ granted' = granted /\ removing' = removing
  BY DEF RequesterReady
<1>4. Head(up[p]) \in IsReady /\ Head(up[p]) \notin Requested \cup LetGo \cup Removed
  BY <1>2, Kind
<1>5. CASE handover.stage = "agreed" /\ handover.to = p /\ handover.from = Nobody
  <2> DEFINE m == Accept("CONTROL_READY")
  <2>1. m \in Messages
    BY MessageType DEF Commands
  <2>2. /\ owner' = [c \in Channels |-> IF c \in handover.ids THEN p ELSE owner[c]]
        /\ handover' = NoHandover /\ SendDown(p, m)
    BY <1>5 DEF RequesterReady, GiveControl
  <2>3. m = Accept("CONTROL_READY")
    OBVIOUS
  <2> HIDE DEF m
  <2>4. down'[p] = Append(down[p], m) /\ \A r \in Pilots : r # p => down'[r] = down[r]
    BY <1>1, <2>1, <2>2, SendsDown
  <2>5. handover.ids \subseteq Channels /\ \A c \in handover.ids : owner[c] = Nobody
    BY <1>1, <1>5, Parties DEF Handover
  <2>6. /\ OwnedBy(p)' = OwnedBy(p) \cup handover.ids
        /\ \A r \in Pilots : r # p => OwnedBy(r)' = OwnedBy(r)
    BY <2>2, <2>5, NobodyAssumption DEF OwnedBy
  <2>7. Handover'
    BY <2>2 DEF Handover, NoHandover
  <2>8. PilotInv(p)'
    <3>1. linked'[p] = linked[p] /\ granted'[p] = granted[p] /\ removing'[p] = removing[p]
      BY <1>3
    <3> QED
      BY <1>1, <1>2, <1>4, <1>5, <2>1, <2>2, <2>3, <2>4, <2>6, <3>1, EndOfHandover
  <2>9. ASSUME NEW r \in Pilots, r # p PROVE PilotInv(r)'
    <3>1. Same(r)
      BY <1>2, <1>3, <2>4, <2>6, <2>9, Untouched DEF Known
    <3>2. /\ handover.to # r /\ handover.from # r /\ handover'.to # r /\ handover'.from # r
      BY <1>5, <2>2, <2>9, NobodyAssumption DEF NoHandover
    <3> QED
      BY <1>1, <3>1, <3>2, Bystander
  <2> QED
    BY <2>7, <2>8, <2>9
<1>6. CASE handover.stage = "agreed" /\ handover.to = p /\ handover.from # Nobody
  <2> DEFINE m == Plain("CONTROL_RELEASED")
  <2>0. PICK q \in Pilots : q = handover.from
    BY <1>1, <1>6, Parties
  <2>1. m \in Messages
    BY MessageType DEF Commands
  <2>2. m.command = "CONTROL_RELEASED" /\ m.response = "NONE"
    BY DEF Plain
  <2>3. q # p
    BY <1>1, <1>6, <2>0 DEF PilotInv, Hands
  <2>4. handover' = [handover EXCEPT !.stage = "switching"] /\ SendDown(q, m) /\ owner' = owner
    BY <1>6, <2>0 DEF RequesterReady
  <2>5. /\ handover'.stage = "switching" /\ handover'.to = handover.to
        /\ handover'.from = handover.from /\ handover'.ids = handover.ids
    BY <1>1, <2>4 DEF Typed, FacadeTypeOK
  <2>6. handover.to = p /\ handover.from = q /\ handover.stage # "switching"
    BY <1>6, <2>0
  <2> HIDE DEF m
  <2>7. m \in Switch
    BY <2>1, <2>2, Kind
  <2>8. down'[q] = Append(down[q], m) /\ \A r \in Pilots : r # q => down'[r] = down[r]
    BY <1>1, <2>1, <2>3, <2>4, SendsDown
  <2>9. \A r \in Pilots : Known(r)
    BY <1>3, <2>4 DEF Known, OwnedBy
  <2>10. Handover'
    BY <1>1, <1>6, <2>4, <2>5 DEF Handover
  <2>11. PilotInv(q)'
    <3>1. \E n \in Messages : /\ down'[q] = Append(down[q], n) /\ n \in Switch
                              /\ handover'.stage = "switching"
      BY <2>1, <2>5, <2>7, <2>8
    <3>2. linked[q] = TRUE
      <4>1. PICK c \in handover.ids : TRUE
        BY <1>1, <1>6 DEF Handover
      <4>2. c \in Channels /\ owner[c] = q
        BY <1>1, <2>6, <4>1, Parties DEF Handover
      <4> QED
        BY <1>1, <2>3, <4>2, OwnerLinked
    <3>3. up'[q] = up[q] /\ linked'[q] = linked[q] /\ handover'.from = q
      BY <1>2, <1>3, <2>3, <2>5, <2>6
    <3> QED
      BY <1>1, <1>2, <2>3, <2>5, <2>6, <2>9, <3>1, <3>2, <3>3, OwnerKeeps
  <2>12. PilotInv(p)'
    <3>1. down'[p] = down[p] /\ linked'[p] = linked[p] /\ handover'.to = p
      BY <1>3, <2>3, <2>5, <2>6, <2>8
    <3> QED
      BY <1>1, <1>2, <1>4, <2>5, <2>6, <2>9, <3>1, RequesterKeeps
  <2>13. ASSUME NEW r \in Pilots, r # q, r # p PROVE PilotInv(r)'
    <3>1. Same(r)
      BY <1>2, <1>3, <2>8, <2>9, <2>13, Untouched
    <3>2. /\ handover.to # r /\ handover.from # r /\ handover'.to # r /\ handover'.from # r
      BY <2>5, <2>6, <2>13
    <3> QED
      BY <1>1, <3>1, <3>2, Bystander
  <2> QED
    BY <2>10, <2>11, <2>12, <2>13
<1>7. CASE ~(handover.stage = "agreed" /\ handover.to = p)
  <2> DEFINE m == Reject("CONTROL_READY")
  <2>1. m \in Messages
    BY MessageType DEF Commands
  <2>2. handover' = handover /\ owner' = owner /\ SendDown(p, m)
    BY <1>7 DEF RequesterReady
  <2>3. m \in Later /\ m.response = "REJECTED"
    BY DEF Later, Reject
  <2> HIDE DEF m
  <2>4. m \notin Asking \cup Switch
    BY <2>1, <2>3, Kind
  <2>5. down'[p] = Append(down[p], m) /\ \A r \in Pilots : r # p => down'[r] = down[r]
    BY <1>1, <2>1, <2>2, SendsDown
  <2>6. \A r \in Pilots : Known(r)
    BY <1>3, <2>2 DEF Known, OwnedBy
  <2>7. Handover'
    BY <1>1, <2>2 DEF Handover, NoHandover
  <2>8. PilotInv(p)'
    <3>1. \E n \in Messages : /\ down'[p] = Append(down[p], n)
                              /\ n \in Later /\ n \notin Asking \cup Switch
      BY <2>1, <2>3, <2>4, <2>5
    <3>2. linked'[p] = linked[p]
      BY <1>3
    <3> QED
      BY <1>1, <1>2, <1>4, <2>2, <2>6, <3>1, <3>2, Unconcerned
  <2>9. ASSUME NEW r \in Pilots, r # p PROVE PilotInv(r)'
    BY <1>1, <1>2, <1>3, <2>2, <2>5, <2>6, <2>9, Untouched, Frame
  <2> QED
    BY <2>7, <2>8, <2>9
<1> QED
  BY <1>5, <1>6, <1>7

(* The owner has let go, and the requester gets control.                   *)
LEMMA LetGoKeeps ==
  ASSUME IInv, NEW q \in Pilots, OwnerLetGo(q)
  PROVE  Handover' /\ \A r \in Pilots : PilotInv(r)'
<1>1. Typed /\ Handover /\ \A r \in Pilots : PilotInv(r)
  BY DEF IInv
<1>2. /\ up[q] # <<>> /\ up'[q] = Tail(up[q]) /\ linked[q] = TRUE
      /\ Head(up[q]) \in Messages
      /\ Head(up[q]).command = "CONTROL_RELEASED" /\ Head(up[q]).response = "ACCEPTED"
      /\ \A r \in Pilots : Kept(r) /\ (r # q => up'[r] = up[r])
  BY <1>1, TakesUp DEF OwnerLetGo
<1>3. /\ linked' = linked /\ granted' = granted /\ removing' = removing
  BY DEF OwnerLetGo
<1>4. Head(up[q]) \in LetGo
  BY <1>2, Kind
<1>5. handover.from = q /\ handover.stage = "switching"
  <2>1. Up(q, LetGo) # {}
    BY <1>1, <1>2, <1>4, UpTaken DEF PilotInv
  <2> QED
    BY <1>1, <2>1 DEF PilotInv, Hands
<1> DEFINE m == Accept("CONTROL_READY")
<1>0. PICK t \in Pilots : t = handover.to
  BY <1>1, <1>5, Parties
<1>6. t # Nobody /\ t # q
  BY <1>0, <1>1, <1>5, NobodyAssumption DEF PilotInv, Hands
<1>7. /\ owner' = [c \in Channels |-> IF c \in handover.ids THEN t ELSE owner[c]]
      /\ handover' = NoHandover /\ SendDown(t, m)
  BY <1>0, <1>5, <1>6 DEF OwnerLetGo, GiveControl
<1>8. m \in Messages /\ m = Accept("CONTROL_READY")
  BY MessageType DEF Commands
<1>9. handover.to = t
  BY <1>0
<1> HIDE DEF m
<1>10. down'[t] = Append(down[t], m) /\ \A r \in Pilots : r # t => down'[r] = down[r]
  BY <1>1, <1>6, <1>7, <1>8, SendsDown
<1>11. handover.ids \subseteq Channels /\ \A c \in handover.ids : owner[c] = q
  BY <1>1, <1>5, Parties DEF Handover
<1>12. /\ OwnedBy(q)' = OwnedBy(q) \ handover.ids /\ OwnedBy(t)' = OwnedBy(t) \cup handover.ids
       /\ \A r \in Pilots : r # q /\ r # t => OwnedBy(r)' = OwnedBy(r)
  BY <1>6, <1>7, <1>11 DEF OwnedBy
<1>13. Handover'
  BY <1>7 DEF Handover, NoHandover
<1>14. PilotInv(q)'
  <2>1. /\ linked'[q] = linked[q] /\ granted'[q] = granted[q] /\ removing'[q] = removing[q]
        /\ down'[q] = down[q]
    BY <1>3, <1>6, <1>10
  <2> QED
    BY <1>1, <1>2, <1>4, <1>7, <1>12, <2>1, Loses
<1>15. PilotInv(t)'
  <2>1. /\ linked'[t] = linked[t] /\ granted'[t] = granted[t] /\ removing'[t] = removing[t]
        /\ up'[t] = up[t]
    BY <1>2, <1>3, <1>6
  <2> QED
    BY <1>1, <1>2, <1>6, <1>7, <1>8, <1>9, <1>10, <1>12, <2>1, EndOfHandover
<1>16. ASSUME NEW r \in Pilots, r # q, r # t PROVE PilotInv(r)'
  <2>1. Same(r)
    BY <1>2, <1>3, <1>10, <1>12, <1>16, Untouched DEF Known
  <2>2. /\ handover.to # r /\ handover.from # r /\ handover'.to # r /\ handover'.from # r
    BY <1>5, <1>7, <1>9, <1>16, NobodyAssumption DEF NoHandover
  <2> QED
    BY <1>1, <2>1, <2>2, Bystander
<1> QED
  BY <1>13, <1>14, <1>15, <1>16

-----------------------------------------------------------------------------
(* What always holds.                                                      *)

(* What the facade does keeps the invariant.                               *)
LEMMA FacadeKeeps ==
  ASSUME IInv, NEW p \in Pilots, FacadeAnswer(p) \/ AskRelease(p)
  PROVE  Handover' /\ \A r \in Pilots : PilotInv(r)'
<1>1. CASE AnswerSetup(p)
  BY <1>1, SetupKeeps
<1>2. CASE AnswerReady(p)
  BY <1>2, ReadyKeeps
<1>3. CASE EndCall(p)
  BY <1>3, EndKeeps
<1>4. CASE AnswerAdd(p)
  BY <1>4, AddKeeps
<1>5. CASE AnswerRemove(p)
  BY <1>5, RemoveKeeps
<1>6. CASE ConfirmRemove(p)
  BY <1>6, ConfirmKeeps
<1>7. CASE AnswerRequest(p)
  BY <1>7, RequestKeeps
<1>8. CASE OwnerAgreed(p)
  BY <1>8, AgreedKeeps
<1>9. CASE RequesterReady(p)
  BY <1>9, ReadyToTakeKeeps
<1>10. CASE OwnerLetGo(p)
  BY <1>10, LetGoKeeps
<1>11. CASE AskRelease(p)
  BY <1>11, AskKeeps
<1> QED
  BY <1>1, <1>2, <1>3, <1>4, <1>5, <1>6, <1>7, <1>8, <1>9, <1>10, <1>11 DEF FacadeAnswer

(* Every step keeps it,                                                    *)
LEMMA Inductive == IInv /\ [Next]_vars => IInv'
<1> SUFFICES ASSUME IInv, [Next]_vars PROVE IInv'
  OBVIOUS
<1>1. Typed'
  BY NextTyped DEF IInv
<1>2. Handover' /\ \A r \in Pilots : PilotInv(r)'
  <2>1. CASE UNCHANGED vars
    <3>1. Handover'
      BY <2>1 DEF IInv, Handover, NoHandover, vars, facadeVars
    <3>2. ASSUME NEW r \in Pilots PROVE PilotInv(r)'
      <4>1. Same(r) /\ handover' = handover
        BY <2>1 DEF Same, vars, facadeVars, channels, streams, OwnedBy
      <4> QED
        BY <4>1, Frame DEF IInv
    <3> QED
      BY <3>1, <3>2
  <2>2. ASSUME NEW p \in Pilots, PilotStep(p), UNCHANGED facadeVars
        PROVE  Handover' /\ \A r \in Pilots : PilotInv(r)'
    BY <2>2, PilotKeeps
  <2>3. ASSUME NEW p \in Pilots, FacadeAnswer(p) \/ AskRelease(p)
        PROVE  Handover' /\ \A r \in Pilots : PilotInv(r)'
    BY <2>3, FacadeKeeps
  <2> QED
    BY <2>1, <2>2, <2>3 DEF Next
<1> QED
  BY <1>1, <1>2 DEF IInv

(* and so it always holds.                                                 *)
LEMMA Invariance == Spec => []IInv
<1>1. Init => IInv
  BY InitInv DEF IInv
<1> QED
  BY <1>1, Inductive, PTL DEF Spec

(* For any number of pilots and channels: every variable keeps its type,   *)
(* and a channel is flagged as owned only while it is in the map of the    *)
(* ChannelsHandler.                                                        *)
THEOREM TypeCorrectness == Spec => []TypeOK
<1>1. IInv => TypeOK
  <2> SUFFICES ASSUME IInv PROVE TypeOK
    OBVIOUS
  <2>1. Typed /\ \A p \in Pilots : owned[p] \subseteq open[p]
    BY DEF IInv, PilotInv, Knows
  <2> QED
    BY <2>1 DEF Typed, PilotTyped, TypeOK, PilotTypeOK
<1> QED
  BY <1>1, Invariance, PTL

(* For any number of pilots and channels: no listener holds an IChannel*   *)
(* of a channel that is gone, outside a validation it knows every open     *)
(* one, and no channel outlives the connection, whatever the user, the     *)
(* facade and the validations do and in which order.                       *)
THEOREM UserKnows == Spec => []UserKnowsChannels
<1>1. IInv => UserKnowsChannels
  BY DEF IInv, PilotInv, Knows, UserKnowsChannels
<1> QED
  BY <1>1, Invariance, PTL

(* The head of what is on its way to a pilot.                              *)
LEMMA NextDown ==
  ASSUME Typed, NEW p \in Pilots, PilotInv(p), down[p] # <<>>
  PROVE  /\ Head(down[p]) \in Messages
         /\ Head(down[p]) \in Final \cup Later \cup Agreed
         /\ \A K : Head(down[p]) \in K => Head(down[p]) \in Down(p, K)
<1>1. down[p] \in Seq(Messages)
  BY QueueTypes
<1>2. Head(down[p]) \in Messages /\ Head(down[p]) \in ToSet(down[p])
  BY <1>1, TakeElements
<1> QED
  BY <1>2 DEF PilotInv, Gets, Down

(* For any number of pilots and channels: the handlers of CHANNELS_READY,  *)
(* REMOVE_CHANNELS, CONTROL_READY and CONTROL_RELEASED, which call at()    *)
(* or find() without a check, look up only channels that are there.        *)
THEOREM ChannelsAreThere == Spec => []NoMissingChannel
<1>1. IInv => NoMissingChannel
  <2> SUFFICES ASSUME IInv, NEW p \in Pilots, live[p], down[p] # <<>>
               PROVE  LooksUp(p, Head(down[p])) \subseteq open[p]
    BY DEF NoMissingChannel
  <2> DEFINE m == Head(down[p])
  <2>1. Typed /\ Handover /\ PilotInv(p)
    BY DEF IInv
  <2>2. /\ m \in Messages /\ m \in Final \cup Later \cup Agreed
        /\ \A K : m \in K => m \in Down(p, K)
    BY <2>1, NextDown
  <2> HIDE DEF m
  <2>3. ASSUME state[p] = "ValidatingChannels", m.command = "CHANNELS_READY"
        PROVE  m.ids \subseteq open[p]
    <3>1. m \notin Later /\ m \notin Agreed
      BY <2>2, <2>3, Kind, KindLater DEF Reject
    <3>2. m \in Final
      BY <2>2, <3>1
    <3>3. m \in Validates
      BY <2>2, <2>3, <3>2, Kind DEF Final
    <3>4. m.ids \subseteq arg[p]
      BY <2>1, <2>2, <3>3 DEF PilotInv, Controls
    <3> QED
      BY <2>1, <2>3, <3>4 DEF PilotInv, Knows
  <2>4. ASSUME state[p] \in {"ClosingChannels", "RequestingControl"}, m \in Removes \cup Gives,
               m \in Removes => state[p] = "ClosingChannels"
        PROVE  arg[p] \subseteq open[p]
    <3>1. state[p] \in Waiting /\ m \in Final
      BY <2>4, Kinds DEF Waiting
    <3>2. Down(p, Final) # {}
      BY <2>2, <3>1
    <3>3. granted[p] \subseteq open[p]
      BY <2>1, <3>1, <3>2, Settled
    <3>4. arg[p] \subseteq granted[p]
      <4>1. CASE m \in Removes
        BY <2>1, <2>2, <2>4, <4>1 DEF PilotInv, Knows
      <4>2. CASE m \in Gives
        BY <2>1, <2>2, <4>2 DEF PilotInv, Controls
      <4> QED
        BY <2>4, <4>1, <4>2
    <3> QED
      BY <3>3, <3>4
  <2>5. ASSUME state[p] = "ReleasingControl" PROVE arg[p] \subseteq open[p]
    <3>1. handover.from = p /\ arg[p] = handover.ids /\ handover.ids \cap removing[p] = {}
      BY <2>1, <2>5 DEF PilotInv, Hands
    <3>2. handover.ids \subseteq OwnedBy(p)
      BY <2>1, <3>1, Parties DEF Handover, OwnedBy
    <3>3. OwnedBy(p) \subseteq granted[p]
      BY <2>1 DEF PilotInv, Controls
    <3>4. granted[p] \subseteq open[p] \cup removing[p]
      BY <2>1, <2>5 DEF PilotInv, Knows
    <3> QED
      BY <3>1, <3>2, <3>3, <3>4
  <2>6. m.command = "REMOVE_CHANNELS" /\ m.response = "ACCEPTED" => m \in Removes
    BY <2>2, Kind
  <2>7. /\ m.command = "CONTROL_READY" /\ m.response = "ACCEPTED" => m \in Gives
        /\ m \in Gives => m \notin Removes
    BY <2>2, Kind
  <2>8. CASE state[p] = "ValidatingChannels"
    <3>1. LooksUp(p, m) \in {m.ids, {}}
      BY <2>8 DEF LooksUp
    <3>2. LooksUp(p, m) = m.ids => m.command = "CHANNELS_READY" \/ m.ids = {}
      BY <2>8 DEF LooksUp
    <3> QED
      BY <2>3, <2>8, <3>1, <3>2 DEF m
  <2>9. CASE state[p] # "ValidatingChannels"
    <3>1. CASE LooksUp(p, m) = {}
      BY <3>1 DEF m
    <3>2. CASE LooksUp(p, m) # {}
      <4>1. \/ state[p] = "ClosingChannels" /\ m \in Removes
            \/ state[p] = "RequestingControl" /\ m \in Gives
            \/ state[p] = "ReleasingControl"
        BY <2>6, <2>7, <2>9, <3>2 DEF LooksUp
      <4>2. LooksUp(p, m) = arg[p]
        BY <2>9, <3>2 DEF LooksUp
      <4> QED
        BY <2>4, <2>5, <2>7, <4>1, <4>2 DEF m
    <3> QED
      BY <3>1, <3>2
  <2> QED
    BY <2>8, <2>9
<1> QED
  BY <1>1, Invariance, PTL

(* For any number of pilots and channels: what a pilot takes itself to     *)
(* control the facade has given to it, and to it alone, through handovers  *)
(* that cross with releases, removals and refusals.                        *)
THEOREM OnlyGrantedControl == Spec => []ControlIsGranted
<1>1. IInv => ControlIsGranted
  BY DEF IInv, PilotInv, Knows, Controls, ControlIsGranted
<1> QED
  BY <1>1, Invariance, PTL

(* For any number of pilots and channels: although an answer names         *)
(* neither its request nor its channels, it finds the pilot in the state   *)
(* that waits for it. Only the refusal of a CONTROL_READY that came too    *)
(* late is dropped.                                                        *)
THEOREM AnswersAreExpected == Spec => []AnswersExpected
<1>1. IInv => AnswersExpected
  <2> SUFFICES ASSUME IInv, NEW p \in Pilots, live[p], state[p] \in Connected, down[p] # <<>>,
                      Head(down[p]).response # "NONE", Head(down[p]) # Reject("CONTROL_READY")
               PROVE  Expected(state[p], Head(down[p]))
    BY DEF AnswersExpected
  <2> DEFINE m == Head(down[p])
  <2>1. Typed /\ PilotInv(p)
    BY DEF IInv
  <2>2. /\ m \in Messages /\ m \in Final \cup Later \cup Agreed
        /\ \A K : m \in K => m \in Down(p, K)
    BY <2>1, NextDown
  <2>3. m.response # "NONE" /\ m # Reject("CONTROL_READY")
    OBVIOUS
  <2> HIDE DEF m
  <2>4. m \notin Later
    BY <2>2, <2>3, KindLater
  <2>5. CASE m \in Final
    <3>1. m.command \in Waits(state[p]) /\ state[p] \in States /\ state[p] # "Disconnecting"
      BY <2>1, <2>2, <2>5, QueueTypes DEF PilotInv, Gets, Connected
    <3>2. m \in Admits \cup Validates \cup Adds \cup Removes \cup Gives \cup Refuses
      BY <2>5 DEF Final
    <3>3. /\ m.command \in {"CHANNELS_READY", "CONTROL_READY"} => m.response = "ACCEPTED"
          /\ m.command \in {"SETUP", "CHANNELS_READY", "ADD_CHANNELS", "REMOVE_CHANNELS",
                            "REQUEST_CONTROL", "CONTROL_READY"}
      BY <2>2, <3>2, Kind
    <3>4. \/ m.command = "SETUP" /\ state[p] = "Connecting"
          \/ m.command = "CHANNELS_READY" /\ state[p] = "ValidatingChannels"
          \/ m.command = "ADD_CHANNELS" /\ state[p] = "OpeningChannels"
          \/ m.command = "REMOVE_CHANNELS" /\ state[p] = "ClosingChannels"
          \/ m.command \in {"REQUEST_CONTROL", "CONTROL_READY"} /\ state[p] = "RequestingControl"
      BY <3>1, <3>3, WaitsFor
    <3>5. Expected(state[p], m)
      BY <3>3, <3>4 DEF Expected
    <3> QED
      BY <3>5 DEF m
  <2>6. CASE m \in Agreed
    <3>1. state[p] = "RequestingControl"
      BY <2>1, <2>2, <2>6 DEF PilotInv, Gets
    <3>2. m.command = "REQUEST_CONTROL"
      BY <2>2, <2>6, Kind
    <3>3. Expected(state[p], m)
      BY <3>1, <3>2 DEF Expected
    <3> QED
      BY <3>3 DEF m
  <2> QED
    BY <2>2, <2>4, <2>5, <2>6
<1> QED
  BY <1>1, Invariance, PTL

(* For any number of pilots and channels: a pilot that rests in Operating  *)
(* with nothing on its way agrees with the facade on its channels and on   *)
(* its control.                                                            *)
THEOREM Agrees == Spec => []Agreement
<1>1. IInv => Agreement
  <2> SUFFICES ASSUME IInv, NEW p \in Pilots, state[p] = "Operating",
                      up[p] = <<>>, down[p] = <<>>
               PROVE  open[p] = granted[p] /\ owned[p] = OwnedBy(p)
    BY DEF Agreement
  <2>1. PilotInv(p)
    BY DEF IInv
  <2>2. \A K : Up(p, K) = {} /\ Down(p, K) = {}
    BY NoElements DEF Up, Down
  <2>3. live[p]
    BY <2>1 DEF PilotInv, Asks
  <2>4. open[p] = granted[p]
    BY <2>1, <2>2, <2>3 DEF PilotInv, Knows
  <2>5. \A c \in OwnedBy(p) : c \in owned[p]
    BY <2>1, <2>2, <2>3 DEF PilotInv, Controls, Accounted
  <2>6. owned[p] \subseteq OwnedBy(p)
    BY <2>1 DEF PilotInv, Controls
  <2> QED
    BY <2>4, <2>5, <2>6
<1> QED
  BY <1>1, Invariance, PTL

-----------------------------------------------------------------------------
(* The lock.                                                               *)

(* What ControlLock calls holders.                                         *)
Holders == [c \in Channels |-> {p \in Pilots : c \in owned[p]}]

(* A pilot takes the channels that the facade has given it, or lets go.    *)
LEMMA OwnedChanges ==
  ASSUME IInv, NEW p \in Pilots, PilotStep(p)
  PROVE  \/ owned'[p] \subseteq owned[p]
         \/ owned[p] \subseteq owned'[p] /\ owned'[p] \subseteq OwnedBy(p)
<1>1. Typed /\ PilotInv(p) /\ owned \in [Pilots -> SUBSET Channels]
  BY DEF IInv, Typed, PilotTyped
<1>2. UNCHANGED channels => owned' = owned
  BY DEF channels
<1>3. ASSUME NEW C, CloseChannels(p, C) PROVE owned'[p] \subseteq owned[p]
  BY <1>1, <1>3 DEF CloseChannels
<1>4. ASSUME NEW C, Validate(p, C) PROVE owned'[p] \subseteq owned[p]
  BY <1>1, <1>4 DEF Validate
<1>5. CASE UserStep(p)
  BY <1>2, <1>5 DEF UserStep, OperateFails, Operate, OpenChannels, CloseSome, Release, StartClosing,
                    RequestControl, ControlReady, ReleaseAccepted, ReleaseRejected
<1>6. CASE ChannelsReadyAccepted(p)
  <2>1. Head(down[p]) \in Down(p, Validates)
    <3>1. /\ down[p] # <<>> /\ Head(down[p]).command = "CHANNELS_READY"
          /\ Head(down[p]).response = "ACCEPTED"
      BY <1>6 DEF ChannelsReadyAccepted, ReceiveQuietly, Receive
    <3>2. Head(down[p]) \in Messages /\ \A K : Head(down[p]) \in K => Head(down[p]) \in Down(p, K)
      BY <1>1, <3>1, NextDown
    <3> QED
      BY <3>1, <3>2, Kind
  <2>2. owned'[p] = owned[p] \cup Head(down[p]).ids
    BY <1>1, <1>6 DEF ChannelsReadyAccepted
  <2> QED
    BY <1>1, <2>1, <2>2 DEF PilotInv, Controls
<1>7. CASE HandoverDone(p)
  <2>1. Down(p, Gives) # {}
    <3>1. /\ down[p] # <<>> /\ Head(down[p]).command = "CONTROL_READY"
          /\ Head(down[p]).response = "ACCEPTED"
      BY <1>7 DEF HandoverDone, ReceiveQuietly, Receive
    <3>2. Head(down[p]) \in Messages /\ \A K : Head(down[p]) \in K => Head(down[p]) \in Down(p, K)
      BY <1>1, <3>1, NextDown
    <3> QED
      BY <3>1, <3>2, Kind
  <2>2. owned'[p] = owned[p] \cup arg[p]
    BY <1>1, <1>7 DEF HandoverDone
  <2> QED
    BY <1>1, <2>1, <2>2 DEF PilotInv, Controls
<1>8. CASE ControlReleased(p)
  BY <1>1, <1>8 DEF ControlReleased
<1>9. CASE SetupAccepted(p) \/ AddAccepted(p)
  BY <1>4, <1>9 DEF SetupAccepted, AddAccepted
<1>10. CASE Released(p) \/ RemoveAccepted(p)
  BY <1>3, <1>10 DEF Released, RemoveAccepted
<1>11. CASE \/ SetupRejected(p) \/ ReleaseControlAsked(p) \/ AddRejected(p) \/ RemoveRejected(p)
            \/ RequestAccepted(p) \/ RequestRejected(p) \/ Drop(p)
  BY <1>2, <1>11 DEF SetupRejected, ReleaseControlAsked, AddRejected, RemoveRejected,
                     RequestAccepted, RequestRejected, Drop
<1>12. CASE Disconnect(p) \/ DisconnectFails(p)
  BY <1>2, <1>12 DEF Disconnect, DisconnectFails
<1> QED
  BY <1>5, <1>6, <1>7, <1>8, <1>9, <1>10, <1>11, <1>12 DEF PilotStep, ReceiveStep

(* Every step takes channels that nobody holds, or lets go of a pilot's    *)
(* own, or does neither.                                                   *)
LEMMA LockStep == IInv /\ [Next]_vars => [Lock!Next]_Holders
<1> SUFFICES ASSUME IInv, [Next]_vars PROVE Lock!Next \/ Holders' = Holders
  OBVIOUS
<1>1. CASE owned' = owned
  BY <1>1 DEF Holders
<1>2. ASSUME NEW p \in Pilots, PilotStep(p), UNCHANGED facadeVars
      PROVE  Lock!Next \/ Holders' = Holders
  <2>1. /\ \A r \in Pilots : r # p => owned'[r] = owned[r]
        /\ \A r \in Pilots : owned[r] \subseteq Channels
    BY <1>2, Bystanders, QueueTypes DEF IInv, Same
  <2>2. \A r \in Pilots : \A c \in owned[r] : owner[c] = r
    BY DEF IInv, PilotInv, Controls, OwnedBy
  <2>3. CASE owned'[p] \subseteq owned[p]
    <3>1. PICK C \in SUBSET Channels : C = owned[p] \ owned'[p]
      BY <2>1
    <3>2. \A c \in C : Holders[c] = {p}
      BY <2>1, <2>2, <3>1 DEF Holders
    <3>3. Holders' = [c \in Channels |-> IF c \in C THEN {} ELSE Holders[c]]
      <4>1. ASSUME NEW c \in Channels
            PROVE  {r \in Pilots : c \in owned'[r]}
                     = IF c \in C THEN {} ELSE {r \in Pilots : c \in owned[r]}
        BY <2>1, <2>2, <2>3, <3>1
      <4> QED
        BY <4>1 DEF Holders
    <3>4. Lock!Release(p, C)
      BY <3>2, <3>3 DEF Lock!Release, Holders
    <3> QED
      BY <3>4 DEF Lock!Next
  <2>4. CASE owned[p] \subseteq owned'[p] /\ owned'[p] \subseteq OwnedBy(p)
    <3>1. PICK C \in SUBSET Channels : C = owned'[p] \ owned[p] /\ \A c \in C : owner[c] = p
      BY <2>4 DEF OwnedBy
    <3>2. \A c \in C : Holders[c] = {}
      BY <2>2, <3>1 DEF Holders
    <3>3. Holders' = [c \in Channels |-> IF c \in C THEN {p} ELSE Holders[c]]
      <4>1. ASSUME NEW c \in Channels
            PROVE  {r \in Pilots : c \in owned'[r]}
                     = IF c \in C THEN {p} ELSE {r \in Pilots : c \in owned[r]}
        BY <2>1, <2>2, <2>4, <3>1
      <4> QED
        BY <4>1 DEF Holders
    <3>4. Lock!Acquire(p, C)
      BY <3>2, <3>3 DEF Lock!Acquire, Holders
    <3> QED
      BY <3>4 DEF Lock!Next
  <2> QED
    BY <1>2, <2>3, <2>4, OwnedChanges
<1>3. ASSUME NEW p \in Pilots, FacadeAnswer(p) \/ AskRelease(p) PROVE owned' = owned
  BY <1>3 DEF FacadeAnswer, AnswerSetup, AnswerReady, EndCall, AnswerAdd, AnswerRemove,
              ConfirmRemove, AnswerRequest, OwnerAgreed, RequesterReady, OwnerLetGo, AskRelease,
              Take, facadeLeaves, channels
<1>4. CASE UNCHANGED vars
  BY <1>1, <1>4 DEF vars, channels
<1> QED
  BY <1>1, <1>2, <1>3, <1>4 DEF Next

(* For any number of pilots and channels: the pilots of a fleet implement  *)
(* the lock. Control never goes from one to another at once: the old       *)
(* owner has let go before the new one takes it.                           *)
THEOREM LockImplemented == Spec => ImplementsLock
<1>1. Init => Lock!Init
  BY DEF Init, PilotInit, Lock!Init
<1> QED
  BY <1>1, LockStep, Invariance, PTL DEF Spec, ImplementsLock, Lock!Spec, Holders
=============================================================================
