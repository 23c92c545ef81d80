-------------------------------- MODULE Fleet --------------------------------
(***************************************************************************)
(* Pilots and the facade they share.  The facade is external: it is the    *)
(* least partner that the cases of the pilot's states call for.  It grants *)
(* a channel it has not granted, keeps which pilot controls which channel, *)
(* hands one channel over at a time, and may refuse what it is asked.  It  *)
(* takes up the messages of each pilot in order.                           *)
(***************************************************************************)
EXTENDS Pilot

CONSTANTS Nobody   \* no pilot

ASSUME NobodyAssumption == Nobody \notin Pilots

VARIABLES standing,  \* of each pilot: is it admitted, is it asked to leave?
          granted,   \* the channels each pilot has, as the facade knows
          removing,  \* those it was allowed to remove, not yet confirmed
          owner,     \* the pilot in control of each channel
          handover   \* the handover in progress

facadeVars == <<standing, granted, removing, owner, handover>>
vars == <<state, arg, channels, live, streams, user, facadeVars>>

(* A handover goes from "asked" (the owner) to "agreed" (by the owner) to  *)
(* "switching" (the requester is ready, the owner is to let go).           *)
Stages == {"none", "asked", "agreed", "switching"}
NoHandover == [stage |-> "none", to |-> Nobody, from |-> Nobody, ids |-> {}]

FacadeTypeOK ==
  /\ standing \in [Pilots -> {"none", "admitted", "releasing"}]
  /\ granted \in [Pilots -> SUBSET Channels]
  /\ removing \in [Pilots -> SUBSET Channels]
  /\ owner \in [Channels -> Pilots \cup {Nobody}]
  /\ handover \in [stage : Stages, to : Pilots \cup {Nobody},
                   from : Pilots \cup {Nobody}, ids : SUBSET Channels]

TypeOK == PilotTypeOK /\ FacadeTypeOK

Init == /\ PilotInit
        /\ standing = [p \in Pilots |-> "none"]
        /\ granted = [p \in Pilots |-> {}]
        /\ removing = [p \in Pilots |-> {}]
        /\ owner = [c \in Channels |-> Nobody]
        /\ handover = NoHandover

-----------------------------------------------------------------------------
facadeLeaves == <<state, arg, channels, live, user>>

(* The next message of a pilot is taken up.                                *)
Take(p, command, response) == /\ linked[p]
                              /\ up[p] # <<>>
                              /\ Head(up[p]).command = command
                              /\ Head(up[p]).response = response
                              /\ up' = [up EXCEPT ![p] = Tail(@)]
                              /\ UNCHANGED facadeLeaves

SendDown(p, m) == down' = [down EXCEPT ![p] = Append(@, m)]

OwnedBy(p) == {c \in Channels : owner[c] = p}

(* Pilot p gives up the channels C while a handover of one is in progress: *)
(* its requester is refused.                                               *)
Losing(p, C) == handover.from = p /\ handover.ids \cap C # {}

Refuse(p, C, sentDown) ==
  down' = IF Losing(p, C) /\ handover.to # Nobody
          THEN [sentDown EXCEPT ![handover.to] = Append(@, Reject("REQUEST_CONTROL"))]
          ELSE sentDown

-----------------------------------------------------------------------------
(* Admission.                                                              *)
AnswerSetup(p) ==
  /\ Take(p, "SETUP", "NONE")
  /\ \/ /\ \E C \in SUBSET Channels : SendDown(p, AcceptIds("SETUP", C))
        /\ UNCHANGED linked
     \/ /\ SendDown(p, Reject("SETUP"))
        /\ linked' = [linked EXCEPT ![p] = FALSE]
  /\ UNCHANGED facadeVars

(* The pilot gets control of the channels that nobody controls.            *)
AnswerReady(p) ==
  /\ Take(p, "CHANNELS_READY", "NONE")
  /\ LET C == Head(up[p]).ids
         new == {c \in C : owner[c] = Nobody /\ c \notin handover.ids}
     IN  /\ granted' = [granted EXCEPT ![p] = @ \cup C]
         /\ owner' = [c \in Channels |-> IF c \in new THEN p ELSE owner[c]]
         /\ SendDown(p, AcceptIds("CHANNELS_READY", new))
  /\ standing' = [standing EXCEPT ![p] = IF @ = "none" THEN "admitted" ELSE @]
  /\ UNCHANGED <<linked, removing, handover>>

(* The facade asks the pilot to leave, and ends the call when it agrees.   *)
AskRelease(p) ==
  /\ linked[p]
  /\ standing[p] = "admitted"
  /\ standing' = [standing EXCEPT ![p] = "releasing"]
  /\ SendDown(p, Plain("RELEASE"))
  /\ UNCHANGED <<facadeLeaves, linked, up, granted, removing, owner, handover>>

EndCall(p) ==
  /\ Take(p, "RELEASE", "ACCEPTED")
  /\ linked' = [linked EXCEPT ![p] = FALSE]
  /\ standing' = [standing EXCEPT ![p] = "none"]
  /\ granted' = [granted EXCEPT ![p] = {}]
  /\ removing' = [removing EXCEPT ![p] = {}]
  /\ owner' = [c \in Channels |-> IF owner[c] = p THEN Nobody ELSE owner[c]]
  /\ Refuse(p, Channels, down)
  /\ handover' = IF handover.from = p THEN NoHandover
                 ELSE IF handover.to # p THEN handover
                 ELSE IF handover.from = Nobody THEN NoHandover
                 ELSE [handover EXCEPT !.to = Nobody]

-----------------------------------------------------------------------------
(* Channels.                                                               *)
AnswerAdd(p) ==
  /\ Take(p, "ADD_CHANNELS", "NONE")
  /\ \/ \E C \in SUBSET (Head(up[p]).ids \ granted[p]) :
          C # {} /\ SendDown(p, AcceptIds("ADD_CHANNELS", C))
     \/ SendDown(p, Reject("ADD_CHANNELS"))
  /\ UNCHANGED <<linked, facadeVars>>

AnswerRemove(p) ==
  /\ Take(p, "REMOVE_CHANNELS", "NONE")
  /\ LET C == Head(up[p]).ids
     IN  \/ /\ C \subseteq granted[p]
            /\ removing' = [removing EXCEPT ![p] = C]
            /\ Refuse(p, C, [down EXCEPT ![p] = Append(@, Accept("REMOVE_CHANNELS"))])
            /\ handover' = IF Losing(p, C) THEN NoHandover ELSE handover
         \/ /\ SendDown(p, Reject("REMOVE_CHANNELS"))
            /\ UNCHANGED <<removing, handover>>
  /\ UNCHANGED <<linked, standing, granted, owner>>

ConfirmRemove(p) ==
  /\ Take(p, "REMOVE_CHANNELS", "ACCEPTED")
  /\ granted' = [granted EXCEPT ![p] = @ \ removing[p]]
  /\ owner' = [c \in Channels |-> IF c \in removing[p] /\ owner[c] = p
                                 THEN Nobody ELSE owner[c]]
  /\ removing' = [removing EXCEPT ![p] = {}]
  /\ UNCHANGED <<linked, down, standing, handover>>

-----------------------------------------------------------------------------
(* Handover.                                                               *)
AnswerRequest(p) ==
  /\ Take(p, "REQUEST_CONTROL", "NONE")
  /\ LET C == Head(up[p]).ids
     IN  \/ \E c \in C :
              /\ handover = NoHandover
              /\ c \in granted[p]
              /\ owner[c] # p
              /\ owner[c] # Nobody => c \notin removing[owner[c]]
              /\ handover' = [stage |-> IF owner[c] = Nobody THEN "agreed" ELSE "asked",
                              to |-> p, from |-> owner[c], ids |-> C]
              /\ IF owner[c] = Nobody
                 THEN SendDown(p, Accept("REQUEST_CONTROL"))
                 ELSE SendDown(owner[c], Indicate("RELEASE_CONTROL", C))
         \/ /\ SendDown(p, Reject("REQUEST_CONTROL"))
            /\ UNCHANGED handover
  /\ UNCHANGED <<linked, standing, granted, removing, owner>>

(* The owner has agreed.  If the requester has left, the owner still waits *)
(* for CONTROL_RELEASED.                                                   *)
OwnerAgreed(q) ==
  /\ Take(q, "RELEASE_CONTROL", "ACCEPTED")
  /\ IF handover.stage = "asked" /\ handover.from = q
     THEN IF handover.to # Nobody
          THEN /\ handover' = [handover EXCEPT !.stage = "agreed"]
               /\ SendDown(handover.to, Accept("REQUEST_CONTROL"))
          ELSE /\ handover' = [handover EXCEPT !.stage = "switching"]
               /\ SendDown(q, Plain("CONTROL_RELEASED"))
     ELSE UNCHANGED <<handover, down>>
  /\ UNCHANGED <<linked, standing, granted, removing, owner>>

GiveControl(p, C) == /\ owner' = [c \in Channels |-> IF c \in C THEN p ELSE owner[c]]
                     /\ handover' = NoHandover

(* The requester is ready: the owner is told to let go.                    *)
RequesterReady(p) ==
  /\ Take(p, "CONTROL_READY", "NONE")
  /\ IF handover.stage = "agreed" /\ handover.to = p
     THEN IF handover.from = Nobody
          THEN /\ GiveControl(p, handover.ids)
               /\ SendDown(p, Accept("CONTROL_READY"))
          ELSE /\ handover' = [handover EXCEPT !.stage = "switching"]
               /\ SendDown(handover.from, Plain("CONTROL_RELEASED"))
               /\ UNCHANGED owner
     ELSE /\ SendDown(p, Reject("CONTROL_READY"))
          /\ UNCHANGED <<owner, handover>>
  /\ UNCHANGED <<linked, standing, granted, removing>>

(* The owner has let go: the requester gets control.                       *)
OwnerLetGo(q) ==
  /\ Take(q, "CONTROL_RELEASED", "ACCEPTED")
  /\ IF handover.stage = "switching" /\ handover.from = q
     THEN /\ GiveControl(handover.to, handover.ids)
          /\ IF handover.to # Nobody
             THEN SendDown(handover.to, Accept("CONTROL_READY"))
             ELSE UNCHANGED down
     ELSE UNCHANGED <<owner, handover, down>>
  /\ UNCHANGED <<linked, standing, granted, removing>>

FacadeAnswer(p) == \/ AnswerSetup(p) \/ AnswerReady(p) \/ EndCall(p)
                   \/ AnswerAdd(p) \/ AnswerRemove(p) \/ ConfirmRemove(p)
                   \/ AnswerRequest(p) \/ OwnerAgreed(p)
                   \/ RequesterReady(p) \/ OwnerLetGo(p)

-----------------------------------------------------------------------------
Next == \E p \in Pilots : \/ PilotStep(p) /\ UNCHANGED facadeVars
                          \/ FacadeAnswer(p)
                          \/ AskRelease(p)

Spec == Init /\ [][Next]_vars

-----------------------------------------------------------------------------
(* The listener of a pilot never holds an IChannel* of a channel that is   *)
(* gone, and outside a validation it knows every open channel; no channel  *)
(* outlives the connection it belongs to.                                  *)
UserKnowsChannels ==
  \A p \in Pilots :
    /\ told[p] \subseteq open[p]
    /\ state[p] \notin Connected => open[p] = {}
    /\ live[p] /\ state[p] # "ValidatingChannels" => told[p] = open[p]

(* ChannelsHandler looks channels up without checking that they exist:     *)
(* those the answers make a handler look up are there when it does, the    *)
(* ones the pilot has asked to close or to control as much as the ones it  *)
(* is given or is to release.                                              *)
LooksUp(p, m) ==
  LET Is(command, response) == m.command = command /\ m.response = response
  IN  CASE state[p] = "ValidatingChannels" /\ Is("CHANNELS_READY", "ACCEPTED") -> m.ids
        [] state[p] = "ClosingChannels" /\ Is("REMOVE_CHANNELS", "ACCEPTED")   -> arg[p]
        [] state[p] = "RequestingControl" /\ Is("CONTROL_READY", "ACCEPTED")   -> arg[p]
        [] state[p] = "ReleasingControl" /\ Is("CONTROL_RELEASED", "NONE")     -> arg[p]
        [] OTHER                                                              -> {}

NoMissingChannel ==
  \A p \in Pilots : live[p] /\ down[p] # <<>> => LooksUp(p, Head(down[p])) \subseteq open[p]

(* A pilot that believes it controls a channel is the one the facade has   *)
(* given it to: never do two pilots send control on one channel.           *)
ControlIsGranted == \A p \in Pilots : owned[p] \subseteq OwnedBy(p) \cap open[p]

(* The pilots treat each channel as a lock: over the four messages of a    *)
(* handover the old owner has let go before the new one takes control.     *)
Lock == INSTANCE ControlLock
        WITH holders <- [c \in Channels |-> {p \in Pilots : c \in owned[p]}]
ImplementsLock == Lock!Spec

(* An answer of the facade finds the pilot in the state that waits for it, *)
(* although answers name neither their request nor its channels: but for   *)
(* a rejected CONTROL_READY, which no state waits for.  What the facade    *)
(* asks may be dropped.                                                    *)
AnswersExpected ==
  \A p \in Pilots : live[p] /\ state[p] \in Connected /\ down[p] # <<>> =>
    LET m == Head(down[p])
    IN  m.response # "NONE" /\ m # Reject("CONTROL_READY") => Expected(state[p], m)

(* When a pilot rests in Operating and nothing is on its way, it and the   *)
(* facade agree on its channels and on those it controls.                  *)
Agreement ==
  \A p \in Pilots :
    state[p] = "Operating" /\ up[p] = <<>> /\ down[p] = <<>>
      => open[p] = granted[p] /\ owned[p] = OwnedBy(p)

(* Control of a channel that its owner's user has refused to release is    *)
(* not handed over.                                                        *)
RefusalHonoured ==
  \A p \in Pilots :
    handover.from = p /\ handover.stage \in {"agreed", "switching"}
      => handover.ids \cap refused[p] = {}
=============================================================================
