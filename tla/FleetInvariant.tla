-------------------------- MODULE FleetInvariant --------------------------
(***************************************************************************)
(* The inductive invariant of pilots and the facade they share: what may   *)
(* be on its way between them in which state, and what each side then      *)
(* knows of the pilots' channels and of who controls them.  FleetProofs    *)
(* shows that it is one, for any number of pilots and channels.            *)
(***************************************************************************)
EXTENDS Fleet, Queues

(* The types, without what they say of owned.                              *)
PilotTyped ==
  /\ state \in [Pilots -> States]
  /\ arg \in [Pilots -> SUBSET Channels]
  /\ open \in [Pilots -> SUBSET Channels]
  /\ owned \in [Pilots -> SUBSET Channels]
  /\ told \in [Pilots -> SUBSET Channels]
  /\ live \in [Pilots -> BOOLEAN]
  /\ linked \in [Pilots -> BOOLEAN]
  /\ up \in [Pilots -> Seq(Messages)]
  /\ down \in [Pilots -> Seq(Messages)]
  /\ asked \in [Pilots -> BOOLEAN]
  /\ refused \in [Pilots -> SUBSET Channels]
  /\ calls \in Counts

(* The facade's own variables keep theirs.                                 *)
Typed == PilotTyped /\ FacadeTypeOK

-----------------------------------------------------------------------------
(* The invariant.                                                          *)

(* Messages by what they are to the protocol.  To the facade: requests,    *)
(* which await an answer, and what a pilot says without awaiting one.      *)
Of(commands, responses) ==
  {m \in Messages : m.command \in commands /\ m.response \in responses}

Requested == Of({"SETUP", "CHANNELS_READY", "ADD_CHANNELS", "REMOVE_CHANNELS",
                 "REQUEST_CONTROL"}, {"NONE"})
IsReady == Of({"CONTROL_READY"}, {"NONE"})
Removed == Of({"REMOVE_CHANNELS"}, {"ACCEPTED"})
LetGo == Of({"CONTROL_RELEASED"}, {"ACCEPTED"})
Bye == Of({"RELEASE"}, {"ACCEPTED"})

(* To a pilot: the answers that end its wait, the one that does not, and   *)
(* what the facade may send at any time.                                   *)
Admits == Of({"SETUP"}, {"ACCEPTED"})
Validates == Of({"CHANNELS_READY"}, {"ACCEPTED"})
Adds == Of({"ADD_CHANNELS"}, {"ACCEPTED"})
Removes == Of({"REMOVE_CHANNELS"}, {"ACCEPTED"})
Gives == Of({"CONTROL_READY"}, {"ACCEPTED"})
Refuses == Of({"SETUP", "ADD_CHANNELS", "REMOVE_CHANNELS", "REQUEST_CONTROL"}, {"REJECTED"})
Final == Admits \cup Validates \cup Adds \cup Removes \cup Gives \cup Refuses
Agreed == Of({"REQUEST_CONTROL"}, {"ACCEPTED"})
Asking == Of({"RELEASE_CONTROL"}, {"NONE"})
Switch == Of({"CONTROL_RELEASED"}, {"NONE"})
Later == Asking \cup Switch \cup Of({"RELEASE"}, {"NONE"}) \cup {Reject("CONTROL_READY")}

(* The commands whose answer a state waits for.  A pilot that is released  *)
(* while it closes channels leaves that answer behind.                     *)
Waits(s) == CASE s = "Connecting"         -> {"SETUP"}
              [] s = "ValidatingChannels" -> {"CHANNELS_READY"}
              [] s = "OpeningChannels"    -> {"ADD_CHANNELS"}
              [] s = "ClosingChannels"    -> {"REMOVE_CHANNELS"}
              [] s = "Disconnecting"      -> {"REMOVE_CHANNELS"}
              [] s = "RequestingControl"  -> {"REQUEST_CONTROL", "CONTROL_READY"}
              [] OTHER                    -> {}
Waiting == {"Connecting", "ValidatingChannels", "OpeningChannels", "ClosingChannels",
            "RequestingControl"}

(* The messages of K on their way from p and to p.                         *)
Up(p, K) == ToSet(up[p]) \cap K
Down(p, K) == ToSet(down[p]) \cap K

(* The facade has taken up what p requested.                               *)
Answered(p) == Up(p, Requested) = {}

(* A pilot has at most one request on its way, that of its state, and says *)
(* little behind it; the link is there while it is connected.              *)
Asks(p) ==
  /\ After(up[p], Requested, IsReady \cup Bye)
  /\ After(up[p], Bye, {})
  /\ After(up[p], LetGo, Messages \ LetGo)
  /\ \A m \in Up(p, Requested) : /\ m.command \in Waits(state[p])
                                 /\ state[p] # "Disconnecting" => live[p] /\ m.ids = arg[p]
  /\ state[p] # "Disconnecting" => Up(p, Bye) = {}
  /\ state[p] \in Waiting /\ Answered(p) => ToSet(up[p]) \subseteq IsReady
  /\ state[p] = "Connecting" => ToSet(up[p]) \subseteq Requested
  /\ ~linked[p] => up[p] = <<>>
  /\ state[p] \in Connected => linked[p]
  /\ state[p] = "RequestingControl" => \E c \in Channels : arg[p] = {c}
  /\ live[p] \/ state[p] \in {"ValidatingChannels", "Disconnecting"}

(* An answer is on its way only when the request has been taken up, and to *)
(* a pilot that waits for it; nothing but Later messages follows it.       *)
Gets(p) ==
  /\ After(down[p], Final, Later)
  /\ Down(p, Final) # {} => Answered(p)
  /\ \A m \in Down(p, Final) : m.command \in Waits(state[p])
  /\ state[p] # "RequestingControl" => Down(p, Agreed) = {}
  /\ state[p] = "Disconnected" => down[p] = <<>> /\ ~linked[p]
  /\ ToSet(down[p]) \subseteq Final \cup Later \cup Agreed
  /\ Down(p, Admits) # {} => linked[p]

(* The messages of the handover in progress.                               *)
Tokens(p) ==
  /\ \A i \in Fresh(down[p], Asking, Final) :
        handover.from = p /\ down[p][i].ids = handover.ids
  /\ \A i \in Fresh(down[p], Switch, Final) :
        handover.from = p /\ handover.stage = "switching"
  /\ AtMostOne(Fresh(down[p], Asking, Final))
  /\ AtMostOne(Fresh(down[p], Switch, Final))

(* Of the two parties of a handover, the requester waits, and the owner    *)
(* has been asked, has agreed, is told to let go or has let go: each       *)
(* message of the handover belongs to the one in progress, although        *)
(* messages do not name it.                                                *)
Hands(p) ==
  /\ handover.to = p =>
       /\ state[p] = "RequestingControl" /\ handover.ids = arg[p]
       /\ Answered(p) /\ Down(p, Final) = {} /\ handover.ids \subseteq granted[p]
  /\ linked[p] => Tokens(p)
  /\ state[p] = "ReleasingControl" =>
       /\ handover.from = p /\ arg[p] = handover.ids
       /\ Fresh(down[p], Asking, Final) = {} /\ Up(p, LetGo) = {}
  /\ Up(p, LetGo) # {} =>
       /\ handover.from = p /\ handover.stage = "switching"
       /\ owned[p] \cap handover.ids = {}
       /\ Fresh(down[p], Asking, Final) = {} /\ Fresh(down[p], Switch, Final) = {}
  /\ handover.from = p => handover.ids \cap removing[p] = {} /\ handover.to # p

(* The channels of a pilot are those the facade has granted, but for those *)
(* that are being added or removed.                                        *)
Knows(p) ==
  /\ owned[p] \subseteq open[p] /\ told[p] \subseteq open[p]
  /\ state[p] \notin Connected => open[p] = {}
  /\ live[p] /\ state[p] # "ValidatingChannels" =>
       told[p] = open[p] /\ open[p] \subseteq granted[p]
  /\ live[p] /\ state[p] = "ValidatingChannels" =>
       open[p] = told[p] \cup arg[p] /\ told[p] \subseteq granted[p]
  /\ live[p] /\ state[p] # "Disconnecting" =>
       granted[p] \subseteq open[p] \cup IF Up(p, Removed) = {} THEN {} ELSE removing[p]
  /\ Up(p, Removed) # {} => open[p] \cap removing[p] = {}
  /\ Down(p, Removes) # {} /\ state[p] # "Disconnecting" =>
       removing[p] = arg[p] /\ arg[p] \subseteq granted[p]
  /\ \A m \in Down(p, Adds) : m.ids \cap (open[p] \cup granted[p]) = {}
  /\ Down(p, Validates) # {} => arg[p] \subseteq granted[p]
  /\ state[p] \in {"Connecting", "Disconnected"} \/ ~linked[p] =>
       granted[p] = {} /\ removing[p] = {}

(* What the facade takes p to control, p controls, is about to, or has     *)
(* just let go or removed.                                                 *)
Accounted(p, c) ==
  \/ c \in owned[p]
  \/ \E m \in Down(p, Validates) : c \in m.ids
  \/ Down(p, Gives) # {} /\ c \in arg[p]
  \/ Up(p, LetGo) # {} /\ c \in handover.ids
  \/ Up(p, Removed) # {} /\ c \in removing[p]

(* Nobody else controls what p takes itself to control.                    *)
Controls(p) ==
  /\ owned[p] \subseteq OwnedBy(p)
  /\ OwnedBy(p) \subseteq granted[p]
  /\ \A m \in Down(p, Validates) : m.ids \subseteq arg[p] \cap OwnedBy(p)
  /\ Down(p, Gives) # {} => arg[p] \subseteq OwnedBy(p)
  /\ live[p] /\ state[p] # "Disconnecting" => \A c \in OwnedBy(p) : Accounted(p, c)

(* The channels of a handover belong to the pilot they are to come from.   *)
Handover ==
  /\ \A c \in handover.ids : owner[c] = handover.from
  /\ handover.stage = "none" => handover = NoHandover
  /\ handover.stage # "none" => handover.to # Nobody
  /\ handover.from # Nobody => handover.ids # {}

(* What holds of each pilot, and of all: the inductive invariant.          *)
PilotInv(p) == Asks(p) /\ Gets(p) /\ Hands(p) /\ Knows(p) /\ Controls(p)

IInv == Typed /\ Handover /\ \A p \in Pilots : PilotInv(p)
=============================================================================
