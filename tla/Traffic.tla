------------------------------- MODULE Traffic -------------------------------
(***************************************************************************)
(* What a channel does with its socket: traffic::ChannelImpl on a          *)
(* TcpSocket, a TlsTcpSocket or a UdpSocket, from its validation to its    *)
(* end in backend::ChannelsHandler.                                        *)
(*                                                                         *)
(* Two threads take part, as in the example programs.  One runs the        *)
(* io_service: it opens and closes channels in handlers, in which it may   *)
(* block, and runs the completions of the sockets in between.  The other   *)
(* sends on the channels.  Nothing guards what the two share: where they   *)
(* meet, and where a completion finds its socket destroyed, the behaviour  *)
(* is undefined, and the program crashes or goes on as it should.          *)
(*                                                                         *)
(* The operating system and the remotes are external.                      *)
(***************************************************************************)
EXTENDS Naturals, Sequences, FiniteSets, SequencesExt, Functions

CONSTANTS Channels,
          NoChannel,
          Faults,       \* may connecting, sockets and links fail?
          MaxOpens,     \* bound: channels opened
          MaxPackets    \* bound: packets sent and arrived on those there are

ASSUME ChannelsAssumption == IsFiniteSet(Channels)
ASSUME NoChannelAssumption == NoChannel \notin Channels
ASSUME FaultsAssumption == Faults \in BOOLEAN
ASSUME BoundsAssumption == MaxOpens \in Nat /\ MaxPackets \in Nat

VARIABLES
  stage,       \* how far each channel is
  kind,        \* the class of its socket
  sendBuffer,  \* packets whose memory the socket holds
  readBuffer,  \* what was read and not yet handed over, read by read
  reading,     \* the asynchronous read of the socket
  sender,      \* the channel in whose send() the sending thread is
  thrown,      \* a handler has thrown: the client handles no more events
  crashed,     \* undefined behaviour has ended the program
  link,        \* system: the remote is there
  writes,      \* system: asynchronous writes in progress, in order
  wrote,       \* system: completions of writes that wait to be run
  inbox,       \* system: packets that arrived and were not read
  late,        \* system: completions that wait and whose socket is gone
  opens, given, arrived,  \* history: counters
  delivered    \* history: packets handed to the user's listener

client  == <<thrown, crashed, opens>>
sending == <<sendBuffer, writes, wrote, sender, given>>
receiving == <<readBuffer, reading, inbox, arrived, delivered>>
vars == <<stage, kind, client, sending, receiving, link, late>>

Kinds == {"TCP", "TLS", "UDP"}
InMap == {"connecting", "shaking", "connected", "asked", "abandoned", "open", "used"}
Opening == {"connecting", "shaking", "connected", "asked"}

(* What is sent on a channel is numbered from 1, and so is what arrives,   *)
(* the answer to the validation request included.  The request is 0.       *)
Packets == Nat \ {0}

TypeOK ==
  /\ stage \in [Channels -> InMap \cup {"absent"}]
  /\ kind \in [Channels -> Kinds]
  /\ sendBuffer \in [Channels -> Seq(Nat)]
  /\ readBuffer \in [Channels -> Seq(Seq(Packets))]
  /\ reading \in [Channels -> {"off", "waiting", "filled", "failed"}]
  /\ \A c \in Channels : /\ Len(readBuffer[c]) <= 1
                         /\ reading[c] # "off" => readBuffer[c] # <<>>
  /\ sender \in Channels \cup {NoChannel}
  /\ thrown \in BOOLEAN /\ crashed \in BOOLEAN
  /\ link \in [Channels -> BOOLEAN]
  /\ writes \in [Channels -> Seq(Packets)]
  /\ wrote \in [Channels -> Nat]
  /\ inbox \in [Channels -> Seq(Packets)]
  /\ late \in Nat
  /\ opens \in 0..MaxOpens
  /\ given \in [Channels -> Nat]
  /\ arrived \in [Channels -> Nat]
  /\ delivered \in [Channels -> Seq(Packets)]

Init == /\ stage = [c \in Channels |-> "absent"]
        /\ kind = [c \in Channels |-> "TCP"]
        /\ sendBuffer = [c \in Channels |-> <<>>]
        /\ readBuffer = [c \in Channels |-> <<>>]
        /\ reading = [c \in Channels |-> "off"]
        /\ sender = NoChannel
        /\ thrown = FALSE /\ crashed = FALSE
        /\ link = [c \in Channels |-> FALSE]
        /\ writes = [c \in Channels |-> <<>>]
        /\ wrote = [c \in Channels |-> 0]
        /\ inbox = [c \in Channels |-> <<>>]
        /\ late = 0
        /\ opens = 0
        /\ given = [c \in Channels |-> 0]
        /\ arrived = [c \in Channels |-> 0]
        /\ delivered = [c \in Channels |-> <<>>]

-----------------------------------------------------------------------------
(* The thread of the io_service blocks in a handler that opens a channel.  *)
Blocked == \E c \in Channels : stage[c] \in Opening
Idle == ~crashed /\ ~Blocked

Total(f) == FoldFunction(+, 0, f)

Reach(c, s) == stage' = [stage EXCEPT ![c] = s]

(* The handler ends with an exception; the channel stays in the map.       *)
Abandon(c) == /\ Faults
              /\ Reach(c, "abandoned")
              /\ thrown' = TRUE
              /\ UNCHANGED <<crashed, opens>>

(* Both threads use a std::deque: both are inside it.                      *)
BufferRace(c) == sender = c

(* send() and the read share the engine of an ssl::stream.                 *)
EngineRace(c) == kind[c] = "TLS" /\ sender = c

(* send() reads remoteEndpoint, each receive writes it.                    *)
EndpointRace(c) == kind[c] = "UDP" /\ sender = c

MayCrash(race) == /\ crashed' \in IF race THEN BOOLEAN ELSE {FALSE}
                  /\ UNCHANGED <<thrown, opens>>

(* The channels C leave the map, which destroys their sockets.  Operations *)
(* in progress are aborted; the completion of a write uses the socket      *)
(* nevertheless, that of a read only if it had succeeded.                  *)
Completions(c) == Len(writes[c]) + wrote[c] + (IF reading[c] = "filled" THEN 1 ELSE 0)
AllCompletions(C) == UNION {{c} \X (1..Completions(c)) : c \in C}

Erased(f, C, value) == [c \in Channels |-> IF c \in C THEN value ELSE f[c]]

Erase(C, moreLate) ==
  /\ stage' = Erased(stage, C, "absent")
  /\ link' = Erased(link, C, FALSE)
  /\ sendBuffer' = Erased(sendBuffer, C, <<>>)
  /\ writes' = Erased(writes, C, <<>>)
  /\ wrote' = Erased(wrote, C, 0)
  /\ given' = Erased(given, C, 0)
  /\ readBuffer' = Erased(readBuffer, C, <<>>)
  /\ reading' = Erased(reading, C, "off")
  /\ inbox' = Erased(inbox, C, <<>>)
  /\ arrived' = Erased(arrived, C, 0)
  /\ delivered' = Erased(delivered, C, <<>>)
  /\ late' = late + moreLate
  /\ UNCHANGED <<kind, sender>>

(* What one read of a socket may take: a datagram, or what has arrived of  *)
(* a stream, up to a point.                                                *)
Portions(c) == IF kind[c] = "UDP" THEN {1} ELSE 1..Len(inbox[c])

Prefix(s, n) == SubSeq(s, 1, n)
Rest(s, n) == SubSeq(s, n + 1, Len(s))

-----------------------------------------------------------------------------
(* Defective variants of the operations, for checking that the properties  *)
(* below can tell them from the code.                                      *)

\* The packet appended last is released, not the one written.
ReleasePacketLast(c) == sendBuffer' = [sendBuffer EXCEPT ![c] = Front(@)]

\* The buffer of the last read stays in front.
ReadDoneKeepsBuffer(c) ==
  /\ Idle
  /\ reading[c] = "filled"
  /\ delivered' = [delivered EXCEPT ![c] = IF stage[c] = "used" THEN @ \o Head(readBuffer[c]) ELSE @]
  /\ readBuffer' = [readBuffer EXCEPT ![c] = Append(@, <<>>)]
  /\ reading' = [reading EXCEPT ![c] = "waiting"]
  /\ MayCrash(EngineRace(c) \/ EndpointRace(c))
  /\ UNCHANGED <<stage, kind, sending, inbox, arrived, link, late>>

\* The next read is not started.
ReadDoneOnce(c) ==
  /\ Idle
  /\ reading[c] = "filled"
  /\ delivered' = [delivered EXCEPT ![c] = IF stage[c] = "used" THEN @ \o Head(readBuffer[c]) ELSE @]
  /\ readBuffer' = [readBuffer EXCEPT ![c] = <<>>]
  /\ reading' = [reading EXCEPT ![c] = "off"]
  /\ MayCrash(EngineRace(c) \/ EndpointRace(c))
  /\ UNCHANGED <<stage, kind, sending, inbox, arrived, link, late>>

\* A read that fails is tried again.
ReadAnswerRetries(c) == /\ stage[c] = "asked" /\ inbox[c] = <<>>
                        /\ ~link[c] /\ kind[c] # "UDP"
                        /\ UNCHANGED vars

-----------------------------------------------------------------------------
(* Opening a channel: ChannelsHandler::validateChannels for each channel,  *)
(* ChannelImpl::open.                                                      *)

(* The facade says which socket is to be built.  For an encrypted UDP      *)
(* channel there is none.                                                  *)
BuildSocket(c) ==
  /\ Idle /\ ~thrown
  /\ stage[c] = "absent"
  /\ opens < MaxOpens
  /\ opens' = opens + 1
  /\ \/ /\ \E k \in Kinds : kind' = [kind EXCEPT ![c] = k]
        /\ Reach(c, "connecting")
        /\ UNCHANGED thrown
     \/ /\ Faults
        /\ thrown' = TRUE
        /\ UNCHANGED <<stage, kind>>
  /\ UNCHANGED <<crashed, sending, receiving, link, late>>

ConnectTo(c, next) ==
  /\ ~crashed
  /\ \/ /\ Reach(c, next)
        /\ link' = [link EXCEPT ![c] = TRUE]
        /\ UNCHANGED client
     \/ Abandon(c) /\ UNCHANGED link
  /\ UNCHANGED <<kind, sending, receiving, late>>

ConnectTcp(c) == stage[c] = "connecting" /\ kind[c] = "TCP" /\ ConnectTo(c, "connected")

ConnectTls(c) == stage[c] = "connecting" /\ kind[c] = "TLS" /\ ConnectTo(c, "shaking")

Handshake(c) == /\ ~crashed
                /\ stage[c] = "shaking"
                /\ \/ link[c] /\ Reach(c, "connected") /\ UNCHANGED client
                   \/ Abandon(c)
                /\ UNCHANGED <<kind, sending, receiving, link, late>>

(* Only the name is resolved.                                              *)
ResolveUdp(c) == stage[c] = "connecting" /\ kind[c] = "UDP" /\ ConnectTo(c, "connected")

(* sendBlocking: a packet that was not sent whole stays in the buffer.     *)
SendRequest(c) ==
  /\ ~crashed
  /\ stage[c] = "connected"
  /\ \/ /\ Reach(c, "asked")
        /\ UNCHANGED <<sendBuffer, client>>
     \/ /\ Abandon(c)
        /\ sendBuffer' = [sendBuffer EXCEPT ![c] = Append(@, 0)]
  /\ UNCHANGED <<kind, writes, wrote, sender, given, receiving, link, late>>

(* readBlocking returns n packets, or a part of the answer.  What it says, *)
(* or what a message that did not parse happens to hold, decides.          *)
ReadAnswer(c) ==
  /\ ~crashed
  /\ stage[c] = "asked" /\ inbox[c] # <<>>
  /\ \E n \in Portions(c) \cup (IF kind[c] = "UDP" THEN {} ELSE {0}) :
       LET rest == Rest(inbox[c], n)
       IN \/ /\ Reach(c, "open")
             /\ inbox' = [inbox EXCEPT ![c] = rest]
             /\ readBuffer' = [readBuffer EXCEPT ![c] = <<<<>>>>]
             /\ reading' = [reading EXCEPT ![c] = "waiting"]
             /\ UNCHANGED <<kind, sending, arrived, delivered, link, late>>
          \/ \E n0 \in {0, IF rest = <<>> THEN 0 ELSE 1} : Erase({c}, n0)
  /\ UNCHANGED client

(* readBlocking throws, which open() catches.  That the remote of a UDP   *)
(* socket is gone is not noticed.                                          *)
ReadAnswerFails(c) == /\ ~crashed
                      /\ stage[c] = "asked" /\ inbox[c] = <<>>
                      /\ ~link[c] /\ kind[c] # "UDP"
                      /\ Erase({c}, 0)
                      /\ UNCHANGED client

(* The user is told of the channel, and sets its listener.                 *)
SetListener(c) == /\ Idle /\ ~thrown
                  /\ stage[c] = "open"
                  /\ Reach(c, "used")
                  /\ UNCHANGED <<kind, client, sending, receiving, link, late>>

(* closeChannels and closeAllChannels, of channels the user knows.         *)
(* onClosed waits for the sending thread to leave the channels, and takes  *)
(* them from it.                                                           *)
Close(C) == /\ Idle /\ ~thrown
            /\ C # {}
            /\ \A c \in C : stage[c] = "used"
            /\ sender = NoChannel
            /\ Erase(C, Cardinality(AllCompletions(C)))
            /\ UNCHANGED client

-----------------------------------------------------------------------------
(* Sending.  The buffer is filled, then the write is started.              *)
Send(c) == /\ ~crashed
           /\ stage[c] = "used" /\ sender = NoChannel
           /\ Total(given) + Total(arrived) < MaxPackets
           /\ given' = [given EXCEPT ![c] = @ + 1]
           /\ sendBuffer' = [sendBuffer EXCEPT ![c] = Append(@, given[c] + 1)]
           /\ sender' = c
           /\ UNCHANGED <<stage, kind, client, writes, wrote, receiving, link, late>>

StartWrite(c) == /\ ~crashed
                 /\ sender = c
                 /\ writes' = [writes EXCEPT ![c] = Append(@, Last(sendBuffer[c]))]
                 /\ sender' = NoChannel
                 /\ UNCHANGED <<stage, kind, client, sendBuffer, wrote, given,
                                receiving, link, late>>

(* The system has taken the packet, a part of it, or given up.             *)
Write(c) == /\ ~crashed
            /\ writes[c] # <<>>
            /\ writes' = [writes EXCEPT ![c] = Tail(@)]
            /\ wrote' = [wrote EXCEPT ![c] = @ + 1]
            /\ UNCHANGED <<stage, kind, client, sendBuffer, sender, given,
                           receiving, link, late>>

ReleasePacket(c) == sendBuffer' = [sendBuffer EXCEPT ![c] = Tail(@)]

WriteDone(c) == /\ Idle
                /\ wrote[c] > 0
                /\ wrote' = [wrote EXCEPT ![c] = @ - 1]
                /\ ReleasePacket(c)
                /\ MayCrash(BufferRace(c))
                /\ UNCHANGED <<stage, kind, writes, sender, given, receiving,
                               link, late>>

-----------------------------------------------------------------------------
(* Receiving.                                                              *)

(* On a stream the answer comes first.  Datagrams that are lost or overtake *)
(* each other, or the answer, on their way are numbered as they arrive.    *)
Arrive(c) == /\ ~crashed
             /\ link[c]
             /\ stage[c] \in {"asked", "open", "used"}
             /\ Total(given) + Total(arrived) < MaxPackets
             /\ arrived' = [arrived EXCEPT ![c] = @ + 1]
             /\ inbox' = [inbox EXCEPT ![c] = Append(@, arrived'[c])]
             /\ UNCHANGED <<stage, kind, client, sending, readBuffer, reading,
                            delivered, link, late>>

Read(c) == /\ ~crashed
           /\ reading[c] = "waiting"
           /\ \/ /\ inbox[c] # <<>>
                 /\ \E n \in Portions(c) :
                      /\ readBuffer' = [readBuffer EXCEPT ![c] =
                                          Append(Front(@), Prefix(inbox[c], n))]
                      /\ inbox' = [inbox EXCEPT ![c] = Rest(@, n)]
                 /\ reading' = [reading EXCEPT ![c] = "filled"]
              \/ /\ inbox[c] = <<>> /\ ~link[c] /\ kind[c] # "UDP"
                 /\ reading' = [reading EXCEPT ![c] = "failed"]
                 /\ UNCHANGED <<readBuffer, inbox>>
           /\ UNCHANGED <<stage, kind, client, sending, arrived, delivered,
                          link, late>>

(* What was read is handed over, to nobody before there is a listener, and *)
(* the next read is started.                                               *)
ReadDone(c) ==
  /\ Idle
  /\ reading[c] = "filled"
  /\ delivered' = [delivered EXCEPT ![c] =
                     IF stage[c] = "used" THEN @ \o Head(readBuffer[c]) ELSE @]
  /\ readBuffer' = [readBuffer EXCEPT ![c] = Append(Tail(@), <<>>)]
  /\ reading' = [reading EXCEPT ![c] = "waiting"]
  /\ MayCrash(EngineRace(c) \/ EndpointRace(c))
  /\ UNCHANGED <<stage, kind, sending, inbox, arrived, link, late>>

(* The error is printed; nobody is told, and the buffer stays.             *)
ReadFailed(c) == /\ Idle
                 /\ reading[c] = "failed"
                 /\ reading' = [reading EXCEPT ![c] = "off"]
                 /\ UNCHANGED <<stage, kind, client, sending, readBuffer, inbox,
                                arrived, delivered, link, late>>

-----------------------------------------------------------------------------
(* A completion finds that its socket is gone.                             *)
LateCompletion == /\ Idle
                  /\ late > 0
                  /\ late' = late - 1
                  /\ MayCrash(TRUE)
                  /\ UNCHANGED <<stage, kind, sending, receiving, link>>

Break(c) == /\ Faults /\ ~crashed
            /\ link[c]
            /\ link' = [link EXCEPT ![c] = FALSE]
            /\ UNCHANGED <<stage, kind, client, sending, receiving, late>>

Open(c) == \/ BuildSocket(c) \/ ConnectTcp(c) \/ ConnectTls(c) \/ Handshake(c)
           \/ ResolveUdp(c) \/ SendRequest(c) \/ ReadAnswer(c) \/ ReadAnswerFails(c)

Next == \/ \E c \in Channels :
             \/ Open(c) \/ SetListener(c)
             \/ Send(c) \/ StartWrite(c) \/ Write(c) \/ WriteDone(c)
             \/ Arrive(c) \/ Read(c) \/ ReadDone(c) \/ ReadFailed(c)
             \/ Break(c)
        \/ \E C \in SUBSET Channels : Close(C)
        \/ LateCompletion

(* The calls that a handler blocks in while it opens a channel return: the *)
(* system says whether it could connect and send, and a read and a         *)
(* handshake end when there is something to read or the remote is gone.    *)
Returns(c) == \/ ConnectTcp(c) \/ ConnectTls(c) \/ ResolveUdp(c)
              \/ Handshake(c) /\ ~link[c]
              \/ SendRequest(c) \/ ReadAnswer(c) \/ ReadAnswerFails(c)

(* The system performs what was started, which a remote that is there does *)
(* not hold up by taking nothing, and the threads run what is ready.  That *)
(* a remote completes the handshake or answers is not assumed.             *)
Fairness == \A c \in Channels : /\ WF_vars(Returns(c))
                                /\ WF_vars(StartWrite(c))
                                /\ WF_vars(Write(c)) /\ WF_vars(WriteDone(c))
                                /\ WF_vars(Read(c)) /\ WF_vars(ReadDone(c))

Spec == Init /\ [][Next]_vars
FairSpec == Spec /\ Fairness

-----------------------------------------------------------------------------
(* The memory of a packet is held until the system has written it: send()  *)
(* hands out the address of the buffer it appended, and each completion    *)
(* releases the buffer in front, whichever write it belongs to.            *)
PacketsHeld ==
  ~crashed => \A c \in Channels : ToSet(writes[c]) \subseteq ToSet(sendBuffer[c])

BeingRead(c) == IF readBuffer[c] = <<>> THEN <<>> ELSE Head(readBuffer[c])
Stream(c) == (delivered[c] \o BeingRead(c)) \o inbox[c]

(* What the listener of a channel is given, what was read and what is      *)
(* still to be read follow each other without a gap, a repetition or a     *)
(* change of order, although reads end anywhere in a stream.               *)
ReceivedInOrder ==
  \A c \in Channels :
    stage[c] = "used" /\ ~crashed
      => \A i \in 1..(Len(Stream(c)) - 1) : Stream(c)[i + 1] = Stream(c)[i] + 1

(* The thread of the io_service waits for a remote that is there and says  *)
(* nothing; that the remote of a UDP socket is gone cannot be told.        *)
Silent(c) == \/ stage[c] = "shaking" /\ link[c]
             \/ stage[c] = "asked" /\ inbox[c] = <<>> /\ (link[c] \/ kind[c] = "UDP")

(* Nothing but the silence of its remote keeps a handler in the opening of *)
(* a channel for ever: an answer in pieces, one that overtakes or follows  *)
(* other packets, a refusal and a connection that breaks at any point all  *)
(* end it, with the channel opened, forgotten or given up.                 *)
HandlersReturn ==
  \A c \in Channels : stage[c] \in Opening ~> stage[c] \notin Opening \/ []Silent(c)

(* Every packet sent is written or given up and its memory released, and   *)
(* every packet that arrives is read, unless the channel is closed or a    *)
(* remote that stays silent keeps the thread of the io_service waiting.    *)
TrafficSettles ==
  \A c \in Channels :
    stage[c] = "used" /\ (sendBuffer[c] # <<>> \/ inbox[c] # <<>>)
      ~> \/ stage[c] # "used" \/ crashed
         \/ sendBuffer[c] = <<>> /\ inbox[c] = <<>>
         \/ \E d \in Channels : []Silent(d)
=============================================================================
