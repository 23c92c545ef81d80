--------------------------- MODULE TrafficProofs ---------------------------
(***************************************************************************)
(* Proofs about channels and their sockets that hold for every number of   *)
(* channels and packets: the types, the memory of what is written, and the *)
(* order of what is received.                                              *)
(***************************************************************************)
EXTENDS Traffic, SequenceTheorems, FiniteSetTheorems, TLAPS

(* What the socket c holds for its writes: a packet in front for each      *)
(* completed write that is not yet handled, then one for each write in     *)
(* progress, in order, then the one whose write the sending thread is      *)
(* about to start. That, and not that the packets in progress are among    *)
(* those held, is what a step keeps: a completion releases the packet in   *)
(* front, which has to be the one of its write. Only a channel in use is   *)
(* sent on; a request that failed leaves its packet in an abandoned        *)
(* channel.                                                                *)
Sending(c) ==
  /\ stage[c] # "used" => writes[c] = <<>> /\ wrote[c] = 0 /\ sender # c
  /\ stage[c] # "abandoned" =>
       Len(sendBuffer[c]) = wrote[c] + Len(writes[c]) + (IF sender = c THEN 1 ELSE 0)
  /\ \A i \in 1..Len(writes[c]) :
       wrote[c] + i \in 1..Len(sendBuffer[c]) /\ sendBuffer[c][wrote[c] + i] = writes[c][i]
  /\ sender = c => Last(sendBuffer[c]) \in Packets

(* The read of the socket c has one buffer, empty while the read waits;    *)
(* before the channel is open there is none, and nothing is handed over    *)
(* before there is a listener.                                             *)
Reading(c) ==
  /\ Len(readBuffer[c]) <= 1
  /\ reading[c] # "off" => readBuffer[c] # <<>>
  /\ reading[c] = "waiting" => readBuffer[c] = << <<>> >>
  /\ stage[c] \notin {"open", "used"} => reading[c] = "off" /\ readBuffer[c] = <<>>
  /\ stage[c] # "used" => delivered[c] = <<>>

(* Both hold of every channel: what the types rest on.                     *)
SendInv == \A c \in Channels : Sending(c)
ReadInv == \A c \in Channels : Reading(c)
(* The inductive invariant of the types and of the packets held.           *)
TypeInv == TypeOK /\ SendInv /\ ReadInv

(* It holds initially.                                                     *)
LEMMA InitTypeInv == Init => TypeInv
<1> SUFFICES ASSUME Init PROVE TypeInv
  OBVIOUS
<1>1. TypeOK
  <2>1. /\ sendBuffer \in [Channels -> Seq(Nat)]
        /\ readBuffer \in [Channels -> Seq(Seq(Packets))]
        /\ writes \in [Channels -> Seq(Packets)]
        /\ inbox \in [Channels -> Seq(Packets)]
        /\ delivered \in [Channels -> Seq(Packets)]
    BY EmptySeq DEF Init
  <2>2. \A c \in Channels : Len(readBuffer[c]) = 0 /\ reading[c] = "off"
    BY EmptySeq DEF Init
  <2>3. /\ thrown \in BOOLEAN /\ crashed \in BOOLEAN
        /\ link \in [Channels -> BOOLEAN]
    BY DEF Init
  <2>4. stage \in [Channels -> InMap \cup {"absent"}] /\ kind \in [Channels -> Kinds]
    BY DEF Init, InMap, Kinds
  <2> QED
    BY <2>1, <2>2, <2>3, <2>4, BoundsAssumption DEF Init, TypeOK
<1>2. SendInv
  <2> SUFFICES ASSUME NEW c \in Channels PROVE Sending(c)
    BY DEF SendInv
  <2>1. /\ stage[c] = "absent" /\ writes[c] = <<>> /\ wrote[c] = 0 /\ sender = NoChannel
        /\ sendBuffer[c] = <<>>
    BY DEF Init
  <2>2. sender # c
    BY <2>1, NoChannelAssumption
  <2>3. Len(<<>>) = 0 /\ 1..0 = {}
    BY EmptySeq
  <2> QED
    BY <2>1, <2>2, <2>3 DEF Sending
<1>3. ReadInv
  BY EmptySeq DEF Init, ReadInv, Reading
<1> QED
  BY <1>1, <1>2, <1>3 DEF TypeInv

(* The completions left over by the channels that are closed can be        *)
(* counted.                                                                *)
LEMMA CompletionsType ==
  ASSUME TypeOK, NEW C \in SUBSET Channels
  PROVE  Cardinality(AllCompletions(C)) \in Nat
<1> DEFINE f == [c \in C |-> {c} \X (1..Completions(c))]
           T == {{c} \X (1..Completions(c)) : c \in C}
<1>1. \A c \in C : Completions(c) \in Nat
  <2> SUFFICES ASSUME NEW c \in C PROVE Completions(c) \in Nat
    OBVIOUS
  <2>1. writes[c] \in Seq(Packets) /\ wrote[c] \in Nat
    BY DEF TypeOK
  <2> QED
    BY <2>1, LenProperties DEF Completions
<1>2. \A c \in C : IsFiniteSet({c} \X (1..Completions(c)))
  <2> SUFFICES ASSUME NEW c \in C PROVE IsFiniteSet({c} \X (1..Completions(c)))
    OBVIOUS
  <2>1. IsFiniteSet({c})
    BY FS_Singleton
  <2>2. IsFiniteSet(1..Completions(c))
    BY <1>1, FS_Interval
  <2> QED
    BY <2>1, <2>2, FS_Product
<1>3. IsFiniteSet(C)
  BY ChannelsAssumption, FS_Subset
<1>4. IsFiniteSet(T)
  <2>1. f \in Surjection(C, T)
    BY DEF Surjection
  <2> QED
    BY <1>3, <2>1, FS_Surjection
<1>5. IsFiniteSet(UNION T)
  BY <1>2, <1>4, FS_UNION
<1> QED
  BY <1>5, FS_CardinalityType DEF AllCompletions

(* Taking channels from the map keeps the invariant, if the sending        *)
(* thread is in none of them.                                              *)
LEMMA EraseTypeInv ==
  ASSUME TypeInv, NEW C \in SUBSET Channels, NEW n \in Nat, Erase(C, n), sender \notin C,
         UNCHANGED client
  PROVE  TypeInv'
<1> USE DEF Erased, Erase
<1>1. /\ sendBuffer' \in [Channels -> Seq(Nat)]
      /\ readBuffer' \in [Channels -> Seq(Seq(Packets))]
      /\ writes' \in [Channels -> Seq(Packets)]
      /\ inbox' \in [Channels -> Seq(Packets)]
      /\ delivered' \in [Channels -> Seq(Packets)]
  BY EmptySeq DEF TypeInv, TypeOK
<1>2. /\ reading' \in [Channels -> {"off", "waiting", "filled", "failed"}]
      /\ stage' \in [Channels -> InMap \cup {"absent"}]
  BY DEF TypeInv, TypeOK
<1>3. /\ wrote' \in [Channels -> Nat]
      /\ given' \in [Channels -> Nat] /\ arrived' \in [Channels -> Nat]
      /\ late' \in Nat
  BY DEF TypeInv, TypeOK
<1>4. link' \in [Channels -> BOOLEAN]
  BY DEF TypeInv, TypeOK
<1>5. ASSUME NEW c \in Channels PROVE Sending(c)' /\ Reading(c)'
  <2>1. CASE c \in C
    <3>1. /\ stage'[c] = "absent" /\ writes'[c] = <<>> /\ wrote'[c] = 0 /\ sender' # c
          /\ sendBuffer'[c] = <<>> /\ reading'[c] = "off" /\ readBuffer'[c] = <<>>
          /\ delivered'[c] = <<>>
      BY <2>1
    <3>2. Len(<<>>) = 0
      BY EmptySeq
    <3> QED
      BY <3>1, <3>2 DEF Sending, Reading
  <2>2. CASE c \notin C
    <3>1. /\ stage'[c] = stage[c] /\ writes'[c] = writes[c] /\ wrote'[c] = wrote[c]
          /\ sender' = sender /\ sendBuffer'[c] = sendBuffer[c] /\ reading'[c] = reading[c]
          /\ readBuffer'[c] = readBuffer[c] /\ delivered'[c] = delivered[c]
      BY <2>2
    <3>2. Sending(c) /\ Reading(c)
      BY DEF TypeInv, SendInv, ReadInv
    <3> QED
      BY <3>1, <3>2 DEF Sending, Reading
  <2> QED
    BY <2>1, <2>2
<1>6. \A c \in Channels : /\ Len(readBuffer'[c]) <= 1
                          /\ reading'[c] # "off" => readBuffer'[c] # <<>>
  BY <1>5 DEF Reading
<1>7. /\ thrown' \in BOOLEAN /\ crashed' \in BOOLEAN
  BY DEF TypeInv, TypeOK, client
<1>8. /\ opens' \in 0..MaxOpens /\ sender' \in Channels \cup {NoChannel}
      /\ kind' \in [Channels -> Kinds]
  BY DEF TypeInv, TypeOK, client
<1> HIDE DEF Erased, Erase
<1>9. TypeOK'
  BY <1>1, <1>2, <1>3, <1>4, <1>6, <1>7, <1>8 DEF TypeOK
<1> QED
  BY <1>5, <1>9 DEF TypeInv, SendInv, ReadInv

-----------------------------------------------------------------------------
(* Steps on one channel.                                                   *)

(* The step leaves the socket d and what is done on it alone.              *)
Same(d) ==
  /\ stage'[d] = stage[d] /\ sendBuffer'[d] = sendBuffer[d] /\ writes'[d] = writes[d]
  /\ wrote'[d] = wrote[d] /\ (sender' = d <=> sender = d)
  /\ readBuffer'[d] = readBuffer[d] /\ reading'[d] = reading[d]
  /\ delivered'[d] = delivered[d]

(* A step on one channel keeps the invariant if it keeps it there.         *)
LEMMA OthersKept ==
  ASSUME TypeInv, NEW c \in Channels, \A d \in Channels : d # c => Same(d),
         Sending(c)', Reading(c)'
  PROVE  SendInv' /\ ReadInv'
<1>1. ASSUME NEW d \in Channels, d # c PROVE Sending(d)' /\ Reading(d)'
  <2>1. Sending(d) /\ Reading(d) /\ Same(d)
    BY <1>1 DEF TypeInv, SendInv, ReadInv
  <2> QED
    BY <2>1 DEF Same, Sending, Reading
<1> QED
  BY <1>1 DEF SendInv, ReadInv

(* So does a step that only takes a channel further.                       *)
LEMMA StageMove ==
  ASSUME TypeInv, NEW c \in Channels, NEW s,
         stage[c] \notin {"used", "abandoned"}, s # "open", s = "used" => stage[c] = "open",
         stage[c] = "open" => s = "used",
         stage' = [stage EXCEPT ![c] = s], UNCHANGED <<sending, receiving>>
  PROVE  SendInv' /\ ReadInv'
<1>1. Sending(c) /\ Reading(c)
  BY DEF TypeInv, SendInv, ReadInv
<1>2. stage'[c] = s /\ \A d \in Channels : d # c => stage'[d] = stage[d]
  BY DEF TypeInv, TypeOK
<1>3. Sending(c)' /\ Reading(c)'
  BY <1>1, <1>2 DEF Sending, Reading, sending, receiving
<1>4. \A d \in Channels : d # c => Same(d)
  BY <1>2 DEF Same, sending, receiving
<1> QED
  BY <1>3, <1>4, OthersKept

(* Opening a channel keeps the invariant.                                  *)
LEMMA OpenTypeInv ==
  ASSUME TypeInv, NEW c \in Channels, Open(c)
  PROVE  TypeInv'
<1> USE DEF TypeInv
<1>1. ASSUME stage' \in [Channels -> InMap \cup {"absent"}], kind' \in [Channels -> Kinds],
             thrown' \in BOOLEAN, link' \in [Channels -> BOOLEAN], opens' \in 0..MaxOpens,
             UNCHANGED <<crashed, receiving, late, writes, wrote, sender, given>>,
             sendBuffer' \in [Channels -> Seq(Nat)]
      PROVE  TypeOK'
  <2>1. crashed' \in BOOLEAN
    BY <1>1 DEF TypeOK
  <2> QED
    BY <1>1, <2>1 DEF TypeOK, receiving
<1>2. ASSUME NEW s \in InMap, stage' = [stage EXCEPT ![c] = s]
      PROVE  stage' \in [Channels -> InMap \cup {"absent"}]
  BY <1>2 DEF TypeOK
<1>3. CASE BuildSocket(c)
  <2>1. /\ stage[c] = "absent" /\ opens < MaxOpens /\ opens' = opens + 1
        /\ UNCHANGED <<crashed, sending, receiving, link, late>>
    BY <1>3 DEF BuildSocket
  <2>2. opens' \in 0..MaxOpens
    BY <2>1, BoundsAssumption DEF TypeOK
  <2>3. link' \in [Channels -> BOOLEAN]
    BY <2>1 DEF TypeOK
  <2>4. sendBuffer' \in [Channels -> Seq(Nat)] /\ UNCHANGED <<writes, wrote, sender, given>>
    BY <2>1 DEF TypeOK, sending
  <2>5. CASE Reach(c, "connecting")
    <3>1. UNCHANGED thrown /\ \E k \in Kinds : kind' = [kind EXCEPT ![c] = k]
      <4>1. stage' # stage
        BY <2>1, <2>5 DEF Reach, TypeOK
      <4> QED
        BY <1>3, <4>1 DEF BuildSocket
    <3>2. kind' \in [Channels -> Kinds]
      BY <3>1 DEF TypeOK
    <3>3. thrown' \in BOOLEAN
      BY <3>1 DEF TypeOK
    <3>4. stage' \in [Channels -> InMap \cup {"absent"}]
      BY <1>2, <2>5 DEF Reach, InMap
    <3>5. SendInv' /\ ReadInv'
      BY <2>1, <2>5, StageMove DEF Reach
    <3> QED
      BY <1>1, <2>1, <2>2, <2>3, <2>4, <3>2, <3>3, <3>4, <3>5
  <2>6. CASE thrown' = TRUE /\ UNCHANGED <<stage, kind>>
    <3>1. /\ kind' \in [Channels -> Kinds]
          /\ stage' \in [Channels -> InMap \cup {"absent"}]
      BY <2>6 DEF TypeOK
    <3>2. SendInv' /\ ReadInv'
      BY <2>1, <2>6 DEF SendInv, ReadInv, Sending, Reading, sending, receiving
    <3>3. thrown' \in BOOLEAN
      BY <2>6
    <3> QED
      BY <1>1, <2>1, <2>2, <2>3, <2>4, <3>1, <3>2, <3>3
  <2> QED
    BY <1>3, <2>5, <2>6 DEF BuildSocket
<1>4. ASSUME NEW s \in InMap, stage' = [stage EXCEPT ![c] = s],
             stage[c] \in Opening, s \notin {"open", "used"},
             thrown' = TRUE \/ UNCHANGED thrown,
             UNCHANGED <<crashed, kind, sending, receiving, late, opens>>,
             link' \in {link, [link EXCEPT ![c] = TRUE]}
      PROVE  TypeInv'
  <2>1. SendInv' /\ ReadInv'
    BY <1>4, StageMove DEF Opening
  <2>2. link' \in [Channels -> BOOLEAN]
    BY <1>4 DEF TypeOK
  <2>3. thrown' \in BOOLEAN
    BY <1>4 DEF TypeOK
  <2>4. /\ stage' \in [Channels -> InMap \cup {"absent"}] /\ kind' \in [Channels -> Kinds]
        /\ opens' \in 0..MaxOpens /\ sendBuffer' \in [Channels -> Seq(Nat)]
        /\ UNCHANGED <<writes, wrote, sender, given>>
    BY <1>2, <1>4 DEF TypeOK, sending
  <2> QED
    BY <1>1, <1>4, <2>1, <2>2, <2>3, <2>4
<1>5. ASSUME NEW s \in {"connected", "shaking"}, ConnectTo(c, s), stage[c] = "connecting"
      PROVE  TypeInv'
  BY <1>4, <1>5 DEF ConnectTo, Abandon, Reach, InMap, Opening, client
<1>6. CASE ConnectTcp(c) \/ ConnectTls(c) \/ ResolveUdp(c)
  BY <1>5, <1>6 DEF ConnectTcp, ConnectTls, ResolveUdp
<1>7. CASE Handshake(c)
  BY <1>4, <1>7 DEF Handshake, Abandon, Reach, InMap, Opening, client
<1>8. CASE SendRequest(c)
  <2>1. CASE Reach(c, "asked") /\ UNCHANGED <<sendBuffer, client>>
    BY <1>4, <1>8, <2>1 DEF SendRequest, Reach, InMap, Opening, client, sending
  <2>2. CASE Abandon(c) /\ sendBuffer' = [sendBuffer EXCEPT ![c] = Append(@, 0)]
    <3>1. /\ stage[c] = "connected" /\ stage' = [stage EXCEPT ![c] = "abandoned"]
          /\ UNCHANGED <<crashed, opens, kind, writes, wrote, sender, given, receiving, link, late>>
      BY <1>8, <2>2 DEF SendRequest, Abandon, Reach
    <3>2. sendBuffer' \in [Channels -> Seq(Nat)]
      BY <2>2 DEF TypeOK
    <3>3. thrown' \in BOOLEAN
      BY <2>2 DEF Abandon
    <3>4. /\ link' \in [Channels -> BOOLEAN] /\ opens' \in 0..MaxOpens /\ kind' \in [Channels -> Kinds]
          /\ stage' \in [Channels -> InMap \cup {"absent"}]
      BY <3>1 DEF TypeOK, InMap
    <3>5. TypeOK'
      BY <1>1, <3>1, <3>2, <3>3, <3>4
    <3>6. Sending(c) /\ Reading(c)
      BY DEF SendInv, ReadInv
    <3>7. /\ stage'[c] = "abandoned" /\ \A d \in Channels : d # c => Same(d)
      BY <2>2, <3>1 DEF Same, receiving, TypeOK
    <3>8. Reading(c)'
      BY <3>1, <3>6, <3>7 DEF Reading, receiving
    <3>9. Sending(c)'
      <4>1. writes'[c] = <<>> /\ wrote'[c] = 0 /\ sender' # c
        BY <3>1, <3>6 DEF Sending
      <4>2. 1..Len(<<>>) = {}
        BY EmptySeq
      <4> QED
        BY <3>7, <4>1, <4>2 DEF Sending
    <3> QED
      BY <3>5, <3>7, <3>8, <3>9, OthersKept
  <2> QED
    BY <1>8, <2>1, <2>2 DEF SendRequest
<1>9. ASSUME NEW n \in Nat, Erase({c}, n), stage[c] = "asked", UNCHANGED client
      PROVE  TypeInv'
  <2>1. sender # c
    BY <1>9 DEF SendInv, Sending
  <2> QED
    BY <1>9, <2>1, EraseTypeInv
<1>10. CASE ReadAnswerFails(c)
  BY <1>9, <1>10 DEF ReadAnswerFails
<1>11. CASE ReadAnswer(c)
  <2>1. PICK n \in Portions(c) \cup (IF kind[c] = "UDP" THEN {} ELSE {0}) :
          \/ /\ Reach(c, "open")
             /\ inbox' = [inbox EXCEPT ![c] = Rest(inbox[c], n)]
             /\ readBuffer' = [readBuffer EXCEPT ![c] = <<<<>>>>]
             /\ reading' = [reading EXCEPT ![c] = "waiting"]
             /\ UNCHANGED <<kind, sending, arrived, delivered, link, late>>
          \/ \E n0 \in {0, 1} : Erase({c}, n0)
    BY <1>11 DEF ReadAnswer
  <2>2. stage[c] = "asked" /\ inbox[c] # <<>> /\ UNCHANGED client
    BY <1>11 DEF ReadAnswer
  <2>3. CASE \E n0 \in {0, 1} : Erase({c}, n0)
    BY <1>9, <2>2, <2>3
  <2>4. CASE /\ Reach(c, "open")
             /\ inbox' = [inbox EXCEPT ![c] = Rest(inbox[c], n)]
             /\ readBuffer' = [readBuffer EXCEPT ![c] = <<<<>>>>]
             /\ reading' = [reading EXCEPT ![c] = "waiting"]
             /\ UNCHANGED <<kind, sending, arrived, delivered, link, late>>
    <3>1. inbox[c] \in Seq(Packets) /\ n \in Nat
      BY BoundsAssumption DEF TypeOK, Portions
    <3>2. Rest(inbox[c], n) \in Seq(Packets)
      BY <3>1, LenProperties, ElementOfSeq, SubSeqProperties DEF Rest
    <3>3. inbox' \in [Channels -> Seq(Packets)]
      BY <2>4, <3>2 DEF TypeOK
    <3>4. <<<<>>>> \in Seq(Seq(Packets)) /\ Len(<<<<>>>>) = 1 /\ <<<<>>>> # <<>>
      BY EmptySeq
    <3>5. readBuffer' \in [Channels -> Seq(Seq(Packets))]
      BY <2>4, <3>4 DEF TypeOK
    <3>6. reading' \in [Channels -> {"off", "waiting", "filled", "failed"}]
      BY <2>4 DEF TypeOK
    <3>8. stage' \in [Channels -> InMap \cup {"absent"}]
      BY <2>4 DEF TypeOK, Reach, InMap
    <3>9. Sending(c) /\ Reading(c)
      BY DEF SendInv, ReadInv
    <3>10. /\ stage'[c] = "open" /\ reading'[c] = "waiting" /\ readBuffer'[c] = <<<<>>>>
           /\ delivered' = delivered
           /\ UNCHANGED <<sendBuffer, writes, wrote, sender>>
      BY <2>4 DEF TypeOK, Reach, sending
    <3>11. Sending(c)' /\ Reading(c)'
      BY <2>2, <3>4, <3>9, <3>10 DEF Sending, Reading
    <3>12. \A d \in Channels : d # c => Same(d)
      BY <2>4, <3>10 DEF Same, Reach, TypeOK
    <3>13. SendInv' /\ ReadInv'
      BY <3>11, <3>12, OthersKept
    <3>14. \A d \in Channels : /\ Len(readBuffer'[d]) <= 1
                               /\ reading'[d] # "off" => readBuffer'[d] # <<>>
      BY <3>13 DEF ReadInv, Reading
    <3>15. thrown' \in BOOLEAN /\ crashed' \in BOOLEAN /\ link' \in [Channels -> BOOLEAN]
      BY <2>2, <2>4 DEF TypeOK, client
    <3>16. TypeOK'
      BY <2>2, <2>4, <3>3, <3>5, <3>6, <3>8, <3>14, <3>15 DEF TypeOK, client, sending
    <3> QED
      BY <3>13, <3>16
  <2> QED
    BY <2>1, <2>3, <2>4
<1> QED
  BY <1>3, <1>6, <1>7, <1>8, <1>10, <1>11 DEF Open

(* Sending, and the completions of writes, keep the invariant.             *)
LEMMA SendTypeInv ==
  ASSUME TypeInv, NEW c \in Channels,
         Send(c) \/ StartWrite(c) \/ Write(c) \/ WriteDone(c)
  PROVE  TypeInv'
<1> USE DEF TypeInv
<1>1. /\ Sending(c) /\ Reading(c)
      /\ sendBuffer[c] \in Seq(Nat) /\ writes[c] \in Seq(Packets)
      /\ wrote[c] \in Nat /\ given[c] \in Nat
      /\ Len(sendBuffer[c]) \in Nat /\ Len(writes[c]) \in Nat
      /\ DOMAIN sendBuffer[c] = 1..Len(sendBuffer[c]) /\ DOMAIN writes[c] = 1..Len(writes[c])
  BY LenProperties DEF TypeOK, SendInv, ReadInv
<1>2. /\ UNCHANGED <<stage, kind, thrown, opens, receiving, link, late>>
      /\ crashed' \in BOOLEAN
  BY DEF Send, StartWrite, Write, WriteDone, MayCrash, client, TypeOK
<1>3. ASSUME /\ sendBuffer' \in [Channels -> Seq(Nat)] /\ writes' \in [Channels -> Seq(Packets)]
             /\ wrote' \in [Channels -> Nat] /\ given' \in [Channels -> Nat]
             /\ sender' \in Channels \cup {NoChannel},
             Sending(c)', \A d \in Channels : d # c => Same(d)
      PROVE  TypeInv'
  <2>1. Reading(c)'
    BY <1>1, <1>2 DEF Reading, receiving
  <2>2. SendInv' /\ ReadInv'
    BY <1>3, <2>1, OthersKept
  <2>3. thrown' \in BOOLEAN /\ link' \in [Channels -> BOOLEAN]
    BY <1>2 DEF TypeOK
  <2>4. TypeOK'
    BY <1>2, <1>3, <2>3 DEF TypeOK, receiving
  <2> QED
    BY <2>2, <2>4
<1>4. CASE Send(c)
  <2>1. /\ stage[c] = "used" /\ sender = NoChannel /\ sender' = c
        /\ given' = [given EXCEPT ![c] = @ + 1]
        /\ sendBuffer' = [sendBuffer EXCEPT ![c] = Append(@, given[c] + 1)]
        /\ UNCHANGED <<writes, wrote>>
    BY <1>4 DEF Send
  <2> DEFINE b == Append(sendBuffer[c], given[c] + 1)
  <2>2. /\ b \in Seq(Nat) /\ Len(b) = Len(sendBuffer[c]) + 1
        /\ \A i \in 1..Len(sendBuffer[c]) : b[i] = sendBuffer[c][i]
        /\ b[Len(b)] = given[c] + 1
    BY <1>1, AppendProperties
  <2> HIDE DEF b
  <2>3. sendBuffer' = [sendBuffer EXCEPT ![c] = b]
    BY <2>1 DEF b
  <2>4. /\ sendBuffer' \in [Channels -> Seq(Nat)] /\ sendBuffer'[c] = b
        /\ given' \in [Channels -> Nat]
    BY <2>1, <2>2, <2>3 DEF TypeOK
  <2>5. Sending(c)'
    <3>1. Len(sendBuffer'[c]) = wrote'[c] + Len(writes'[c]) + 1 /\ stage'[c] = "used"
      BY <1>1, <1>2, <2>1, <2>2, <2>4, NoChannelAssumption DEF Sending
    <3>2. \A i \in 1..Len(writes'[c]) :
            wrote'[c] + i \in 1..Len(sendBuffer'[c]) /\ sendBuffer'[c][wrote'[c] + i] = writes'[c][i]
      <4>1. ASSUME NEW i \in 1..Len(writes[c])
            PROVE  wrote[c] + i \in 1..Len(b) /\ b[wrote[c] + i] = writes[c][i]
        <5>1. /\ wrote[c] + i \in 1..Len(sendBuffer[c])
              /\ sendBuffer[c][wrote[c] + i] = writes[c][i]
          BY <1>1 DEF Sending
        <5>2. Len(sendBuffer[c]) \in Nat
          BY <1>1
        <5> QED
          BY <2>2, <5>1, <5>2
      <4>2. writes' = writes /\ wrote' = wrote
        BY <2>1
      <4> QED
        BY <2>4, <4>1, <4>2
    <3>3. Last(sendBuffer'[c]) \in Packets
      <4>1. Last(b) = given[c] + 1
        BY <2>2 DEF Last
      <4>2. given[c] + 1 \in Packets
        BY <1>1 DEF Packets
      <4> QED
        BY <2>4, <4>1, <4>2
    <3> QED
      BY <2>1, <3>1, <3>2, <3>3 DEF Sending
  <2>6. \A d \in Channels : d # c => Same(d)
    BY <1>2, <2>1, NoChannelAssumption DEF Same, receiving, TypeOK
  <2>7. writes' \in [Channels -> Seq(Packets)] /\ wrote' \in [Channels -> Nat]
    BY <2>1 DEF TypeOK
  <2> QED
    BY <1>3, <2>1, <2>4, <2>5, <2>6, <2>7
<1>5. CASE StartWrite(c)
  <2>1. /\ sender = c /\ sender' = NoChannel
        /\ writes' = [writes EXCEPT ![c] = Append(@, Last(sendBuffer[c]))]
        /\ UNCHANGED <<sendBuffer, wrote, given>>
    BY <1>5 DEF StartWrite
  <2>2. stage[c] = "used" /\ Last(sendBuffer[c]) \in Packets
        /\ Len(sendBuffer[c]) = wrote[c] + Len(writes[c]) + 1
    BY <1>1, <2>1 DEF Sending
  <2> DEFINE ws == Append(writes[c], Last(sendBuffer[c]))
  <2>3. /\ ws \in Seq(Packets) /\ Len(ws) = Len(writes[c]) + 1
        /\ \A i \in 1..Len(writes[c]) : ws[i] = writes[c][i]
        /\ ws[Len(ws)] = sendBuffer[c][wrote[c] + Len(writes[c]) + 1]
    BY <1>1, <2>2, AppendProperties DEF Last
  <2> HIDE DEF ws
  <2>4. writes' \in [Channels -> Seq(Packets)] /\ writes'[c] = ws
    BY <2>1, <2>3 DEF TypeOK, ws
  <2>5. Sending(c)'
    <3>1. \A i \in 1..Len(ws) :
            wrote[c] + i \in 1..Len(sendBuffer[c]) /\ sendBuffer[c][wrote[c] + i] = ws[i]
      <4> SUFFICES ASSUME NEW i \in 1..Len(ws)
                   PROVE  wrote[c] + i \in 1..Len(sendBuffer[c]) /\ sendBuffer[c][wrote[c] + i] = ws[i]
        OBVIOUS
      <4> DEFINE n == Len(writes[c])
                 k == wrote[c]
      <4>0. ws[n + 1] = sendBuffer[c][k + n + 1]
        BY <2>3
      <4>1. n \in Nat /\ k \in Nat /\ i \in 1..(n + 1) /\ Len(sendBuffer[c]) = k + n + 1
        BY <1>1, <2>2, <2>3
      <4> HIDE DEF n, k
      <4>2. k + i \in 1..(k + n + 1) /\ (i = n + 1 \/ i \in 1..n)
        BY <4>1
      <4>3. CASE i = n + 1
        <5>1. ws[i] = sendBuffer[c][k + n + 1]
          BY <4>0, <4>3
        <5>2. k + i = k + n + 1
          BY <4>1, <4>3
        <5> QED
          BY <4>1, <4>2, <5>1, <5>2 DEF k
      <4>4. CASE i \in 1..n
        <5>1. sendBuffer[c][k + i] = writes[c][i]
          BY <1>1, <4>4 DEF Sending, n, k
        <5>2. ws[i] = writes[c][i]
          BY <2>3, <4>4 DEF n
        <5> QED
          BY <4>1, <4>2, <5>1, <5>2 DEF k
      <4> QED
        BY <4>2, <4>3, <4>4
    <3>2. sender' # c
      BY <2>1, NoChannelAssumption
    <3>3. /\ stage'[c] = "used" /\ wrote'[c] = wrote[c] /\ sendBuffer'[c] = sendBuffer[c]
          /\ writes'[c] = ws
      BY <1>2, <2>1, <2>2, <2>4
    <3>4. Len(sendBuffer[c]) = wrote[c] + Len(ws) + 0
      BY <1>1, <2>2, <2>3
    <3> QED
      BY <3>1, <3>2, <3>3, <3>4 DEF Sending
  <2>6. \A d \in Channels : d # c => Same(d)
    BY <1>2, <2>1, NoChannelAssumption DEF Same, receiving, TypeOK
  <2>7. /\ sendBuffer' \in [Channels -> Seq(Nat)] /\ wrote' \in [Channels -> Nat]
        /\ given' \in [Channels -> Nat] /\ sender' \in Channels \cup {NoChannel}
    BY <2>1 DEF TypeOK
  <2> QED
    BY <1>3, <2>4, <2>5, <2>6, <2>7
<1>6. CASE Write(c)
  <2>1. /\ writes[c] # <<>> /\ writes' = [writes EXCEPT ![c] = Tail(@)]
        /\ wrote' = [wrote EXCEPT ![c] = @ + 1]
        /\ UNCHANGED <<sendBuffer, sender, given>>
    BY <1>6 DEF Write
  <2> DEFINE ws == Tail(writes[c])
  <2>2. /\ ws \in Seq(Packets) /\ Len(ws) = Len(writes[c]) - 1
        /\ \A i \in 1..Len(ws) : ws[i] = writes[c][i + 1]
    BY <1>1, <2>1, HeadTailProperties
  <2> HIDE DEF ws
  <2>3. /\ writes' \in [Channels -> Seq(Packets)] /\ writes'[c] = ws
        /\ wrote' \in [Channels -> Nat] /\ wrote'[c] = wrote[c] + 1
    <3>1. writes' = [writes EXCEPT ![c] = ws]
      BY <2>1 DEF ws
    <3>2. writes' \in [Channels -> Seq(Packets)] /\ writes'[c] = ws
      BY <2>2, <3>1 DEF TypeOK
    <3>3. wrote[c] + 1 \in Nat
      BY <1>1
    <3>4. wrote' \in [Channels -> Nat] /\ wrote'[c] = wrote[c] + 1
      BY <2>1, <3>3 DEF TypeOK
    <3> QED
      BY <3>2, <3>4
  <2>4. Sending(c)'
    <3>1. stage[c] = "used"
      BY <1>1, <2>1 DEF Sending
    <3>3. ASSUME NEW i \in 1..Len(ws)
          PROVE  /\ wrote[c] + 1 + i \in 1..Len(sendBuffer[c])
                 /\ sendBuffer[c][wrote[c] + 1 + i] = ws[i]
      <4>1. wrote[c] + (i + 1) = wrote[c] + 1 + i
        <5>1. wrote[c] \in Nat /\ i \in Nat
          BY <1>1
        <5> QED
          BY <5>1
      <4>2. i + 1 \in 1..Len(writes[c])
        BY <1>1, <2>2
      <4>3. /\ wrote[c] + (i + 1) \in 1..Len(sendBuffer[c])
            /\ sendBuffer[c][wrote[c] + (i + 1)] = writes[c][i + 1]
        BY <1>1, <4>2 DEF Sending
      <4> QED
        BY <2>2, <4>1, <4>3
    <3>4. Len(sendBuffer[c]) = wrote[c] + 1 + Len(ws) + (IF sender = c THEN 1 ELSE 0)
      <4>1. Len(sendBuffer[c]) = wrote[c] + Len(writes[c]) + (IF sender = c THEN 1 ELSE 0)
        BY <1>1, <3>1 DEF Sending
      <4> QED
        BY <1>1, <2>2, <4>1
    <3>5. /\ stage'[c] = "used" /\ wrote'[c] = wrote[c] + 1 /\ writes'[c] = ws
          /\ sendBuffer'[c] = sendBuffer[c] /\ sender' = sender
      BY <1>2, <2>1, <2>3, <3>1
    <3>6. sender = c => Last(sendBuffer[c]) \in Packets
      BY <1>1 DEF Sending
    <3> QED
      BY <3>3, <3>4, <3>5, <3>6 DEF Sending
  <2>5. \A d \in Channels : d # c => Same(d)
    BY <1>2, <2>1 DEF Same, receiving, TypeOK
  <2>6. sendBuffer' \in [Channels -> Seq(Nat)] /\ sender' \in Channels \cup {NoChannel}
        /\ given' \in [Channels -> Nat]
    BY <2>1 DEF TypeOK
  <2> QED
    BY <1>3, <2>3, <2>4, <2>5, <2>6
<1>7. CASE WriteDone(c)
  <2>1. /\ wrote[c] > 0 /\ wrote' = [wrote EXCEPT ![c] = @ - 1]
        /\ sendBuffer' = [sendBuffer EXCEPT ![c] = Tail(@)]
        /\ UNCHANGED <<writes, sender, given>>
    BY <1>7 DEF WriteDone, ReleasePacket
  <2>2. stage[c] = "used"
    BY <1>1, <2>1 DEF Sending
  <2>3. Len(sendBuffer[c]) = wrote[c] + Len(writes[c]) + (IF sender = c THEN 1 ELSE 0)
        /\ Len(sendBuffer[c]) > 0
    BY <1>1, <2>1, <2>2 DEF Sending
  <2> DEFINE b == Tail(sendBuffer[c])
  <2>4. /\ b \in Seq(Nat) /\ Len(b) = Len(sendBuffer[c]) - 1
        /\ \A i \in 1..Len(b) : b[i] = sendBuffer[c][i + 1]
    BY <1>1, <2>3, EmptySeq, HeadTailProperties
  <2> HIDE DEF b
  <2>5. /\ sendBuffer' \in [Channels -> Seq(Nat)] /\ sendBuffer'[c] = b
        /\ wrote' \in [Channels -> Nat] /\ wrote'[c] = wrote[c] - 1
    <3>1. sendBuffer' = [sendBuffer EXCEPT ![c] = b]
      BY <2>1 DEF b
    <3>2. sendBuffer' \in [Channels -> Seq(Nat)] /\ sendBuffer'[c] = b
      BY <2>4, <3>1 DEF TypeOK
    <3>3. wrote[c] - 1 \in Nat
      BY <1>1, <2>1
    <3>4. wrote' \in [Channels -> Nat] /\ wrote'[c] = wrote[c] - 1
      BY <2>1, <3>3 DEF TypeOK
    <3> QED
      BY <3>2, <3>4
  <2>6. Sending(c)'
    <3>1. \A i \in 1..Len(writes[c]) :
            wrote[c] - 1 + i \in 1..Len(b) /\ b[wrote[c] - 1 + i] = writes[c][i]
      <4> SUFFICES ASSUME NEW i \in 1..Len(writes[c])
                   PROVE  wrote[c] - 1 + i \in 1..Len(b) /\ b[wrote[c] - 1 + i] = writes[c][i]
        OBVIOUS
      <4>0. Len(b) + 1 >= wrote[c] + Len(writes[c]) /\ Len(b) \in Nat
        <5>1. CASE sender = c
          BY <1>1, <2>3, <2>4, <5>1
        <5>2. CASE sender # c
          BY <1>1, <2>3, <2>4, <5>2
        <5> QED
          BY <5>1, <5>2
      <4>1. wrote[c] - 1 + i \in 1..Len(b) /\ (wrote[c] - 1 + i) + 1 = wrote[c] + i
        BY <1>1, <2>1, <4>0
      <4>2. sendBuffer[c][wrote[c] + i] = writes[c][i]
        BY <1>1 DEF Sending
      <4>3. b[wrote[c] - 1 + i] = sendBuffer[c][(wrote[c] - 1 + i) + 1]
        BY <2>4, <4>1
      <4> QED
        BY <4>1, <4>2, <4>3
    <3>2. sender = c => Last(b) = Last(sendBuffer[c])
      <4>1. ASSUME sender = c PROVE Last(b) = Last(sendBuffer[c])
        <5>1. Len(b) \in 1..Len(b) /\ Len(b) + 1 = Len(sendBuffer[c])
          BY <1>1, <2>1, <2>3, <2>4, <4>1
        <5> QED
          BY <2>4, <5>1 DEF Last
      <4> QED
        BY <4>1
    <3>3. Len(b) = (wrote[c] - 1) + Len(writes[c]) + (IF sender = c THEN 1 ELSE 0)
      <4>1. CASE sender = c
        BY <1>1, <2>3, <2>4, <4>1
      <4>2. CASE sender # c
        BY <1>1, <2>3, <2>4, <4>2
      <4> QED
        BY <4>1, <4>2
    <3>4. /\ stage'[c] = "used" /\ wrote'[c] = wrote[c] - 1 /\ writes'[c] = writes[c]
          /\ sendBuffer'[c] = b /\ sender' = sender
      BY <1>2, <2>1, <2>2, <2>5
    <3>5. sender = c => Last(b) \in Packets
      BY <1>1, <3>2 DEF Sending
    <3> QED
      BY <3>1, <3>3, <3>4, <3>5 DEF Sending
  <2>7. \A d \in Channels : d # c => Same(d)
    BY <1>2, <2>1 DEF Same, receiving, TypeOK
  <2>8. writes' \in [Channels -> Seq(Packets)] /\ sender' \in Channels \cup {NoChannel}
        /\ given' \in [Channels -> Nat]
    BY <2>1 DEF TypeOK
  <2> QED
    BY <1>3, <2>5, <2>6, <2>7, <2>8
<1> QED
  BY <1>4, <1>5, <1>6, <1>7

(* A sequence is what a read takes of it and what it leaves.               *)
LEMMA SplitSequence ==
  ASSUME NEW S, NEW s \in Seq(S), NEW n \in 0..Len(s)
  PROVE  /\ Prefix(s, n) \in Seq(S) /\ Rest(s, n) \in Seq(S)
         /\ s = Prefix(s, n) \o Rest(s, n)
         /\ Len(Prefix(s, n)) = n
<1>1. Len(s) \in Nat /\ DOMAIN s = 1..Len(s)
  BY LenProperties
<1>2. /\ \A i \in 1..n : s[i] \in S
      /\ \A i \in n + 1..Len(s) : s[i] \in S
  BY <1>1, ElementOfSeq
<1>3. /\ SubSeq(s, 1, n) \in Seq(S) /\ Len(SubSeq(s, 1, n)) = n
      /\ SubSeq(s, n + 1, Len(s)) \in Seq(S)
  <2>1. n \in Int /\ Len(s) \in Int /\ n + 1 \in Int /\ 1 \in Int
    BY <1>1
  <2>2. /\ SubSeq(s, 1, n) \in Seq(S) /\ Len(SubSeq(s, 1, n)) = IF 1 <= n THEN n - 1 + 1 ELSE 0
    BY <1>2, <2>1, SubSeqProperties
  <2>3. SubSeq(s, n + 1, Len(s)) \in Seq(S)
    BY <1>2, <2>1, SubSeqProperties
  <2> QED
    BY <1>1, <2>2, <2>3
<1>4. SubSeq(s, 1, n) \o SubSeq(s, n + 1, Len(s)) = SubSeq(s, 1, Len(s))
  <2>1. 1 \in 1..Len(s) + 1 /\ n \in 1 - 1..Len(s) /\ Len(s) \in n..Len(s)
    BY <1>1
  <2> QED
    BY <2>1, ConcatAdjacentSubSeq
<1>5. SubSeq(s, 1, Len(s)) = s
  BY SubSeqFull
<1> QED
  BY <1>3, <1>4, <1>5 DEF Prefix, Rest

(* There is at most one buffer of a read.                                  *)
LEMMA OneBuffer ==
  ASSUME TypeInv, NEW c \in Channels, readBuffer[c] # <<>>
  PROVE  /\ Head(readBuffer[c]) \in Seq(Packets)
         /\ Tail(readBuffer[c]) = <<>> /\ Front(readBuffer[c]) = <<>>
<1>1. readBuffer[c] \in Seq(Seq(Packets)) /\ Len(readBuffer[c]) <= 1
  BY DEF TypeInv, TypeOK
<1>2. Len(readBuffer[c]) = 1
  <2>1. Len(readBuffer[c]) \in Nat
    BY <1>1, LenProperties
  <2>2. Len(readBuffer[c]) # 0
    BY <1>1, EmptySeq
  <2> DEFINE n == Len(readBuffer[c])
  <2>3. n \in Nat /\ n # 0 /\ n <= 1
    BY <1>1, <2>1, <2>2
  <2> HIDE DEF n
  <2>4. n = 1
    BY <2>3
  <2> QED
    BY <2>4 DEF n
<1>3. Head(readBuffer[c]) \in Seq(Packets) /\ Tail(readBuffer[c]) \in Seq(Seq(Packets))
      /\ Len(Tail(readBuffer[c])) = 0
  BY <1>1, <1>2, HeadTailProperties
<1>4. Front(readBuffer[c]) = <<>>
  BY <1>2, SubSeqEmpty DEF Front
<1> QED
  BY <1>3, <1>4, EmptySeq

(* What the remotes send, and reading it, keep the invariant.              *)
LEMMA ReceiveTypeInv ==
  ASSUME TypeInv, NEW c \in Channels,
         Arrive(c) \/ Read(c) \/ ReadDone(c) \/ ReadFailed(c)
  PROVE  TypeInv'
<1> USE DEF TypeInv
<1>1. /\ Sending(c) /\ Reading(c)
      /\ inbox[c] \in Seq(Packets) /\ readBuffer[c] \in Seq(Seq(Packets))
      /\ delivered[c] \in Seq(Packets) /\ arrived[c] \in Nat
      /\ Len(inbox[c]) \in Nat
  BY LenProperties DEF TypeOK, SendInv, ReadInv
<1>2. /\ UNCHANGED <<stage, kind, thrown, opens, sending, link, late>>
      /\ crashed' \in BOOLEAN
  BY DEF Arrive, Read, ReadDone, ReadFailed, MayCrash, client, TypeOK
<1>3. ASSUME /\ readBuffer' \in [Channels -> Seq(Seq(Packets))]
             /\ reading' \in [Channels -> {"off", "waiting", "filled", "failed"}]
             /\ inbox' \in [Channels -> Seq(Packets)] /\ arrived' \in [Channels -> Nat]
             /\ delivered' \in [Channels -> Seq(Packets)],
             Reading(c)', \A d \in Channels : d # c => Same(d)
      PROVE  TypeInv'
  <2>1. Sending(c)'
    BY <1>1, <1>2 DEF Sending, sending
  <2>2. SendInv' /\ ReadInv'
    BY <1>3, <2>1, OthersKept
  <2>3. thrown' \in BOOLEAN /\ link' \in [Channels -> BOOLEAN]
    BY <1>2 DEF TypeOK
  <2>4. \A d \in Channels : /\ Len(readBuffer'[d]) <= 1
                            /\ reading'[d] # "off" => readBuffer'[d] # <<>>
    BY <2>2 DEF ReadInv, Reading
  <2>5. TypeOK'
    BY <1>2, <1>3, <2>3, <2>4 DEF TypeOK, sending
  <2> QED
    BY <2>2, <2>5
<1>4. CASE Arrive(c)
  <2>1. /\ arrived' = [arrived EXCEPT ![c] = @ + 1]
        /\ inbox' = [inbox EXCEPT ![c] = Append(@, arrived'[c])]
        /\ UNCHANGED <<readBuffer, reading, delivered>>
    BY <1>4 DEF Arrive
  <2>2. arrived' \in [Channels -> Nat] /\ arrived'[c] = arrived[c] + 1
    BY <1>1, <2>1 DEF TypeOK
  <2>3. Append(inbox[c], arrived'[c]) \in Seq(Packets)
    BY <1>1, <2>2, AppendProperties DEF Packets
  <2>4. inbox' \in [Channels -> Seq(Packets)]
    BY <2>1, <2>3 DEF TypeOK
  <2>5. Reading(c)' /\ \A d \in Channels : d # c => Same(d)
    BY <1>1, <1>2, <2>1 DEF Reading, Same, sending
  <2>6. /\ readBuffer' \in [Channels -> Seq(Seq(Packets))]
        /\ reading' \in [Channels -> {"off", "waiting", "filled", "failed"}]
        /\ delivered' \in [Channels -> Seq(Packets)]
    BY <2>1 DEF TypeOK
  <2> QED
    BY <1>3, <2>2, <2>4, <2>5, <2>6
<1>5. CASE Read(c)
  <2>0. /\ UNCHANGED <<arrived, delivered>> /\ reading[c] = "waiting"
    BY <1>5 DEF Read
  <2>1. /\ arrived' \in [Channels -> Nat] /\ delivered' \in [Channels -> Seq(Packets)]
    BY <2>0 DEF TypeOK
  <2>2. CASE inbox[c] # <<>>
    <3>1. PICK n \in Portions(c) :
            /\ readBuffer' = [readBuffer EXCEPT ![c] = Append(Front(@), Prefix(inbox[c], n))]
            /\ inbox' = [inbox EXCEPT ![c] = Rest(@, n)]
      BY <1>5, <2>2 DEF Read
    <3>2. reading' = [reading EXCEPT ![c] = "filled"]
      BY <1>5, <2>2 DEF Read
    <3>3. n \in 0..Len(inbox[c])
      BY <1>1, <2>2, EmptySeq DEF Portions
    <3>4. Prefix(inbox[c], n) \in Seq(Packets) /\ Rest(inbox[c], n) \in Seq(Packets)
      BY <1>1, <3>3, SplitSequence
    <3>5. Front(readBuffer[c]) = <<>>
      BY <1>1, <2>0, OneBuffer DEF Reading
    <3> DEFINE b == Append(<<>>, Prefix(inbox[c], n))
    <3>6. b \in Seq(Seq(Packets)) /\ Len(b) = 1 /\ b # <<>>
      BY <3>4, EmptySeq, AppendProperties
    <3> HIDE DEF b
    <3>7. readBuffer' = [readBuffer EXCEPT ![c] = b]
      BY <3>1, <3>5 DEF b
    <3>8. /\ readBuffer' \in [Channels -> Seq(Seq(Packets))] /\ readBuffer'[c] = b
          /\ inbox' \in [Channels -> Seq(Packets)]
          /\ reading' \in [Channels -> {"off", "waiting", "filled", "failed"}]
          /\ reading'[c] = "filled"
      <4>1. readBuffer' \in [Channels -> Seq(Seq(Packets))] /\ readBuffer'[c] = b
        BY <3>6, <3>7 DEF TypeOK
      <4>2. inbox' \in [Channels -> Seq(Packets)]
        BY <3>1, <3>4 DEF TypeOK
      <4>3. /\ reading' \in [Channels -> {"off", "waiting", "filled", "failed"}]
            /\ reading'[c] = "filled"
        BY <3>2 DEF TypeOK
      <4> QED
        BY <4>1, <4>2, <4>3
    <3>9. Reading(c)' /\ \A d \in Channels : d # c => Same(d)
      BY <1>1, <1>2, <2>0, <3>2, <3>6, <3>7, <3>8 DEF Reading, Same, sending, TypeOK
    <3> QED
      BY <1>3, <2>1, <3>8, <3>9
  <2>3. CASE inbox[c] = <<>>
    <3>1. /\ reading' = [reading EXCEPT ![c] = "failed"] /\ UNCHANGED <<readBuffer, inbox>>
      BY <1>5, <2>3 DEF Read
    <3>2. Reading(c)' /\ \A d \in Channels : d # c => Same(d)
      BY <1>1, <1>2, <2>0, <3>1 DEF Reading, Same, sending, TypeOK
    <3>3. /\ readBuffer' \in [Channels -> Seq(Seq(Packets))]
          /\ inbox' \in [Channels -> Seq(Packets)]
          /\ reading' \in [Channels -> {"off", "waiting", "filled", "failed"}]
      BY <3>1 DEF TypeOK
    <3> QED
      BY <1>3, <2>1, <3>2, <3>3
  <2> QED
    BY <2>2, <2>3
<1>6. CASE ReadDone(c)
  <2>1. /\ reading[c] = "filled" /\ reading' = [reading EXCEPT ![c] = "waiting"]
        /\ delivered' = [delivered EXCEPT ![c] =
                          IF stage[c] = "used" THEN @ \o Head(readBuffer[c]) ELSE @]
        /\ readBuffer' = [readBuffer EXCEPT ![c] = Append(Tail(@), <<>>)]
        /\ UNCHANGED <<inbox, arrived>>
    BY <1>6 DEF ReadDone
  <2>2. Head(readBuffer[c]) \in Seq(Packets) /\ Tail(readBuffer[c]) = <<>>
    BY <1>1, <2>1, OneBuffer DEF Reading
  <2>3. delivered[c] \o Head(readBuffer[c]) \in Seq(Packets)
    BY <1>1, <2>2, ConcatProperties
  <2>4. delivered' \in [Channels -> Seq(Packets)]
    BY <1>1, <2>1, <2>3 DEF TypeOK
  <2>5. Append(<<>>, <<>>) = << <<>> >> /\ << <<>> >> \in Seq(Seq(Packets))
        /\ Len(<< <<>> >>) = 1 /\ << <<>> >> # <<>>
    BY EmptySeq
  <2>6. readBuffer' = [readBuffer EXCEPT ![c] = << <<>> >>]
    BY <2>1, <2>2, <2>5
  <2>7. /\ readBuffer' \in [Channels -> Seq(Seq(Packets))] /\ readBuffer'[c] = << <<>> >>
        /\ reading' \in [Channels -> {"off", "waiting", "filled", "failed"}]
        /\ reading'[c] = "waiting"
    <3> DEFINE b == << <<>> >>
    <3>1. b \in Seq(Seq(Packets)) /\ readBuffer' = [readBuffer EXCEPT ![c] = b]
      BY <2>5, <2>6
    <3> HIDE DEF b
    <3>2. readBuffer' \in [Channels -> Seq(Seq(Packets))] /\ readBuffer'[c] = b
      BY <3>1 DEF TypeOK
    <3>3. /\ reading' \in [Channels -> {"off", "waiting", "filled", "failed"}]
          /\ reading'[c] = "waiting"
      BY <2>1 DEF TypeOK
    <3> QED
      BY <3>2, <3>3 DEF b
  <2>8. stage[c] # "used" => delivered'[c] = delivered[c]
    BY <2>1 DEF TypeOK
  <2>9. Reading(c)' 
    BY <1>1, <1>2, <2>1, <2>5, <2>7, <2>8 DEF Reading
  <2>10. \A d \in Channels : d # c => Same(d)
    BY <1>2, <2>1, <2>6 DEF Same, sending, TypeOK
  <2>11. /\ inbox' \in [Channels -> Seq(Packets)] /\ arrived' \in [Channels -> Nat]
    BY <2>1 DEF TypeOK
  <2> QED
    BY <1>3, <2>4, <2>7, <2>9, <2>10, <2>11
<1>7. CASE ReadFailed(c)
  <2>1. /\ reading' = [reading EXCEPT ![c] = "off"]
        /\ UNCHANGED <<readBuffer, inbox, arrived, delivered>>
    BY <1>7 DEF ReadFailed
  <2>2. Reading(c)' /\ \A d \in Channels : d # c => Same(d)
    BY <1>1, <1>2, <2>1 DEF Reading, Same, sending, TypeOK
  <2>3. /\ readBuffer' \in [Channels -> Seq(Seq(Packets))]
        /\ inbox' \in [Channels -> Seq(Packets)] /\ arrived' \in [Channels -> Nat]
        /\ delivered' \in [Channels -> Seq(Packets)]
        /\ reading' \in [Channels -> {"off", "waiting", "filled", "failed"}]
    BY <2>1 DEF TypeOK
  <2> QED
    BY <1>3, <2>2, <2>3
<1> QED
  BY <1>4, <1>5, <1>6, <1>7

(* Every step keeps the invariant.                                         *)
LEMMA NextTypeInv == TypeInv /\ [Next]_vars => TypeInv'
<1> SUFFICES ASSUME TypeInv, [Next]_vars PROVE TypeInv'
  OBVIOUS
<1>1. ASSUME UNCHANGED <<stage, kind, thrown, opens, sending, receiving>>,
             crashed' \in BOOLEAN, link' \in [Channels -> BOOLEAN], late' \in Nat
      PROVE  TypeInv'
  <2>1. SendInv' /\ ReadInv'
    BY <1>1 DEF TypeInv, SendInv, ReadInv, Sending, Reading, sending, receiving
  <2>2. thrown' \in BOOLEAN
    BY <1>1 DEF TypeInv, TypeOK
  <2>3. TypeOK'
    BY <1>1, <2>2 DEF TypeInv, TypeOK, sending, receiving
  <2> QED
    BY <2>1, <2>3 DEF TypeInv
<1>2. ASSUME NEW c \in Channels, SetListener(c) PROVE TypeInv'
  <2>1. /\ stage[c] = "open" /\ stage' = [stage EXCEPT ![c] = "used"]
        /\ UNCHANGED <<kind, client, sending, receiving, link, late>>
    BY <1>2 DEF SetListener, Reach
  <2>2. SendInv' /\ ReadInv'
    BY <2>1, StageMove
  <2>3. thrown' \in BOOLEAN /\ crashed' \in BOOLEAN /\ link' \in [Channels -> BOOLEAN]
    BY <2>1 DEF TypeInv, TypeOK, client
  <2>4. stage' \in [Channels -> InMap \cup {"absent"}]
    BY <2>1 DEF TypeInv, TypeOK, InMap
  <2>5. TypeOK'
    BY <2>1, <2>3, <2>4 DEF TypeInv, TypeOK, client, sending, receiving
  <2> QED
    BY <2>2, <2>5 DEF TypeInv
<1>3. ASSUME NEW c \in Channels, Break(c) PROVE TypeInv'
  BY <1>1, <1>3 DEF Break, client, TypeInv, TypeOK
<1>4. CASE LateCompletion
  <2>1. crashed' \in BOOLEAN /\ late' \in Nat
    BY <1>4 DEF LateCompletion, MayCrash, TypeInv, TypeOK
  <2>2. UNCHANGED <<stage, kind, thrown, opens, sending, receiving, link>>
    BY <1>4 DEF LateCompletion, MayCrash
  <2>3. link' \in [Channels -> BOOLEAN]
    BY <2>2 DEF TypeInv, TypeOK
  <2> QED
    BY <1>1, <2>1, <2>2, <2>3
<1>5. CASE UNCHANGED vars
  <2>1. crashed' \in BOOLEAN /\ link' \in [Channels -> BOOLEAN] /\ late' \in Nat
    BY <1>5 DEF vars, client, TypeInv, TypeOK
  <2> QED
    BY <1>1, <1>5, <2>1 DEF vars, client
<1>6. ASSUME NEW C \in SUBSET Channels, Close(C) PROVE TypeInv'
  BY <1>6, CompletionsType, EraseTypeInv, NoChannelAssumption DEF Close, TypeInv
<1> QED
  BY <1>2, <1>3, <1>4, <1>5, <1>6, OpenTypeInv, SendTypeInv, ReceiveTypeInv DEF Next

(* Every variable of the sockets keeps its type, for any number of         *)
(* channels: no completion is run for a packet or a buffer that is not     *)
(* there.                                                                  *)
THEOREM TypeCorrectness == Spec => []TypeOK
<1>1. TypeInv => TypeOK
  BY DEF TypeInv
<1> QED
  BY <1>1, InitTypeInv, NextTypeInv, PTL DEF Spec

(* For any number of channels and packets: the memory of a packet is held  *)
(* until the system has written it, although each completion releases the  *)
(* buffer in front and the sending thread appends without a lock (the      *)
(* outcome of a data race other than the crash is the sequential one).     *)
THEOREM MemoryHeld == Spec => []PacketsHeld
<1>1. TypeInv => PacketsHeld
  <2> SUFFICES ASSUME TypeInv, NEW c \in Channels
               PROVE  ToSet(writes[c]) \subseteq ToSet(sendBuffer[c])
    BY DEF PacketsHeld
  <2>1. /\ DOMAIN writes[c] = 1..Len(writes[c])
        /\ DOMAIN sendBuffer[c] = 1..Len(sendBuffer[c])
    BY LenProperties DEF TypeInv, TypeOK
  <2>2. Sending(c)
    BY DEF TypeInv, SendInv
  <2> QED
    BY <2>1, <2>2 DEF ToSet, Sending
<1> QED
  BY <1>1, InitTypeInv, NextTypeInv, PTL DEF Spec

-----------------------------------------------------------------------------
(* What is received, and in which order.                                   *)

(* s is a run of consecutive numbers that ends with n.                     *)
NumberedUpTo(s, n) == \A i \in 1..Len(s) : s[i] + Len(s) = n + i
(* What was handed over, read and is still to be read ends with the        *)
(* packet that arrived last. It is this, not that the numbers follow each  *)
(* other, which an arrival keeps.                                          *)
NumberInv == \A c \in Channels : NumberedUpTo(Stream(c), arrived[c])

(* An arrival prolongs the run.                                            *)
LEMMA NumberedAppend ==
  ASSUME NEW s \in Seq(Packets), NEW n \in Nat, NumberedUpTo(s, n)
  PROVE  NumberedUpTo(Append(s, n + 1), n + 1)
<1> DEFINE t == Append(s, n + 1)
<1>1. /\ Len(s) \in Nat /\ Len(t) = Len(s) + 1
      /\ \A i \in 1..Len(s) : t[i] = s[i]
      /\ t[Len(s) + 1] = n + 1
  BY LenProperties, AppendProperties DEF Packets
<1>2. \A i \in 1..Len(s) : s[i] \in Nat
  BY ElementOfSeq DEF Packets
<1> HIDE DEF t
<1>3. ASSUME NEW i \in 1..Len(t) PROVE t[i] + Len(t) = n + 1 + i
  <2>1. CASE i = Len(s) + 1
    BY <1>1, <2>1
  <2>2. CASE i \in 1..Len(s)
    <3>1. s[i] + Len(s) = n + i
      BY <2>2 DEF NumberedUpTo
    <3>2. t[i] = s[i] /\ s[i] \in Nat /\ Len(t) = Len(s) + 1
      BY <1>1, <1>2, <2>2
    <3>3. s[i] + (Len(s) + 1) = n + 1 + i
      <4>1. s[i] \in Nat /\ Len(s) \in Nat /\ i \in Nat
        BY <1>1, <2>2, <3>2
      <4> QED
        BY <3>1, <4>1
    <3> QED
      BY <3>2, <3>3
  <2> QED
    BY <1>1, <2>1, <2>2
<1>4. NumberedUpTo(t, n + 1)
  BY <1>3 DEF NumberedUpTo
<1> QED
  BY <1>4 DEF t

(* What follows some of the run is a run with the same end.                *)
LEMMA NumberedRest ==
  ASSUME NEW s \in Seq(Packets), NEW t \in Seq(Packets), NEW n \in Nat,
         NumberedUpTo(s \o t, n)
  PROVE  NumberedUpTo(t, n)
<1> DEFINE u == s \o t
<1>1. /\ Len(s) \in Nat /\ Len(t) \in Nat /\ Len(u) = Len(s) + Len(t)
      /\ \A i \in 1..Len(s) + Len(t) : u[i] = IF i <= Len(s) THEN s[i] ELSE t[i - Len(s)]
      /\ \A i \in 1..Len(t) : t[i] \in Nat
  BY LenProperties, ElementOfSeq, ConcatProperties DEF Packets
<1>2. \A i \in 1..Len(u) : u[i] + Len(u) = n + i
  BY DEF NumberedUpTo
<1> HIDE DEF u
<1>3. ASSUME NEW i \in 1..Len(t) PROVE t[i] + Len(t) = n + i
  <2> DEFINE j == Len(s) + i
  <2>1. j \in 1..Len(s) + Len(t) /\ ~(j <= Len(s)) /\ j - Len(s) = i /\ i \in Nat
    BY <1>1
  <2>2. u[j] = t[i]
    BY <1>1, <2>1
  <2>3. t[i] + Len(u) = n + j
    BY <1>1, <1>2, <2>1, <2>2
  <2> DEFINE a == t[i]
  <2>4. /\ a \in Nat /\ i \in Nat /\ Len(u) = Len(s) + Len(t)
        /\ a + Len(u) = n + (Len(s) + i)
    BY <1>1, <2>1, <2>3
  <2>5. Len(s) \in Nat /\ Len(t) \in Nat
    BY <1>1
  <2> DEFINE k == Len(s)
             l == Len(t)
  <2>6. k \in Nat /\ l \in Nat /\ a + (k + l) = n + (k + i)
    BY <2>4, <2>5
  <2> HIDE DEF a, j, k, l
  <2>7. a + l = n + i
    BY <2>4, <2>6
  <2> QED
    BY <2>7 DEF a, l
<1> QED
  BY <1>3 DEF NumberedUpTo

(* The types of what the run is made of.                                   *)
LEMMA StreamType ==
  ASSUME TypeInv, NEW c \in Channels
  PROVE  /\ BeingRead(c) \in Seq(Packets) /\ delivered[c] \in Seq(Packets)
         /\ inbox[c] \in Seq(Packets) /\ Stream(c) \in Seq(Packets)
         /\ arrived[c] \in Nat
<1>1. delivered[c] \in Seq(Packets) /\ inbox[c] \in Seq(Packets) /\ arrived[c] \in Nat
  BY DEF TypeInv, TypeOK
<1>2. BeingRead(c) \in Seq(Packets)
  BY OneBuffer, EmptySeq DEF BeingRead
<1>3. delivered[c] \o BeingRead(c) \in Seq(Packets)
  BY <1>1, <1>2, ConcatProperties
<1>4. Stream(c) \in Seq(Packets)
  BY <1>1, <1>3, ConcatProperties DEF Stream
<1> QED
  BY <1>1, <1>2, <1>4

(* Of a channel that is closed nothing is left to be read.                 *)
LEMMA EraseNumbers ==
  ASSUME TypeInv, NumberInv, NEW C \in SUBSET Channels, NEW n, Erase(C, n)
  PROVE  NumberInv'
<1> SUFFICES ASSUME NEW d \in Channels PROVE NumberedUpTo(Stream(d), arrived[d])'
  BY DEF NumberInv
<1>1. CASE d \notin C
  <2>1. /\ delivered'[d] = delivered[d] /\ readBuffer'[d] = readBuffer[d]
        /\ inbox'[d] = inbox[d] /\ arrived'[d] = arrived[d]
    BY <1>1 DEF Erase, Erased
  <2> QED
    BY <2>1 DEF NumberInv, NumberedUpTo, Stream, BeingRead
<1>2. CASE d \in C
  <2>1. /\ delivered'[d] = <<>> /\ readBuffer'[d] = <<>> /\ inbox'[d] = <<>>
    BY <1>2 DEF Erase, Erased
  <2>2. <<>> \o <<>> = <<>> /\ Len(<<>>) = 0
    BY EmptySeq, ConcatEmptySeq
  <2>3. Stream(d)' = <<>>
    BY <2>1, <2>2 DEF Stream, BeingRead
  <2> QED
    BY <2>2, <2>3 DEF NumberedUpTo
<1> QED
  BY <1>1, <1>2

(* Every step keeps the run: a read moves packets from the system to the   *)
(* buffer, its completion from the buffer to the listener. Before there    *)
(* is a listener nothing was handed over, so that what is dropped is the   *)
(* beginning.                                                              *)
LEMMA NextNumbers == TypeInv /\ NumberInv /\ [Next]_vars => NumberInv'
<1> SUFFICES ASSUME TypeInv, NumberInv, [Next]_vars PROVE NumberInv'
  OBVIOUS
<1>1. ASSUME UNCHANGED receiving PROVE NumberInv'
  BY <1>1 DEF receiving, NumberInv, NumberedUpTo, Stream, BeingRead
<1>2. ASSUME NEW c \in Channels, NumberedUpTo(Stream(c), arrived[c])',
             \A d \in Channels : d # c =>
               /\ delivered'[d] = delivered[d] /\ readBuffer'[d] = readBuffer[d]
               /\ inbox'[d] = inbox[d] /\ arrived'[d] = arrived[d]
      PROVE  NumberInv'
  <2>1. ASSUME NEW d \in Channels, d # c PROVE NumberedUpTo(Stream(d), arrived[d])'
    BY <1>2, <2>1 DEF NumberInv, NumberedUpTo, Stream, BeingRead
  <2> QED
    BY <1>2, <2>1 DEF NumberInv
<1>3. ASSUME NEW c \in Channels, Arrive(c) PROVE NumberInv'
  <2> DEFINE k == delivered[c] \o BeingRead(c)
             n == arrived[c]
             x == inbox[c]
  <2>1. /\ delivered[c] \in Seq(Packets) /\ x \in Seq(Packets) /\ n \in Nat
        /\ BeingRead(c) \in Seq(Packets)
    BY StreamType
  <2>2. k \in Seq(Packets)
    BY <2>1, ConcatProperties
  <2>3. /\ arrived' = [arrived EXCEPT ![c] = @ + 1]
        /\ inbox' = [inbox EXCEPT ![c] = Append(@, arrived'[c])]
        /\ UNCHANGED <<readBuffer, delivered>>
    BY <1>3 DEF Arrive
  <2>4. arrived'[c] = n + 1 /\ inbox'[c] = Append(x, n + 1) /\ n + 1 \in Packets
    BY <2>1, <2>3 DEF TypeInv, TypeOK, Packets
  <2>5. NumberedUpTo(k \o x, n)
    BY DEF NumberInv, Stream
  <2>6. Stream(c)' = k \o Append(x, n + 1)
    BY <2>3, <2>4 DEF Stream, BeingRead
  <2> HIDE DEF k, n, x
  <2>7. k \o Append(x, n + 1) = Append(k \o x, n + 1)
    <3>1. k \o x \in Seq(Packets) /\ << n + 1 >> \in Seq(Packets)
      BY <2>1, <2>2, <2>4, ConcatProperties
    <3>2. /\ Append(x, n + 1) = x \o << n + 1 >>
          /\ Append(k \o x, n + 1) = (k \o x) \o << n + 1 >>
      BY <2>1, <2>4, <3>1, AppendIsConcat
    <3>3. (k \o x) \o << n + 1 >> = k \o (x \o << n + 1 >>)
      BY <2>1, <2>2, <3>1, ConcatAssociative
    <3> QED
      BY <3>2, <3>3
  <2>8. NumberedUpTo(Append(k \o x, n + 1), n + 1)
    <3>1. k \o x \in Seq(Packets)
      BY <2>1, <2>2, ConcatProperties
    <3> QED
      BY <2>1, <2>5, <3>1, NumberedAppend
  <2>9. NumberedUpTo(Stream(c), arrived[c])'
    BY <2>4, <2>6, <2>7, <2>8 DEF NumberedUpTo
  <2> QED
    BY <1>2, <2>3, <2>9
<1>4. ASSUME NEW c \in Channels, Read(c) PROVE NumberInv'
  <2>1. reading[c] = "waiting" /\ UNCHANGED <<arrived, delivered>>
    BY <1>4 DEF Read
  <2>2. CASE UNCHANGED <<readBuffer, inbox>>
    BY <2>1, <2>2 DEF NumberInv, NumberedUpTo, Stream, BeingRead
  <2>3. CASE inbox[c] # <<>>
    <3>1. PICK n \in Portions(c) :
            /\ readBuffer' = [readBuffer EXCEPT ![c] = Append(Front(@), Prefix(inbox[c], n))]
            /\ inbox' = [inbox EXCEPT ![c] = Rest(@, n)]
      BY <1>4, <2>3 DEF Read
    <3> DEFINE d == delivered[c]
               x == inbox[c]
               p == Prefix(x, n)
               r == Rest(x, n)
    <3>2. d \in Seq(Packets) /\ x \in Seq(Packets) /\ Len(x) \in Nat
      BY StreamType, LenProperties
    <3>3. n \in 0..Len(x)
      BY <2>3, <3>2, EmptySeq DEF Portions
    <3>4. p \in Seq(Packets) /\ r \in Seq(Packets) /\ x = p \o r
      BY <3>2, <3>3, SplitSequence
    <3>5. readBuffer[c] = << <<>> >>
      BY <2>1 DEF TypeInv, ReadInv, Reading
    <3>6. Front(readBuffer[c]) = <<>> /\ BeingRead(c) = <<>>
      BY <3>5, OneBuffer DEF BeingRead
    <3>7. readBuffer'[c] = << p >> /\ inbox'[c] = r
      BY <3>1, <3>6 DEF TypeInv, TypeOK
    <3>8. BeingRead(c)' = p
      BY <3>7 DEF BeingRead
    <3>9. Stream(c)' = (d \o p) \o r
      BY <2>1, <3>7, <3>8 DEF Stream
    <3>10. Stream(c) = (d \o <<>>) \o x
      BY <3>6 DEF Stream
    <3> HIDE DEF d, x, p, r
    <3>11. (d \o p) \o r = d \o x
      BY <3>2, <3>4, ConcatAssociative
    <3>12. (d \o <<>>) \o x = d \o x
      BY <3>2, ConcatEmptySeq
    <3>13. NumberedUpTo(Stream(c), arrived[c])'
      BY <2>1, <3>9, <3>10, <3>11, <3>12 DEF NumberInv, NumberedUpTo
    <3> QED
      BY <1>2, <2>1, <3>1, <3>13
  <2> QED
    BY <1>4, <2>2, <2>3 DEF Read
<1>5. ASSUME NEW c \in Channels, ReadDone(c) PROVE NumberInv'
  <2> DEFINE d == delivered[c]
             x == inbox[c]
             h == BeingRead(c)
             n == arrived[c]
  <2>1. /\ reading[c] = "filled"
        /\ delivered' = [delivered EXCEPT ![c] =
                           IF stage[c] = "used" THEN @ \o Head(readBuffer[c]) ELSE @]
        /\ readBuffer' = [readBuffer EXCEPT ![c] = Append(Tail(@), <<>>)]
        /\ UNCHANGED <<inbox, arrived>>
    BY <1>5 DEF ReadDone
  <2>2. d \in Seq(Packets) /\ x \in Seq(Packets) /\ h \in Seq(Packets) /\ n \in Nat
    BY StreamType
  <2>3. Reading(c)
    BY DEF TypeInv, ReadInv
  <2>4. readBuffer[c] # <<>> /\ h = Head(readBuffer[c]) /\ Tail(readBuffer[c]) = <<>>
    BY <2>1, <2>3, OneBuffer DEF Reading, BeingRead
  <2>5. readBuffer'[c] = << <<>> >>
    <3>0. Append(<<>>, <<>>) = << <<>> >>
      BY EmptySeq
    <3>1. Append(Tail(readBuffer[c]), <<>>) = << <<>> >>
      BY <2>4, <3>0
    <3>2. readBuffer' = [readBuffer EXCEPT ![c] = << <<>> >>]
      BY <2>1, <3>1
    <3>3. DOMAIN readBuffer = Channels
      BY DEF TypeInv, TypeOK
    <3> HIDE DEF d, x, h, n
    <3> QED
      BY <3>2, <3>3
  <2>6. BeingRead(c)' = <<>>
    BY <2>5 DEF BeingRead
  <2>7. NumberedUpTo((d \o h) \o x, n)
    BY DEF NumberInv, Stream
  <2>8. CASE stage[c] = "used"
    <3>1. delivered'[c] = d \o h
      BY <2>1, <2>4, <2>8 DEF TypeInv, TypeOK
    <3>2. Stream(c)' = ((d \o h) \o <<>>) \o x
      BY <2>1, <2>6, <3>1 DEF Stream
    <3> HIDE DEF d, x, h, n
    <3>3. (d \o h) \o <<>> = d \o h
      BY <2>2, ConcatProperties, ConcatEmptySeq
    <3>4. arrived'[c] = n
      BY <2>1 DEF n
    <3>5. NumberedUpTo(Stream(c), arrived[c])'
      BY <2>7, <3>2, <3>3, <3>4 DEF NumberedUpTo
    <3> QED
      BY <1>2, <2>1, <3>5
  <2>9. CASE stage[c] # "used"
    <3>1. delivered'[c] = <<>> /\ d = <<>>
      BY <2>1, <2>3, <2>9 DEF TypeInv, TypeOK, Reading
    <3>2. Stream(c)' = (<<>> \o <<>>) \o x
      BY <2>1, <2>6, <3>1 DEF Stream
    <3> HIDE DEF d, x, h, n
    <3>3. (<<>> \o <<>>) \o x = x /\ (d \o h) \o x = h \o x
      BY <2>2, <3>1, EmptySeq, ConcatEmptySeq
    <3>4. NumberedUpTo(x, n)
      BY <2>2, <2>7, <3>3, NumberedRest
    <3>5. arrived'[c] = n
      BY <2>1 DEF n
    <3>6. NumberedUpTo(Stream(c), arrived[c])'
      BY <3>2, <3>3, <3>4, <3>5 DEF NumberedUpTo
    <3> QED
      BY <1>2, <2>1, <3>6
  <2> QED
    BY <2>8, <2>9
<1>6. ASSUME NEW c \in Channels, ReadFailed(c) PROVE NumberInv'
  BY <1>6 DEF ReadFailed, NumberInv, NumberedUpTo, Stream, BeingRead
<1>7. ASSUME NEW c \in Channels, ReadAnswer(c) PROVE NumberInv'
  <2>1. PICK n \in Portions(c) \cup (IF kind[c] = "UDP" THEN {} ELSE {0}) :
          \/ /\ inbox' = [inbox EXCEPT ![c] = Rest(inbox[c], n)]
             /\ readBuffer' = [readBuffer EXCEPT ![c] = <<<<>>>>]
             /\ UNCHANGED <<arrived, delivered>>
          \/ \E n0 \in {0, 1} : Erase({c}, n0)
    BY <1>7 DEF ReadAnswer
  <2>2. stage[c] = "asked" /\ inbox[c] # <<>>
    BY <1>7 DEF ReadAnswer
  <2>3. CASE \E n0 \in {0, 1} : Erase({c}, n0)
    BY <2>3, EraseNumbers
  <2>4. CASE /\ inbox' = [inbox EXCEPT ![c] = Rest(inbox[c], n)]
             /\ readBuffer' = [readBuffer EXCEPT ![c] = <<<<>>>>]
             /\ UNCHANGED <<arrived, delivered>>
    <3> DEFINE x == inbox[c]
               p == Prefix(x, n)
               r == Rest(x, n)
    <3>1. x \in Seq(Packets) /\ Len(x) \in Nat /\ arrived[c] \in Nat
      BY StreamType, LenProperties
    <3>2. n \in 0..Len(x)
      BY <2>2, <3>1, EmptySeq DEF Portions
    <3>3. p \in Seq(Packets) /\ r \in Seq(Packets) /\ x = p \o r
      BY <3>1, <3>2, SplitSequence
    <3>4. delivered[c] = <<>> /\ BeingRead(c) = <<>>
      BY <2>2 DEF TypeInv, ReadInv, Reading, BeingRead
    <3>5. readBuffer'[c] = << <<>> >> /\ inbox'[c] = r /\ delivered'[c] = <<>>
      BY <2>4, <3>4 DEF TypeInv, TypeOK
    <3>6. BeingRead(c)' = <<>>
      BY <3>5 DEF BeingRead
    <3>7. Stream(c) = (<<>> \o <<>>) \o x /\ Stream(c)' = (<<>> \o <<>>) \o r
      BY <3>4, <3>5, <3>6 DEF Stream
    <3> HIDE DEF x, p, r
    <3>8. (<<>> \o <<>>) \o x = x /\ (<<>> \o <<>>) \o r = r
      BY <3>1, <3>3, EmptySeq, ConcatEmptySeq
    <3>9. NumberedUpTo(x, arrived[c])
      BY <3>7, <3>8 DEF NumberInv
    <3>10. NumberedUpTo(r, arrived[c])
      BY <3>1, <3>3, <3>9, NumberedRest
    <3>11. NumberedUpTo(Stream(c), arrived[c])'
      BY <2>4, <3>7, <3>8, <3>10 DEF NumberedUpTo
    <3> QED
      BY <1>2, <2>4, <3>11
  <2> QED
    BY <2>1, <2>3, <2>4
<1>8. ASSUME NEW c \in Channels, Open(c) PROVE NumberInv'
  <2>1. CASE BuildSocket(c) \/ ConnectTcp(c) \/ ConnectTls(c) \/ ResolveUdp(c) \/ Handshake(c)
             \/ SendRequest(c)
    BY <1>1, <2>1 DEF BuildSocket, ConnectTcp, ConnectTls, ResolveUdp, ConnectTo, Handshake,
                      SendRequest
  <2>2. CASE ReadAnswerFails(c)
    BY <2>2, EraseNumbers DEF ReadAnswerFails
  <2> QED
    BY <1>7, <1>8, <2>1, <2>2 DEF Open
<1>9. ASSUME NEW c \in Channels,
             SetListener(c) \/ Send(c) \/ StartWrite(c) \/ Write(c) \/ WriteDone(c) \/ Break(c)
      PROVE  NumberInv'
  BY <1>1, <1>9 DEF SetListener, Send, StartWrite, Write, WriteDone, Break
<1>11. CASE LateCompletion \/ UNCHANGED vars
  BY <1>1, <1>11 DEF LateCompletion, vars
<1>12. ASSUME NEW C \in SUBSET Channels, Close(C) PROVE NumberInv'
  BY <1>12, EraseNumbers DEF Close
<1> QED
  BY <1>3, <1>4, <1>5, <1>6, <1>8, <1>9, <1>11, <1>12 DEF Next

(* For any number of channels and packets, and whatever a read takes of a  *)
(* stream: the listener receives the packets of its channel as they        *)
(* arrived, without a gap, a repetition or a change of order.              *)
THEOREM InOrder == Spec => []ReceivedInOrder
<1>1. Init => NumberInv
  <2> SUFFICES ASSUME Init, NEW c \in Channels PROVE NumberedUpTo(Stream(c), arrived[c])
    BY DEF NumberInv
  <2>1. delivered[c] = <<>> /\ BeingRead(c) = <<>> /\ inbox[c] = <<>>
    BY DEF Init, BeingRead
  <2>2. <<>> \o <<>> = <<>> /\ Len(<<>>) = 0
    BY EmptySeq, ConcatEmptySeq
  <2>3. Stream(c) = <<>>
    BY <2>1, <2>2 DEF Stream
  <2> QED
    BY <2>2, <2>3 DEF NumberedUpTo
<1>2. TypeInv /\ NumberInv => ReceivedInOrder
  <2> SUFFICES ASSUME TypeInv, NumberInv, NEW c \in Channels, NEW i \in 1..(Len(Stream(c)) - 1)
               PROVE  Stream(c)[i + 1] = Stream(c)[i] + 1
    BY DEF ReceivedInOrder
  <2> DEFINE s == Stream(c)
  <2>1. s \in Seq(Packets) /\ arrived[c] \in Nat
    BY StreamType
  <2>2. \A j \in 1..Len(s) : s[j] + Len(s) = arrived[c] + j
    BY DEF NumberInv, NumberedUpTo
  <2>3. Len(s) \in Nat /\ \A j \in 1..Len(s) : s[j] \in Nat
    BY <2>1, LenProperties, ElementOfSeq DEF Packets
  <2> HIDE DEF s
  <2>4. i \in 1..Len(s) /\ i + 1 \in 1..Len(s)
    BY <2>3 DEF s
  <2>5. s[i] + Len(s) = arrived[c] + i /\ s[i + 1] + Len(s) = arrived[c] + (i + 1)
    BY <2>2, <2>4
  <2>6. s[i] \in Nat /\ s[i + 1] \in Nat
    BY <2>3, <2>4
  <2>7. s[i + 1] = s[i] + 1
    BY <2>1, <2>3, <2>4, <2>5, <2>6
  <2> QED
    BY <2>7 DEF s
<1> QED
  BY <1>1, <1>2, InitTypeInv, NextTypeInv, NextNumbers, PTL DEF Spec
=============================================================================
