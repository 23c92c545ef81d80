------------------------ MODULE ClientBackendProofs ------------------------
(***************************************************************************)
(* Proofs about the connection to the facade.  For every number of         *)
(* io_service threads and of connections: the types, and the order in      *)
(* which messages are handed to the stream.  For one thread, or one        *)
(* connection: the poller, the closing loop, and the tokens of READ and    *)
(* WRITE; what those theorems assume beyond the specification is their     *)
(* hypothesis.                                                             *)
(***************************************************************************)
EXTENDS ClientBackend, SequenceTheorems, FiniteSetTheorems, TLAPS

-----------------------------------------------------------------------------
(* Types.                                                                  *)
(* Before the first connection nothing is under way.                       *)
Started ==
  session = 0 => /\ phase = "closed"
                 /\ ops = {} /\ completions = <<>>
                 /\ \A w \in Workers : got[w] = Timeout
(* The bound on messages leaves room for the SETUP of every connection     *)
(* that is still to be opened.                                             *)
Room ==
  /\ Len(sent) + (MaxSessions - session) <= MaxSends
  /\ phase \in {"opening", "setup"} => Len(sent) + (MaxSessions - session) < MaxSends
TypeInv == TypeOK /\ Started /\ Room

(* The initial states have their types.                                    *)
LEMMA InitTypeInv == Init => TypeInv
<1> SUFFICES ASSUME Init PROVE TypeInv
  OBVIOUS
<1> USE BoundsAssumption
<1>1. TypeOK
  <2>1. /\ sendingQueue \in Seq(Messages) /\ sent \in Seq(Messages)
        /\ written \in Seq(Writes)
        /\ completions \in Seq(Completions)
    BY EmptySeq DEF Init
  <2>2. /\ received \in [1..MaxSessions -> Seq(0..MaxReceives)]
        /\ session \in 0..MaxSessions
        /\ toRead \in 0..MaxReceives /\ produced \in 0..MaxReceives
    BY EmptySeq DEF Init
  <2>3. phase \in Phases /\ releaseTag \in Tags \cup {"NONE"}
    BY DEF Init, Phases
  <2>4. /\ at \in [Workers -> {"idle", "polled", "dispatched"}]
        /\ got \in [Workers -> Completions \cup {Timeout}]
    BY DEF Init
  <2> QED
    BY <2>1, <2>2, <2>3, <2>4 DEF Init, TypeOK
<1>2. Started /\ Room
  BY EmptySeq DEF Init, Started, Room
<1> QED
  BY <1>1, <1>2 DEF TypeInv

(* An operation started in a connection is one of Operations.              *)
LEMMA OpType ==
  ASSUME TypeOK, session # 0, NEW tag \in Tags
  PROVE  ops \cup {Op(tag)} \subseteq Operations
BY DEF Op, TypeOK, Operations

(* A message written in a connection is one of Writes.                     *)
LEMMA WriteType ==
  ASSUME TypeOK, session # 0, NEW m \in Messages, Write(m)
  PROVE  written' \in Seq(Writes)
<1>1. [message |-> m, of |-> session] \in Writes
  BY DEF Writes, TypeOK
<1> QED
  BY <1>1, AppendProperties DEF Write, TypeOK

(* send keeps the types of the queue, of the histories and of the          *)
(* operations.                                                             *)
LEMMA SendMessageType ==
  ASSUME TypeOK, session # 0, Len(sent) < MaxSends, SendMessage
  PROVE  /\ sent' \in Seq(Messages) /\ sendingQueue' \in Seq(Messages)
         /\ sending' \in BOOLEAN
         /\ written' \in Seq(Writes)
         /\ ops' \subseteq Operations
<1>1. NextMessage \in Messages
  BY BoundsAssumption DEF NextMessage, Messages, TypeOK
<1>2. sent' \in Seq(Messages)
  BY <1>1, AppendProperties DEF SendMessage, TypeOK
<1>3. CASE sending
  <2>1. /\ sendingQueue' = Append(sendingQueue, NextMessage)
        /\ UNCHANGED <<sending, written, ops>>
    BY <1>3 DEF SendMessage
  <2> QED
    BY <1>1, <1>2, <2>1, AppendProperties DEF TypeOK
<1>4. CASE ~sending
  <2>1. sending' = TRUE /\ Write(NextMessage) /\ sendingQueue' = sendingQueue
        /\ ops' = ops \cup {Op("WRITE")}
    BY <1>4 DEF SendMessage
  <2> QED
    BY <1>1, <1>2, <2>1, WriteType, OpType DEF TypeOK, Tags
<1> QED
  BY <1>3, <1>4

(* Every step keeps the types.                                             *)
LEMMA NextTypeInv == TypeInv /\ [Next]_vars => TypeInv'
<1> SUFFICES ASSUME TypeInv, [Next]_vars PROVE TypeInv'
  OBVIOUS
<1> USE BoundsAssumption DEF TypeInv, handlers, sender, poller, grpc, Phases
<1>0. CASE UNCHANGED vars
  BY <1>0 DEF vars, TypeOK, Started, Room
<1>1. CASE OpenCall
  <2>1. ops' \subseteq Operations
    BY <1>1 DEF OpenCall, TypeOK, Operations, Tags
  <2> QED
    BY <1>1, <2>1 DEF OpenCall, TypeOK, Started, Room
<1>2. CASE OpenReturn
  <2>1. completions' \in Seq(Completions) /\ session # 0
    BY <1>2 DEF OpenReturn, TypeOK, Started
  <2>2. CASE phase' = "setup"
    <3>1. /\ ops' = ops \cup {Op("READ")}
          /\ toRead' = 0 /\ sending' = FALSE /\ keepReader' = TRUE
          /\ posted' = posted + 1
      BY <1>2, <2>2 DEF OpenReturn
    <3>2. ops' \subseteq Operations
      BY <2>1, <3>1, OpType DEF Tags
    <3>3. sending' \in BOOLEAN /\ keepReader' \in BOOLEAN
      BY <3>1
    <3>6. posted' \in Nat /\ toRead' \in 0..MaxReceives
      BY <3>1 DEF TypeOK
    <3>4. UNCHANGED <<session, releaseTag, sendingQueue, sent, written, at, got,
                      link, produced, received>>
      BY <1>2 DEF OpenReturn
    <3>5. TypeOK'
      BY <2>1, <2>2, <3>2, <3>3, <3>4, <3>6 DEF TypeOK
    <3> QED
      BY <1>2, <2>1, <2>2, <3>5 DEF OpenReturn, Started, Room
  <2>3. CASE phase' = "closed"
    <3>1. UNCHANGED <<ops, toRead, sending, keepReader, posted>>
      BY <1>2, <2>3 DEF OpenReturn
    <3> QED
      BY <1>2, <2>1, <2>3, <3>1 DEF OpenReturn, TypeOK, Started, Room
  <2> QED
    BY <1>2, <2>2, <2>3 DEF OpenReturn
<1>3. CASE Setup
  <2>1. session # 0 /\ Len(sent) < MaxSends
    BY <1>3 DEF Setup, TypeOK, Started, Room
  <2>2. Len(sent') = Len(sent) + 1 /\ phase = "setup" /\ phase' = "open"
    BY <1>3 DEF Setup, SendMessage, TypeOK
  <2> QED
    BY <1>3, <2>1, <2>2, SendMessageType DEF Setup, TypeOK, Started, Room
<1>4. CASE Send
  <2>1. session # 0 /\ Len(sent) < MaxSends
    BY <1>4 DEF Send, TypeOK, Started, Room
  <2>2. Len(sent') = Len(sent) + 1 /\ phase = "open"
    BY <1>4 DEF Send, SendMessage, TypeOK
  <2> QED
    BY <1>4, <2>1, <2>2, SendMessageType DEF Send, TypeOK, Started, Room
<1>5. CASE CloseCall
  <2>1. session # 0
    BY <1>5 DEF CloseCall, Started
  <2>2. ops' \subseteq Operations
    BY <1>5, <2>1, OpType DEF CloseCall, Tags
  <2> QED
    BY <1>5, <2>1, <2>2 DEF CloseCall, TypeOK, Started, Room, Tags
<1>6. CASE CloseNext
  <2>1. Head(completions).tag \in Tags /\ completions' \in Seq(Completions)
    <3>1. Head(completions) \in Completions /\ Tail(completions) \in Seq(Completions)
      BY <1>6, HeadTailProperties DEF CloseNext, TypeOK
    <3> QED
      BY <1>6, <3>1 DEF CloseNext, Completions
  <2> QED
    BY <1>6, <2>1 DEF CloseNext, TypeOK, Started, Room
<1>7. CASE CloseTimeout
  BY <1>7 DEF CloseTimeout, TypeOK, Started, Room
<1>8. ASSUME NEW w \in Workers, Poll(w) PROVE TypeInv'
  BY <1>8 DEF Poll, TypeOK, Started, Room
<1>9. ASSUME NEW w \in Workers, DispatchRead(w) PROVE TypeInv'
  <2>1. session # 0
    BY <1>9 DEF DispatchRead, TypeOK, Started, Timeout
  <2>2. ops' \subseteq Operations
    BY <1>9, <2>1, OpType DEF DispatchRead, Tags
  <2>3. received' \in [1..MaxSessions -> Seq(0..MaxReceives)]
    BY <1>9, <2>1 DEF DispatchRead, TypeOK
  <2> QED
    BY <1>9, <2>1, <2>2, <2>3 DEF DispatchRead, TypeOK, Started, Room
<1>10. ASSUME NEW w \in Workers, DispatchWrite(w) PROVE TypeInv'
  <2>1. session # 0
    BY <1>10 DEF DispatchWrite, TypeOK, Started, Timeout
  <2>2. CASE sendingQueue = <<>>
    <3>1. sending' = FALSE /\ UNCHANGED <<sendingQueue, written, ops>>
      BY <1>10, <2>2 DEF DispatchWrite
    <3> QED
      BY <1>10, <2>1, <3>1 DEF DispatchWrite, TypeOK, Started, Room
  <2>3. CASE sendingQueue # <<>>
    <3>1. Head(sendingQueue) \in Messages /\ Tail(sendingQueue) \in Seq(Messages)
      BY <2>3, HeadTailProperties DEF TypeOK
    <3>2. /\ Write(Head(sendingQueue)) /\ ops' = ops \cup {Op("WRITE")}
          /\ sendingQueue' = Tail(sendingQueue) /\ sending' = sending
      BY <1>10, <2>3 DEF DispatchWrite
    <3>3. written' \in Seq(Writes) /\ ops' \subseteq Operations
      BY <2>1, <3>1, <3>2, WriteType, OpType DEF Tags
    <3> QED
      BY <1>10, <2>1, <3>1, <3>2, <3>3 DEF DispatchWrite, TypeOK, Started, Room
  <2> QED
    BY <2>2, <2>3
<1>11. ASSUME NEW w \in Workers, DispatchOther(w) PROVE TypeInv'
  BY <1>11 DEF DispatchOther, TypeOK, Started, Room
<1>12. ASSUME NEW w \in Workers, Repost(w) PROVE TypeInv'
  BY <1>12 DEF Repost, TypeOK, Started, Room
<1>13. ASSUME NEW op \in ops, NEW ok \in BOOLEAN, Complete(op, ok)
       PROVE  /\ completions' \in Seq(Completions)
              /\ ops' \subseteq Operations
              /\ session # 0
  <2>1. op \in Operations /\ session # 0
    BY DEF TypeOK, Started
  <2>2. [tag |-> op.tag, ok |-> ok, of |-> op.of] \in Completions
    BY <2>1 DEF Operations, Completions
  <2> QED
    BY <1>13, <2>1, <2>2, AppendProperties DEF Complete, TypeOK
<1>14. CASE Opened \/ WriteDone \/ Abort \/ Finished
  <2> SUFFICES ASSUME NEW op \in ops, NEW ok \in BOOLEAN, Complete(op, ok),
                      UNCHANGED <<external, toRead, produced>>, link' \in {"up", "down", link}
               PROVE  TypeInv'
    BY <1>14 DEF Opened, WriteDone, Abort, Finished, Complete
  <2> QED
    BY <1>13 DEF external, TypeOK, Started, Room
<1>15. CASE ReadDone
  <2>1. /\ completions' \in Seq(Completions)
        /\ ops' \subseteq Operations
        /\ session # 0
    BY <1>13, <1>15 DEF ReadDone, Complete
  <2> QED
    BY <1>15, <2>1 DEF ReadDone, external, TypeOK, Started, Room
<1>16. CASE FacadeEndsCall \/ Break
  BY <1>16 DEF FacadeEndsCall, Break, external, TypeOK, Started, Room
<1> QED
  BY <1>0, <1>1, <1>2, <1>3, <1>4, <1>5, <1>6, <1>7, <1>8, <1>9, <1>10, <1>11,
     <1>12, <1>14, <1>15, <1>16 DEF Next

(* Every variable of the connection keeps its type, for any number of      *)
(* threads, connections and messages: no step acts on a connection that    *)
(* was never opened.                                                       *)
THEOREM TypeCorrectness == Spec => []TypeOK
<1>1. TypeInv => TypeOK
  BY DEF TypeInv
<1> QED
  BY <1>1, InitTypeInv, NextTypeInv, PTL DEF Spec

-----------------------------------------------------------------------------
(* Messages in order.                                                      *)
(* q is p with m inserted at position k.                                   *)
Inserted(p, k, m, q) ==
  /\ k \in 1..Len(p) + 1
  /\ Len(q) = Len(p) + 1
  /\ \A i \in 1..Len(q) : q[i] = IF i < k THEN p[i] ELSE IF i = k THEN m ELSE p[i - 1]
(* What occurred still occurs after an insertion, and so does what was     *)
(* inserted.                                                               *)
LEMMA InsertedOccur ==
  ASSUME NEW p \in Seq(Messages), NEW q \in Seq(Messages), NEW k, NEW m, Inserted(p, k, m, q)
  PROVE  /\ Occurs(m, q)
         /\ \A n : Occurs(n, p) => Occurs(n, q)
<1>0. /\ Len(p) \in Nat /\ DOMAIN p = 1..Len(p)
      /\ Len(q) \in Nat /\ DOMAIN q = 1..Len(q)
  BY LenProperties
<1>1. q[k] = m /\ k \in 1..Len(q)
  BY <1>0 DEF Inserted
<1>2. ASSUME NEW i \in 1..Len(p) PROVE Occurs(p[i], q)
  <2>1. CASE i < k
    <3>1. i \in 1..Len(q) /\ q[i] = p[i]
      BY <1>0, <2>1 DEF Inserted
    <3> QED
      BY <1>0, <3>1 DEF Occurs
  <2>2. CASE ~(i < k)
    <3>1. i + 1 \in 1..Len(q) /\ ~(i + 1 < k) /\ i + 1 # k
      BY <1>0, <2>2 DEF Inserted
    <3>2. q[i + 1] = p[i]
      BY <1>0, <3>1 DEF Inserted
    <3> QED
      BY <1>0, <3>1, <3>2 DEF Occurs
  <2> QED
    BY <2>1, <2>2
<1> QED
  BY <1>0, <1>1, <1>2 DEF Occurs

(* An insertion keeps the order if the message is newer than all others    *)
(* and no message of its connection follows it.                            *)
LEMMA InsertedInOrder ==
  ASSUME NEW p \in Seq(Messages), NEW q \in Seq(Messages), NEW k, NEW m, Inserted(p, k, m, q),
         InOrder(p), m.no \in Nat,
         \A i \in 1..Len(p) : p[i].no < m.no,
         \A i \in 1..Len(p) : i >= k => p[i].session # m.session
  PROVE  InOrder(q)
<1>0. /\ Len(p) \in Nat /\ DOMAIN p = 1..Len(p)
      /\ Len(q) \in Nat /\ DOMAIN q = 1..Len(q)
  BY LenProperties
<1> SUFFICES ASSUME NEW i \in 1..Len(q), NEW j \in 1..Len(q), i < j, q[i].session = q[j].session
             PROVE  q[i].no < q[j].no
  BY <1>0 DEF InOrder
<1> DEFINE place(n) == IF n < k THEN n ELSE n - 1
<1>1. CASE i # k /\ j # k
  <2>1. place(i) \in 1..Len(p) /\ place(j) \in 1..Len(p) /\ place(i) < place(j)
    BY <1>0, <1>1 DEF Inserted
  <2>2. q[i] = p[place(i)] /\ q[j] = p[place(j)]
    BY <1>0, <1>1 DEF Inserted
  <2> QED
    BY <1>0, <2>1, <2>2 DEF InOrder
<1>2. CASE i = k
  <2>1. j - 1 \in 1..Len(p) /\ j - 1 >= k /\ q[j] = p[j - 1] /\ q[i] = m
    BY <1>0, <1>2 DEF Inserted
  <2> QED
    BY <2>1
<1>3. CASE j = k
  <2>1. i \in 1..Len(p) /\ q[i] = p[i] /\ q[j] = m
    BY <1>0, <1>3 DEF Inserted
  <2> QED
    BY <2>1
<1> QED
  BY <1>1, <1>2, <1>3

(* The elements of Handed.                                                 *)
LEMMA HandedElements ==
  ASSUME NEW w \in Seq(Writes), NEW q \in Seq(Messages)
  PROVE  /\ Handed(w, q) \in Seq(Messages)
         /\ Len(Handed(w, q)) = Len(w) + Len(q)
         /\ \A i \in 1..Len(w) + Len(q) :
              Handed(w, q)[i] = IF i <= Len(w) THEN w[i].message ELSE q[i - Len(w)]
<1> DEFINE ms == [i \in DOMAIN w |-> w[i].message]
<1>0. Len(w) \in Nat /\ DOMAIN w = 1..Len(w)
  BY LenProperties
<1>1. \A i \in 1..Len(w) : w[i].message \in Messages
  <2>1. \A i \in 1..Len(w) : w[i] \in Writes
    BY ElementOfSeq
  <2> QED
    BY <2>1 DEF Writes
<1>2. ms \in Seq(Messages)
  BY <1>0, <1>1, IsASeq
<1>3. Len(ms) = Len(w)
  BY <1>0, <1>2, LenProperties
<1>4. \A i \in 1..Len(w) : ms[i] = w[i].message
  BY <1>0
<1>5. /\ ms \o q \in Seq(Messages)
      /\ Len(ms \o q) = Len(ms) + Len(q)
      /\ \A i \in 1..Len(ms) + Len(q) :
           (ms \o q)[i] = IF i <= Len(ms) THEN ms[i] ELSE q[i - Len(ms)]
  BY <1>2, ConcatProperties
<1>6. Handed(w, q) = ms \o q
  BY DEF Handed
<1> HIDE DEF ms
<1> QED
  BY <1>3, <1>4, <1>5, <1>6

(* Queueing a message inserts it at the end.                               *)
LEMMA HandedAppend ==
  ASSUME NEW w \in Seq(Writes), NEW q \in Seq(Messages), NEW m \in Messages
  PROVE  Inserted(Handed(w, q), Len(w) + Len(q) + 1, m, Handed(w, Append(q, m)))
<1> DEFINE a == Append(q, m)
<1>1. Len(w) \in Nat /\ Len(q) \in Nat
  BY LenProperties
<1>2. /\ a \in Seq(Messages) /\ Len(a) = Len(q) + 1
      /\ \A i \in 1..Len(q) : a[i] = q[i]
      /\ a[Len(q) + 1] = m
  BY AppendProperties
<1> HIDE DEF a
<1>3. /\ Len(Handed(w, q)) = Len(w) + Len(q)
      /\ \A i \in 1..Len(w) + Len(q) :
           Handed(w, q)[i] = IF i <= Len(w) THEN w[i].message ELSE q[i - Len(w)]
  BY HandedElements
<1>4. /\ Len(Handed(w, a)) = Len(w) + Len(a)
      /\ \A i \in 1..Len(w) + Len(a) :
           Handed(w, a)[i] = IF i <= Len(w) THEN w[i].message ELSE a[i - Len(w)]
  BY <1>2, HandedElements
<1>5. ASSUME NEW i \in 1..Len(w) + Len(q)
      PROVE  Handed(w, a)[i] = Handed(w, q)[i]
  <2>1. CASE i <= Len(w)
    BY <1>1, <1>2, <1>3, <1>4, <2>1
  <2>2. CASE i > Len(w)
    <3>1. i - Len(w) \in 1..Len(q)
      BY <1>1, <2>2
    <3>2. a[i - Len(w)] = q[i - Len(w)]
      BY <1>2, <3>1
    <3>3. i \in 1..Len(w) + Len(a) /\ ~(i <= Len(w))
      BY <1>1, <1>2, <2>2
    <3> QED
      BY <1>3, <1>4, <3>2, <3>3
  <2> QED
    BY <1>1, <2>1, <2>2
<1>6. Handed(w, a)[Len(w) + Len(q) + 1] = m
  <2>1. Len(w) + Len(q) + 1 - Len(w) = Len(q) + 1
    BY <1>1
  <2> QED
    BY <1>1, <1>2, <1>4, <2>1
<1>7. Inserted(Handed(w, q), Len(w) + Len(q) + 1, m, Handed(w, a))
  BY <1>1, <1>2, <1>3, <1>4, <1>5, <1>6 DEF Inserted
<1> QED
  BY <1>7 DEF a

(* Writing a message at once inserts it before those that wait.            *)
LEMMA HandedWrite ==
  ASSUME NEW w \in Seq(Writes), NEW q \in Seq(Messages), NEW r \in Writes
  PROVE  Inserted(Handed(w, q), Len(w) + 1, r.message, Handed(Append(w, r), q))
<1> DEFINE a == Append(w, r)
<1>1. Len(w) \in Nat /\ Len(q) \in Nat
  BY LenProperties
<1>2. /\ a \in Seq(Writes) /\ Len(a) = Len(w) + 1
      /\ \A i \in 1..Len(w) : a[i] = w[i]
      /\ a[Len(w) + 1] = r
  BY AppendProperties
<1> HIDE DEF a
<1>3. /\ Len(Handed(w, q)) = Len(w) + Len(q)
      /\ \A i \in 1..Len(w) + Len(q) :
           Handed(w, q)[i] = IF i <= Len(w) THEN w[i].message ELSE q[i - Len(w)]
  BY HandedElements
<1>4. /\ Len(Handed(a, q)) = Len(a) + Len(q)
      /\ \A i \in 1..Len(a) + Len(q) :
           Handed(a, q)[i] = IF i <= Len(a) THEN a[i].message ELSE q[i - Len(a)]
  BY <1>2, HandedElements
<1>5. ASSUME NEW i \in 1..Len(w) + Len(q) + 1, i > Len(w) + 1
      PROVE  Handed(a, q)[i] = Handed(w, q)[i - 1]
  <2>1. i - Len(a) = i - 1 - Len(w) /\ i - 1 > Len(w) /\ i > Len(a)
    BY <1>1, <1>2, <1>5
  <2> QED
    BY <1>1, <1>2, <1>3, <1>4, <1>5, <2>1
<1>6. Handed(a, q)[Len(w) + 1] = r.message
  BY <1>1, <1>2, <1>4
<1>7. \A i \in 1..Len(w) : Handed(a, q)[i] = Handed(w, q)[i]
  BY <1>1, <1>2, <1>3, <1>4
<1>8. Inserted(Handed(w, q), Len(w) + 1, r.message, Handed(a, q))
  BY <1>1, <1>2, <1>3, <1>4, <1>5, <1>6, <1>7 DEF Inserted
<1> QED
  BY <1>8 DEF a

(* Writing the message that waits longest changes nothing in what was      *)
(* handed over: the move of DispatchWrite.                                 *)
LEMMA HandedOver ==
  ASSUME NEW w \in Seq(Writes), NEW q \in Seq(Messages), q # <<>>,
         NEW r \in Writes, r.message = Head(q)
  PROVE  Handed(Append(w, r), Tail(q)) = Handed(w, q)
<1> DEFINE a == Append(w, r)
           t == Tail(q)
<1>1. Len(w) \in Nat /\ Len(q) \in Nat
  BY LenProperties
<1>2. /\ t \in Seq(Messages) /\ Len(t) = Len(q) - 1
      /\ \A i \in 1..Len(q) - 1 : t[i] = q[i + 1]
      /\ r.message = q[1]
  BY HeadTailProperties
<1>3. /\ a \in Seq(Writes) /\ Len(a) = Len(w) + 1
      /\ \A i \in 1..Len(w) : a[i] = w[i]
      /\ a[Len(w) + 1] = r
  BY AppendProperties
<1> HIDE DEF a, t
<1>4. /\ Handed(w, q) \in Seq(Messages)
      /\ Len(Handed(w, q)) = Len(w) + Len(q)
      /\ \A i \in 1..Len(w) + Len(q) :
           Handed(w, q)[i] = IF i <= Len(w) THEN w[i].message ELSE q[i - Len(w)]
  BY HandedElements
<1>5. /\ Handed(a, t) \in Seq(Messages)
      /\ Len(Handed(a, t)) = Len(a) + Len(t)
      /\ \A i \in 1..Len(a) + Len(t) :
           Handed(a, t)[i] = IF i <= Len(a) THEN a[i].message ELSE t[i - Len(a)]
  BY <1>2, <1>3, HandedElements
<1>6. ASSUME NEW i \in 1..Len(w) + Len(q)
      PROVE  Handed(a, t)[i] = Handed(w, q)[i]
  <2>0. i \in 1..Len(a) + Len(t)
    BY <1>1, <1>2, <1>3
  <2>1. CASE i <= Len(w)
    <3>1. i <= Len(a) /\ a[i] = w[i]
      BY <1>1, <1>3, <2>1
    <3> QED
      BY <1>4, <1>5, <2>0, <2>1, <3>1
  <2>2. CASE i = Len(w) + 1
    <3>1. /\ i <= Len(a) /\ a[i] = r
          /\ ~(i <= Len(w)) /\ q[i - Len(w)] = q[1]
      BY <1>1, <1>3, <2>2
    <3> QED
      BY <1>2, <1>4, <1>5, <2>0, <3>1
  <2>3. CASE i > Len(w) + 1
    <3>1. /\ i - Len(a) \in 1..Len(q) - 1
          /\ i - Len(a) + 1 = i - Len(w)
          /\ ~(i <= Len(a)) /\ ~(i <= Len(w))
      BY <1>1, <1>3, <2>3
    <3>2. t[i - Len(a)] = q[i - Len(w)]
      BY <1>2, <3>1
    <3> QED
      BY <1>4, <1>5, <2>0, <3>1, <3>2
  <2> QED
    BY <1>1, <2>1, <2>2, <2>3
<1>7. Handed(a, t) = Handed(w, q)
  BY <1>1, <1>2, <1>3, <1>4, <1>5, <1>6, SeqEqual
<1> QED
  BY <1>7 DEF a, t

-----------------------------------------------------------------------------
(* Sending.                                                                *)
(* The messages handed over are no newer than the last one sent; when no   *)
(* Write is in progress the queue holds only messages of earlier           *)
(* connections, so that a message written at once overtakes none of its    *)
(* own.                                                                    *)
QueueInOrder ==
  /\ \A i \in DOMAIN Placed : Placed[i].no <= Len(sent) /\ Placed[i].session <= session
  /\ ~sending \/ phase = "opening" =>
       \A i \in DOMAIN sendingQueue : sendingQueue[i].session < session

(* The inductive invariant of sending.                                     *)
OrderInv == TypeInv /\ QueueInOrder /\ SendOrder

(* It holds initially.                                                     *)
LEMMA InitOrderInv == Init => OrderInv
<1> SUFFICES ASSUME Init PROVE OrderInv
  OBVIOUS
<1>1. TypeInv
  BY InitTypeInv
<1>2. Placed \in Seq(Messages) /\ Len(Placed) = 0 /\ Len(sent) = 0
  <2>1. /\ written \in Seq(Writes) /\ sendingQueue \in Seq(Messages)
        /\ Len(written) = 0 /\ Len(sendingQueue) = 0 /\ Len(sent) = 0
    BY EmptySeq DEF Init
  <2>2. /\ Handed(written, sendingQueue) \in Seq(Messages)
        /\ Len(Handed(written, sendingQueue)) = Len(written) + Len(sendingQueue)
    BY <2>1, HandedElements
  <2> QED
    BY <2>1, <2>2 DEF Placed
<1>3. DOMAIN Placed = {} /\ DOMAIN sent = {} /\ DOMAIN sendingQueue = {}
  <2>1. /\ sent \in Seq(Messages) /\ sendingQueue \in Seq(Messages)
        /\ Len(sent) = 0 /\ Len(sendingQueue) = 0
    BY EmptySeq DEF Init
  <2>2. /\ DOMAIN Placed = 1..Len(Placed) /\ DOMAIN sent = 1..Len(sent)
        /\ DOMAIN sendingQueue = 1..Len(sendingQueue)
    BY <1>2, <2>1, LenProperties
  <2> QED
    BY <1>2, <2>1, <2>2
<1> QED
  BY <1>1, <1>2, <1>3 DEF Init, OrderInv, QueueInOrder, SendOrder, InOrder

(* send places its message behind those of its connection, in the queue    *)
(* or, when no Write is in progress, in the stream.                        *)
LEMMA PlaceNext ==
  ASSUME OrderInv, SendMessage, session # 0, TypeInv',
         session' = session, phase # "opening", phase' # "opening"
  PROVE  OrderInv'
<1> DEFINE m == NextMessage
           k == IF sending THEN Len(written) + Len(sendingQueue) + 1 ELSE Len(written) + 1
<1>1. /\ written \in Seq(Writes) /\ sendingQueue \in Seq(Messages)
      /\ written' \in Seq(Writes) /\ sendingQueue' \in Seq(Messages)
      /\ sent \in Seq(Messages) /\ session \in Nat
  BY DEF OrderInv, TypeInv, TypeOK
<1>2. /\ Placed \in Seq(Messages) /\ Placed' \in Seq(Messages)
      /\ DOMAIN Placed = 1..Len(Placed) /\ DOMAIN Placed' = 1..Len(Placed')
      /\ Len(Placed) = Len(written) + Len(sendingQueue)
      /\ Len(Placed) = Len(sent)
  BY <1>1, HandedElements, LenProperties DEF Placed, OrderInv, SendOrder
<1>3. /\ Len(written) \in Nat /\ Len(sendingQueue) \in Nat /\ Len(sent) \in Nat
      /\ DOMAIN sendingQueue = 1..Len(sendingQueue)
      /\ m.session = session /\ m.no = Len(sent) + 1
      /\ sent' = Append(sent, m) /\ m \in Messages
      /\ Len(sent') = Len(sent) + 1 /\ DOMAIN sent' = 1..Len(sent) + 1
      /\ sent'[Len(sent) + 1] = m
      /\ \A i \in 1..Len(sent) : sent'[i] = sent[i]
  <2>1. sent' = Append(sent, m) /\ sent' \in Seq(Messages)
    BY DEF SendMessage, TypeInv, TypeOK
  <2>2. m \in Messages
    <3>1. Len(sent') = Len(sent) + 1 /\ sent'[Len(sent) + 1] = m /\ Len(sent) \in Nat
      BY <1>1, <2>1
    <3> QED
      BY <2>1, <3>1, ElementOfSeq
  <2> QED
    BY <1>1, <2>1, <2>2, AppendProperties, LenProperties DEF NextMessage
<1> HIDE DEF m
<1>4. Inserted(Placed, k, m, Placed')
  <2>1. CASE sending
    <3>1. written' = written /\ sendingQueue' = Append(sendingQueue, m)
      BY <2>1 DEF SendMessage, m
    <3> QED
      BY <1>1, <1>3, <2>1, <3>1, HandedAppend DEF Placed
  <2>2. CASE ~sending
    <3> DEFINE r == [message |-> m, of |-> session]
    <3>1. written' = Append(written, r) /\ sendingQueue' = sendingQueue
      BY <2>2 DEF SendMessage, Write, m
    <3>2. r \in Writes
      BY <1>1, <1>3 DEF Writes, OrderInv, TypeInv, TypeOK
    <3>3. r.message = m
      OBVIOUS
    <3> HIDE DEF r
    <3> QED
      BY <1>1, <2>2, <3>1, <3>2, <3>3, HandedWrite DEF Placed
  <2> QED
    BY <2>1, <2>2
<1>5. /\ \A i \in 1..Len(Placed) : Placed[i].no <= Len(sent) /\ Placed[i].session <= session
      /\ \A i \in 1..Len(Placed) : i >= k => Placed[i].session # m.session
  <2>1. \A i \in 1..Len(Placed) : Placed[i].no <= Len(sent) /\ Placed[i].session <= session
    BY <1>2 DEF OrderInv, QueueInOrder
  <2>2. ASSUME NEW i \in 1..Len(Placed), i >= k
        PROVE  Placed[i].session # m.session
    <3>1. ~sending /\ i - Len(written) \in 1..Len(sendingQueue) /\ ~(i <= Len(written))
      BY <1>2, <1>3, <2>2
    <3>2. Placed[i] = sendingQueue[i - Len(written)]
      BY <1>1, <1>2, <3>1, HandedElements DEF Placed
    <3>3. sendingQueue[i - Len(written)].session < session
      BY <1>3, <3>1 DEF OrderInv, QueueInOrder
    <3> QED
      BY <1>1, <1>3, <3>2, <3>3
  <2> QED
    BY <2>1, <2>2
<1>6. \A i \in 1..Len(Placed) : Placed[i].no \in Nat /\ Placed[i].session \in Nat
  <2>1. \A i \in 1..Len(Placed) : Placed[i] \in Messages
    BY <1>2, ElementOfSeq
  <2> QED
    BY <2>1 DEF Messages
<1>7. SendOrder'
  <2>1. Len(Placed') = Len(sent')
    BY <1>2, <1>3, <1>4 DEF Inserted
  <2>2. \A i \in DOMAIN sent' : Occurs(sent'[i], Placed')
    <3>1. Occurs(m, Placed') /\ \A n : Occurs(n, Placed) => Occurs(n, Placed')
      BY <1>2, <1>4, InsertedOccur
    <3>2. \A i \in 1..Len(sent) : Occurs(sent[i], Placed)
      BY <1>1, LenProperties DEF OrderInv, SendOrder
    <3> QED
      BY <1>3, <3>1, <3>2
  <2>3. InOrder(Placed')
    <3>1. InOrder(Placed)
      BY DEF OrderInv, SendOrder
    <3>2. m.no \in Nat /\ \A i \in 1..Len(Placed) : Placed[i].no < m.no
      BY <1>3, <1>5, <1>6
    <3> QED
      BY <1>2, <1>4, <1>5, <3>1, <3>2, InsertedInOrder
  <2> QED
    BY <2>1, <2>2, <2>3 DEF SendOrder
<1>8. QueueInOrder'
  <2>1. ASSUME NEW i \in 1..Len(Placed')
        PROVE  Placed'[i].no <= Len(sent') /\ Placed'[i].session <= session'
    <3>1. CASE i = k
      BY <1>1, <1>3, <1>4, <3>1 DEF Inserted
    <3>2. CASE i < k
      <4>1. i \in 1..Len(Placed) /\ Placed'[i] = Placed[i]
        BY <1>2, <1>3, <1>4, <3>2 DEF Inserted
      <4> QED
        BY <1>3, <1>5, <1>6, <4>1
    <3>3. CASE i > k
      <4>1. i - 1 \in 1..Len(Placed) /\ Placed'[i] = Placed[i - 1]
        BY <1>2, <1>3, <1>4, <3>3 DEF Inserted
      <4> QED
        BY <1>3, <1>5, <1>6, <4>1
    <3> QED
      BY <1>3, <3>1, <3>2, <3>3
  <2>2. sending' = TRUE
    BY DEF SendMessage
  <2> QED
    BY <1>2, <2>1, <2>2 DEF QueueInOrder
<1> QED
  BY <1>7, <1>8 DEF OrderInv

(* Every step keeps it.                                                    *)
LEMMA NextOrderInv == OrderInv /\ [Next]_vars => OrderInv'
<1> SUFFICES ASSUME OrderInv, [Next]_vars PROVE OrderInv'
  OBVIOUS
<1>1. TypeInv /\ TypeInv'
  BY NextTypeInv DEF OrderInv
<1>2. /\ written \in Seq(Writes) /\ sendingQueue \in Seq(Messages)
      /\ Placed \in Seq(Messages) /\ DOMAIN Placed = 1..Len(Placed)
      /\ Len(Placed) = Len(written) + Len(sendingQueue)
      /\ Len(written) \in Nat /\ Len(sendingQueue) \in Nat
      /\ DOMAIN sendingQueue = 1..Len(sendingQueue)
      /\ session \in Nat
  BY <1>1, HandedElements, LenProperties DEF TypeInv, TypeOK, Placed
<1>3. /\ \A i \in 1..Len(Placed) : Placed[i].session \in Nat
      /\ \A i \in 1..Len(Placed) : Placed[i].no <= Len(sent) /\ Placed[i].session <= session
      /\ \A i \in 1..Len(sendingQueue) :
           sendingQueue[i].session \in Nat /\ sendingQueue[i].session <= session
  <2>1. \A i \in 1..Len(Placed) : Placed[i].session \in Nat
    <3>1. \A i \in 1..Len(Placed) : Placed[i] \in Messages
      BY <1>2, ElementOfSeq
    <3> QED
      BY <3>1 DEF Messages
  <2>2. \A i \in 1..Len(Placed) : Placed[i].no <= Len(sent) /\ Placed[i].session <= session
    BY <1>2 DEF OrderInv, QueueInOrder
  <2>3. ASSUME NEW i \in 1..Len(sendingQueue)
        PROVE  sendingQueue[i].session \in Nat /\ sendingQueue[i].session <= session
    <3>1. /\ Len(written) + i \in 1..Len(Placed) /\ ~(Len(written) + i <= Len(written))
          /\ Len(written) + i - Len(written) = i
      BY <1>2
    <3>2. Placed[Len(written) + i] = sendingQueue[i]
      <4>1. \A j \in 1..Len(written) + Len(sendingQueue) :
              Placed[j] = IF j <= Len(written) THEN written[j].message
                          ELSE sendingQueue[j - Len(written)]
        BY <1>2, HandedElements DEF Placed
      <4> QED
        BY <1>2, <3>1, <4>1
    <3> QED
      BY <2>1, <2>2, <3>1, <3>2
  <2> QED
    BY <2>1, <2>2, <2>3
<1>4. ASSUME UNCHANGED <<sent, written, sendingQueue>>,
             \/ session' = session + 1
             \/ /\ session' = session
                /\ sending' = sending \/ phase = "opening"
                /\ phase' = "opening" => phase = "opening"
      PROVE  OrderInv'
  <2>1. Placed' = Placed /\ sendingQueue' = sendingQueue /\ sent' = sent
    BY <1>4 DEF Placed
  <2>2. SendOrder'
    BY <2>1 DEF OrderInv, SendOrder
  <2>3. \A i \in DOMAIN Placed' : Placed'[i].no <= Len(sent') /\ Placed'[i].session <= session'
    BY <1>2, <1>3, <1>4, <2>1
  <2>4. CASE session' = session + 1
    <3>1. \A i \in DOMAIN sendingQueue' : sendingQueue'[i].session < session'
      BY <1>2, <1>3, <2>1, <2>4
    <3> QED
      BY <1>1, <2>2, <2>3, <3>1 DEF OrderInv, QueueInOrder
  <2>5. CASE session' = session
    <3>1. ASSUME ~sending' \/ phase' = "opening"
          PROVE  ~sending \/ phase = "opening"
      BY <1>2, <1>4, <2>5, <3>1
    <3>2. ~sending' \/ phase' = "opening"
            => \A i \in DOMAIN sendingQueue' : sendingQueue'[i].session < session'
      BY <2>1, <2>5, <3>1 DEF OrderInv, QueueInOrder
    <3> QED
      BY <1>1, <2>2, <2>3, <3>2 DEF OrderInv, QueueInOrder
  <2> QED
    BY <1>4, <2>4, <2>5
<1>5. CASE Setup \/ Send
  <2>1. /\ SendMessage /\ session' = session /\ phase # "opening"
        /\ phase' # "opening" /\ phase # "closed"
    BY <1>5 DEF Setup, Send, handlers
  <2>2. session # 0
    BY <1>1, <2>1 DEF TypeInv, Started
  <2> QED
    BY <1>1, <2>1, <2>2, PlaceNext
<1>6. ASSUME NEW w \in Workers, DispatchWrite(w) PROVE OrderInv'
  <2>0. /\ sent' = sent /\ session' = session /\ phase' = phase
    BY <1>6 DEF DispatchWrite, handlers
  <2>1. CASE sendingQueue = <<>>
    <3>1. written' = written /\ sendingQueue' = sendingQueue
      BY <1>6, <2>1 DEF DispatchWrite
    <3>2. Placed' = Placed /\ DOMAIN sendingQueue' = {}
      BY <1>2, <2>1, <3>1, EmptySeq DEF Placed
    <3> QED
      BY <1>1, <2>0, <3>2 DEF OrderInv, QueueInOrder, SendOrder
  <2>2. CASE sendingQueue # <<>>
    <3> DEFINE r == [message |-> Head(sendingQueue), of |-> session]
    <3>1. /\ written' = Append(written, r) /\ sendingQueue' = Tail(sendingQueue)
          /\ sending' = sending
      BY <1>6, <2>2 DEF DispatchWrite, Write
    <3>2. Head(sendingQueue) \in Messages /\ session # 0
      BY <1>1, <1>2, <1>6, <2>2, HeadTailProperties DEF DispatchWrite, TypeInv, TypeOK, Started, Timeout
    <3>3. r \in Writes /\ r.message = Head(sendingQueue)
      BY <1>1, <3>2 DEF Writes, TypeInv, TypeOK
    <3> HIDE DEF r
    <3>4. Placed' = Placed
      BY <1>2, <2>2, <3>1, <3>3, HandedOver DEF Placed
    <3>5. \A i \in DOMAIN sendingQueue' :
            i + 1 \in DOMAIN sendingQueue /\ sendingQueue'[i] = sendingQueue[i + 1]
      BY <1>2, <2>2, <3>1, HeadTailProperties, LenProperties
    <3>6. QueueInOrder'
      BY <2>0, <3>1, <3>4, <3>5 DEF OrderInv, QueueInOrder
    <3> QED
      BY <1>1, <2>0, <3>4, <3>6 DEF OrderInv, SendOrder
  <2> QED
    BY <2>1, <2>2
<1>7. CASE OpenCall
  BY <1>4, <1>7 DEF OpenCall, sender
<1>8. CASE OpenReturn
  BY <1>4, <1>8 DEF OpenReturn
<1>9. CASE CloseCall \/ CloseNext \/ CloseTimeout
  BY <1>4, <1>9 DEF CloseCall, CloseNext, CloseTimeout, sender
<1>10. ASSUME NEW w \in Workers,
              Poll(w) \/ DispatchRead(w) \/ DispatchOther(w) \/ Repost(w)
       PROVE  OrderInv'
  BY <1>4, <1>10 DEF Poll, DispatchRead, DispatchOther, Repost, handlers, sender
<1>11. CASE UNCHANGED <<handlers, sender>>
  BY <1>4, <1>11 DEF handlers, sender
<1>12. CASE Opened \/ WriteDone \/ ReadDone \/ FacadeEndsCall \/ Break \/ Abort \/ Finished
  BY <1>11, <1>12 DEF Opened, WriteDone, ReadDone, FacadeEndsCall, Break, Abort,
     Finished, external
<1>13. CASE UNCHANGED vars
  BY <1>11, <1>13 DEF vars
<1> QED
  BY <1>5, <1>6, <1>7, <1>8, <1>9, <1>10, <1>12, <1>13 DEF Next

(* For any number of threads, connections and messages: sending and the    *)
(* dispatch of WRITE completions, which share the queue and the flag,      *)
(* lose no message, write none twice and keep the order of a connection.   *)
THEOREM SendOrderKept == Spec => []SendOrder
<1>1. OrderInv => SendOrder
  BY DEF OrderInv
<1> QED
  BY <1>1, InitOrderInv, NextOrderInv, PTL DEF Spec

-----------------------------------------------------------------------------
(* The poller.                                                             *)
(* Where the token of an operation can be: at gRPC, in the completion      *)
(* queue, or with a worker that took it.                                   *)
InOps(tag) == \E op \in ops : op.tag = tag
Queued(i, tag) == completions[i].tag = tag
Held(w, tag) == at[w] = "polled" /\ got[w].tag = tag

(* The poller with a single worker: handlers that wait keep it from        *)
(* running, and while the connection is open a run is posted or in         *)
(* progress.                                                               *)
PollerInv ==
  /\ phase \in {"opening", "setup", "closing"} => \A w \in Workers : at[w] = "idle"
  /\ phase = "opening" => posted = 0
  /\ phase \in {"setup", "open"} =>
       /\ keepReader
       /\ \A w \in Workers : posted = IF at[w] = "idle" THEN 1 ELSE 0

(* The elements of a completion queue after a completion.                  *)
LEMMA AppendElements ==
  ASSUME NEW q \in Seq(Completions), NEW c \in Completions
  PROVE  /\ Append(q, c) \in Seq(Completions)
         /\ Len(q) \in Nat /\ DOMAIN q = 1..Len(q)
         /\ DOMAIN Append(q, c) = 1..Len(q) + 1
         /\ \A i \in 1..Len(q) : Append(q, c)[i] = q[i]
         /\ Append(q, c)[Len(q) + 1] = c
BY AppendProperties, LenProperties

(* And after its first one was taken.                                      *)
LEMMA TailElements ==
  ASSUME NEW q \in Seq(Completions), q # <<>>
  PROVE  /\ Tail(q) \in Seq(Completions) /\ Head(q) \in Completions
         /\ Head(q) = q[1] /\ 1 \in DOMAIN q /\ DOMAIN q \subseteq Nat
         /\ \A i \in DOMAIN Tail(q) : i \in Nat /\ i >= 1 /\ i + 1 \in DOMAIN q /\ Tail(q)[i] = q[i + 1]
<1>1. /\ Tail(q) \in Seq(Completions) /\ Head(q) \in Completions /\ Head(q) = q[1]
      /\ Len(Tail(q)) = Len(q) - 1 /\ Len(q) \in Nat /\ Len(q) # 0
      /\ \A i \in 1..Len(q) - 1 : Tail(q)[i] = q[i + 1]
  BY HeadTailProperties, EmptySeq, LenProperties
<1>2. DOMAIN q = 1..Len(q) /\ DOMAIN Tail(q) = 1..Len(q) - 1
  BY <1>1, LenProperties
<1> QED
  BY <1>1, <1>2

(* A worker that is free, if it is the only one, is in no task and no      *)
(* handler.                                                                *)
LEMMA TheFreeWorker ==
  ASSUME NEW w, Workers = {w}, FreeWorker
  PROVE  at[w] = "idle" /\ phase \notin {"opening", "setup", "closing"}
<1>1. Cardinality(Workers) = 1
  BY FS_Singleton
<1>2. CASE at[w] # "idle"
  <2>1. {v \in Workers : at[v] # "idle"} = {w}
    BY <1>2
  <2> QED
    BY <1>1, <2>1, FS_Singleton DEF FreeWorker, Busy
<1>3. CASE at[w] = "idle"
  <2>1. {v \in Workers : at[v] # "idle"} = {}
    BY <1>3
  <2> QED
    BY <1>1, <1>3, <2>1, FS_EmptySet DEF FreeWorker, Busy
<1> QED
  BY <1>2, <1>3

(* It holds initially.                                                     *)
LEMMA InitPollerInv == Init => PollerInv
BY DEF Init, PollerInv

(* Every step keeps it.                                                    *)
LEMMA NextPollerInv ==
  ASSUME NEW w, Workers = {w}, TypeInv, PollerInv, [Next]_vars
  PROVE  PollerInv'
<1> USE DEF PollerInv, TypeInv, TypeOK, Phases, handlers, poller
<1>1. CASE OpenCall
  BY <1>1, TheFreeWorker DEF OpenCall
<1>2. CASE OpenReturn
  BY <1>2 DEF OpenReturn
<1>3. CASE Setup
  BY <1>3 DEF Setup
<1>4. CASE CloseCall
  BY <1>4, TheFreeWorker DEF CloseCall
<1>5. CASE CloseNext \/ CloseTimeout
  BY <1>5 DEF CloseNext, CloseTimeout
<1>6. ASSUME NEW v \in Workers, Poll(v) PROVE PollerInv'
  BY <1>6, TheFreeWorker DEF Poll
<1>7. ASSUME NEW v \in Workers,
             DispatchRead(v) \/ DispatchWrite(v) \/ DispatchOther(v)
      PROVE  PollerInv'
  BY <1>7 DEF DispatchRead, DispatchWrite, DispatchOther
<1>8. ASSUME NEW v \in Workers, Repost(v) PROVE PollerInv'
  BY <1>8 DEF Repost
<1>9. CASE UNCHANGED <<handlers, keepReader, poller>>
  BY <1>9
<1>10. CASE \/ Send \/ Opened \/ WriteDone \/ ReadDone \/ FacadeEndsCall
            \/ Break \/ Abort \/ Finished \/ UNCHANGED vars
  BY <1>9, <1>10 DEF Send, Opened, WriteDone, ReadDone, FacadeEndsCall, Break,
     Abort, Finished, external, vars
<1> QED
  BY <1>1, <1>2, <1>3, <1>4, <1>5, <1>6, <1>7, <1>8, <1>10 DEF Next

(* With one io_service thread, as in the example programs, exactly one     *)
(* run of the poller exists while a connection is open, however often the  *)
(* connection was opened and closed before.                                *)
THEOREM OnePollerRuns ==
  ASSUME NEW w, Workers = {w}
  PROVE  Spec => []OnePoller
<1>1. TypeInv /\ PollerInv => OnePoller
  <2> SUFFICES ASSUME TypeInv, PollerInv, phase \in {"setup", "open"}
               PROVE  posted + Cardinality({v \in Workers : at[v] # "idle"}) = 1
    BY DEF OnePoller
  <2>1. CASE at[w] = "idle"
    <3>1. {v \in Workers : at[v] # "idle"} = {}
      BY <2>1
    <3> QED
      BY <2>1, <3>1, FS_EmptySet DEF PollerInv
  <2>2. CASE at[w] # "idle"
    <3>1. {v \in Workers : at[v] # "idle"} = {w}
      BY <2>2
    <3>2. posted = 0
      BY <2>2 DEF PollerInv
    <3>3. Cardinality({w}) = 1
      BY FS_Singleton
    <3> QED
      BY <3>1, <3>2, <3>3
  <2> QED
    BY <2>1, <2>2
<1>2. TypeInv /\ PollerInv /\ [Next]_vars => PollerInv'
  BY NextPollerInv
<1> QED
  BY <1>1, <1>2, InitTypeInv, NextTypeInv, InitPollerInv, PTL DEF Spec

-----------------------------------------------------------------------------
(* Closing.                                                                *)
(* A token is of the current connection, or it is an OPEN that was left    *)
(* behind by a connection that could not be opened.                        *)
Own(t) == t.of <= session /\ (t.tag # "OPEN" => t.of = session)

(* All tokens are.                                                         *)
Owned ==
  /\ \A op \in ops : Own(op)
  /\ \A i \in DOMAIN completions : Own(completions[i])
  /\ \A i \in DOMAIN written : written[i].of <= session

(* No token but of OPEN is left.                                           *)
Clear ==
  /\ \A op \in ops : op.tag = "OPEN"
  /\ \A i \in DOMAIN completions : completions[i].tag = "OPEN"
  /\ \A w \in Workers : ~Held(w, "READ") /\ ~Held(w, "WRITE")

(* The token of CLOSE is somewhere.                                        *)
ClosePending ==
  \/ InOps("CLOSE")
  \/ \E i \in DOMAIN completions : Queued(i, "CLOSE")

(* Nothing of its connection comes after CLOSE.                            *)
CloseIsLast ==
  \A i \in DOMAIN completions : Queued(i, "CLOSE") =>
    /\ \A op \in ops : op.of # session
    /\ \A j \in DOMAIN completions : j > i => completions[j].of # session

(* The inductive invariant of closing.                                     *)
CleanInv ==
  /\ Owned
  /\ ClosePending => phase \in {"closing", "failed"}
  /\ phase \in {"closed", "opening"} => Clear
  /\ phase = "opening" => \A i \in DOMAIN written : written[i].of < session
  /\ phase = "closing" => CloseIsLast
  /\ CleanAfterClose

(* It holds initially.                                                     *)
LEMMA InitCleanInv == Init => CleanInv
<1> SUFFICES ASSUME Init PROVE CleanInv
  OBVIOUS
<1>1. DOMAIN completions = {} /\ DOMAIN written = {} /\ ops = {}
  BY EmptySeq, LenProperties DEF Init
<1> QED
  BY <1>1 DEF Init, CleanInv, Owned, ClosePending, Clear, InOps, Held, CleanAfterClose

(* A completion keeps it, if Finish completes last.                        *)
LEMMA CleanComplete ==
  ASSUME NEW w, Workers = {w}, FinishIsLast, TypeInv, CleanInv,
         NEW op \in ops, NEW ok \in BOOLEAN, Complete(op, ok),
         op.tag = "CLOSE" => \A o \in ops : o.of = op.of => o = op,
         UNCHANGED <<phase, session, at, got, written>>
  PROVE  CleanInv'
<1> DEFINE c == [tag |-> op.tag, ok |-> ok, of |-> op.of]
<1>1. c \in Completions /\ completions \in Seq(Completions)
  BY DEF TypeInv, TypeOK, Operations, Completions
<1>2. completions' = Append(completions, c) /\ ops' = ops \ {op}
  BY DEF Complete
<1>3. c.tag = op.tag /\ c.of = op.of
  OBVIOUS
<1> HIDE DEF c
<1>4. /\ Len(completions) \in Nat /\ DOMAIN completions = 1..Len(completions)
      /\ DOMAIN completions' = 1..Len(completions) + 1
      /\ \A i \in 1..Len(completions) : completions'[i] = completions[i]
      /\ completions'[Len(completions) + 1] = c
  BY <1>1, <1>2, AppendElements
<1>5. Owned'
  BY <1>2, <1>3, <1>4 DEF CleanInv, Owned, Own
<1>6. ClosePending' => ClosePending
  BY <1>2, <1>3, <1>4 DEF ClosePending, InOps, Queued
<1>7. Clear => Clear'
  BY <1>2, <1>3, <1>4 DEF Clear, Held
<1>8. phase = "closing" => CloseIsLast'
  <2>1. SUFFICES ASSUME phase = "closing", NEW i \in DOMAIN completions',
                        completions'[i].tag = "CLOSE"
                 PROVE  /\ \A o \in ops' : o.of # session
                        /\ \A j \in DOMAIN completions' :
                             j > i => completions'[j].of # session
    BY DEF CloseIsLast, Queued
  <2>2. CASE i \in 1..Len(completions)
    BY <1>2, <1>3, <1>4, <2>1, <2>2 DEF CleanInv, CloseIsLast, Queued
  <2>3. CASE i = Len(completions) + 1
    BY <1>2, <1>3, <1>4, <2>1, <2>3 DEF CleanInv, Owned, Own
  <2> QED
    BY <1>4, <2>2, <2>3
<1>9. CleanAfterClose'
  BY <1>2, <1>3, <1>4 DEF CleanInv, CleanAfterClose
<1> QED
  BY <1>5, <1>6, <1>7, <1>8, <1>9 DEF CleanInv

(* Every step keeps it.                                                    *)
LEMMA NextCleanInv ==
  ASSUME NEW w, Workers = {w}, FinishIsLast, TypeInv, PollerInv, CleanInv,
         [Next]_vars, TypeInv'
  PROVE  CleanInv'
<1>1. /\ completions \in Seq(Completions) /\ written \in Seq(Writes)
      /\ session \in Nat /\ at \in [Workers -> {"idle", "polled", "dispatched"}]
      /\ got \in [Workers -> Completions \cup {Timeout}]
      /\ ops \subseteq Operations
      /\ phase \in Phases
  BY DEF TypeInv, TypeOK
<1>2. /\ \A o \in ops : o.of \in Nat
      /\ \A i \in DOMAIN completions : completions[i].of \in Nat /\ completions[i] \in Completions
      /\ \A i \in DOMAIN written : written[i].of \in Nat
  <2>1. \A i \in 1..Len(completions) : completions[i] \in Completions
    BY <1>1, ElementOfSeq
  <2>2. \A i \in 1..Len(written) : written[i] \in Writes
    BY <1>1, ElementOfSeq
  <2>3. DOMAIN completions = 1..Len(completions) /\ DOMAIN written = 1..Len(written)
    BY <1>1, LenProperties
  <2>4. /\ \A o \in Operations : o.of \in Nat
        /\ \A c \in Completions : c.of \in Nat
        /\ \A r \in Writes : r.of \in Nat
    BY DEF Completions, Writes, Operations
  <2> QED
    BY <1>1, <2>1, <2>2, <2>3, <2>4
<1>3. CASE OpenCall
  <2>1. /\ phase = "closed" /\ phase' = "opening" /\ session' = session + 1
        /\ ops' = ops \cup {[tag |-> "OPEN", of |-> session + 1]}
        /\ UNCHANGED <<completions, written, at, got>>
    BY <1>3 DEF OpenCall, sender, poller
  <2>2. Owned'
    BY <1>1, <1>2, <2>1 DEF CleanInv, Owned, Own, Clear
  <2>3. Clear'
    BY <2>1 DEF CleanInv, Clear, Held
  <2>4. ~ClosePending'
    BY <2>1 DEF CleanInv, ClosePending, InOps, Queued
  <2>5. \A i \in DOMAIN written' : written'[i].of < session'
    BY <1>1, <1>2, <2>1 DEF CleanInv, Owned
  <2> QED
    BY <2>1, <2>2, <2>3, <2>4, <2>5 DEF CleanInv, CleanAfterClose
<1>4. ASSUME completions' = IF completions = <<>> THEN <<>> ELSE Tail(completions)
      PROVE  /\ \A i \in DOMAIN completions' :
                  /\ i \in Nat /\ i >= 1 /\ i + 1 \in DOMAIN completions
                  /\ completions'[i] = completions[i + 1]
             /\ completions # <<>> => Head(completions) = completions[1] /\ 1 \in DOMAIN completions
  <2>1. DOMAIN << >> = {}
    BY EmptySeq, LenProperties
  <2> QED
    BY <1>1, <1>4, <2>1, TailElements
<1>5. CASE OpenReturn
  <2>1. /\ phase = "opening" /\ phase' \in {"setup", "closed"} /\ UNCHANGED <<session, written, at, got>>
        /\ ops' = ops \/ (phase' = "setup" /\ ops' = ops \cup {Op("READ")})
    BY <1>5 DEF OpenReturn
  <2>2. completions' = IF completions = <<>> THEN <<>> ELSE Tail(completions)
    BY <1>5 DEF OpenReturn
  <2>3. Owned'
    BY <1>1, <1>2, <1>4, <2>1, <2>2 DEF CleanInv, Owned, Own, Op
  <2>4. ClosePending' => ClosePending
    BY <1>4, <2>1, <2>2 DEF ClosePending, InOps, Queued, Op
  <2>5. phase' = "closed" => Clear'
    BY <1>4, <2>1, <2>2 DEF CleanInv, Clear, Held
  <2>6. CleanAfterClose'
    BY <1>1, <1>2, <2>1 DEF CleanInv, CleanAfterClose
  <2> QED
    BY <2>1, <2>3, <2>4, <2>5, <2>6 DEF CleanInv
<1>6. ASSUME SendMessage, phase \in {"setup", "open"}, phase' = "open", session' = session,
             UNCHANGED <<at, got, completions>>
      PROVE  CleanInv'
  <2>1. /\ ops' = ops \/ ops' = ops \cup {Op("WRITE")}
    BY <1>6 DEF SendMessage
  <2>2. \A i \in DOMAIN written' : written'[i].of <= session
    <3>1. CASE written' = written
      BY <3>1 DEF CleanInv, Owned
    <3>2. CASE Write(NextMessage)
      <4> DEFINE r == [message |-> NextMessage, of |-> session]
      <4>1. written' = Append(written, r) /\ r.of = session
        BY <3>2 DEF Write
      <4> HIDE DEF r
      <4>2. /\ DOMAIN written = 1..Len(written) /\ Len(written) \in Nat
            /\ DOMAIN written' = 1..Len(written) + 1
            /\ \A i \in 1..Len(written) : written'[i] = written[i]
            /\ written'[Len(written) + 1] = r
        BY <1>1, <4>1, LenProperties
      <4> QED
        BY <1>1, <4>1, <4>2 DEF CleanInv, Owned
    <3> QED
      BY <1>6, <3>1, <3>2 DEF SendMessage
  <2>3. Owned'
    BY <1>1, <1>6, <2>1, <2>2 DEF CleanInv, Owned, Own, Op
  <2>4. ClosePending' => ClosePending
    BY <1>6, <2>1 DEF ClosePending, InOps, Queued, Op
  <2> QED
    BY <1>6, <2>3, <2>4 DEF CleanInv, CleanAfterClose
<1>7. CASE Setup \/ Send
  BY <1>6, <1>7 DEF Setup, Send, handlers, poller
<1>8. CASE CloseCall
  <2>1. /\ phase = "open" /\ phase' = "closing" /\ session' = session
        /\ ops' = ops \cup {Op("CLOSE")}
        /\ UNCHANGED <<completions, written>>
    BY <1>8 DEF CloseCall, sender
  <2>2. Owned'
    BY <1>1, <2>1 DEF CleanInv, Owned, Own, Op
  <2>3. CloseIsLast'
    BY <2>1 DEF CleanInv, ClosePending, CloseIsLast, Queued
  <2> QED
    BY <2>1, <2>2, <2>3 DEF CleanInv, CleanAfterClose
<1>9. CASE CloseNext
  <2>1. /\ phase = "closing" /\ completions # <<>> /\ phase' \in {"closing", "closed", "failed"}
        /\ phase' = "closed" => Head(completions).tag = "CLOSE"
        /\ UNCHANGED <<session, ops, written, at, got>>
        /\ completions' = IF completions = <<>> THEN <<>> ELSE Tail(completions)
    BY <1>9 DEF CloseNext, sender, poller
  <2>2. Owned'
    BY <1>4, <2>1 DEF CleanInv, Owned, Own
  <2>3. CloseIsLast'
    BY <1>2, <1>4, <2>1 DEF CleanInv, CloseIsLast, Queued
  <2>4. ASSUME phase' = "closed" 
        PROVE  /\ \A o \in ops' : o.of # session
               /\ \A i \in DOMAIN completions' : completions'[i].of # session
    <3>1. 1 \in DOMAIN completions /\ completions[1].tag = "CLOSE"
      BY <1>4, <2>1, <2>4
    <3> QED
      BY <1>4, <2>1, <3>1 DEF CleanInv, CloseIsLast, Queued
  <2>5. ASSUME phase' = "closed" PROVE Clear' /\ ~ClosePending'
    <3>1. \A u \in Workers : at'[u] = "idle"
      BY <2>1 DEF PollerInv
    <3>2. /\ \A o \in ops' : o.tag = "OPEN"
          /\ \A i \in DOMAIN completions' : completions'[i].tag = "OPEN"
      BY <2>1, <2>2, <2>4, <2>5 DEF Owned, Own
    <3> QED
      BY <3>1, <3>2 DEF Clear, Held, ClosePending, InOps, Queued
  <2>6. CleanAfterClose'
    BY <2>1, <2>4 DEF CleanAfterClose
  <2> QED
    BY <2>1, <2>2, <2>3, <2>5, <2>6 DEF CleanInv
<1>10. CASE CloseTimeout
  <2>1. /\ phase = "closing" /\ phase' \in {"closing", "failed"}
        /\ UNCHANGED <<session, ops, completions, written, at, got>>
    BY <1>10 DEF CloseTimeout, sender, poller, grpc
  <2>2. Owned' /\ (CloseIsLast => CloseIsLast')
    BY <2>1 DEF CleanInv, Owned, Own, CloseIsLast, Queued
  <2> QED
    BY <2>1, <2>2 DEF CleanInv, CleanAfterClose
<1>11. ASSUME NEW v \in Workers, Poll(v) PROVE CleanInv'
  <2>1. /\ phase \notin {"opening", "setup", "closing"} /\ phase' = phase
        /\ UNCHANGED <<session, ops, written>>
        /\ completions' = IF completions = <<>> THEN <<>> ELSE Tail(completions)
    BY <1>11, TheFreeWorker DEF Poll, handlers, sender
  <2>2. Owned'
    BY <1>4, <2>1 DEF CleanInv, Owned, Own
  <2>3. ClosePending' => ClosePending
    BY <1>4, <2>1 DEF ClosePending, InOps, Queued
  <2>4. CleanAfterClose'
    BY <1>4, <2>1 DEF CleanInv, CleanAfterClose
  <2>5. Clear => Clear'
    <3>1. at' = [at EXCEPT ![v] = "polled"] /\ got' = [got EXCEPT ![v] =
                     IF completions = <<>> THEN Timeout ELSE Head(completions)]
      BY <1>11 DEF Poll
    <3>2. ASSUME Clear, NEW u \in Workers PROVE got'[u].tag \notin {"READ", "WRITE"} 
      <4>1. u = v 
        OBVIOUS
      <4>2. got'[u] = IF completions = <<>> THEN Timeout ELSE Head(completions)
        BY <1>1, <3>1, <4>1
      <4> QED
        BY <1>4, <2>1, <3>2, <4>2 DEF Clear, Timeout
    <3> QED
      BY <1>4, <2>1, <3>2 DEF Clear, Held
  <2> QED
    BY <2>1, <2>2, <2>3, <2>4, <2>5 DEF CleanInv
<1>12. ASSUME NEW v \in Workers, DispatchRead(v) PROVE CleanInv'
  <2>1. /\ at[v] = "polled" /\ got[v].tag = "READ"
        /\ UNCHANGED <<phase, session, written, completions>>
        /\ ops' = ops \cup {Op("READ")}
    BY <1>12 DEF DispatchRead, handlers, sender
  <2>2. phase \notin {"closed", "opening", "closing"}
    BY <2>1 DEF CleanInv, PollerInv, Clear, Held
  <2>3. Owned'
    BY <1>1, <2>1 DEF CleanInv, Owned, Own, Op
  <2>4. ClosePending' => ClosePending
    BY <2>1 DEF ClosePending, InOps, Queued, Op
  <2> QED
    BY <2>1, <2>2, <2>3, <2>4 DEF CleanInv, CleanAfterClose
<1>13. ASSUME NEW v \in Workers, DispatchWrite(v) PROVE CleanInv'
  <2>1. /\ at[v] = "polled" /\ got[v].tag = "WRITE"
        /\ UNCHANGED <<phase, session, completions>>
        /\ ops' = ops \/ ops' = ops \cup {Op("WRITE")}
        /\ written' = written \/ Write(Head(sendingQueue))
    BY <1>13 DEF DispatchWrite, handlers
  <2>2. phase \notin {"closed", "opening", "closing"}
    BY <2>1 DEF CleanInv, PollerInv, Clear, Held
  <2>3. \A i \in DOMAIN written' : written'[i].of <= session
    <3>1. CASE written' = written
      BY <3>1 DEF CleanInv, Owned
    <3>2. CASE Write(Head(sendingQueue))
      <4> DEFINE r == [message |-> Head(sendingQueue), of |-> session]
      <4>1. written' = Append(written, r) /\ r.of = session
        BY <3>2 DEF Write
      <4> HIDE DEF r
      <4>2. /\ DOMAIN written = 1..Len(written) /\ Len(written) \in Nat
            /\ DOMAIN written' = 1..Len(written) + 1
            /\ \A i \in 1..Len(written) : written'[i] = written[i]
            /\ written'[Len(written) + 1] = r
        BY <1>1, <4>1, LenProperties
      <4> QED
        BY <1>1, <4>1, <4>2 DEF CleanInv, Owned
    <3> QED
      BY <2>1, <3>1, <3>2
  <2>4. Owned'
    BY <1>1, <2>1, <2>3 DEF CleanInv, Owned, Own, Op
  <2>5. ClosePending' => ClosePending
    BY <2>1 DEF ClosePending, InOps, Queued, Op
  <2> QED
    BY <2>1, <2>2, <2>4, <2>5 DEF CleanInv, CleanAfterClose
<1>14. ASSUME UNCHANGED <<phase, session, ops, completions, written>>,
              Clear => Clear'
       PROVE  CleanInv'
  <2>1. Owned' /\ (CloseIsLast => CloseIsLast') /\ (ClosePending' => ClosePending) /\ CleanAfterClose'
    BY <1>14 DEF CleanInv, Owned, Own, CloseIsLast, Queued, ClosePending, InOps, CleanAfterClose
  <2> QED
    BY <1>14, <2>1 DEF CleanInv
<1>15. ASSUME NEW v \in Workers, DispatchOther(v) \/ Repost(v) PROVE CleanInv'
  <2>1. /\ UNCHANGED <<phase, session, ops, completions, written>>
        /\ at' \in {[at EXCEPT ![v] = "dispatched"], [at EXCEPT ![v] = "idle"]}
    BY <1>15 DEF DispatchOther, Repost, handlers, sender, grpc
  <2>2. Clear => Clear'
    <3>1. at'[v] # "polled" /\ \A u \in Workers : u = v
      BY <1>1, <2>1
    <3> QED
      BY <2>1, <3>1 DEF Clear, Held
  <2> QED
    BY <1>14, <2>1, <2>2
<1>16. CASE FacadeEndsCall \/ Break \/ UNCHANGED vars
  <2>1. UNCHANGED <<phase, session, ops, completions, written, at, got>>
    BY <1>16 DEF FacadeEndsCall, Break, vars, external, handlers, sender, poller, grpc
  <2>2. Clear => Clear'
    BY <2>1 DEF Clear, Held
  <2> QED
    BY <1>14, <2>1, <2>2
<1>17. CASE Opened \/ WriteDone \/ ReadDone \/ Abort \/ Finished
  <2>1. /\ UNCHANGED <<phase, session, at, got, written>>
        /\ \E op \in ops, ok \in BOOLEAN :
             /\ Complete(op, ok)
             /\ op.tag = "CLOSE" => \A o \in ops : o.of = op.of => o = op
    BY <1>17 DEF Opened, WriteDone, ReadDone, Abort, Finished, Complete, external, handlers,
       sender, poller, Op
  <2> QED
    BY <2>1, CleanComplete
<1> QED
  BY <1>3, <1>5, <1>7, <1>8, <1>9, <1>10, <1>11, <1>12, <1>13, <1>15, <1>16, <1>17 DEF Next

(* With one io_service thread and Finish completing last: a connection     *)
(* that was closed, through the closing loop and whatever it found in the  *)
(* completion queue, leaves no operation and no completion behind.         *)
THEOREM CleanClose ==
  ASSUME NEW w, Workers = {w}, FinishIsLast
  PROVE  Spec => []CleanAfterClose
<1>1. CleanInv => CleanAfterClose
  BY DEF CleanInv
<1>2. TypeInv /\ PollerInv /\ CleanInv /\ [Next]_vars /\ TypeInv' => CleanInv'
  BY NextCleanInv
<1>3. TypeInv /\ PollerInv /\ [Next]_vars => PollerInv'
  BY NextPollerInv
<1> QED
  BY <1>1, <1>2, <1>3, InitTypeInv, NextTypeInv, InitPollerInv, InitCleanInv, PTL DEF Spec

-----------------------------------------------------------------------------
(* Tokens.                                                                 *)
(* The token of an operation is somewhere.                                 *)
Pending(tag) == \/ InOps(tag)
                \/ \E i \in DOMAIN completions : Queued(i, tag)
                \/ \E w \in Workers : Held(w, tag)

(* There is at most one token of the tag, and an operation in progress is  *)
(* of the current connection.                                              *)
OneOf(tag) ==
  /\ \A op \in ops : op.tag = tag => op.of = session
  /\ InOps(tag) => /\ \A i \in DOMAIN completions : ~Queued(i, tag)
                   /\ \A w \in Workers : ~Held(w, tag)
  /\ \A i \in DOMAIN completions : Queued(i, tag) =>
        /\ \A w \in Workers : ~Held(w, tag)
        /\ \A j \in DOMAIN completions : Queued(j, tag) => j = i
  /\ \A v, w \in Workers : Held(v, tag) /\ Held(w, tag) => v = w

(* A connection that is being opened, or that may be.                      *)
Unused == phase = "opening" \/ (phase = "closed" /\ session < MaxSessions)

(* It starts without tokens of READ and WRITE of an earlier one.           *)
Fresh == Unused => ~Pending("READ") /\ ~Pending("WRITE")

(* The inductive invariant of writing.                                     *)
WriteInv == OneOf("WRITE") /\ (Pending("WRITE") => sending)

(* The first completion, if any, is taken from the queue.                  *)
Taken == completions' = IF completions = <<>> THEN <<>> ELSE Tail(completions)

(* The completion queue after an operation has completed.                  *)
LEMMA Completing ==
  ASSUME TypeInv, NEW op \in ops, NEW ok \in BOOLEAN, Complete(op, ok)
  PROVE  /\ Len(completions) \in Nat /\ DOMAIN completions = 1..Len(completions)
         /\ DOMAIN completions' = 1..Len(completions) + 1
         /\ \A i \in 1..Len(completions) : completions'[i] = completions[i]
         /\ completions'[Len(completions) + 1] = [tag |-> op.tag, ok |-> ok, of |-> op.of]
         /\ ops' = ops \ {op}
<1> DEFINE c == [tag |-> op.tag, ok |-> ok, of |-> op.of]
<1>1. c \in Completions /\ completions \in Seq(Completions)
  BY DEF TypeInv, TypeOK, Operations, Completions
<1>2. completions' = Append(completions, c) /\ ops' = ops \ {op}
  BY DEF Complete
<1>3. c = [tag |-> op.tag, ok |-> ok, of |-> op.of]
  OBVIOUS
<1> HIDE DEF c
<1> QED
  BY <1>1, <1>2, <1>3, AppendElements

(* The completion queue after a completion was taken.                      *)
LEMMA Taking ==
  ASSUME TypeInv, Taken
  PROVE  /\ \A i \in DOMAIN completions' :
              /\ i \in Nat /\ i >= 1 /\ i + 1 \in DOMAIN completions
              /\ completions'[i] = completions[i + 1]
         /\ completions # <<>> =>
              /\ Head(completions) = completions[1] /\ 1 \in DOMAIN completions
              /\ Head(completions) \in Completions
         /\ DOMAIN completions \subseteq Nat
<1>1. completions \in Seq(Completions)
  BY DEF TypeInv, TypeOK
<1>2. DOMAIN << >> = {} /\ DOMAIN completions = 1..Len(completions) /\ Len(completions) \in Nat
  BY <1>1, EmptySeq, LenProperties
<1> QED
  BY <1>1, <1>2, TailElements DEF Taken

(* Completing an operation moves its token to the queue, with the flag.    *)
LEMMA CompleteToken ==
  ASSUME TypeInv, NEW op \in ops, NEW ok \in BOOLEAN, Complete(op, ok),
         UNCHANGED <<session, at, got>>, NEW tag \in Tags, OneOf(tag)
  PROVE  /\ OneOf(tag)'
         /\ Pending(tag)' => Pending(tag)
         /\ op.tag = tag =>
              /\ InOps(tag) /\ ~InOps(tag)'
              /\ \A w \in Workers : ~Held(w, tag)'
              /\ \A i \in DOMAIN completions' : Queued(i, tag)' => completions'[i].ok = ok
         /\ op.tag # tag =>
              /\ InOps(tag)' => InOps(tag)
              /\ \A w \in Workers : Held(w, tag)' => Held(w, tag)
              /\ \A i \in DOMAIN completions' : Queued(i, tag)' =>
                    i \in DOMAIN completions /\ completions'[i] = completions[i]
<1> DEFINE n == Len(completions) + 1
           c == [tag |-> op.tag, ok |-> ok, of |-> op.of]
<1>1. /\ Len(completions) \in Nat /\ DOMAIN completions = 1..Len(completions)
      /\ DOMAIN completions' = 1..n
      /\ \A i \in 1..Len(completions) : completions'[i] = completions[i]
      /\ completions'[n] = c
      /\ ops' = ops \ {op}
  BY Completing
<1>2. c.tag = op.tag /\ c.ok = ok
  OBVIOUS
<1>3. \A w \in Workers : Held(w, tag)' <=> Held(w, tag)
  BY DEF Held
<1>4. InOps(tag)' => InOps(tag)
  BY <1>1 DEF InOps
<1>5. op.tag = tag => InOps(tag) /\ ~InOps(tag)'
  <2>1. ASSUME op.tag = tag, NEW o \in ops, o.tag = tag PROVE o = op
    <3>1. o.of = session /\ op.of = session
      BY <2>1 DEF OneOf
    <3>2. o \in Operations /\ op \in Operations
      BY DEF TypeInv, TypeOK
    <3> QED
      BY <2>1, <3>1, <3>2 DEF Operations
  <2> QED
    BY <1>1, <2>1 DEF InOps
<1> HIDE DEF c
<1>6. CASE op.tag = tag
  <2>1. \A i \in 1..Len(completions) : completions[i].tag # tag
    BY <1>1, <1>5, <1>6 DEF OneOf, Queued
  <2>2. \A i \in DOMAIN completions' : Queued(i, tag)' => i = n
    BY <1>1, <2>1 DEF Queued
  <2>3. \A w \in Workers : ~Held(w, tag)'
    BY <1>3, <1>5, <1>6 DEF OneOf
  <2>4. OneOf(tag)'
    BY <1>1, <1>5, <1>6, <2>2, <2>3 DEF OneOf
  <2> QED
    BY <1>1, <1>2, <1>5, <1>6, <2>2, <2>3, <2>4 DEF Pending
<1>7. CASE op.tag # tag
  <2>1. \A i \in DOMAIN completions' : Queued(i, tag)' =>
          i \in DOMAIN completions /\ completions'[i] = completions[i] /\ Queued(i, tag)
    BY <1>1, <1>2, <1>7 DEF Queued
  <2>2. \A o \in ops' : o.tag = tag => o.of = session'
    BY <1>1 DEF OneOf
  <2>3. OneOf(tag)'
    BY <1>3, <1>4, <2>1, <2>2 DEF OneOf
  <2> QED
    BY <1>3, <1>4, <1>7, <2>1, <2>3 DEF Pending
<1> QED
  BY <1>6, <1>7

(* A handler that takes a completion drops its token.                      *)
LEMMA TakeToken ==
  ASSUME TypeInv, Taken, UNCHANGED <<session, ops, at, got>>, NEW tag, OneOf(tag)
  PROVE  /\ OneOf(tag)'
         /\ Pending(tag)' => Pending(tag)
         /\ InOps(tag)' => InOps(tag)
         /\ \A w \in Workers : Held(w, tag)' => Held(w, tag)
         /\ \A i \in DOMAIN completions' : Queued(i, tag)' =>
              i + 1 \in DOMAIN completions /\ Queued(i + 1, tag) /\ completions'[i] = completions[i + 1]
<1>1. \A i \in DOMAIN completions' :
         /\ i \in Nat /\ i >= 1 /\ i + 1 \in DOMAIN completions
         /\ completions'[i] = completions[i + 1]
  BY Taking
<1>2. /\ \A w \in Workers : Held(w, tag)' <=> Held(w, tag)
      /\ InOps(tag)' <=> InOps(tag)
  BY DEF Held, InOps
<1>3. \A i \in DOMAIN completions' : Queued(i, tag)' => Queued(i + 1, tag)
  BY <1>1 DEF Queued
<1>4. OneOf(tag)'
  BY <1>1, <1>2, <1>3 DEF OneOf
<1> QED
  BY <1>1, <1>2, <1>3, <1>4 DEF Pending

(* A poller that takes a completion holds its token.                       *)
LEMMA PollToken ==
  ASSUME TypeInv, NEW v \in Workers, Poll(v), NEW tag \in Tags, OneOf(tag)
  PROVE  /\ OneOf(tag)'
         /\ Pending(tag)' => Pending(tag)
         /\ InOps(tag)' => InOps(tag)
         /\ \A w \in Workers : Held(w, tag)' =>
              \/ w # v /\ Held(w, tag) /\ got'[w] = got[w]
              \/ w = v /\ 1 \in DOMAIN completions /\ Queued(1, tag) /\ got'[v] = completions[1]
         /\ \A i \in DOMAIN completions' : Queued(i, tag)' =>
              i + 1 \in DOMAIN completions /\ Queued(i + 1, tag) /\ completions'[i] = completions[i + 1]
<1>0. /\ UNCHANGED <<session, ops>> /\ Taken /\ at[v] = "idle"
      /\ at' = [at EXCEPT ![v] = "polled"]
      /\ got' = [got EXCEPT ![v] = IF completions = <<>> THEN Timeout ELSE Head(completions)]
      /\ at \in [Workers -> {"idle", "polled", "dispatched"}]
      /\ got \in [Workers -> Completions \cup {Timeout}]
  BY DEF Poll, handlers, Taken, TypeInv, TypeOK
<1>1. /\ \A i \in DOMAIN completions' :
         /\ i \in Nat /\ i >= 1 /\ i + 1 \in DOMAIN completions
         /\ completions'[i] = completions[i + 1]
      /\ completions # <<>> => Head(completions) = completions[1] /\ 1 \in DOMAIN completions
      /\ DOMAIN completions \subseteq Nat
  BY <1>0, Taking
<1>2. InOps(tag)' <=> InOps(tag)
  BY <1>0 DEF InOps
<1>3. \A i \in DOMAIN completions' : Queued(i, tag)' => Queued(i + 1, tag)
  BY <1>1 DEF Queued
<1>4. \A w \in Workers : w # v => /\ Held(w, tag)' <=> Held(w, tag)
                                  /\ got'[w] = got[w]
  BY <1>0 DEF Held
<1>5. Held(v, tag)' => 1 \in DOMAIN completions /\ Queued(1, tag) /\ got'[v] = completions[1]
  <2>1. got'[v] = IF completions = <<>> THEN Timeout ELSE Head(completions)
    BY <1>0
  <2>2. Timeout.tag # tag
    BY DEF Timeout, Tags
  <2> QED
    BY <1>1, <2>1, <2>2 DEF Held, Queued
<1>6. ~Held(v, tag)
  BY <1>0 DEF Held
<1>7. OneOf(tag)'
  <2>1. \A op \in ops' : op.tag = tag => op.of = session'
    BY <1>0 DEF OneOf
  <2>2. InOps(tag)' => /\ \A i \in DOMAIN completions' : ~Queued(i, tag)'
                       /\ \A w \in Workers : ~Held(w, tag)'
    BY <1>1, <1>2, <1>3, <1>4, <1>5 DEF OneOf
  <2>3. \A i \in DOMAIN completions' : Queued(i, tag)' =>
        /\ \A w \in Workers : ~Held(w, tag)'
        /\ \A j \in DOMAIN completions' : Queued(j, tag)' => j = i
    <3>1. ASSUME NEW i \in DOMAIN completions', Queued(i, tag)', NEW j \in DOMAIN completions',
                 Queued(j, tag)'
          PROVE  j = i
      BY <1>1, <1>3, <3>1 DEF OneOf
    <3>2. ASSUME NEW i \in DOMAIN completions', Queued(i, tag)', NEW w \in Workers, Held(w, tag)'
          PROVE  FALSE
      <4>1. i + 1 \in DOMAIN completions /\ Queued(i + 1, tag) /\ i + 1 # 1
        BY <1>1, <1>3, <3>2
      <4> QED
        BY <1>4, <1>5, <3>2, <4>1 DEF OneOf
    <3> QED
      BY <3>1, <3>2
  <2>4. \A u, w \in Workers : Held(u, tag)' /\ Held(w, tag)' => u = w
    BY <1>4, <1>5 DEF OneOf
  <2> QED
    BY <2>1, <2>2, <2>3, <2>4 DEF OneOf
<1> QED
  BY <1>1, <1>2, <1>3, <1>4, <1>5, <1>7 DEF Pending

(* A poller that ends drops the token it holds.                            *)
LEMMA RunToken ==
  ASSUME TypeInv, NEW v \in Workers, UNCHANGED <<session, ops, completions>>,
         at'[v] # "polled", \A w \in Workers : w # v => at'[w] = at[w] /\ got'[w] = got[w],
         NEW tag, OneOf(tag)
  PROVE  /\ OneOf(tag)'
         /\ Pending(tag)' => Pending(tag)
         /\ InOps(tag)' <=> InOps(tag)
         /\ \A w \in Workers : Held(w, tag)' => Held(w, tag) /\ got'[w] = got[w]
         /\ \A i \in DOMAIN completions : Queued(i, tag)' <=> Queued(i, tag)
<1>1. \A w \in Workers : Held(w, tag)' => Held(w, tag) /\ got'[w] = got[w]
  BY DEF Held
<1>2. InOps(tag)' <=> InOps(tag)
  BY DEF InOps
<1>3. \A i \in DOMAIN completions : Queued(i, tag)' <=> Queued(i, tag)
  BY DEF Queued
<1>4. OneOf(tag)'
  BY <1>1, <1>2, <1>3 DEF OneOf
<1> QED
  BY <1>1, <1>2, <1>3, <1>4 DEF Pending

-----------------------------------------------------------------------------
(* Writing and reading.                                                    *)
(* A message of the facade is in the buffer, all earlier ones were         *)
(* notified.                                                               *)
Buffered == toRead = produced /\ produced = Len(received[session]) + 1
(* All messages of the facade were notified.                               *)
Drained  == toRead = 0 /\ produced = Len(received[session])

(* The client is notified of 1, 2, 3, ... in every connection.             *)
Counted == \A s \in 1..MaxSessions : received[s] = [i \in 1..Len(received[s]) |-> i]

(* The inductive invariant of reading: where the token of READ is tells    *)
(* what is in the buffer.                                                  *)
ReadInv ==
  /\ OneOf("READ")
  /\ InOps("READ") => Drained
  /\ \A i \in DOMAIN completions : Queued(i, "READ") =>
        (completions[i].ok => Buffered) /\ (~completions[i].ok => Drained)
  /\ \A w \in Workers : Held(w, "READ") =>
        (got[w].ok => Buffered) /\ (~got[w].ok => Drained)
  /\ phase \notin {"closed", "opening"} => Buffered \/ Drained
  /\ phase = "opening" => produced = 0 /\ received[session] = <<>>
  /\ \A s \in 1..MaxSessions : s > session => received[s] = <<>>
  /\ Counted

(* Both, and that connections start fresh.                                 *)
StreamInv == Fresh /\ WriteInv /\ ReadInv

(* The two regimes in which connections do start fresh: there is only one  *)
(* connection, or one io_service thread and a Finish that completes last.  *)
Regular == MaxSessions = 1 \/ (FinishIsLast /\ \E w \in Workers : Workers = {w})

(* A single connection starts without tokens, there being none.            *)
LEMMA FreshSingle ==
  ASSUME MaxSessions = 1, TypeInv, TypeInv', Fresh, [Next]_vars
  PROVE  Fresh'
<1> SUFFICES ASSUME Unused' PROVE ~Pending("READ")' /\ ~Pending("WRITE")'
  BY DEF Fresh
<1>1. CASE phase' = "closed" /\ session' = 0
  <2>1. ops' = {} /\ completions' = <<>> /\ \A w \in Workers : got'[w] = Timeout
    BY <1>1 DEF TypeInv, Started
  <2>2. DOMAIN completions' = {}
    BY <2>1, EmptySeq, LenProperties
  <2> QED
    BY <2>1, <2>2 DEF Pending, InOps, Held, Timeout
<1>2. CASE phase' = "opening" /\ phase = "closed"
  <2>1. OpenCall
    BY <1>2 DEF Next, vars, OpenReturn, Setup, Send, CloseCall, CloseNext, CloseTimeout,
       Poll, DispatchRead, DispatchWrite, DispatchOther, Repost, Opened, WriteDone, ReadDone,
       FacadeEndsCall, Break, Abort, Finished, handlers, external
  <2>2. session = 0 /\ ops' = ops \cup {[tag |-> "OPEN", of |-> session + 1]}
        /\ UNCHANGED <<completions, at, got>>
    BY <2>1 DEF OpenCall, TypeInv, TypeOK, poller
  <2>3. ops = {} /\ completions' = <<>> /\ \A w \in Workers : got'[w] = Timeout
    BY <2>2 DEF TypeInv, Started
  <2>4. DOMAIN completions' = {}
    BY <2>3, EmptySeq, LenProperties
  <2> QED
    BY <2>2, <2>3, <2>4 DEF Pending, InOps, Held, Timeout
<1>3. CASE phase' = "opening" /\ phase = "opening"
  <2>1. ~Pending("READ") /\ ~Pending("WRITE")
    BY <1>3 DEF Fresh, Unused
  <2>2. OneOf("READ") /\ OneOf("WRITE")
    BY <2>1 DEF OneOf, Pending, InOps
  <2>3. ASSUME NEW op \in ops, NEW ok \in BOOLEAN, Complete(op, ok), UNCHANGED <<session, at, got>>
        PROVE  ~Pending("READ")' /\ ~Pending("WRITE")'
    BY <2>1, <2>2, <2>3, CompleteToken DEF Tags
  <2>4. CASE Opened \/ WriteDone \/ ReadDone \/ Abort \/ Finished
    <3>1. /\ UNCHANGED <<session, at, got>>
          /\ \E op \in ops, ok \in BOOLEAN : Complete(op, ok)
      BY <2>4 DEF Opened, WriteDone, ReadDone, Abort, Finished, Complete, external,
         handlers, poller
    <3> QED
      BY <2>3, <3>1
  <2>5. ASSUME NEW v \in Workers, Poll(v) PROVE ~Pending("READ")' /\ ~Pending("WRITE")'
    BY <2>1, <2>2, <2>5, PollToken DEF Tags
  <2>6. ASSUME NEW v \in Workers, DispatchOther(v) \/ Repost(v)
        PROVE  ~Pending("READ")' /\ ~Pending("WRITE")'
    <3>1. /\ UNCHANGED <<session, ops, completions>> /\ at'[v] # "polled"
          /\ \A w \in Workers : w # v => at'[w] = at[w] /\ got'[w] = got[w]
      BY <2>6 DEF DispatchOther, Repost, handlers, grpc, TypeInv, TypeOK
    <3> QED
      BY <2>1, <2>2, <3>1, RunToken
  <2>7. ASSUME NEW v \in Workers, DispatchRead(v) \/ DispatchWrite(v) PROVE FALSE
    BY <2>1, <2>7 DEF DispatchRead, DispatchWrite, Pending, Held
  <2>8. CASE FacadeEndsCall \/ Break \/ UNCHANGED vars
    <3>1. UNCHANGED <<ops, completions, at, got>>
      BY <2>8 DEF FacadeEndsCall, Break, vars, external, poller, grpc
    <3> QED
      BY <2>1, <3>1 DEF Pending, InOps, Queued, Held
  <2> QED
    BY <1>3, <2>4, <2>5, <2>6, <2>7, <2>8 DEF Next, OpenCall, OpenReturn, Setup, Send, CloseCall,
       CloseNext, CloseTimeout
<1>4. phase' = "opening" => phase \in {"closed", "opening"}
  BY DEF Next, vars, OpenCall, OpenReturn, Setup, Send, CloseCall, CloseNext, CloseTimeout,
       Poll, DispatchRead, DispatchWrite, DispatchOther, Repost, Opened, WriteDone, ReadDone,
       FacadeEndsCall, Break, Abort, Finished, handlers, external
<1> QED
  BY <1>1, <1>2, <1>3, <1>4 DEF Unused, TypeInv, TypeOK

(* send starts a Write only if no token of WRITE is left.                  *)
LEMMA Sending ==
  ASSUME TypeInv, WriteInv, SendMessage, UNCHANGED <<session, at, got, completions>>
  PROVE  /\ WriteInv'
         /\ ops' = ops \/ ops' = ops \cup {Op("WRITE")}
         /\ written' # written => ~Pending("WRITE")
<1>1. CASE sending
  <2>1. sending' /\ UNCHANGED <<ops, written>>
    BY <1>1 DEF SendMessage
  <2>2. OneOf("WRITE")'
    BY <2>1 DEF WriteInv, OneOf, InOps, Queued, Held
  <2> QED
    BY <2>1, <2>2 DEF WriteInv
<1>2. CASE ~sending
  <2>1. sending' /\ ops' = ops \cup {Op("WRITE")}
    BY <1>2 DEF SendMessage
  <2>2. ~Pending("WRITE")
    BY <1>2 DEF WriteInv
  <2>3. OneOf("WRITE")'
    BY <2>1, <2>2 DEF Pending, OneOf, InOps, Queued, Held, Op
  <2> QED
    BY <2>1, <2>2, <2>3 DEF WriteInv
<1> QED
  BY <1>1, <1>2

(* Every step keeps the invariant of writing, if connections start fresh.  *)
LEMMA NextWriteInv ==
  ASSUME TypeInv, Fresh, WriteInv, [Next]_vars, Fresh'
  PROVE  WriteInv'
<1>1. ASSUME OneOf("WRITE")', Pending("WRITE")' => Pending("WRITE"), sending' = sending
      PROVE  WriteInv'
  BY <1>1 DEF WriteInv
<1>2. CASE OpenCall \/ OpenReturn
  <2>1. Unused
    BY <1>2 DEF OpenCall, OpenReturn, Unused
  <2>2. ~Pending("WRITE")
    BY <2>1 DEF Fresh
  <2>3. /\ \A op \in ops' : op \in ops \/ op.tag # "WRITE"
        /\ UNCHANGED <<at, got>>
        /\ completions' = completions \/ Taken
    BY <1>2 DEF OpenCall, OpenReturn, Op, Taken, poller
  <2>4. ~Pending("WRITE")'
    <3>1. ~InOps("WRITE")'
      BY <2>2, <2>3 DEF Pending, InOps
    <3>2. \A i \in DOMAIN completions' : ~Queued(i, "WRITE")'
      BY <2>2, <2>3, Taking DEF Pending, Queued
    <3>3. \A w \in Workers : ~Held(w, "WRITE")'
      BY <2>2, <2>3 DEF Pending, Held
    <3> QED
      BY <3>1, <3>2, <3>3 DEF Pending
  <2> QED
    BY <2>4 DEF WriteInv, OneOf, Pending, InOps
<1>3. CASE Setup \/ Send
  BY <1>3, Sending DEF Setup, Send, handlers, poller
<1>4. CASE CloseCall
  <2>1. ops' = ops \cup {Op("CLOSE")} /\ UNCHANGED <<session, at, got, completions, sending>>
    BY <1>4 DEF CloseCall, poller, sender
  <2>2. InOps("WRITE")' => InOps("WRITE")
    BY <2>1 DEF InOps, Op
  <2>3. OneOf("WRITE")' /\ (Pending("WRITE")' => Pending("WRITE"))
    BY <2>1, <2>2 DEF WriteInv, OneOf, Pending, Queued, Held, Op
  <2> QED
    BY <1>1, <2>1, <2>3
<1>5. CASE CloseNext
  <2>1. Taken /\ UNCHANGED <<session, ops, at, got, sending>>
    BY <1>5 DEF CloseNext, Taken, poller, sender
  <2> QED
    BY <1>1, <2>1, TakeToken DEF WriteInv
<1>6. ASSUME NEW v \in Workers, Poll(v) PROVE WriteInv'
  <2>1. sending' = sending
    BY <1>6 DEF Poll, sender
  <2> QED
    BY <1>1, <1>6, <2>1, PollToken DEF WriteInv, Tags
<1>7. ASSUME NEW v \in Workers, DispatchRead(v) PROVE WriteInv'
  <2>1. /\ ops' = ops \cup {Op("READ")} /\ UNCHANGED <<session, got, completions, sending>>
        /\ at' = [at EXCEPT ![v] = "dispatched"]
    BY <1>7 DEF DispatchRead, handlers, sender
  <2>2. /\ InOps("WRITE")' => InOps("WRITE")
        /\ \A w \in Workers : Held(w, "WRITE")' => Held(w, "WRITE")
    BY <2>1 DEF InOps, Op, Held, TypeInv, TypeOK
  <2>3. OneOf("WRITE")' /\ (Pending("WRITE")' => Pending("WRITE"))
    BY <2>1, <2>2 DEF WriteInv, OneOf, Pending, Queued, Op
  <2> QED
    BY <1>1, <2>1, <2>3
<1>8. ASSUME NEW v \in Workers, DispatchWrite(v) PROVE WriteInv'
  <2>1. /\ ops' = ops \/ (sending' = sending /\ ops' = ops \cup {Op("WRITE")})
        /\ UNCHANGED <<session, got, completions>>
        /\ at' = [at EXCEPT ![v] = "dispatched"] /\ Held(v, "WRITE")
    BY <1>8 DEF DispatchWrite, handlers, Held
  <2>2. /\ ~InOps("WRITE")
        /\ \A i \in DOMAIN completions : ~Queued(i, "WRITE")
        /\ \A w \in Workers : Held(w, "WRITE") => w = v
    BY <2>1 DEF WriteInv, OneOf
  <2>3. \A w \in Workers : ~Held(w, "WRITE")'
    BY <2>1, <2>2 DEF Held, TypeInv, TypeOK
  <2>4. OneOf("WRITE")'
    BY <2>1, <2>2, <2>3 DEF OneOf, InOps, Queued, Op
  <2>5. sending
    BY <2>1 DEF WriteInv, Pending
  <2>6. CASE ops' = ops
    <3>1. ~Pending("WRITE")'
      BY <2>1, <2>2, <2>3, <2>6 DEF Pending, InOps, Queued
    <3> QED
      BY <2>4, <3>1 DEF WriteInv
  <2> QED
    BY <2>1, <2>4, <2>5, <2>6 DEF WriteInv
<1>9. ASSUME NEW v \in Workers, DispatchOther(v) \/ Repost(v) PROVE WriteInv'
  <2>1. /\ UNCHANGED <<session, ops, completions>> /\ at'[v] # "polled"
        /\ \A w \in Workers : w # v => at'[w] = at[w] /\ got'[w] = got[w]
        /\ sending' = sending
    BY <1>9 DEF DispatchOther, Repost, handlers, grpc, sender, TypeInv, TypeOK
  <2> QED
    BY <1>1, <2>1, RunToken DEF WriteInv
<1>10. CASE CloseTimeout \/ FacadeEndsCall \/ Break \/ UNCHANGED vars
  <2>1. UNCHANGED <<session, ops, completions, at, got, sending>>
    BY <1>10 DEF CloseTimeout, FacadeEndsCall, Break, vars, external, handlers, poller, grpc, sender
  <2> QED
    BY <2>1 DEF WriteInv, OneOf, Pending, InOps, Queued, Held
<1>11. CASE Opened \/ WriteDone \/ ReadDone \/ Abort \/ Finished
  <2>1. /\ UNCHANGED <<session, at, got, sending>>
        /\ \E op \in ops, ok \in BOOLEAN : Complete(op, ok)
    BY <1>11 DEF Opened, WriteDone, ReadDone, Abort, Finished, Complete, external,
         handlers, poller, sender
  <2> QED
    BY <1>1, <2>1, CompleteToken DEF WriteInv, Tags
<1> QED
  BY <1>2, <1>3, <1>4, <1>5, <1>6, <1>7, <1>8, <1>9, <1>10, <1>11 DEF Next

(* Tokens of READ that only move keep the invariant of reading.            *)
LEMMA ReadFrame ==
  ASSUME ReadInv, UNCHANGED <<session, toRead, produced, received>>,
         phase' \notin {"closed", "opening"} => phase \notin {"closed", "opening"},
         phase' = "opening" => phase = "opening",
         OneOf("READ")',
         InOps("READ")' => InOps("READ"),
         \A i \in DOMAIN completions' : Queued(i, "READ")' =>
           \E j \in DOMAIN completions : Queued(j, "READ") /\ completions'[i] = completions[j],
         \A w \in Workers : Held(w, "READ")' =>
           \/ Held(w, "READ") /\ got'[w] = got[w]
           \/ \E j \in DOMAIN completions : Queued(j, "READ") /\ got'[w] = completions[j]
  PROVE  ReadInv'
<1>1. (Buffered <=> Buffered') /\ (Drained <=> Drained')
  BY DEF Buffered, Drained
<1>2. \A i \in DOMAIN completions' : Queued(i, "READ")' =>
        (completions'[i].ok => Buffered') /\ (~completions'[i].ok => Drained')
  BY <1>1 DEF ReadInv
<1>3. \A w \in Workers : Held(w, "READ")' =>
        (got'[w].ok => Buffered') /\ (~got'[w].ok => Drained')
  BY <1>1 DEF ReadInv
<1> QED
  BY <1>1, <1>2, <1>3 DEF ReadInv, Counted

(* Every step keeps the invariant of reading, if connections start fresh.  *)
LEMMA NextReadInv ==
  ASSUME TypeInv, Fresh, ReadInv, [Next]_vars, TypeInv'
  PROVE  ReadInv'
<1> DEFINE stream == <<session, toRead, produced, received>>
<1>1. /\ session \in Nat /\ completions \in Seq(Completions)
      /\ at \in [Workers -> {"idle", "polled", "dispatched"}]
      /\ got \in [Workers -> Completions \cup {Timeout}]
      /\ toRead \in Nat /\ produced \in Nat
      /\ received \in [1..MaxSessions -> Seq(0..MaxReceives)]
      /\ session # 0 => session \in 1..MaxSessions /\ Len(received[session]) \in Nat
  <2>1. received \in [1..MaxSessions -> Seq(0..MaxReceives)] /\ session \in 0..MaxSessions
    BY DEF TypeInv, TypeOK
  <2>2. ASSUME session # 0
        PROVE  session \in 1..MaxSessions /\ Len(received[session]) \in Nat
    <3>1. session \in 1..MaxSessions
      BY <2>1, <2>2, BoundsAssumption
    <3>2. received[session] \in Seq(0..MaxReceives)
      BY <2>1, <3>1
    <3> QED
      BY <3>1, <3>2, LenProperties
  <2> QED
    BY <2>1, <2>2, BoundsAssumption DEF TypeInv, TypeOK
<1>2. CASE OpenCall
  <2>1. /\ session' = session + 1 /\ phase = "closed" /\ session < MaxSessions
        /\ ops' = ops \cup {[tag |-> "OPEN", of |-> session + 1]}
        /\ produced' = 0 /\ phase' = "opening"
        /\ UNCHANGED <<at, got, completions, received, toRead>>
    BY <1>2 DEF OpenCall, poller
  <2>2. ~Pending("READ")
    BY <2>1 DEF Fresh, Unused
  <2>3. ~Pending("READ")'
    BY <2>1, <2>2 DEF Pending, InOps, Queued, Held
  <2>4. OneOf("READ")'
    BY <2>3 DEF OneOf, Pending, InOps
  <2>5. \A s \in 1..MaxSessions : s > session' => received'[s] = <<>>
    BY <1>1, <2>1 DEF ReadInv
  <2>6. received'[session'] = <<>>
    BY <1>1, <2>1, BoundsAssumption DEF ReadInv, TypeInv, TypeOK
  <2>7. Counted'
    BY <2>1 DEF ReadInv, Counted
  <2> QED
    BY <2>1, <2>3, <2>4, <2>5, <2>6, <2>7 DEF ReadInv, Pending
<1>3. CASE OpenReturn
  <2>1. /\ UNCHANGED <<session, at, got, received, produced>> /\ Taken /\ phase = "opening"
        /\ \/ phase' = "setup" /\ toRead' = 0 /\ ops' = ops \cup {Op("READ")}
           \/ phase' = "closed" /\ toRead' = toRead /\ ops' = ops
    BY <1>3 DEF OpenReturn, Taken
  <2>2. ~Pending("READ")
    BY <2>1 DEF Fresh, Unused
  <2>3. /\ \A i \in DOMAIN completions' : ~Queued(i, "READ")'
        /\ \A w \in Workers : ~Held(w, "READ")'
    BY <2>1, <2>2, Taking DEF Pending, Queued, Held
  <2>4. OneOf("READ")'
    BY <2>1, <2>2, <2>3 DEF OneOf, Pending, InOps, Op
  <2>5. phase' = "setup" => Drained'
    <3>1. Len(received[session]) = 0
      BY <2>1, EmptySeq DEF ReadInv
    <3> QED
      BY <2>1, <3>1 DEF ReadInv, Drained
  <2>6. InOps("READ")' => phase' = "setup"
    BY <2>1, <2>2 DEF Pending, InOps
  <2>7. Counted' /\ \A s \in 1..MaxSessions : s > session' => received'[s] = <<>>
    BY <2>1 DEF ReadInv, Counted
  <2> QED
    BY <2>1, <2>3, <2>4, <2>5, <2>6, <2>7 DEF ReadInv
<1>4. CASE Setup \/ Send \/ CloseCall
  <2>1. /\ UNCHANGED <<session, at, got, completions, toRead, produced, received>>
        /\ phase \notin {"closed", "opening"} /\ phase' \notin {"closed", "opening"}
        /\ \E tag \in {"WRITE", "CLOSE"} : ops' = ops \/ ops' = ops \cup {Op(tag)}
    BY <1>4 DEF Setup, Send, CloseCall, SendMessage, handlers, poller
  <2>2. /\ InOps("READ")' => InOps("READ")
        /\ \A op \in ops' : op.tag = "READ" => op \in ops
    BY <2>1 DEF InOps, Op
  <2>3. OneOf("READ")'
    BY <2>1, <2>2 DEF ReadInv, OneOf, Queued, Held
  <2> QED
    BY <2>1, <2>2, <2>3, ReadFrame DEF Queued, Held
<1>5. CASE CloseNext
  <2>1. /\ UNCHANGED <<session, ops, at, got, toRead, produced, received>> /\ Taken
        /\ phase = "closing" /\ phase' # "opening"
    BY <1>5 DEF CloseNext, Taken, poller
  <2>2. /\ OneOf("READ")'
        /\ InOps("READ")' => InOps("READ")
        /\ \A w \in Workers : Held(w, "READ")' => Held(w, "READ")
        /\ \A i \in DOMAIN completions' : Queued(i, "READ")' =>
             i + 1 \in DOMAIN completions /\ Queued(i + 1, "READ") /\ completions'[i] = completions[i + 1]
    BY <2>1, TakeToken DEF ReadInv
  <2> QED
    BY <2>1, <2>2, ReadFrame
<1>6. ASSUME NEW v \in Workers, Poll(v) PROVE ReadInv'
  <2>1. UNCHANGED <<phase, session, toRead, produced, received>>
    BY <1>6 DEF Poll, handlers
  <2>2. /\ OneOf("READ")'
        /\ InOps("READ")' => InOps("READ")
        /\ \A w \in Workers : Held(w, "READ")' =>
             \/ w # v /\ Held(w, "READ") /\ got'[w] = got[w]
             \/ w = v /\ 1 \in DOMAIN completions /\ Queued(1, "READ") /\ got'[v] = completions[1]
        /\ \A i \in DOMAIN completions' : Queued(i, "READ")' =>
             i + 1 \in DOMAIN completions /\ Queued(i + 1, "READ") /\ completions'[i] = completions[i + 1]
    BY <1>6, PollToken DEF ReadInv, Tags
  <2> QED
    BY <2>1, <2>2, ReadFrame
<1>7. ASSUME NEW v \in Workers, DispatchRead(v) PROVE ReadInv'
  <2>1. /\ ops' = ops \cup {Op("READ")} /\ UNCHANGED <<phase, session, got, completions, produced>>
        /\ at' = [at EXCEPT ![v] = "dispatched"]
        /\ received' = [received EXCEPT ![session] = Append(@, toRead)] /\ toRead' = 0
        /\ Held(v, "READ") /\ got[v].ok /\ got[v] # Timeout
    BY <1>7 DEF DispatchRead, handlers, Held, Timeout
  <2>2. /\ ~InOps("READ")
        /\ \A i \in DOMAIN completions : ~Queued(i, "READ")
        /\ \A w \in Workers : Held(w, "READ") => w = v
        /\ Buffered
        /\ phase # "opening"
        /\ session \in 1..MaxSessions /\ Len(received[session]) \in Nat
    <3>1. Pending("READ")
      BY <2>1 DEF Pending
    <3>2. session # 0
      BY <2>1 DEF TypeInv, Started
    <3> QED
      BY <1>1, <2>1, <3>1, <3>2 DEF ReadInv, OneOf, Fresh, Unused
  <2>3. /\ \A i \in DOMAIN completions' : ~Queued(i, "READ")'
        /\ \A w \in Workers : ~Held(w, "READ")'
    BY <1>1, <2>1, <2>2 DEF Held, Queued
  <2>4. OneOf("READ")'
    BY <2>1, <2>2, <2>3 DEF OneOf, InOps, Op
  <2>5. /\ received'[session] = Append(received[session], toRead)
        /\ \A s \in 1..MaxSessions : s # session => received'[s] = received[s]
    BY <1>1, <2>1, <2>2
  <2> DEFINE r == received[session]
             n == Len(r)
  <2>6. /\ r \in Seq(0..MaxReceives) /\ n \in Nat
        /\ toRead = n + 1 /\ toRead \in 0..MaxReceives
    BY <1>1, <2>2, LenProperties DEF Buffered, TypeInv, TypeOK
  <2>7. r = [i \in 1..n |-> i]
    BY <2>2 DEF ReadInv, Counted
  <2> HIDE DEF n, r
  <2>8. /\ Len(Append(r, toRead)) = n + 1
        /\ Append(r, toRead) = [i \in 1..n + 1 |-> i]
    <3>1. /\ Append(r, toRead) \in Seq(0..MaxReceives)
          /\ Len(Append(r, toRead)) = n + 1
          /\ \A i \in 1..n : Append(r, toRead)[i] = r[i]
          /\ Append(r, toRead)[n + 1] = toRead
      BY <2>6, AppendProperties DEF n
    <3>2. \A i \in 1..n + 1 : Append(r, toRead)[i] = i
      BY <2>6, <2>7, <3>1
    <3>3. Append(r, toRead) \in [1..n + 1 -> 0..MaxReceives]
      BY <3>1, LenProperties
    <3> QED
      BY <3>1, <3>2, <3>3
  <2>9. Drained'
    BY <2>1, <2>2, <2>5, <2>6, <2>8 DEF Drained, Buffered, r, n
  <2>10. Counted'
    <3>1. received'[session] = [i \in 1..Len(received'[session]) |-> i]
      BY <2>5, <2>8 DEF r
    <3> QED
      BY <2>5, <3>1 DEF ReadInv, Counted
  <2>11. \A s \in 1..MaxSessions : s > session' => received'[s] = <<>>
    BY <1>1, <2>1, <2>5 DEF ReadInv
  <2> QED
    BY <2>1, <2>2, <2>3, <2>4, <2>9, <2>10, <2>11 DEF ReadInv
<1>8. ASSUME NEW v \in Workers, DispatchWrite(v) PROVE ReadInv'
  <2>1. /\ ops' = ops \/ ops' = ops \cup {Op("WRITE")}
        /\ UNCHANGED <<phase, session, got, completions, toRead, produced, received>>
        /\ at' = [at EXCEPT ![v] = "dispatched"]
    BY <1>8 DEF DispatchWrite, handlers
  <2>2. /\ InOps("READ")' => InOps("READ")
        /\ \A op \in ops' : op.tag = "READ" => op \in ops
        /\ \A w \in Workers : Held(w, "READ")' => Held(w, "READ")
    BY <1>1, <2>1 DEF InOps, Op, Held
  <2>3. OneOf("READ")'
    BY <2>1, <2>2 DEF ReadInv, OneOf, Queued
  <2> QED
    BY <2>1, <2>2, <2>3, ReadFrame DEF Queued
<1>9. ASSUME NEW v \in Workers, DispatchOther(v) \/ Repost(v) PROVE ReadInv'
  <2>1. /\ UNCHANGED <<session, ops, completions, phase, toRead, produced, received>>
        /\ at'[v] # "polled"
        /\ \A w \in Workers : w # v => at'[w] = at[w] /\ got'[w] = got[w]
    BY <1>1, <1>9 DEF DispatchOther, Repost, handlers, grpc
  <2>2. /\ OneOf("READ")'
        /\ InOps("READ")' <=> InOps("READ")
        /\ \A w \in Workers : Held(w, "READ")' => Held(w, "READ") /\ got'[w] = got[w]
        /\ \A i \in DOMAIN completions : Queued(i, "READ")' <=> Queued(i, "READ")
    BY <2>1, RunToken DEF ReadInv
  <2> QED
    BY <2>1, <2>2, ReadFrame
<1>10. CASE CloseTimeout \/ FacadeEndsCall \/ Break \/ UNCHANGED vars
  <2>1. /\ UNCHANGED <<session, ops, completions, at, got, toRead, produced, received>>
        /\ phase' = phase \/ (phase = "closing" /\ phase' \in {"closing", "failed"})
    BY <1>10 DEF CloseTimeout, FacadeEndsCall, Break, vars, external, handlers, poller, grpc
  <2>2. OneOf("READ")'
    BY <2>1 DEF ReadInv, OneOf, InOps, Queued, Held
  <2>3. InOps("READ")' => InOps("READ")
    BY <2>1 DEF InOps
  <2> QED
    BY <2>1, <2>2, <2>3, ReadFrame DEF Queued, Held
<1>11. ASSUME NEW op \in ops, NEW ok \in BOOLEAN, Complete(op, ok),
              UNCHANGED <<phase, session, at, got, received>>
       PROVE  /\ OneOf("READ")'
              /\ op.tag = "READ" =>
                   /\ InOps("READ") /\ ~InOps("READ")'
                   /\ \A w \in Workers : ~Held(w, "READ")'
                   /\ \A i \in DOMAIN completions' : Queued(i, "READ")' => completions'[i].ok = ok
              /\ op.tag # "READ" =>
                   /\ InOps("READ")' => InOps("READ")
                   /\ \A w \in Workers : Held(w, "READ")' => Held(w, "READ")
                   /\ \A i \in DOMAIN completions' : Queued(i, "READ")' =>
                         i \in DOMAIN completions /\ completions'[i] = completions[i]
  BY <1>11, CompleteToken DEF ReadInv, Tags
<1>12. CASE ReadDone
  <2>1. /\ Complete(Op("READ"), TRUE) /\ Op("READ") \in ops
        /\ UNCHANGED <<phase, session, at, got, received>>
        /\ produced' = produced + 1 /\ toRead' = produced + 1
    BY <1>12 DEF ReadDone, Complete, external, handlers, poller
  <2>2. Op("READ").tag = "READ" 
    BY DEF Op
  <2>3. /\ OneOf("READ")' /\ InOps("READ") /\ ~InOps("READ")'
        /\ \A w \in Workers : ~Held(w, "READ")'
        /\ \A i \in DOMAIN completions' : Queued(i, "READ")' => completions'[i].ok = TRUE
    BY <1>11, <2>1, <2>2
  <2>4. phase # "opening"
    BY <2>3 DEF Fresh, Unused, Pending
  <2>5. Buffered'
    BY <2>1, <2>3 DEF ReadInv, Buffered, Drained
  <2> QED
    BY <2>1, <2>3, <2>4, <2>5 DEF ReadInv, Counted
<1>13. CASE Opened \/ WriteDone \/ Abort \/ Finished
  <2>1. /\ UNCHANGED <<phase, session, at, got, received, toRead, produced>>
        /\ \E op \in ops, ok \in BOOLEAN :
             /\ Complete(op, ok)
             /\ op.tag = "READ" => ~ok
    BY <1>13 DEF Opened, WriteDone, Abort, Finished, Complete, Op, external,
       handlers, poller
  <2>2. PICK op \in ops, ok \in BOOLEAN : Complete(op, ok) /\ (op.tag = "READ" => ~ok)
    BY <2>1
  <2>3. CASE op.tag = "READ"
    <3>1. Drained /\ Drained'
      BY <1>11, <2>1, <2>2, <2>3 DEF ReadInv, Drained
    <3>2. /\ OneOf("READ")' /\ ~InOps("READ")'
          /\ \A w \in Workers : ~Held(w, "READ")'
          /\ \A i \in DOMAIN completions' : Queued(i, "READ")' => ~completions'[i].ok
      BY <1>11, <2>1, <2>2, <2>3
    <3> QED
      BY <2>1, <3>1, <3>2 DEF ReadInv, Counted
  <2>4. CASE op.tag # "READ"
    <3>1. /\ OneOf("READ")'
          /\ InOps("READ")' => InOps("READ")
          /\ \A w \in Workers : Held(w, "READ")' => Held(w, "READ")
          /\ \A i \in DOMAIN completions' : Queued(i, "READ")' =>
                i \in DOMAIN completions /\ completions'[i] = completions[i]
      BY <1>11, <2>1, <2>2, <2>4
    <3> QED
      BY <2>1, <3>1, ReadFrame DEF Queued
  <2> QED
    BY <2>3, <2>4
<1> QED
  BY <1>2, <1>3, <1>4, <1>5, <1>6, <1>7, <1>8, <1>9, <1>10, <1>12, <1>13 DEF Next

(* What holds with a single worker.                                        *)
ThreadInv ==
  FinishIsLast /\ (\E w \in Workers : Workers = {w}) => PollerInv /\ CleanInv

(* The inductive invariant of the stream.                                  *)
RegularInv == TypeInv /\ ThreadInv /\ StreamInv

(* It holds initially.                                                     *)
LEMMA InitRegularInv == Init => RegularInv
<1> SUFFICES ASSUME Init PROVE RegularInv
  OBVIOUS
<1>1. TypeInv /\ ThreadInv
  BY InitTypeInv, InitPollerInv, InitCleanInv DEF ThreadInv
<1>2. /\ DOMAIN completions = {} /\ ops = {} /\ phase = "closed"
      /\ \A w \in Workers : at[w] = "idle"
  BY EmptySeq, LenProperties DEF Init
<1>3. \A tag : ~Pending(tag) /\ OneOf(tag)
  BY <1>2 DEF Pending, InOps, Held, OneOf
<1>4. \A s \in 1..MaxSessions : received[s] = <<>> 
  BY DEF Init
<1>5. Counted
  <2>1. <<>> = [i \in 1..Len(<<>>) |-> i]
    <3>1. Len(<<>>) = 0 /\ <<>> \in Seq(Nat)
      BY EmptySeq
    <3>2. 1..0 = {}
      OBVIOUS
    <3> QED
      BY <3>1, <3>2
  <2> QED
    BY <1>4, <2>1 DEF Counted
<1> QED
  BY <1>1, <1>2, <1>3, <1>4, <1>5 DEF RegularInv, StreamInv, Fresh, WriteInv, ReadInv, Pending

(* Every step keeps it, in both regimes.                                   *)
LEMMA NextRegularInv ==
  ASSUME Regular
  PROVE  RegularInv /\ [Next]_vars => RegularInv'
<1> SUFFICES ASSUME RegularInv, [Next]_vars PROVE RegularInv'
  OBVIOUS
<1>1. TypeInv /\ TypeInv'
  BY NextTypeInv DEF RegularInv
<1>2. ThreadInv'
  BY <1>1, NextPollerInv, NextCleanInv DEF RegularInv, ThreadInv
<1>3. Fresh'
  <2>1. CASE MaxSessions = 1
    BY <1>1, <2>1, FreshSingle DEF RegularInv, StreamInv
  <2>2. CASE FinishIsLast /\ \E w \in Workers : Workers = {w}
    <3>1. CleanInv'
      BY <1>2, <2>2 DEF ThreadInv
    <3> QED
      BY <3>1 DEF CleanInv, Clear, Fresh, Unused, Pending, InOps, Queued, Held
  <2> QED
    BY <2>1, <2>2 DEF Regular
<1> QED
  BY <1>1, <1>2, <1>3, NextWriteInv, NextReadInv DEF RegularInv, StreamInv

(* The client is notified of the facade's messages in order, each once:    *)
(* the buffer of a Read is never reused before its message was notified.   *)
THEOREM ReceivedInOrder ==
  ASSUME Regular
  PROVE  Spec => []ReceiveOrder
<1>1. RegularInv => ReceiveOrder
  <2> SUFFICES ASSUME RegularInv PROVE ReceiveOrder
    OBVIOUS
  <2>1. ASSUME phase \in {"setup", "open"}
        PROVE  produced - Len(received[session]) = (IF toRead = 0 THEN 0 ELSE 1)
    <3>1. Buffered \/ Drained
      BY <2>1 DEF RegularInv, StreamInv, ReadInv
    <3>2. received[session] \in Seq(0..MaxReceives)
      <4>1. session # 0 /\ session \in 0..MaxSessions
        BY <2>1 DEF RegularInv, TypeInv, TypeOK, Started
      <4> QED
        BY <4>1, BoundsAssumption DEF RegularInv, TypeInv, TypeOK
    <3>3. Len(received[session]) \in Nat /\ toRead \in Nat
      BY <3>2, LenProperties, BoundsAssumption DEF RegularInv, TypeInv, TypeOK
    <3> QED
      BY <3>1, <3>3 DEF Buffered, Drained
  <2> QED
    BY <2>1 DEF ReceiveOrder, RegularInv, StreamInv, ReadInv, Counted
<1>2. RegularInv /\ [Next]_vars => RegularInv'
  BY NextRegularInv
<1> QED
  BY <1>1, <1>2, InitRegularInv, PTL DEF Spec

(* A step that writes finds no token of WRITE at gRPC or in the            *)
(* completion queue.                                                       *)
LEMMA WriteStarts ==
  ASSUME TypeInv, WriteInv, Next, written' # written
  PROVE  /\ Op("WRITE") \notin ops
         /\ \A i \in DOMAIN completions :
              ~(completions[i].tag = "WRITE" /\ completions[i].of = session)
<1>1. CASE Setup \/ Send
  <2>1. ~Pending("WRITE")
    BY <1>1, Sending DEF Setup, Send, handlers, poller
  <2> QED
    BY <2>1 DEF Pending, InOps, Queued, Op
<1>2. ASSUME NEW v \in Workers, DispatchWrite(v)
      PROVE  /\ Op("WRITE") \notin ops
             /\ \A i \in DOMAIN completions :
                  ~(completions[i].tag = "WRITE" /\ completions[i].of = session)
  <2>1. Held(v, "WRITE")
    BY <1>2 DEF DispatchWrite, Held
  <2> QED
    BY <2>1 DEF WriteInv, OneOf, InOps, Queued, Op
<1> QED
  BY <1>1, <1>2 DEF Next, OpenCall, OpenReturn, CloseCall, CloseNext, CloseTimeout,
     Poll, DispatchRead, DispatchOther, Repost, Opened, WriteDone, ReadDone,
     FacadeEndsCall, Break, Abort, Finished, sender, external

(* gRPC's rule for streams is kept: a Write is started only when the last  *)
(* one has completed and its tag was taken.                                *)
THEOREM OneWrite ==
  ASSUME Regular
  PROVE  Spec => OneWriteAtATime
<1>1. RegularInv /\ [Next]_vars =>
        [written' # written =>
           /\ Op("WRITE") \notin ops
           /\ \A i \in DOMAIN completions :
                ~(completions[i].tag = "WRITE" /\ completions[i].of = session)]_vars
  BY WriteStarts DEF RegularInv, StreamInv, vars, sender
<1>2. RegularInv /\ [Next]_vars => RegularInv'
  BY NextRegularInv
<1> QED
  BY <1>1, <1>2, InitRegularInv, PTL DEF Spec, OneWriteAtATime
=============================================================================
