---------------------------- MODULE ClientBackend ----------------------------
(***************************************************************************)
(* The connection of a client to its facade: backend::ClientBackend, one   *)
(* asynchronous gRPC stream served through one completion queue.           *)
(*                                                                         *)
(* The handlers of the client's states, one at a time (StateMachine), open *)
(* the connection, send and close it.  A task of the io_service polls the  *)
(* completion queue, one completion a run, and posts itself again.  Open   *)
(* and close wait on the same completion queue themselves.                 *)
(*                                                                         *)
(* gRPC and the facade are external: every operation started on the stream *)
(* completes by putting its tag in the completion queue, with a flag that  *)
(* tells success.                                                          *)
(***************************************************************************)
EXTENDS Naturals, Sequences, FiniteSets

CONSTANTS Workers,       \* the threads that run the io_service
          FinishIsLast,  \* gRPC completes Finish after the call's other tags
          MaxSessions,   \* bound: connections opened
          MaxSends,      \* bound: messages sent
          MaxReceives    \* bound: messages of the facade in one connection

ASSUME WorkersAssumption == IsFiniteSet(Workers) /\ Workers # {}
ASSUME FinishAssumption == FinishIsLast \in BOOLEAN
ASSUME BoundsAssumption ==
  /\ MaxSessions \in Nat /\ MaxSends \in Nat /\ MaxReceives \in Nat
  /\ MaxSessions <= MaxSends   \* every connection may send its SETUP

VARIABLES
  phase,         \* where the handlers are in the life of the connection
  session,       \* connections opened so far; the current one
  sending,       \* a Write is in progress
  sendingQueue,  \* messages waiting for it
  keepReader,    \* the poller is to post itself again
  posted,        \* runs of the poller that are in the io_service
  at,            \* where each worker is in a run of the poller
  got,           \* the completion each worker took
  releaseTag,    \* the tag the closing loop looked at last
  toRead,        \* the message in the buffer of the current Read
  ops,           \* gRPC: operations in progress
  completions,   \* gRPC: the completion queue
  link,          \* gRPC: the state of the current stream
  produced,      \* facade: messages written in the current connection
  sent,          \* history: messages given to send
  written,       \* history: messages given to stream->Write
  received       \* history: messages notified to the client, by connection

handlers == <<phase, session, releaseTag>>
sender   == <<sending, sendingQueue, sent, written>>
poller   == <<posted, at, got>>
grpc     == <<ops, completions, link>>
vars == <<handlers, sender, keepReader, poller, toRead, grpc, produced, received>>

Tags == {"OPEN", "CLOSE", "WRITE", "READ"}
Phases == {"closed", "opening", "setup", "open", "closing", "failed"}
Messages == [session : 1..MaxSessions, no : 1..MaxSends]
Writes == [message : Messages, of : 1..MaxSessions]
Operations == [tag : Tags, of : 1..MaxSessions]
Completions == [tag : Tags, ok : BOOLEAN, of : 1..MaxSessions]
Timeout == [tag |-> "NONE", ok |-> FALSE, of |-> 0]

TypeOK ==
  /\ phase \in Phases
  /\ session \in 0..MaxSessions
  /\ releaseTag \in Tags \cup {"NONE"}
  /\ sending \in BOOLEAN
  /\ sendingQueue \in Seq(Messages)
  /\ sent \in Seq(Messages)
  /\ written \in Seq(Writes)
  /\ keepReader \in BOOLEAN
  /\ posted \in Nat
  /\ at \in [Workers -> {"idle", "polled", "dispatched"}]
  /\ got \in [Workers -> Completions \cup {Timeout}]
  /\ toRead \in 0..MaxReceives
  /\ ops \subseteq Operations
  /\ completions \in Seq(Completions)
  /\ link \in {"none", "opening", "up", "down"}
  /\ produced \in 0..MaxReceives
  /\ received \in [1..MaxSessions -> Seq(0..MaxReceives)]

(* `sending' has no initial value in the constructor.                      *)
Init == /\ phase = "closed" /\ session = 0 /\ releaseTag = "NONE"
        /\ sending \in BOOLEAN /\ sendingQueue = <<>>
        /\ sent = <<>> /\ written = <<>>
        /\ keepReader = FALSE
        /\ posted = 0
        /\ at = [w \in Workers |-> "idle"]
        /\ got = [w \in Workers |-> Timeout]
        /\ toRead = 0
        /\ ops = {} /\ completions = <<>> /\ link = "none"
        /\ produced = 0
        /\ received = [s \in 1..MaxSessions |-> <<>>]

-----------------------------------------------------------------------------
(* Starting operations on the current stream.                              *)
Op(tag) == [tag |-> tag, of |-> session]

Write(m) == written' = Append(written, [message |-> m, of |-> session])

(* A handler that waits keeps its worker from other tasks.                 *)
Busy == Cardinality({w \in Workers : at[w] # "idle"})
          + (IF phase \in {"opening", "setup", "closing"} THEN 1 ELSE 0)
FreeWorker == Busy < Cardinality(Workers)

NextMessage == [session |-> session, no |-> Len(sent) + 1]

-----------------------------------------------------------------------------
(* Defective variants of the operations, for checking that the properties  *)
(* below can tell them from the code.                                      *)

\* Every message is written at once.
SendAtOnce == /\ sent' = Append(sent, NextMessage)
              /\ sending' = TRUE
              /\ Write(NextMessage)
              /\ ops' = ops \cup {Op("WRITE")}
              /\ UNCHANGED sendingQueue

\* A message is taken whether there is a connection or not.
SendUnconnected ==
  /\ FreeWorker
  /\ Len(sent) + (MaxSessions - session) < MaxSends
  /\ sent' = Append(sent, NextMessage)
  /\ sendingQueue' = Append(sendingQueue, NextMessage)
  /\ UNCHANGED <<handlers, sending, written, keepReader, poller, toRead, grpc,
                 produced, received>>

\* The flag is cleared without looking at the queue.
DispatchWriteForgetsQueue(w) ==
  /\ at[w] = "polled" /\ got[w].ok /\ got[w].tag = "WRITE"
  /\ at' = [at EXCEPT ![w] = "dispatched"]
  /\ sending' = FALSE
  /\ UNCHANGED <<sendingQueue, written, handlers, sent, keepReader, posted, got,
                 toRead, grpc, produced, received>>

\* The newest message is written first.
DispatchWriteNewestFirst(w) ==
  /\ at[w] = "polled" /\ got[w].ok /\ got[w].tag = "WRITE"
  /\ at' = [at EXCEPT ![w] = "dispatched"]
  /\ \/ /\ sendingQueue = <<>>
        /\ sending' = FALSE
        /\ UNCHANGED <<sendingQueue, written, ops>>
     \/ /\ sendingQueue # <<>>
        /\ Write(sendingQueue[Len(sendingQueue)])
        /\ ops' = ops \cup {Op("WRITE")}
        /\ sendingQueue' = SubSeq(sendingQueue, 1, Len(sendingQueue) - 1)
        /\ UNCHANGED sending
  /\ UNCHANGED <<handlers, sent, keepReader, posted, got, toRead, completions,
                 link, produced, received>>

\* A failed Read is taken for a message.
DispatchReadUnchecked(w) ==
  /\ at[w] = "polled" /\ got[w].tag = "READ"
  /\ at' = [at EXCEPT ![w] = "dispatched"]
  /\ received' = [received EXCEPT ![session] = Append(@, toRead)]
  /\ toRead' = 0
  /\ ops' = ops \cup {Op("READ")}
  /\ UNCHANGED <<handlers, sender, keepReader, posted, got, completions, link,
                 produced>>

\* The poller stops when there is nothing to take.
RepostWhenOk(w) ==
  /\ at[w] = "dispatched"
  /\ at' = [at EXCEPT ![w] = "idle"]
  /\ got' = [got EXCEPT ![w] = Timeout]
  /\ posted' = IF keepReader /\ got[w].ok THEN posted + 1 ELSE posted
  /\ UNCHANGED <<handlers, sender, keepReader, toRead, grpc, produced, received>>

\* Closing takes one completion, whatever it is.
CloseNextOnce ==
  /\ phase = "closing"
  /\ completions # <<>>
  /\ releaseTag' = Head(completions).tag
  /\ completions' = Tail(completions)
  /\ phase' = "closed"
  /\ UNCHANGED <<session, sender, keepReader, poller, toRead, ops, link,
                 produced, received>>

\* The closing loop goes on after any tag.
CloseNextForever ==
  /\ phase = "closing"
  /\ completions # <<>>
  /\ releaseTag' = Head(completions).tag
  /\ completions' = Tail(completions)
  /\ UNCHANGED <<phase, session, sender, keepReader, poller, toRead, ops, link,
                 produced, received>>

-----------------------------------------------------------------------------
(* Opening.                                                                *)

(* The stream of the last connection is dropped and a new call is started. *)
(* The io_service starts its tasks in the order they were posted, so the   *)
(* last run of the old poller has begun before this handler.               *)
OpenCall ==
  /\ phase = "closed"
  /\ session < MaxSessions
  /\ FreeWorker
  /\ posted = 0
  /\ session' = session + 1
  /\ phase' = "opening"
  /\ ops' = ops \cup {[tag |-> "OPEN", of |-> session + 1]}
  /\ link' = "opening"
  /\ produced' = 0
  /\ UNCHANGED <<releaseTag, sender, keepReader, poller, toRead, completions,
                 received>>

(* The wait ends with a completion, or with none within five seconds: only *)
(* a successful OPEN will do.                                              *)
OpenReturn ==
  /\ phase = "opening"
  /\ \E c \in {IF completions = <<>> THEN Timeout ELSE Head(completions)} :
       \/ /\ c.ok /\ c.tag = "OPEN"
          /\ ops' = ops \cup {Op("READ")}
          /\ toRead' = 0
          /\ sending' = FALSE
          /\ keepReader' = TRUE
          /\ posted' = posted + 1
          /\ phase' = "setup"
       \/ /\ ~(c.ok /\ c.tag = "OPEN")
          /\ phase' = "closed"
          /\ UNCHANGED <<ops, toRead, sending, keepReader, posted>>
  /\ completions' = IF completions = <<>> THEN <<>> ELSE Tail(completions)
  /\ UNCHANGED <<session, releaseTag, sendingQueue, sent, written, at, got,
                 link, produced, received>>

-----------------------------------------------------------------------------
(* Sending: one critical section of `sendingLock'.                         *)
SendMessage ==
  /\ sent' = Append(sent, NextMessage)
  /\ \/ /\ sending
        /\ sendingQueue' = Append(sendingQueue, NextMessage)
        /\ UNCHANGED <<sending, written, ops>>
     \/ /\ ~sending
        /\ sending' = TRUE
        /\ Write(NextMessage)
        /\ ops' = ops \cup {Op("WRITE")}
        /\ UNCHANGED sendingQueue

(* The handler that opened the connection sends SETUP in it.               *)
Setup == /\ phase = "setup"
         /\ phase' = "open"
         /\ SendMessage
         /\ UNCHANGED <<session, releaseTag, keepReader, poller, toRead,
                        completions, link, produced, received>>

(* A handler of a connected state sends.                                   *)
Send == /\ phase = "open"
        /\ FreeWorker
        /\ Len(sent) + (MaxSessions - session) < MaxSends
        /\ SendMessage
        /\ UNCHANGED <<handlers, keepReader, poller, toRead, completions, link,
                       produced, received>>

-----------------------------------------------------------------------------
(* Closing.                                                                *)
CloseCall == /\ phase = "open"
             /\ FreeWorker
             /\ keepReader' = FALSE
             /\ ops' = ops \cup {Op("CLOSE")}
             /\ releaseTag' = "NONE"
             /\ phase' = "closing"
             /\ UNCHANGED <<session, sender, poller, toRead, completions, link,
                            produced, received>>

(* The closing loop takes a completion; READ and WRITE make it go on.      *)
CloseNext ==
  /\ phase = "closing"
  /\ completions # <<>>
  /\ releaseTag' = Head(completions).tag
  /\ completions' = Tail(completions)
  /\ phase' = IF releaseTag' \in {"READ", "WRITE"} THEN "closing"
              ELSE IF Head(completions).ok /\ releaseTag' = "CLOSE"
                   THEN "closed" ELSE "failed"
  /\ UNCHANGED <<session, sender, keepReader, poller, toRead, ops, link,
                 produced, received>>

(* No completion within five seconds of the call.  The first time the tag  *)
(* has no value yet: it may be any.  Later it keeps the last one, READ or  *)
(* WRITE, and the loop only tries again: no change.                        *)
CloseTimeout ==
  /\ phase = "closing"
  /\ completions = <<>>
  /\ releaseTag = "NONE"
  /\ \E garbage \in Tags :
       /\ releaseTag' = garbage
       /\ phase' = IF garbage \in {"READ", "WRITE"} THEN "closing" ELSE "failed"
  /\ UNCHANGED <<session, sender, keepReader, poller, toRead, grpc, produced,
                 received>>

-----------------------------------------------------------------------------
(* The poller: proceedGrpcQueue.                                           *)

(* A completion is taken, or there is none within a millisecond.           *)
Poll(w) ==
  /\ at[w] = "idle"
  /\ FreeWorker
  /\ posted > 0
  /\ posted' = posted - 1
  /\ at' = [at EXCEPT ![w] = "polled"]
  /\ got' = [got EXCEPT ![w] =
                 IF completions = <<>> THEN Timeout ELSE Head(completions)]
  /\ completions' = IF completions = <<>> THEN <<>> ELSE Tail(completions)
  /\ UNCHANGED <<handlers, sender, keepReader, toRead, ops, link, produced,
                 received>>

DispatchRead(w) ==
  /\ at[w] = "polled" /\ got[w].ok /\ got[w].tag = "READ"
  /\ at' = [at EXCEPT ![w] = "dispatched"]
  /\ received' = [received EXCEPT ![session] = Append(@, toRead)]
  /\ toRead' = 0
  /\ ops' = ops \cup {Op("READ")}
  /\ UNCHANGED <<handlers, sender, keepReader, posted, got, completions, link,
                 produced>>

(* One critical section of `sendingLock'.                                  *)
DispatchWrite(w) ==
  /\ at[w] = "polled" /\ got[w].ok /\ got[w].tag = "WRITE"
  /\ at' = [at EXCEPT ![w] = "dispatched"]
  /\ \/ /\ sendingQueue = <<>>
        /\ sending' = FALSE
        /\ UNCHANGED <<sendingQueue, written, ops>>
     \/ /\ sendingQueue # <<>>
        /\ Write(Head(sendingQueue))
        /\ ops' = ops \cup {Op("WRITE")}
        /\ sendingQueue' = Tail(sendingQueue)
        /\ UNCHANGED sending
  /\ UNCHANGED <<handlers, sent, keepReader, posted, got, toRead, completions,
                 link, produced, received>>

(* A failed completion, OPEN, CLOSE or no completion at all.               *)
DispatchOther(w) ==
  /\ at[w] = "polled" /\ ~(got[w].ok /\ got[w].tag \in {"READ", "WRITE"})
  /\ at' = [at EXCEPT ![w] = "dispatched"]
  /\ UNCHANGED <<handlers, sender, keepReader, posted, got, toRead, grpc,
                 produced, received>>

Repost(w) ==
  /\ at[w] = "dispatched"
  /\ at' = [at EXCEPT ![w] = "idle"]
  /\ got' = [got EXCEPT ![w] = Timeout]
  /\ posted' = IF keepReader THEN posted + 1 ELSE posted
  /\ UNCHANGED <<handlers, sender, keepReader, toRead, grpc, produced, received>>

-----------------------------------------------------------------------------
(* gRPC and the facade.                                                    *)
Complete(op, ok) ==
  /\ op \in ops
  /\ ops' = ops \ {op}
  /\ completions' = Append(completions, [tag |-> op.tag, ok |-> ok, of |-> op.of])

external == <<handlers, sender, keepReader, poller, received>>

(* The call is set up, or refused.                                         *)
Opened == \E ok \in BOOLEAN : /\ link = "opening"
                              /\ Complete(Op("OPEN"), ok)
                              /\ link' = IF ok THEN "up" ELSE "down"
                              /\ UNCHANGED <<external, toRead, produced>>

WriteDone == /\ link = "up"
             /\ Complete(Op("WRITE"), TRUE)
             /\ UNCHANGED <<external, toRead, link, produced>>

(* The facade's next message is put in the buffer.                         *)
ReadDone == /\ link = "up"
            /\ produced < MaxReceives
            /\ Complete(Op("READ"), TRUE)
            /\ produced' = produced + 1
            /\ toRead' = produced'
            /\ UNCHANGED <<external, link>>

(* The facade ends the call, once the client is closing it.                *)
FacadeEndsCall == /\ link = "up"
                  /\ phase = "closing"
                  /\ link' = "down"
                  /\ UNCHANGED <<external, toRead, ops, completions, produced>>

(* The connection is lost.                                                 *)
Break == /\ link = "up"
         /\ link' = "down"
         /\ UNCHANGED <<external, toRead, ops, completions, produced>>

(* Operations of a stream that is down, or dropped, fail; Finish succeeds. *)
Abort == \E op \in ops :
           /\ op.of # session \/ link = "down"
           /\ op.tag # "CLOSE"
           /\ Complete(op, FALSE)
           /\ UNCHANGED <<external, toRead, link, produced>>

Finished == \E op \in ops :
              /\ op.tag = "CLOSE"
              /\ op.of # session \/ link = "down"
              /\ FinishIsLast => \A o \in ops : o.of = op.of => o = op
              /\ Complete(op, TRUE)
              /\ UNCHANGED <<external, toRead, link, produced>>

Completed == Opened \/ WriteDone \/ Abort \/ Finished

-----------------------------------------------------------------------------
Next == \/ OpenCall \/ OpenReturn \/ Setup \/ Send
        \/ CloseCall \/ CloseNext \/ CloseTimeout
        \/ \E w \in Workers : \/ Poll(w)
                              \/ DispatchRead(w)
                              \/ DispatchWrite(w)
                              \/ DispatchOther(w)
                              \/ Repost(w)
        \/ Opened \/ WriteDone \/ ReadDone \/ FacadeEndsCall \/ Break
        \/ Abort \/ Finished

Spec == Init /\ [][Next]_vars

(* The workers stay in io_service::run() and the waits end, in the code;   *)
(* gRPC completes what it can complete.                                    *)
Fairness ==
  /\ WF_vars(OpenReturn) /\ WF_vars(Setup)
  /\ WF_vars(CloseNext) /\ WF_vars(CloseTimeout)
  /\ \A w \in Workers : /\ WF_vars(Poll(w))
                         /\ WF_vars(DispatchRead(w) \/ DispatchWrite(w)
                                      \/ DispatchOther(w))
                         /\ WF_vars(Repost(w))
  /\ WF_vars(Opened) /\ WF_vars(WriteDone) /\ WF_vars(Abort) /\ WF_vars(Finished)

FairSpec == Spec /\ Fairness

(* And the facade answers the end of an operation by ending the call.      *)
CooperativeSpec == FairSpec /\ WF_vars(FacadeEndsCall)

-----------------------------------------------------------------------------
Occurs(m, messages) == \E i \in DOMAIN messages : messages[i] = m

InOrder(messages) ==
  \A i, j \in DOMAIN messages :
    i < j /\ messages[i].session = messages[j].session
      => messages[i].no < messages[j].no

(* The messages written and then those that wait.                          *)
Handed(writes, queue) == [i \in DOMAIN writes |-> writes[i].message] \o queue

Placed == Handed(written, sendingQueue)

(* Every message given to send is written once and in the order of the     *)
(* calls, or waits in the queue behind those written: the hand over of     *)
(* the flag between send and the poller neither loses nor swaps messages   *)
(* of a connection.                                                        *)
SendOrder ==
  /\ Len(Placed) = Len(sent)
  /\ \A i \in DOMAIN sent : Occurs(sent[i], Placed)
  /\ InOrder(Placed)

(* A Write is started only when the last one of the stream has completed   *)
(* and its tag was taken from the completion queue, as gRPC demands.       *)
OneWriteAtATime ==
  [][written' # written =>
       /\ Op("WRITE") \notin ops
       /\ \A i \in DOMAIN completions :
             ~(completions[i].tag = "WRITE" /\ completions[i].of = session)]_vars

(* The client is notified of the facade's messages in their order, each    *)
(* once, none of them skipped: the buffer of a Read is never handed to the *)
(* next Read before its message was notified.                              *)
ReceiveOrder ==
  /\ \A s \in 1..MaxSessions :
       received[s] = [i \in 1..Len(received[s]) |-> i]
  /\ phase \in {"setup", "open"} =>
       produced - Len(received[session]) = (IF toRead = 0 THEN 0 ELSE 1)

(* While the connection is open exactly one run of the poller exists; a    *)
(* run left over from the last connection never adds itself to the new     *)
(* one.  (For a single worker.)                                            *)
OnePoller ==
  phase \in {"setup", "open"} =>
    posted + Cardinality({w \in Workers : at[w] # "idle"}) = 1

(* A connection that was opened and closed leaves nothing behind that the  *)
(* next one could take for its own: none of its operations and none of its *)
(* completions.  (For a single worker, and if gRPC completes Finish last.) *)
CleanAfterClose ==
  phase = "closed" /\ (\E i \in DOMAIN written : written[i].of = session) =>
    /\ \A op \in ops : op.of # session
    /\ \A i \in DOMAIN completions : completions[i].of # session

(* Every message sent is written, unless the stream breaks or is closed    *)
(* before.                                                                 *)
SentIsWritten ==
  \A n \in 1..MaxSends :
    Len(sent) >= n ~> Len(written) >= n \/ link # "up" \/ phase # "open"

(* Closing comes to an end, with an exception or without.                  *)
CloseEnds == phase = "closing" ~> phase # "closing"

(* Closing cleans up the tasks of writing: no message is left that was     *)
(* given to send and was not written.                                      *)
NothingLeftToWrite == phase = "closed" => sendingQueue = <<>>
=============================================================================
