----------------------------- MODULE CoreClient -----------------------------
(***************************************************************************)
(* A client's requests to the core: core::CoreClient on                    *)
(* https::HttpsClient::execute.                                            *)
(*                                                                         *)
(* A request is made by a handler, or by main before its loop, and blocks  *)
(* its thread without a deadline; every request has a connection of its    *)
(* own.  Any of its steps may throw.  The core is external: it lists       *)
(* devices, and opens a session for a device that attaches or a pilot that *)
(* operates.                                                               *)
(***************************************************************************)
EXTENDS Naturals

CONSTANTS CoreFaults   \* may requests fail or be refused?

ASSUME CoreFaultsAssumption == CoreFaults \in BOOLEAN

VARIABLES step,      \* how far the request is, or its outcome
          path,      \* what is asked
          reply,     \* core: its answer, once it has one
          sessions   \* core: the sessions it has opened for this client

core == <<step, path, reply, sessions>>

CoreTypeOK ==
  /\ step \in {"idle", "connecting", "writing", "reading", "closing",
               "evaluating", "ok", "failed"}
  /\ path \in {"devices", "attach", "operate"}
  /\ reply \in {"none", "success", "refusal", "garbled"}
  /\ sessions \in Nat

CoreInit == /\ step = "idle"
            /\ path = "devices"
            /\ reply = "none"
            /\ sessions = 0

Execute(p) == /\ step = "idle"
              /\ step' = "connecting"
              /\ path' = p
              /\ reply' = "none"
              /\ UNCHANGED sessions

Throw == CoreFaults /\ step' = "failed"

Proceed(from, to) == /\ step = from
                     /\ step' = to \/ Throw
                     /\ UNCHANGED <<path, reply, sessions>>

(* The name is resolved, the stream connected, the handshake made.         *)
ConnectToCore == Proceed("connecting", "writing")

WriteRequest == Proceed("writing", "reading")

(* The core answers; a client error, a server error and a redirection are  *)
(* refusals here, a text that is no JSON is garbled.                       *)
Perform == /\ step = "reading" /\ reply = "none"
           /\ reply' \in IF CoreFaults THEN {"success", "refusal", "garbled"}
                         ELSE {"success"}
           /\ sessions' = IF reply' = "success" /\ path # "devices"
                          THEN sessions + 1 ELSE sessions
           /\ UNCHANGED <<step, path>>

ReadReply == reply # "none" /\ Proceed("reading", "closing")

ReplyLost == /\ step = "reading"
             /\ Throw
             /\ UNCHANGED <<path, reply, sessions>>

(* The end of the stream and a truncated one are tolerated.  Any other     *)
(* error is thrown, and the reply with it.                                 *)
ShutDown == Proceed("closing", "evaluating")

\* The status is not looked at: unknown fields are ignored, so the reason of
\* a refusal reads as an empty response.
AcceptedIfParsed(r) == r # "garbled"

(* The status is 2xx, and the response parses.                             *)
Accepted(r) == r = "success"

Evaluate == /\ step = "evaluating"
            /\ step' = IF Accepted(reply) THEN "ok" ELSE "failed"
            /\ UNCHANGED <<path, reply, sessions>>

(* The caller goes on with the response, or with the exception.            *)
Outcome(o) == /\ step = o
              /\ step' = "idle"
              /\ UNCHANGED <<path, reply, sessions>>

CoreStep == \/ ConnectToCore \/ WriteRequest \/ Perform
            \/ ReadReply \/ ReplyLost \/ ShutDown \/ Evaluate
=============================================================================
