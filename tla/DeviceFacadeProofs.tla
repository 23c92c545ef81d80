------------------------ MODULE DeviceFacadeProofs ------------------------
(***************************************************************************)
(* Proofs about a device and its facade, for any set of channels and all   *)
(* bounds, with or without faults and refusals.                            *)
(***************************************************************************)
EXTENDS DeviceFacade, Queues

(* Messages by their commands: those of an operation, among them its end.  *)
Of(commands) == {m \in Messages : m.command \in commands}
Attaches     == Of({"ATTACH_CHANNELS"})
Releases     == Of({"RELEASE_CHANNELS"})
Ends         == Of({"OPERATION_ENDED"})
InOperation  == Of({"ATTACH_CHANNELS", "RELEASE_CHANNELS", "OPERATION_ENDED"})
Outside      == Messages \ InOperation
Calls        == Of({"SETUP", "RELEASE"})

Has(q, K) == ToSet(q) \cap K # {}

(* The channels that the messages of K in a sequence name.                 *)
Named(q, K) == UNION {m.ids : m \in ToSet(q) \cap K}

(* No two messages of K name the same channel.                             *)
Apart(q, K) == \A i, j \in DOMAIN q :
                 i < j /\ q[i] \in K /\ q[j] \in K => q[i].ids \cap q[j].ids = {}

(* The ATTACH_CHANNELS in q are those for the sets of S after place a, up  *)
(* to place b, and name no other channels.                                 *)
Matches(q, S, a, b) ==
  \E f \in [(a+1)..b -> DOMAIN q] :
    /\ \A k \in (a+1)..b : q[f[k]] \in Attaches /\ q[f[k]].ids \subseteq S[k]
    /\ \A k, l \in (a+1)..b : k < l => f[k] < f[l]
    /\ \A i \in DOMAIN q : q[i] \in Attaches => \E k \in (a+1)..b : f[k] = i

(* The keys of the heartbeats in a sequence, and whether they go up.       *)
Keys(q)    == {q[i].key : i \in Beats(q)}
GoingUp(q) == \A i, j \in Beats(q) : i < j => q[i].key < q[j].key

(* A sequence changes at one of its ends, by a message that is not of K.   *)
Quiet(q, r, K) == \/ r = q
                  \/ \E m \in Messages \ K : r = Append(q, m)
                  \/ q # <<>> /\ Head(q) \notin K /\ r = Tail(q)

-----------------------------------------------------------------------------
(* The call and its two ends.                                              *)
Call ==
  /\ admitted => linked
  /\ ~admitted => /\ operation = "none" /\ pending = <<>>
                  /\ attached = {} /\ releasing = {}
  /\ linked /\ ~admitted => /\ state = "Connecting" /\ down = <<>>
                            /\ up = <<Message("SETUP", "NONE", {})>>
  /\ state = "Disconnected" => ~linked /\ up = <<>> /\ down = <<>>
  /\ state = "Disconnecting" => ~linked
  /\ state \in {"Ready", "Flying"} => admitted /\ ~Has(up, Calls) /\ ~Has(down, Calls)
  /\ state = "Connecting" /\ admitted => /\ up = <<>> /\ down # <<>>
                                         /\ Head(down) = Message("SETUP", "ACCEPTED", {})
                                         /\ ~Has(Tail(down), Calls)
  /\ state = "Connecting" /\ ~linked => /\ up = <<>> /\ down # <<>>
                                        /\ Head(down) = Message("SETUP", "REJECTED", {})
  /\ state = "Releasing" => ~Has(up, Of({"SETUP"}))
  /\ state = "Releasing" /\ linked =>
       \A m \in ToSet(down) : m.command = "RELEASE" => m.response # "ACCEPTED"

(* The messages of an operation and what the facade knows of it.           *)
Order ==
  /\ After(up, Ends, Outside) /\ After(down, Ends, Outside)
  /\ Has(up, Ends) => ~Has(down, InOperation)
  /\ Has(up, Ends) \/ Has(down, Ends) => operation = "ending"
  /\ operation = "none" => /\ ~Has(up, InOperation) /\ ~Has(down, InOperation)
                           /\ pending = <<>> /\ attached = {} /\ releasing = {}

(* A channel is released once.                                             *)
ReleasedOnce ==
  /\ Named(up, Releases) \subseteq releasing /\ Named(down, Releases) \subseteq releasing
  /\ Named(up, Releases) \cap Named(down, Releases) = {}
  /\ Apart(up, Releases) /\ Apart(down, Releases)
  /\ \A m \in (ToSet(up) \cup ToSet(down)) \cap Releases : m.ids # {}

(* A device that still takes up what it is sent.                           *)
Attending == live /\ state \in {"Connecting", "Ready", "Flying"}

(* A channel is attached once, and answers come in the order in which the  *)
(* facade waits for them.                                                  *)
AttachedOnce ==
  /\ \A k \in DOMAIN pending : pending[k] \cap attached = {}
  /\ \A k, l \in DOMAIN pending : k < l => pending[k] \cap pending[l] = {}
  /\ \E n \in 0..Len(pending) :
       /\ Matches(up, pending, 0, n)
       /\ Attending => Matches(down, pending, n, Len(pending))

(* What the device knows of the operation.                                 *)
Following ==
  /\ live /\ state \in {"Connecting", "Ready"} /\ ~Has(up, Ends) =>
       /\ ~Has(up, InOperation) /\ attached = {}
       /\ operation # "none" => Has(down, Attaches)
       /\ operation = "ending" => Has(down, Ends)
  /\ live /\ state = "Flying" =>
       /\ operation # "none" /\ ~Has(up, Ends)
       /\ operation = "ending" => Has(down, Ends)
       /\ open = (attached \cup Named(up, Attaches)) \ Named(up, Releases)

(* Heartbeats that were answered, and those on their way back and forth.   *)
Heartbeats ==
  /\ heard = [i \in 1..Len(heard) |-> i] /\ Len(heard) <= beats
  /\ Keys(up) \cup Keys(down) = (Len(heard) + 1)..beats
  /\ GoingUp(up) /\ GoingUp(down)
  /\ \A k \in Keys(up), l \in Keys(down) : k < l

Admitted == Order /\ ReleasedOnce /\ AttachedOnce /\ Following /\ Heartbeats

IInv == TypeOK /\ Call /\ UserKnowsChannels /\ (admitted => Admitted)
-----------------------------------------------------------------------------
(* The places of a sequence after an element is appended,                  *)
LEMMA PutPlaces ==
  ASSUME NEW S, NEW q \in Seq(S), NEW m \in S
  PROVE  /\ Append(q, m) \in Seq(S) /\ Len(q) \in Nat
         /\ DOMAIN Append(q, m) = DOMAIN q \cup {Len(q) + 1}
         /\ \A i \in DOMAIN q : i \in Nat /\ i < Len(q) + 1 /\ Append(q, m)[i] = q[i]
         /\ Append(q, m)[Len(q) + 1] = m
<1> DEFINE r == Append(q, m)
<1>1. /\ r \in Seq(S) /\ Len(r) = Len(q) + 1
      /\ \A i \in 1..Len(q) : r[i] = q[i]
      /\ r[Len(q) + 1] = m
  BY AppendProperties
<1>2. Len(q) \in Nat /\ DOMAIN q = 1..Len(q) /\ DOMAIN r = 1..Len(r)
  BY <1>1, LenProperties
<1> HIDE DEF r
<1>3. DOMAIN r = DOMAIN q \cup {Len(q) + 1}
  BY <1>1, <1>2
<1>4. \A i \in DOMAIN q : i \in Nat /\ i < Len(q) + 1 /\ r[i] = q[i]
  BY <1>1, <1>2
<1> QED
  BY <1>1, <1>2, <1>3, <1>4 DEF r

(* and after its head is taken.                                            *)
LEMMA TakePlaces ==
  ASSUME NEW S, NEW q \in Seq(S), q # <<>>
  PROVE  /\ Tail(q) \in Seq(S) /\ Head(q) = q[1] /\ 1 \in DOMAIN q
         /\ \A i \in DOMAIN Tail(q) : /\ i \in Nat /\ i > 0 /\ i + 1 \in DOMAIN q
                                      /\ Tail(q)[i] = q[i + 1]
         /\ \A j \in DOMAIN q : /\ j \in Nat
                                /\ j = 1 \/ (/\ j > 1 /\ j - 1 \in DOMAIN Tail(q)
                                             /\ Tail(q)[j - 1] = q[j])
<1> DEFINE r == Tail(q)
<1>1. /\ r \in Seq(S) /\ Len(r) = Len(q) - 1 /\ Len(q) \in Nat
      /\ DOMAIN q = 1..Len(q) /\ DOMAIN r = 1..Len(r)
  BY HeadTailProperties, LenProperties
<1>2. /\ Head(q) = q[1] /\ 1 \in DOMAIN q
      /\ \A i \in DOMAIN r : i \in Nat /\ i > 0 /\ i + 1 \in DOMAIN q /\ r[i] = q[i + 1]
  BY TakeElements
<1> HIDE DEF r
<1>3. ASSUME NEW j \in DOMAIN q, j # 1
      PROVE  j > 1 /\ j - 1 \in DOMAIN r /\ r[j - 1] = q[j]
  <2>1. j \in Nat /\ j > 1 /\ j - 1 \in DOMAIN r /\ (j - 1) + 1 = j
    BY <1>1, <1>3
  <2> QED
    BY <1>2, <2>1
<1> QED
  BY <1>1, <1>2, <1>3 DEF r

(* The two ends of a sequence change without each other.                   *)
LEMMA HeadTailOfPut ==
  ASSUME NEW S, NEW q \in Seq(S), q # <<>>, NEW m \in S
  PROVE  /\ Tail(Append(q, m)) = Append(Tail(q), m)
         /\ Head(Append(q, m)) = Head(q) /\ Append(q, m) # <<>>
OBVIOUS

(* Which messages there are.                                               *)
LEMMA Kinds ==
  ASSUME NEW m \in Messages
  PROVE  /\ m.ids \in SUBSET Channels /\ m.key \in 0..MaxBeats /\ m.command \in Commands
         /\ \A commands : m \in Of(commands) <=> m.command \in commands
BY DEF Of, Messages

LEMMA MessageType ==
  ASSUME NEW command \in Commands, NEW response \in {"NONE", "ACCEPTED", "REJECTED"},
         NEW C \in SUBSET Channels
  PROVE  /\ Message(command, response, C) \in Messages
         /\ Message(command, response, C).command = command
         /\ Message(command, response, C).response = response
         /\ Message(command, response, C).ids = C
BY BoundsAssumption DEF Message, Messages

LEMMA HeartbeatType ==
  ASSUME NEW response \in {"NONE", "ACCEPTED", "REJECTED"}, NEW k \in 0..MaxBeats
  PROVE  /\ Heartbeat(response, k) \in Messages
         /\ Heartbeat(response, k).command = "HEARTBEAT"
         /\ Heartbeat(response, k).key = k
BY DEF Heartbeat, Messages, Commands

(* What a sequence names and contains after a message is appended,         *)
LEMMA PutNamed ==
  ASSUME NEW q \in Seq(Messages), NEW m \in Messages, NEW K
  PROVE  /\ m \in K => /\ Named(Append(q, m), K) = Named(q, K) \cup m.ids
                       /\ Has(Append(q, m), K)
         /\ m \notin K => /\ Named(Append(q, m), K) = Named(q, K)
                          /\ Has(Append(q, m), K) <=> Has(q, K)
         /\ Has(q, K) => Has(Append(q, m), K)
         /\ Append(q, m) \in Seq(Messages) /\ ToSet(Append(q, m)) = ToSet(q) \cup {m}
<1>1. ToSet(Append(q, m)) = ToSet(q) \cup {m} /\ Append(q, m) \in Seq(Messages)
  BY PutElements
<1> QED
  BY <1>1 DEF Named, Has

(* and after its head is taken.                                            *)
LEMMA TakeNamed ==
  ASSUME NEW q \in Seq(Messages), q # <<>>, NEW K
  PROVE  /\ Head(q) \in K => Named(q, K) = Head(q).ids \cup Named(Tail(q), K) /\ Has(q, K)
         /\ Head(q) \notin K => /\ Named(Tail(q), K) = Named(q, K)
                                /\ Has(Tail(q), K) <=> Has(q, K)
         /\ Named(Tail(q), K) \subseteq Named(q, K)
         /\ Has(Tail(q), K) => Has(q, K)
         /\ Tail(q) \in Seq(Messages) /\ Head(q) \in Messages
         /\ ToSet(q) = {Head(q)} \cup ToSet(Tail(q))
<1>1. /\ ToSet(q) = {Head(q)} \cup ToSet(Tail(q))
      /\ Tail(q) \in Seq(Messages) /\ Head(q) \in Messages
  BY TakeElements
<1> QED
  BY <1>1 DEF Named, Has

(* When no two messages name the same channel.                             *)
LEMMA PutApart ==
  ASSUME NEW q \in Seq(Messages), NEW m \in Messages, NEW K, Apart(q, K),
         m \notin K \/ m.ids \cap Named(q, K) = {}
  PROVE  Apart(Append(q, m), K)
<1> DEFINE r == Append(q, m)
<1>1. /\ DOMAIN r = DOMAIN q \cup {Len(q) + 1} /\ Len(q) \in Nat
      /\ \A i \in DOMAIN q : i \in Nat /\ i < Len(q) + 1 /\ r[i] = q[i]
      /\ r[Len(q) + 1] = m
  BY PutPlaces
<1> HIDE DEF r
<1>2. ASSUME NEW i \in DOMAIN q, q[i] \in K, m \in K PROVE q[i].ids \cap m.ids = {}
  <2>1. q[i] \in ToSet(q) \cap K
    BY <1>2 DEF ToSet
  <2> QED
    BY <1>2, <2>1 DEF Named
<1>3. ASSUME NEW i \in DOMAIN r, NEW j \in DOMAIN r, i < j, r[i] \in K, r[j] \in K
      PROVE  r[i].ids \cap r[j].ids = {}
  <2>1. i \in DOMAIN q /\ r[i] = q[i]
    BY <1>1, <1>3
  <2>2. CASE j \in DOMAIN q
    BY <1>1, <1>3, <2>1, <2>2 DEF Apart
  <2>3. CASE j = Len(q) + 1
    BY <1>1, <1>2, <1>3, <2>1, <2>3
  <2> QED
    BY <1>1, <2>2, <2>3
<1> QED
  BY <1>3 DEF Apart, r

LEMMA TakeApart ==
  ASSUME NEW q \in Seq(Messages), q # <<>>, NEW K, Apart(q, K)
  PROVE  /\ Apart(Tail(q), K)
         /\ Head(q) \in K => Head(q).ids \cap Named(Tail(q), K) = {}
<1> DEFINE r == Tail(q)
<1>1. /\ Head(q) = q[1] /\ 1 \in DOMAIN q
      /\ \A i \in DOMAIN r : i \in Nat /\ i > 0 /\ i + 1 \in DOMAIN q /\ r[i] = q[i + 1]
  BY TakePlaces
<1> HIDE DEF r
<1>2. ASSUME NEW i \in DOMAIN r, NEW j \in DOMAIN r, i < j, r[i] \in K, r[j] \in K
      PROVE  r[i].ids \cap r[j].ids = {}
  <2>1. i + 1 \in DOMAIN q /\ j + 1 \in DOMAIN q /\ i + 1 < j + 1
    BY <1>1, <1>2
  <2> QED
    BY <1>1, <1>2, <2>1 DEF Apart
<1>3. ASSUME Head(q) \in K, NEW m \in ToSet(r) \cap K PROVE Head(q).ids \cap m.ids = {}
  <2>1. PICK i \in DOMAIN r : m = r[i]
    BY <1>3 DEF ToSet
  <2>2. i + 1 \in DOMAIN q /\ 1 < i + 1 /\ r[i] = q[i + 1]
    BY <1>1
  <2> QED
    BY <1>1, <1>3, <2>1, <2>2 DEF Apart
<1> QED
  BY <1>2, <1>3 DEF Apart, Named, r

(* Which heartbeats are on their way after a message is appended,          *)
LEMMA PutKeys ==
  ASSUME NEW q \in Seq(Messages), NEW m \in Messages
  PROVE  /\ m.command # "HEARTBEAT" => /\ Keys(Append(q, m)) = Keys(q)
                                       /\ GoingUp(q) => GoingUp(Append(q, m))
         /\ m.command = "HEARTBEAT" => Keys(Append(q, m)) = Keys(q) \cup {m.key}
         /\ GoingUp(q) /\ (\A k \in Keys(q) : k < m.key) => GoingUp(Append(q, m))
<1> DEFINE r == Append(q, m)
<1>1. /\ DOMAIN r = DOMAIN q \cup {Len(q) + 1} /\ Len(q) \in Nat
      /\ \A i \in DOMAIN q : i \in Nat /\ i < Len(q) + 1 /\ r[i] = q[i]
      /\ r[Len(q) + 1] = m
  BY PutPlaces
<1> HIDE DEF r
<1>2. m.command # "HEARTBEAT" => Beats(r) = Beats(q)
  BY <1>1 DEF Beats
<1>3. m.command = "HEARTBEAT" => Beats(r) = Beats(q) \cup {Len(q) + 1}
  BY <1>1 DEF Beats
<1>4. \A i \in Beats(q) : r[i] = q[i] /\ i \in Nat /\ i < Len(q) + 1 /\ i \in DOMAIN q
  BY <1>1 DEF Beats
<1>5. m.command # "HEARTBEAT" => Keys(r) = Keys(q)
  BY <1>2, <1>4 DEF Keys
<1>6. m.command = "HEARTBEAT" => Keys(r) = Keys(q) \cup {m.key}
  BY <1>1, <1>3, <1>4 DEF Keys
<1>7. m.command # "HEARTBEAT" /\ GoingUp(q) => GoingUp(r)
  BY <1>2, <1>4 DEF GoingUp
<1>8. ASSUME GoingUp(q), \A k \in Keys(q) : k < m.key,
             NEW i \in Beats(r), NEW j \in Beats(r), i < j
      PROVE  r[i].key < r[j].key
  <2>1. i \in Beats(q)
    BY <1>1, <1>8 DEF Beats
  <2>2. q[i].key \in Keys(q)
    BY <2>1 DEF Keys
  <2>3. CASE j \in Beats(q)
    BY <1>4, <1>8, <2>1, <2>3 DEF GoingUp
  <2>4. CASE j = Len(q) + 1
    BY <1>1, <1>4, <1>8, <2>1, <2>2, <2>4
  <2> QED
    BY <1>2, <1>3, <2>3, <2>4
<1> QED
  BY <1>5, <1>6, <1>7, <1>8 DEF r, GoingUp

(* and after the head is taken.                                            *)
LEMMA TakeKeys ==
  ASSUME NEW q \in Seq(Messages), q # <<>>
  PROVE  /\ Head(q).command # "HEARTBEAT" => Keys(Tail(q)) = Keys(q)
         /\ Head(q).command = "HEARTBEAT" => Keys(q) = Keys(Tail(q)) \cup {Head(q).key}
         /\ GoingUp(q) => GoingUp(Tail(q))
         /\ Head(q).command = "HEARTBEAT" /\ GoingUp(q)
              => \A k \in Keys(Tail(q)) : Head(q).key < k
<1> DEFINE r == Tail(q)
<1>1. /\ Head(q) = q[1] /\ 1 \in DOMAIN q
      /\ \A i \in DOMAIN r : i \in Nat /\ i > 0 /\ i + 1 \in DOMAIN q /\ r[i] = q[i + 1]
      /\ \A j \in DOMAIN q : j = 1 \/ (j - 1 \in DOMAIN r /\ r[j - 1] = q[j])
  BY TakePlaces
<1> HIDE DEF r
<1>2. \A i \in Beats(r) : i \in Nat /\ i > 0 /\ i + 1 \in Beats(q) /\ r[i] = q[i + 1]
  BY <1>1 DEF Beats
<1>3. \A j \in Beats(q) : j = 1 \/ (j - 1 \in Beats(r) /\ r[j - 1] = q[j])
  BY <1>1 DEF Beats
<1>4. Keys(r) \subseteq Keys(q)
  BY <1>2 DEF Keys
<1>5. Keys(q) \subseteq Keys(r) \cup {Head(q).key}
  BY <1>1, <1>3 DEF Keys
<1>6. Head(q).command = "HEARTBEAT" => 1 \in Beats(q) /\ Head(q).key \in Keys(q)
  BY <1>1 DEF Beats, Keys
<1>7. Head(q).command # "HEARTBEAT" => Keys(q) \subseteq Keys(r)
  BY <1>1, <1>3 DEF Keys, Beats
<1>8. ASSUME GoingUp(q), NEW i \in Beats(r), NEW j \in Beats(r), i < j
      PROVE  r[i].key < r[j].key
  <2>1. i + 1 \in Beats(q) /\ j + 1 \in Beats(q) /\ i + 1 < j + 1
    BY <1>2, <1>8
  <2> QED
    BY <1>2, <1>8, <2>1 DEF GoingUp
<1>9. ASSUME Head(q).command = "HEARTBEAT", GoingUp(q), NEW k \in Keys(r)
      PROVE  Head(q).key < k
  <2>1. PICK i \in Beats(r) : k = r[i].key
    BY <1>9 DEF Keys
  <2>2. i + 1 \in Beats(q) /\ 1 < i + 1 /\ r[i] = q[i + 1]
    BY <1>2
  <2> QED
    BY <1>1, <1>6, <1>9, <2>1, <2>2 DEF GoingUp
<1> QED
  BY <1>4, <1>5, <1>6, <1>7, <1>8, <1>9 DEF r, GoingUp

-----------------------------------------------------------------------------
(* A match after a message is appended that attaches nothing,              *)
LEMMA MatchPutOther ==
  ASSUME NEW q \in Seq(Messages), NEW m \in Messages \ Attaches, NEW S,
         NEW a \in Nat, NEW b \in Nat, Matches(q, S, a, b)
  PROVE  Matches(Append(q, m), S, a, b)
<1> DEFINE r == Append(q, m)
<1>1. /\ DOMAIN r = DOMAIN q \cup {Len(q) + 1}
      /\ \A i \in DOMAIN q : r[i] = q[i]
      /\ r[Len(q) + 1] = m
  BY PutPlaces
<1> HIDE DEF r
<1>2. PICK f \in [(a+1)..b -> DOMAIN q] :
        /\ \A k \in (a+1)..b : q[f[k]] \in Attaches /\ q[f[k]].ids \subseteq S[k]
        /\ \A k, l \in (a+1)..b : k < l => f[k] < f[l]
        /\ \A i \in DOMAIN q : q[i] \in Attaches => \E k \in (a+1)..b : f[k] = i
  BY DEF Matches
<1>3. f \in [(a+1)..b -> DOMAIN r]
  BY <1>1
<1>4. \A k \in (a+1)..b : f[k] \in DOMAIN q /\ r[f[k]] = q[f[k]]
  BY <1>1
<1>5. \A i \in DOMAIN r : r[i] \in Attaches => \E k \in (a+1)..b : f[k] = i
  BY <1>1, <1>2
<1> QED
  BY <1>2, <1>3, <1>4, <1>5 DEF Matches, r

(* after one that attaches the channels of the next place,                 *)
LEMMA MatchPut ==
  ASSUME NEW q \in Seq(Messages), NEW m \in Messages \cap Attaches, NEW S,
         NEW a \in Nat, NEW b \in Nat, a <= b, m.ids \subseteq S[b + 1], Matches(q, S, a, b)
  PROVE  Matches(Append(q, m), S, a, b + 1)
<1> DEFINE r == Append(q, m)
           n == Len(q) + 1
<1>1. /\ DOMAIN r = DOMAIN q \cup {n}
      /\ \A i \in DOMAIN q : i \in Nat /\ i < n /\ r[i] = q[i]
      /\ r[n] = m
  BY PutPlaces
<1> HIDE DEF r, n
<1>2. PICK f \in [(a+1)..b -> DOMAIN q] :
        /\ \A k \in (a+1)..b : q[f[k]] \in Attaches /\ q[f[k]].ids \subseteq S[k]
        /\ \A k, l \in (a+1)..b : k < l => f[k] < f[l]
        /\ \A i \in DOMAIN q : q[i] \in Attaches => \E k \in (a+1)..b : f[k] = i
  BY DEF Matches
<1> DEFINE g == [k \in (a+1)..(b+1) |-> IF k = b + 1 THEN n ELSE f[k]]
<1>3. /\ \A k \in (a+1)..(b+1) : k = b + 1 \/ k \in (a+1)..b
      /\ \A k \in (a+1)..b : k \in (a+1)..(b+1) /\ k # b + 1 /\ ~(b + 1 < k)
      /\ b + 1 \in (a+1)..(b+1)
  OBVIOUS
<1>4. /\ g[b + 1] = n
      /\ \A k \in (a+1)..b : g[k] = f[k] /\ f[k] \in DOMAIN q /\ f[k] < n /\ r[f[k]] = q[f[k]]
  BY <1>1, <1>3
<1>5. g \in [(a+1)..(b+1) -> DOMAIN r]
  BY <1>1, <1>3, <1>4
<1> HIDE DEF g
<1>6. \A k \in (a+1)..(b+1) : r[g[k]] \in Attaches /\ r[g[k]].ids \subseteq S[k]
  BY <1>1, <1>2, <1>3, <1>4
<1>7. ASSUME NEW k \in (a+1)..(b+1), NEW l \in (a+1)..(b+1), k < l PROVE g[k] < g[l]
  <2>1. k \in (a+1)..b
    BY <1>7
  <2> QED
    BY <1>2, <1>3, <1>4, <1>7, <2>1
<1>8. \A i \in DOMAIN r : r[i] \in Attaches => \E k \in (a+1)..(b+1) : g[k] = i
  BY <1>1, <1>2, <1>3, <1>4
<1> QED
  BY <1>5, <1>6, <1>7, <1>8 DEF Matches, r

(* after the head is taken, which attaches nothing,                        *)
LEMMA MatchTakeOther ==
  ASSUME NEW q \in Seq(Messages), q # <<>>, Head(q) \notin Attaches, NEW S,
         NEW a \in Nat, NEW b \in Nat, Matches(q, S, a, b)
  PROVE  Matches(Tail(q), S, a, b)
<1> DEFINE r == Tail(q)
<1>1. /\ Head(q) = q[1]
      /\ \A i \in DOMAIN r : i \in Nat /\ i + 1 \in DOMAIN q /\ r[i] = q[i + 1]
      /\ \A j \in DOMAIN q : /\ j \in Nat
                             /\ j = 1 \/ (j > 1 /\ j - 1 \in DOMAIN r /\ r[j - 1] = q[j])
  BY TakePlaces
<1> HIDE DEF r
<1>2. PICK f \in [(a+1)..b -> DOMAIN q] :
        /\ \A k \in (a+1)..b : q[f[k]] \in Attaches /\ q[f[k]].ids \subseteq S[k]
        /\ \A k, l \in (a+1)..b : k < l => f[k] < f[l]
        /\ \A i \in DOMAIN q : q[i] \in Attaches => \E k \in (a+1)..b : f[k] = i
  BY DEF Matches
<1> DEFINE g == [k \in (a+1)..b |-> f[k] - 1]
<1>3. \A k \in (a+1)..b : /\ f[k] \in DOMAIN q /\ f[k] \in Nat /\ f[k] > 1
                          /\ f[k] - 1 \in DOMAIN r /\ r[f[k] - 1] = q[f[k]]
  BY <1>1, <1>2
<1>4. \A k \in (a+1)..b : g[k] = f[k] - 1
  OBVIOUS
<1>5. g \in [(a+1)..b -> DOMAIN r]
  BY <1>3
<1> HIDE DEF g
<1>6. \A k \in (a+1)..b : r[g[k]] \in Attaches /\ r[g[k]].ids \subseteq S[k]
  BY <1>2, <1>3, <1>4
<1>7. \A k, l \in (a+1)..b : k < l => g[k] < g[l]
  BY <1>2, <1>3, <1>4
<1>8. ASSUME NEW i \in DOMAIN r, r[i] \in Attaches PROVE \E k \in (a+1)..b : g[k] = i
  <2>1. PICK k \in (a+1)..b : f[k] = i + 1
    BY <1>1, <1>2, <1>8
  <2>2. i \in Nat /\ (i + 1) - 1 = i
    BY <1>1, <1>8
  <2>3. g[k] = i
    BY <1>4, <2>1, <2>2
  <2> QED
    BY <2>3
<1> QED
  BY <1>5, <1>6, <1>7, <1>8 DEF Matches, r

(* and after one is taken that attaches channels: they are those of the    *)
(* first place.                                                            *)
LEMMA MatchTake ==
  ASSUME NEW q \in Seq(Messages), q # <<>>, Head(q) \in Attaches, NEW S,
         NEW a \in Nat, NEW b \in Nat, Matches(q, S, a, b)
  PROVE  a < b /\ Head(q).ids \subseteq S[a + 1] /\ Matches(Tail(q), S, a + 1, b)
<1> DEFINE r == Tail(q)
<1>1. /\ Head(q) = q[1] /\ 1 \in DOMAIN q
      /\ \A i \in DOMAIN r : i \in Nat /\ i > 0 /\ i + 1 \in DOMAIN q /\ r[i] = q[i + 1]
      /\ \A j \in DOMAIN q : /\ j \in Nat
                             /\ j = 1 \/ (j > 1 /\ j - 1 \in DOMAIN r /\ r[j - 1] = q[j])
  BY TakePlaces
<1> HIDE DEF r
<1>2. PICK f \in [(a+1)..b -> DOMAIN q] :
        /\ \A k \in (a+1)..b : q[f[k]] \in Attaches /\ q[f[k]].ids \subseteq S[k]
        /\ \A k, l \in (a+1)..b : k < l => f[k] < f[l]
        /\ \A i \in DOMAIN q : q[i] \in Attaches => \E k \in (a+1)..b : f[k] = i
  BY DEF Matches
<1>3. PICK h \in (a+1)..b : f[h] = 1
  BY <1>1, <1>2
<1>4. a < b /\ a + 1 \in (a+1)..b
  BY <1>3
<1>5. f[a + 1] = 1
  <2>1. f[a + 1] \in DOMAIN q /\ f[a + 1] \in Nat /\ (f[a + 1] = 1 \/ f[a + 1] > 1)
    BY <1>1, <1>4
  <2>2. a + 1 < h => f[a + 1] < f[h]
    BY <1>2, <1>4
  <2>3. a + 1 < h \/ a + 1 = h
    BY <1>3
  <2> QED
    BY <1>3, <2>1, <2>2, <2>3
<1>6. Head(q).ids \subseteq S[a + 1]
  BY <1>1, <1>2, <1>4, <1>5
<1> DEFINE g == [k \in (a+1+1)..b |-> f[k] - 1]
<1>7. \A k \in (a+1+1)..b : k \in (a+1)..b /\ a + 1 < k
  OBVIOUS
<1>8. ASSUME NEW k \in (a+1+1)..b
      PROVE  /\ f[k] \in DOMAIN q /\ f[k] \in Nat /\ f[k] > 1
             /\ f[k] - 1 \in DOMAIN r /\ r[f[k] - 1] = q[f[k]]
  <2>1. f[k] \in DOMAIN q /\ k \in (a+1)..b /\ a + 1 < k
    BY <1>2, <1>7
  <2>2. f[a + 1] < f[k]
    BY <1>2, <1>4, <2>1
  <2>3. f[k] # 1 /\ f[k] \in Nat
    BY <1>1, <1>5, <2>1, <2>2
  <2> QED
    BY <1>1, <2>1, <2>3
<1>9. \A k \in (a+1+1)..b : g[k] = f[k] - 1
  OBVIOUS
<1>10. g \in [(a+1+1)..b -> DOMAIN r]
  BY <1>8
<1> HIDE DEF g
<1>11. \A k \in (a+1+1)..b : r[g[k]] \in Attaches /\ r[g[k]].ids \subseteq S[k]
  BY <1>2, <1>7, <1>8, <1>9
<1>12. \A k, l \in (a+1+1)..b : k < l => g[k] < g[l]
  BY <1>2, <1>7, <1>8, <1>9
<1>13. ASSUME NEW i \in DOMAIN r, r[i] \in Attaches PROVE \E k \in (a+1+1)..b : g[k] = i
  <2>1. PICK k \in (a+1)..b : f[k] = i + 1
    BY <1>1, <1>2, <1>13
  <2>2. k # a + 1
    BY <1>1, <1>5, <2>1
  <2>3. k \in (a+1+1)..b
    BY <2>2
  <2>4. i \in Nat /\ (i + 1) - 1 = i
    BY <1>1, <1>13
  <2>5. g[k] = i
    BY <1>9, <2>1, <2>3, <2>4
  <2> QED
    BY <2>3, <2>5
<1> QED
  BY <1>4, <1>6, <1>10, <1>11, <1>12, <1>13 DEF Matches, r

(* A match is about the places between a and b only,                       *)
LEMMA MatchSame ==
  ASSUME NEW q, NEW S, NEW R, NEW a \in Nat, NEW b \in Nat, Matches(q, S, a, b),
         \A k \in (a+1)..b : R[k] = S[k]
  PROVE  Matches(q, R, a, b)
BY DEF Matches

(* and follows them when they move,                                        *)
LEMMA MatchShift ==
  ASSUME NEW q, NEW S, NEW R, NEW a \in Nat, NEW b \in Nat, Matches(q, S, a + 1, b + 1),
         \A k \in (a+1)..b : R[k] = S[k + 1]
  PROVE  Matches(q, R, a, b)
<1>1. PICK f \in [(a+1+1)..(b+1) -> DOMAIN q] :
        /\ \A k \in (a+1+1)..(b+1) : q[f[k]] \in Attaches /\ q[f[k]].ids \subseteq S[k]
        /\ \A k, l \in (a+1+1)..(b+1) : k < l => f[k] < f[l]
        /\ \A i \in DOMAIN q : q[i] \in Attaches => \E k \in (a+1+1)..(b+1) : f[k] = i
  BY DEF Matches
<1> DEFINE g == [k \in (a+1)..b |-> f[k + 1]]
<1>2. \A k \in (a+1)..b : k + 1 \in (a+1+1)..(b+1)
  OBVIOUS
<1>3. \A k \in (a+1+1)..(b+1) : k - 1 \in (a+1)..b /\ (k - 1) + 1 = k
  OBVIOUS
<1>4. \A k \in (a+1)..b : g[k] = f[k + 1]
  OBVIOUS
<1>5. g \in [(a+1)..b -> DOMAIN q]
  BY <1>2
<1> HIDE DEF g
<1>6. \A k \in (a+1)..b : q[g[k]] \in Attaches /\ q[g[k]].ids \subseteq R[k]
  BY <1>1, <1>2, <1>4
<1>7. \A k, l \in (a+1)..b : k < l => g[k] < g[l]
  <2> SUFFICES ASSUME NEW k \in (a+1)..b, NEW l \in (a+1)..b, k < l PROVE g[k] < g[l]
    OBVIOUS
  <2>1. k + 1 < l + 1
    OBVIOUS
  <2> QED
    BY <1>1, <1>2, <1>4, <2>1
<1>8. ASSUME NEW i \in DOMAIN q, q[i] \in Attaches PROVE \E k \in (a+1)..b : g[k] = i
  <2>1. PICK k \in (a+1+1)..(b+1) : f[k] = i
    BY <1>1, <1>8
  <2>2. g[k - 1] = i
    BY <1>3, <1>4, <2>1
  <2> QED
    BY <1>3, <2>2
<1> QED
  BY <1>5, <1>6, <1>7, <1>8 DEF Matches

(* Where nothing is attached no place is matched.                          *)
LEMMA MatchNone ==
  ASSUME NEW q, ~Has(q, Attaches), NEW S, NEW a \in Nat
  PROVE  Matches(q, S, a, a)
<1>1. \A i \in DOMAIN q : q[i] \notin Attaches
  BY DEF Has, ToSet
<1>2. (a+1)..a = {}
  OBVIOUS
<1> DEFINE f == [k \in (a+1)..a |-> 0]
<1>3. f \in [(a+1)..a -> DOMAIN q]
  BY <1>2
<1> HIDE DEF f
<1> QED
  BY <1>1, <1>2, <1>3 DEF Matches

-----------------------------------------------------------------------------
(* What a change keeps that puts and takes no message of K.                *)
LEMMA QuietNamed ==
  ASSUME NEW q \in Seq(Messages), NEW r, NEW K, Quiet(q, r, K)
  PROVE  /\ r \in Seq(Messages) /\ Named(r, K) = Named(q, K) /\ (Has(r, K) <=> Has(q, K))
         /\ ToSet(r) \cap K = ToSet(q) \cap K
         /\ Apart(q, K) => Apart(r, K)
<1>1. CASE r = q
  BY <1>1
<1>2. ASSUME NEW m \in Messages \ K, r = Append(q, m)
      PROVE  /\ r \in Seq(Messages) /\ Named(r, K) = Named(q, K) /\ (Has(r, K) <=> Has(q, K))
             /\ ToSet(r) \cap K = ToSet(q) \cap K
             /\ Apart(q, K) => Apart(r, K)
  BY <1>2, PutNamed, PutApart
<1>3. CASE q # <<>> /\ Head(q) \notin K /\ r = Tail(q)
  BY <1>3, TakeNamed, TakeApart
<1> QED
  BY <1>1, <1>2, <1>3 DEF Quiet

LEMMA QuietMatches ==
  ASSUME NEW q \in Seq(Messages), NEW r, Quiet(q, r, Attaches), NEW S,
         NEW a \in Nat, NEW b \in Nat, Matches(q, S, a, b)
  PROVE  Matches(r, S, a, b)
<1>1. CASE \E m \in Messages \ Attaches : r = Append(q, m)
  BY <1>1, MatchPutOther
<1>2. CASE q # <<>> /\ Head(q) \notin Attaches /\ r = Tail(q)
  BY <1>2, MatchTakeOther
<1> QED
  BY <1>1, <1>2 DEF Quiet

LEMMA QuietAfter ==
  ASSUME NEW q \in Seq(Messages), NEW r, Quiet(q, r, InOperation), After(q, Ends, Outside)
  PROVE  After(r, Ends, Outside)
<1>1. ASSUME NEW m \in Messages \ InOperation, r = Append(q, m) PROVE After(r, Ends, Outside)
  <2>1. m \in Outside
    BY DEF Outside
  <2> QED
    BY <1>1, <2>1, PutAfter
<1>2. CASE q # <<>> /\ r = Tail(q)
  BY <1>2, TakeAfter
<1> QED
  BY <1>1, <1>2 DEF Quiet

LEMMA QuietKeys ==
  ASSUME NEW q \in Seq(Messages), NEW r, Quiet(q, r, Of({"HEARTBEAT"})), GoingUp(q)
  PROVE  Keys(r) = Keys(q) /\ GoingUp(r)
<1>1. ASSUME NEW m \in Messages \ Of({"HEARTBEAT"}), r = Append(q, m)
      PROVE  Keys(r) = Keys(q) /\ GoingUp(r)
  BY <1>1, PutKeys DEF Of
<1>2. CASE q # <<>> /\ Head(q) \notin Of({"HEARTBEAT"}) /\ r = Tail(q)
  <2>1. Head(q) \in Messages
    BY <1>2, TakeNamed
  <2> QED
    BY <1>2, <2>1, TakeKeys DEF Of
<1> QED
  BY <1>1, <1>2 DEF Quiet

(* A change that is quiet about some messages is so about fewer.           *)
LEMMA QuietLess ==
  ASSUME NEW q, NEW r, NEW K, NEW L, Quiet(q, r, L), K \subseteq L
  PROVE  Quiet(q, r, K)
BY DEF Quiet

-----------------------------------------------------------------------------
(* What the facade and the device take.                                    *)
LEMMA TakeUp ==
  ASSUME TypeOK, NEW command, NEW response, Take(command, response)
  PROVE  /\ linked /\ up # <<>> /\ up' = Tail(up) /\ up' \in Seq(Messages)
         /\ Head(up) \in Messages
         /\ Head(up).command = command /\ Head(up).response = response
         /\ UNCHANGED <<state, open, told, live, attaches>>
<1>1. up \in Seq(Messages)
  BY DEF TypeOK, DeviceTypeOK
<1>2. /\ linked /\ up # <<>> /\ up' = Tail(up)
      /\ Head(up).command = command /\ Head(up).response = response
      /\ UNCHANGED <<state, open, told, live, attaches>>
  BY DEF Take, device, channels
<1> QED
  BY <1>1, <1>2, TakeNamed

LEMMA TakeDown ==
  ASSUME TypeOK, NEW command, NEW s, Receive(command, s)
  PROVE  /\ live /\ state = s /\ down # <<>> /\ down' = Tail(down) /\ down' \in Seq(Messages)
         /\ Head(down) \in Messages /\ Head(down).command = command
         /\ Head(down).ids \in SUBSET Channels
         /\ UNCHANGED <<linked, attaches>>
<1>1. down \in Seq(Messages)
  BY DEF TypeOK, DeviceTypeOK
<1>2. /\ live /\ state = s /\ down # <<>> /\ down' = Tail(down)
      /\ Head(down).command = command /\ UNCHANGED <<linked, attaches>>
  BY DEF Receive
<1>3. Head(down) \in Messages /\ down' \in Seq(Messages)
  BY <1>1, <1>2, TakeNamed
<1> QED
  BY <1>2, <1>3, Kinds

(* Only SETUP reaches a facade that has not admitted the device.           *)
LEMMA TakenWhenAdmitted ==
  ASSUME TypeOK, Call, NEW command, NEW response, Take(command, response), command # "SETUP"
  PROVE  admitted
<1> SUFFICES ASSUME ~admitted PROVE FALSE
  OBVIOUS
<1>1. linked /\ Head(up).command = command
  BY TakeUp
<1>2. up = <<Message("SETUP", "NONE", {})>>
  BY <1>1 DEF Call
<1> QED
  BY <1>1, <1>2 DEF Message

(* SETUP reaches the facade once, first.                                   *)
LEMMA SetupComesFirst ==
  ASSUME TypeOK, Call, Take("SETUP", "NONE")
  PROVE  /\ ~admitted /\ linked /\ state = "Connecting"
         /\ up = <<Message("SETUP", "NONE", {})>> /\ down = <<>> /\ up' = <<>>
<1>1. linked /\ up # <<>> /\ Head(up).command = "SETUP" /\ Head(up) \in Messages /\ up' = Tail(up)
  BY TakeUp
<1>2. Head(up) \in ToSet(up)
  BY <1>1, TakeElements DEF TypeOK, DeviceTypeOK
<1>3. Has(up, Of({"SETUP"})) /\ Has(up, Calls)
  BY <1>1, <1>2, Kinds DEF Has, Calls
<1>4. ~admitted
  <2> SUFFICES ASSUME admitted PROVE FALSE
    OBVIOUS
  <2>1. state # "Ready" /\ state # "Flying" /\ state # "Releasing"
    BY <1>3 DEF Call
  <2>2. state # "Connecting" /\ state # "Disconnected" /\ state # "Disconnecting"
    BY <1>1 DEF Call
  <2> QED
    BY <2>1, <2>2 DEF TypeOK, DeviceTypeOK, States, Connected
<1>5. /\ state = "Connecting" /\ down = <<>> /\ up = <<Message("SETUP", "NONE", {})>>
  BY <1>1, <1>4 DEF Call
<1>6. Tail(up) = <<>>
  BY <1>5
<1> QED
  BY <1>1, <1>4, <1>5, <1>6

(* A release reaches the facade from a device that waits for its answer.   *)
LEMMA ReleaseComesLast ==
  ASSUME TypeOK, Call, Take("RELEASE", "NONE")
  PROVE  admitted /\ linked /\ state = "Releasing"
<1>1. linked /\ up # <<>> /\ Head(up).command = "RELEASE" /\ Head(up) \in Messages
  BY TakeUp
<1>2. Head(up) \in ToSet(up)
  BY <1>1, TakeElements DEF TypeOK, DeviceTypeOK
<1>3. Has(up, Calls)
  BY <1>1, <1>2, Kinds DEF Has, Calls
<1>4. admitted
  BY TakenWhenAdmitted
<1>5. state # "Ready" /\ state # "Flying"
  BY <1>3 DEF Call
<1>6. state # "Connecting" /\ state # "Disconnected" /\ state # "Disconnecting"
  BY <1>1, <1>4 DEF Call
<1> QED
  BY <1>1, <1>4, <1>5, <1>6 DEF TypeOK, DeviceTypeOK, States, Connected

(* A device drops messages only while it waits for its release.            *)
LEMMA DropsInReleasing ==
  ASSUME IInv, Drop
  PROVE  state = "Releasing"
<1>1. PICK command \in Commands \ {"HEARTBEAT"} :
        /\ state \in Connected \cup {"Connecting"}
        /\ Receive(command, state)
        /\ CASE state = "Connecting" -> command # "SETUP"
             [] state = "Ready"      -> command # "ATTACH_CHANNELS"
             [] state = "Flying"     -> command \in {"SETUP", "RELEASE"}
             [] state = "Releasing"  -> \/ command # "RELEASE"
                                        \/ Head(down).response # "ACCEPTED"
  BY DEF Drop
<1> DEFINE m == Head(down)
<1>2. /\ live /\ down # <<>> /\ m \in Messages /\ m.command = command
      /\ m \in ToSet(down) /\ ToSet(down) = {m} \cup ToSet(Tail(down))
      /\ down \in Seq(Messages)
  BY <1>1, TakeDown, TakeElements DEF IInv, TypeOK, DeviceTypeOK
<1>3. /\ command \in {"SETUP", "RELEASE"} => m \in Calls
      /\ command = "RELEASE_CHANNELS" => m \in Releases /\ m \in InOperation
      /\ command = "OPERATION_ENDED" => m \in Ends /\ m \in InOperation
  BY <1>2, Kinds DEF Calls, Releases, Ends, InOperation
<1> HIDE DEF m
<1>4. CASE state = "Connecting"
  <2>1. command # "SETUP"
    BY <1>1, <1>4
  <2>2. m = Message("SETUP", "ACCEPTED", {}) \/ m = Message("SETUP", "REJECTED", {})
    BY <1>2, <1>4 DEF m, IInv, Call
  <2> QED
    BY <1>2, <2>1, <2>2 DEF Message
<1>5. CASE state = "Ready"
  <2>1. command # "ATTACH_CHANNELS"
    BY <1>1, <1>5
  <2>2. /\ admitted /\ ~Has(down, Calls)
    BY <1>5 DEF IInv, Call
  <2>3. command \in {"RELEASE_CHANNELS", "OPERATION_ENDED"}
    BY <1>1, <1>2, <1>3, <2>1, <2>2 DEF Has, Commands
  <2>4. Has(down, InOperation)
    BY <1>2, <1>3, <2>3 DEF Has
  <2>5. ~Has(up, Ends) /\ operation # "none"
    BY <2>2, <2>4 DEF IInv, Admitted, Order
  <2>6. attached = {} /\ Has(down, Attaches)
    BY <1>2, <1>5, <2>2, <2>5 DEF IInv, Admitted, Following
  <2>7. command # "RELEASE_CHANNELS"
    <3> SUFFICES ASSUME command = "RELEASE_CHANNELS" PROVE FALSE
      OBVIOUS
    <3>1. m.ids # {} /\ Named(down, Releases) = {}
      BY <1>2, <1>3, <2>2, <2>6 DEF IInv, Admitted, ReleasedOnce, TypeOK
    <3> QED
      BY <1>2, <1>3, <3>1 DEF Named
  <2>8. ToSet(Tail(down)) \subseteq Outside
    BY <1>2, <1>3, <2>2, <2>3, <2>7, TakeAfter DEF m, IInv, Admitted, Order
  <2>9. m \notin Attaches
    BY <1>2, <2>1, Kinds DEF Attaches
  <2>10. Attaches \subseteq InOperation
    BY DEF Attaches, InOperation, Of
  <2> QED
    BY <1>2, <2>6, <2>8, <2>9, <2>10 DEF Has, Outside
<1>6. CASE state = "Flying"
  <2>1. command \in {"SETUP", "RELEASE"}
    BY <1>1, <1>6
  <2>2. ~Has(down, Calls)
    BY <1>6 DEF IInv, Call
  <2> QED
    BY <1>2, <1>3, <2>1, <2>2 DEF Has
<1> QED
  BY <1>1, <1>4, <1>5, <1>6 DEF Connected

-----------------------------------------------------------------------------
(* The device's steps keep the types,                                      *)
LEMMA DeviceTyped ==
  ASSUME TypeOK, DeviceStep, UNCHANGED facade
  PROVE  TypeOK'
<1>0. /\ state \in States /\ open \in SUBSET Channels /\ told \in SUBSET Channels
      /\ live \in BOOLEAN /\ attaches \in 0..MaxAttaches /\ linked \in BOOLEAN
      /\ up \in Seq(Messages) /\ down \in Seq(Messages)
  BY DEF TypeOK, DeviceTypeOK
<1>1. ASSUME DeviceTypeOK' PROVE TypeOK'
  BY <1>1 DEF TypeOK, facade, records
<1>2. /\ "Connecting" \in States /\ "Ready" \in States /\ "Flying" \in States
      /\ "Releasing" \in States /\ "Disconnecting" \in States /\ "Disconnected" \in States
  BY DEF States, Connected
<1>3. ASSUME NEW m \in Messages, Send(m) PROVE up' \in Seq(Messages)
  BY <1>0, <1>3, PutNamed DEF Send
<1>4. ASSUME NEW command, NEW s, Receive(command, s)
      PROVE  /\ down' \in Seq(Messages) /\ Head(down) \in Messages
             /\ Head(down).ids \in SUBSET Channels /\ UNCHANGED <<linked, attaches>>
  BY <1>4, TakeDown
<1>5. ASSUME UserAttaches PROVE attaches' \in 0..MaxAttaches /\ down' = down
  <2>1. attaches \in Nat /\ attaches < MaxAttaches
    BY <1>0, <1>5 DEF UserAttaches
  <2> QED
    BY <1>5, <2>1, BoundsAssumption DEF UserAttaches
<1>6. \A command \in Commands, response \in {"NONE", "ACCEPTED", "REJECTED"},
         C \in SUBSET Channels : Message(command, response, C) \in Messages
  BY MessageType
<1>7. CASE AttachFails
  BY <1>0, <1>1, <1>5, <1>7 DEF AttachFails, Go, channels, DeviceTypeOK
<1>8. CASE Attach
  <2>1. up' \in Seq(Messages)
    BY <1>3, <1>6, <1>8 DEF Attach, Commands
  <2> QED
    BY <1>0, <1>1, <1>2, <1>5, <1>8, <2>1 DEF Attach, Go, channels, DeviceTypeOK
<1>9. CASE Release
  <2>1. up' \in Seq(Messages)
    BY <1>3, <1>6, <1>9 DEF Release, Commands
  <2> QED
    BY <1>0, <1>1, <1>2, <1>9, <2>1 DEF Release, Go, channels, DeviceTypeOK
<1>10. CASE Setup
  BY <1>0, <1>1, <1>2, <1>4, <1>10 DEF Setup, channels, DeviceTypeOK
<1>11. CASE ChannelsAttached
  <2>1. PICK s \in {"Ready", "Flying"} :
          /\ Receive("ATTACH_CHANNELS", s) /\ state' = "Flying"
          /\ AttachChannels(Head(down).ids)
    BY <1>11 DEF ChannelsAttached
  <2> DEFINE C == Head(down).ids
  <2>2. down' \in Seq(Messages) /\ C \in SUBSET Channels /\ UNCHANGED <<linked, attaches>>
    BY <1>4, <2>1
  <2> HIDE DEF C
  <2>3. ASSUME NEW validated \in SUBSET C,
               open' = (open \ C) \cup validated, told' = told \cup validated,
               Send(Message("ATTACH_CHANNELS", "ACCEPTED", validated)), UNCHANGED live
        PROVE  /\ open' \in SUBSET Channels /\ told' \in SUBSET Channels
               /\ live' \in BOOLEAN /\ up' \in Seq(Messages)
    <3>1. validated \in SUBSET Channels
      BY <2>2
    <3>2. up' \in Seq(Messages)
      BY <1>3, <1>6, <2>3, <3>1 DEF Commands
    <3> QED
      BY <1>0, <2>2, <2>3, <3>1, <3>2
  <2>4. ASSUME NEW failed \in SUBSET C, NEW begun \in SUBSET C,
               open' = (open \cup begun) \ failed, live' = FALSE, UNCHANGED <<told, up>>
        PROVE  /\ open' \in SUBSET Channels /\ told' \in SUBSET Channels
               /\ live' \in BOOLEAN /\ up' \in Seq(Messages)
    BY <1>0, <2>2, <2>4
  <2>5. /\ open' \in SUBSET Channels /\ told' \in SUBSET Channels
        /\ live' \in BOOLEAN /\ up' \in Seq(Messages)
    BY <2>1, <2>3, <2>4 DEF AttachChannels, C
  <2> QED
    BY <1>0, <1>1, <1>2, <2>1, <2>2, <2>5 DEF DeviceTypeOK
<1>12. CASE ChannelsReleased
  <2>1. up' \in Seq(Messages)
    BY <1>3, <1>4, <1>6, <1>12 DEF ChannelsReleased, Commands
  <2> QED
    BY <1>0, <1>1, <1>4, <1>12, <2>1 DEF ChannelsReleased, DeviceTypeOK
<1>13. CASE OperationEnded
  <2>1. up' \in Seq(Messages)
    BY <1>3, <1>6, <1>13 DEF OperationEnded, Commands
  <2> QED
    BY <1>0, <1>1, <1>2, <1>4, <1>13, <2>1 DEF OperationEnded, DeviceTypeOK
<1>14. CASE Released
  BY <1>0, <1>1, <1>2, <1>4, <1>14 DEF Released, LeaveConnected, channels, DeviceTypeOK
<1>15. CASE HandleHeartbeat
  <2>1. Head(down).key \in 0..MaxBeats
    BY <1>4, <1>15, Kinds DEF HandleHeartbeat
  <2>2. up' \in Seq(Messages)
    BY <1>3, <1>15, <2>1, HeartbeatType DEF HandleHeartbeat
  <2> QED
    BY <1>0, <1>1, <1>4, <1>15, <2>2 DEF HandleHeartbeat, channels, DeviceTypeOK
<1>16. CASE Drop
  BY <1>0, <1>1, <1>4, <1>16 DEF Drop, channels, DeviceTypeOK
<1>17. CASE Disconnect
  BY <1>0, <1>1, <1>2, <1>17, EmptySeq DEF Disconnect, Go, channels, DeviceTypeOK
<1>18. CASE DisconnectFails
  BY <1>0, <1>1, <1>18 DEF DisconnectFails, channels, stream, DeviceTypeOK
<1> QED
  BY <1>7, <1>8, <1>9, <1>10, <1>11, <1>12, <1>13, <1>14, <1>15, <1>16, <1>17, <1>18
     DEF DeviceStep, UserStep, ReceiveStep

(* and so do the facade's.                                                 *)
LEMMA FacadeTyped ==
  ASSUME IInv, FacadeAnswer \/ FacadeInitiative
  PROVE  TypeOK'
<1> USE DEF IInv
<1>0. /\ up \in Seq(Messages) /\ down \in Seq(Messages) /\ linked \in BOOLEAN
      /\ admitted \in BOOLEAN /\ operation \in {"none", "running", "ending"}
      /\ operations \in 0..MaxOperations /\ pending \in Seq(SUBSET Channels)
      /\ attached \in SUBSET Channels /\ releasing \in SUBSET attached
      /\ refused \in BOOLEAN /\ beats \in 0..MaxBeats /\ heard \in Seq(1..MaxBeats)
  BY DEF TypeOK, DeviceTypeOK
<1> DEFINE Streams == linked' \in BOOLEAN /\ up' \in Seq(Messages) /\ down' \in Seq(Messages)
           Records == /\ operation' \in {"none", "running", "ending"}
                      /\ operations' \in 0..MaxOperations /\ pending' \in Seq(SUBSET Channels)
                      /\ attached' \in SUBSET Channels /\ releasing' \in SUBSET attached'
           Others  == /\ admitted' \in BOOLEAN /\ refused' \in BOOLEAN
                      /\ beats' \in 0..MaxBeats /\ heard' \in Seq(1..MaxBeats)
<1>1. ASSUME Streams, Records, Others, UNCHANGED device PROVE TypeOK'
  BY <1>1 DEF TypeOK, DeviceTypeOK, device, channels
<1>2. ASSUME NEW command, NEW response, Take(command, response)
      PROVE  up' \in Seq(Messages) /\ Head(up) \in Messages /\ UNCHANGED device
             /\ Head(up).ids \in SUBSET Channels /\ Head(up).command = command
  <2>1. Head(up) \in Messages /\ Head(up).command = command /\ up' \in Seq(Messages)
    BY <1>2, TakeUp
  <2> QED
    BY <1>2, <2>1, Kinds DEF Take
<1>3. ASSUME NEW m \in Messages, SendDown(m) PROVE down' \in Seq(Messages)
  BY <1>0, <1>3, PutNamed DEF SendDown
<1>4. \A command \in Commands, response \in {"NONE", "ACCEPTED", "REJECTED"},
         C \in SUBSET Channels : Message(command, response, C) \in Messages
  BY MessageType
<1>5. 0 \in 0..MaxBeats /\ <<>> \in Seq(1..MaxBeats) /\ <<>> \in Seq(SUBSET Channels)
  BY BoundsAssumption, EmptySeq
<1>6. /\ UNCHANGED linked => linked' \in BOOLEAN
      /\ UNCHANGED <<records, operations>> => Records
      /\ NoRecords /\ UNCHANGED operations => Records
      /\ UNCHANGED <<admitted, refused, beats, heard>> => Others
  BY <1>0, <1>5 DEF records, NoRecords
<1>7. CASE AnswerSetup
  <2>1. PICK ok \in BOOLEAN :
          /\ SendDown(Message("SETUP", IF ok THEN "ACCEPTED" ELSE "REJECTED", {}))
          /\ admitted' = ok /\ linked' = ok
    BY <1>7 DEF AnswerSetup
  <2>2. Message("SETUP", IF ok THEN "ACCEPTED" ELSE "REJECTED", {}) \in Messages
    BY <1>4 DEF Commands
  <2>3. down' \in Seq(Messages)
    BY <1>3, <2>1, <2>2
  <2> QED
    BY <1>0, <1>1, <1>2, <1>5, <1>6, <1>7, <2>1, <2>3 DEF AnswerSetup
<1>8. CASE AnswerRelease
  <2>1. UNCHANGED <<operations, beats, heard>> /\ Take("RELEASE", "NONE")
    BY <1>8 DEF AnswerRelease
  <2>2. CASE /\ SendDown(Message("RELEASE", "ACCEPTED", {}))
             /\ linked' = FALSE /\ admitted' = FALSE /\ NoRecords /\ UNCHANGED refused
    <3>1. Message("RELEASE", "ACCEPTED", {}) \in Messages
      BY <1>4 DEF Commands
    <3>2. down' \in Seq(Messages)
      BY <1>3, <2>2, <3>1
    <3> QED
      BY <1>0, <1>1, <1>2, <1>6, <2>1, <2>2, <3>2
  <2>3. CASE /\ SendDown(Message("RELEASE", "REJECTED", {}))
             /\ refused' = TRUE /\ UNCHANGED <<linked, admitted, records>>
    <3>1. Message("RELEASE", "REJECTED", {}) \in Messages
      BY <1>4 DEF Commands
    <3>2. down' \in Seq(Messages)
      BY <1>3, <2>3, <3>1
    <3> QED
      BY <1>0, <1>1, <1>2, <1>6, <2>1, <2>3, <3>2
  <2> QED
    BY <1>8, <2>2, <2>3 DEF AnswerRelease
<1>9. CASE ChannelsConfirmed
  <2>1. admitted /\ up # <<>> /\ Head(up) \in Attaches
    BY <1>2, <1>9, TakenWhenAdmitted, TakeUp DEF ChannelsConfirmed, Attaches, Of
  <2>2. PICK n \in 0..Len(pending) : Matches(up, pending, 0, n)
    BY <2>1 DEF Admitted, AttachedOnce
  <2>3. Len(pending) \in Nat
    BY <1>0, LenProperties
  <2>4. 0 < n
    BY <1>0, <2>1, <2>2, <2>3, MatchTake
  <2>5. pending # <<>>
    BY <2>2, <2>3, <2>4
  <2>6. Tail(pending) \in Seq(SUBSET Channels)
    BY <1>0, <2>5, HeadTailProperties
  <2> QED
    BY <1>0, <1>1, <1>2, <1>6, <1>9, <2>6 DEF ChannelsConfirmed
<1>10. CASE ReleaseConfirmed
  BY <1>0, <1>1, <1>2, <1>6, <1>10 DEF ReleaseConfirmed
<1>11. CASE EndConfirmed
  BY <1>0, <1>1, <1>2, <1>6, <1>11 DEF EndConfirmed
<1>12. CASE BeatAnswered
  <2>1. Take("HEARTBEAT", "ACCEPTED") /\ heard' = Append(heard, Head(up).key)
    BY <1>12 DEF BeatAnswered
  <2>2. admitted /\ up # <<>> /\ Head(up).command = "HEARTBEAT"
    BY <2>1, TakenWhenAdmitted, TakeUp
  <2>3. Head(up).key \in Keys(up)
    BY <1>0, <2>2, TakeKeys
  <2>4. Keys(up) \subseteq (Len(heard) + 1)..beats
    BY <2>2 DEF Admitted, Heartbeats
  <2>5. Len(heard) \in Nat
    BY <1>0, LenProperties
  <2>6. Head(up).key \in 1..MaxBeats
    BY <1>0, <2>3, <2>4, <2>5, BoundsAssumption
  <2>7. heard' \in Seq(1..MaxBeats)
    BY <1>0, <2>1, <2>6, AppendProperties
  <2> QED
    BY <1>0, <1>1, <1>2, <1>6, <1>12, <2>7 DEF BeatAnswered
<1>13. ASSUME NEW C \in SUBSET Channels, Initiate, AttachChannelsTo(C),
              operation' \in {"none", "running", "ending"}, operations' \in 0..MaxOperations
       PROVE  TypeOK'
  <2>1. down' \in Seq(Messages)
    BY <1>3, <1>4, <1>13 DEF AttachChannelsTo, Commands
  <2>2. pending' \in Seq(SUBSET Channels)
    BY <1>0, <1>13, AppendProperties DEF AttachChannelsTo
  <2> QED
    BY <1>0, <1>1, <1>13, <2>1, <2>2 DEF AttachChannelsTo, Initiate
<1>14. CASE StartOperation
  <2>1. operations \in Nat /\ operations < MaxOperations /\ operations' = operations + 1
    BY <1>0, <1>14 DEF StartOperation
  <2>2. operations' \in 0..MaxOperations
    BY <2>1, OperationsAssumption
  <2> QED
    BY <1>13, <1>14, <2>2 DEF StartOperation
<1>15. CASE AttachMore
  BY <1>0, <1>13, <1>15 DEF AttachMore
<1>16. CASE ReleaseSome
  <2>1. PICK C \in SUBSET (attached \ releasing) :
          /\ Initiate /\ releasing' = releasing \cup C
          /\ SendDown(Message("RELEASE_CHANNELS", "NONE", C))
          /\ UNCHANGED <<operation, operations, pending, attached, beats, heard>>
    BY <1>16 DEF ReleaseSome
  <2>2. C \in SUBSET Channels
    BY <1>0
  <2>3. down' \in Seq(Messages)
    BY <1>3, <1>4, <2>1, <2>2 DEF Commands
  <2> QED
    BY <1>0, <1>1, <2>1, <2>3 DEF Initiate
<1>17. CASE EndOperation
  <2>1. down' \in Seq(Messages)
    BY <1>3, <1>4, <1>17 DEF EndOperation, Commands
  <2> QED
    BY <1>0, <1>1, <1>17, <2>1 DEF EndOperation, Initiate
<1>18. CASE Beat
  <2>1. beats \in Nat /\ beats < MaxBeats /\ beats' = beats + 1
    BY <1>0, <1>18 DEF Beat
  <2>2. beats' \in 0..MaxBeats
    BY <2>1, BoundsAssumption
  <2>3. down' \in Seq(Messages)
    BY <1>3, <1>18, <2>2, HeartbeatType DEF Beat
  <2> QED
    BY <1>0, <1>1, <1>6, <1>18, <2>2, <2>3 DEF Beat, Initiate
<1> QED
  BY <1>7, <1>8, <1>9, <1>10, <1>11, <1>12, <1>14, <1>15, <1>16, <1>17, <1>18
     DEF FacadeAnswer, FacadeInitiative

(* The initial states have their types.                                    *)
LEMMA InitTyped == Init => TypeOK
<1> SUFFICES ASSUME Init PROVE TypeOK
  OBVIOUS
<1>1. /\ <<>> \in Seq(Messages) /\ <<>> \in Seq(SUBSET Channels) /\ <<>> \in Seq(1..MaxBeats)
  BY EmptySeq
<1>2. 0 \in 0..MaxAttaches /\ 0 \in 0..MaxBeats /\ 0 \in 0..MaxOperations
  BY BoundsAssumption, OperationsAssumption
<1>3. /\ state \in States /\ open \in SUBSET Channels /\ told \in SUBSET Channels
      /\ live \in BOOLEAN /\ attaches \in 0..MaxAttaches /\ linked \in BOOLEAN
  BY <1>2 DEF Init, DeviceInit, States
<1>4. up \in Seq(Messages) /\ down \in Seq(Messages)
  BY <1>1 DEF Init, DeviceInit
<1>5. /\ admitted \in BOOLEAN /\ operation \in {"none", "running", "ending"}
      /\ operations \in 0..MaxOperations /\ pending \in Seq(SUBSET Channels)
      /\ attached \in SUBSET Channels /\ releasing \in SUBSET attached
      /\ refused \in BOOLEAN /\ beats \in 0..MaxBeats /\ heard \in Seq(1..MaxBeats)
  BY <1>1, <1>2 DEF Init
<1> QED
  BY <1>3, <1>4, <1>5 DEF TypeOK, DeviceTypeOK

-----------------------------------------------------------------------------
(* The channels that the messages of a match name are those of its places. *)
LEMMA MatchNamed ==
  ASSUME NEW q, NEW S, NEW a \in Nat, NEW b \in Nat, Matches(q, S, a, b),
         NEW c \in Named(q, Attaches)
  PROVE  \E k \in (a+1)..b : c \in S[k]
<1>1. PICK i \in DOMAIN q : q[i] \in Attaches /\ c \in q[i].ids
  BY DEF Named, ToSet
<1>2. PICK f \in [(a+1)..b -> DOMAIN q] :
        /\ \A k \in (a+1)..b : q[f[k]] \in Attaches /\ q[f[k]].ids \subseteq S[k]
        /\ \A j \in DOMAIN q : q[j] \in Attaches => \E k \in (a+1)..b : f[k] = j
  BY DEF Matches
<1> QED
  BY <1>1, <1>2

(* Channels that a device is sent to attach are new to it: no channel is   *)
(* attached twice.                                                         *)
LEMMA AttachIsNew ==
  ASSUME IInv, admitted, Attending, down # <<>>, Head(down) \in Attaches
  PROVE  /\ \E n \in Nat :
              /\ n < Len(pending) /\ Len(pending) \in Nat
              /\ Matches(up, pending, 0, n)
              /\ Head(down).ids \subseteq pending[n + 1]
              /\ Matches(Tail(down), pending, n + 1, Len(pending))
         /\ Head(down).ids \cap attached = {}
         /\ Head(down).ids \cap Named(up, Attaches) = {}
         /\ Head(down).ids \cap open = {}
<1>0. /\ down \in Seq(Messages) /\ up \in Seq(Messages)
      /\ Len(pending) \in Nat /\ DOMAIN pending = 1..Len(pending)
  BY LenProperties DEF IInv, TypeOK, DeviceTypeOK
<1>1. PICK n \in 0..Len(pending) :
        Matches(up, pending, 0, n) /\ Matches(down, pending, n, Len(pending))
  BY DEF IInv, Admitted, AttachedOnce
<1>2. n \in Nat
  BY <1>0
<1>3. /\ n < Len(pending) /\ Head(down).ids \subseteq pending[n + 1]
      /\ Matches(Tail(down), pending, n + 1, Len(pending))
  BY <1>0, <1>1, <1>2, MatchTake
<1>4. n + 1 \in DOMAIN pending /\ \A k \in (0+1)..n : k \in DOMAIN pending /\ k < n + 1
  BY <1>0, <1>2, <1>3
<1>5. Head(down).ids \cap attached = {}
  BY <1>3, <1>4 DEF IInv, Admitted, AttachedOnce
<1>6. Head(down).ids \cap Named(up, Attaches) = {}
  <2> SUFFICES ASSUME NEW c \in Named(up, Attaches), c \in Head(down).ids PROVE FALSE
    OBVIOUS
  <2>1. PICK k \in (0+1)..n : c \in pending[k]
    BY <1>1, <1>2, MatchNamed
  <2>2. pending[k] \cap pending[n + 1] = {}
    BY <1>4 DEF IInv, Admitted, AttachedOnce
  <2> QED
    BY <1>3, <2>1, <2>2
<1>7. Head(down).ids \cap open = {}
  <2>1. CASE state = "Flying"
    <3>1. open \subseteq attached \cup Named(up, Attaches)
      BY <2>1 DEF IInv, Admitted, Following, Attending
    <3> QED
      BY <1>5, <1>6, <3>1
  <2>2. CASE state # "Flying"
    BY <2>2 DEF IInv, UserKnowsChannels, Attending
  <2> QED
    BY <2>1, <2>2
<1> QED
  BY <1>0, <1>1, <1>2, <1>3, <1>5, <1>6, <1>7

(* A device that can take a message of an operation is admitted.           *)
LEMMA TakenInOperation ==
  ASSUME IInv, NEW command, NEW s \in {"Ready", "Flying"}, Receive(command, s)
  PROVE  /\ admitted /\ live /\ state = s /\ Attending /\ down # <<>>
         /\ \A commands : Head(down) \in Of(commands) <=> command \in commands
         /\ ~Has(up, Calls) /\ ~Has(down, Calls)
<1>1. live /\ state = s /\ down # <<>> /\ Head(down) \in Messages /\ Head(down).command = command
  BY TakeDown DEF IInv
<1>2. admitted /\ ~Has(up, Calls) /\ ~Has(down, Calls)
  BY <1>1 DEF IInv, Call
<1>3. Attending
  BY <1>1 DEF Attending
<1> QED
  BY <1>1, <1>2, <1>3, Kinds

(* Every step keeps what the listener knows.                               *)
LEMMA NextKnows ==
  ASSUME IInv, Next
  PROVE  UserKnowsChannels'
<1>0. UserKnowsChannels
  BY DEF IInv
<1>1. ASSUME UNCHANGED device PROVE UserKnowsChannels'
  BY <1>0, <1>1 DEF device, channels, UserKnowsChannels
<1>2. CASE UserStep
  BY <1>0, <1>2 DEF UserStep, AttachFails, Attach, Release, Go, channels, UserKnowsChannels
<1>3. CASE Setup
  BY <1>0, <1>3 DEF Setup, Receive, channels, UserKnowsChannels
<1>4. CASE ChannelsAttached
  <2>1. PICK s \in {"Ready", "Flying"} :
          /\ Receive("ATTACH_CHANNELS", s) /\ state' = "Flying"
          /\ AttachChannels(Head(down).ids)
    BY <1>4 DEF ChannelsAttached
  <2>2. Head(down).ids \cap open = {} /\ told = open
    BY <1>0, <2>1, TakenInOperation, AttachIsNew DEF Attaches, UserKnowsChannels
  <2> QED
    BY <2>1, <2>2 DEF AttachChannels, UserKnowsChannels
<1>5. CASE ChannelsReleased
  BY <1>0, <1>5 DEF ChannelsReleased, Receive, UserKnowsChannels
<1>6. CASE OperationEnded
  BY <1>0, <1>6 DEF OperationEnded, Receive, UserKnowsChannels
<1>7. CASE Released
  BY <1>0, <1>7 DEF Released, LeaveConnected, Receive, channels, UserKnowsChannels
<1>8. CASE HandleHeartbeat \/ Drop
  <2>1. UNCHANGED <<state, channels, live>>
    BY <1>8 DEF HandleHeartbeat, Drop
  <2> QED
    BY <1>0, <2>1 DEF channels, UserKnowsChannels
<1>9. CASE Disconnect \/ DisconnectFails
  BY <1>0, <1>9 DEF Disconnect, DisconnectFails, Go, channels, UserKnowsChannels
<1>10. CASE FacadeAnswer
  BY <1>1, <1>10 DEF FacadeAnswer, AnswerSetup, AnswerRelease, ChannelsConfirmed,
                     ReleaseConfirmed, EndConfirmed, BeatAnswered, Take
<1>11. CASE FacadeInitiative
  BY <1>1, <1>11 DEF FacadeInitiative, StartOperation, AttachMore, ReleaseSome, EndOperation,
                     Beat, Initiate
<1> QED
  BY <1>2, <1>3, <1>4, <1>5, <1>6, <1>7, <1>8, <1>9, <1>10, <1>11 DEF Next, ReceiveStep

-----------------------------------------------------------------------------
(* The call while the device answers messages of an operation, heartbeats  *)
(* among them,                                                             *)
LEMMA CallInOperation ==
  ASSUME IInv, state \in {"Ready", "Flying"}, state' \in {"Ready", "Flying"},
         Quiet(up, up', Calls), Quiet(down, down', Calls), UNCHANGED <<linked, facade>>
  PROVE  Call'
<1>1. admitted /\ linked /\ ~Has(up, Calls) /\ ~Has(down, Calls)
  BY DEF IInv, Call
<1>2. up \in Seq(Messages) /\ down \in Seq(Messages)
  BY DEF IInv, TypeOK, DeviceTypeOK
<1>3. ~Has(up', Calls)
  BY <1>1, <1>2, QuietNamed
<1>4. ~Has(down', Calls)
  BY <1>1, <1>2, QuietNamed
<1> QED
  BY <1>1, <1>3, <1>4 DEF Call, facade

(* while it waits for its release,                                         *)
LEMMA CallInReleasing ==
  ASSUME IInv, state = "Releasing", state' = "Releasing",
         Quiet(up, up', Of({"SETUP"})), UNCHANGED <<linked, facade>>,
         down # <<>>, down' = Tail(down)
  PROVE  Call'
<1>1. up \in Seq(Messages) /\ down \in Seq(Messages)
  BY DEF IInv, TypeOK, DeviceTypeOK
<1>2. ~Has(up', Of({"SETUP"}))
  <2>1. ~Has(up, Of({"SETUP"}))
    BY DEF IInv, Call
  <2> QED
    BY <1>1, <2>1, QuietNamed
<1>3. ToSet(down') \subseteq ToSet(down)
  BY <1>1, TakeElements
<1> QED
  BY <1>2, <1>3 DEF IInv, Call, facade, records

(* and while the facade takes its answers or sends something new.          *)
LEMMA CallOfFacade ==
  ASSUME IInv, admitted, admitted', UNCHANGED <<linked, state>>,
         up' = up \/ (up # <<>> /\ up' = Tail(up)),
         down' = down \/ \E m \in Messages \ Calls : down' = Append(down, m)
  PROVE  Call'
<1>1. up \in Seq(Messages) /\ down \in Seq(Messages)
  BY DEF IInv, TypeOK, DeviceTypeOK
<1>2. linked
  BY DEF IInv, Call
<1>3. \A K : Has(up', K) => Has(up, K)
  BY <1>1, TakeNamed
<1>4. Has(down', Calls) => Has(down, Calls)
  <2>1. ASSUME NEW m \in Messages \ Calls, down' = Append(down, m)
        PROVE  Has(down', Calls) <=> Has(down, Calls)
    <3>1. m \in Messages /\ m \notin Calls
      OBVIOUS
    <3>2. Has(Append(down, m), Calls) <=> Has(down, Calls)
      BY <1>1, <3>1, PutNamed
    <3> QED
      BY <2>1, <3>2
  <2> QED
    BY <2>1
<1>5. \A m \in ToSet(down') : m \in ToSet(down) \/ m \in Messages \ Calls
  <2>1. ASSUME NEW m \in Messages \ Calls, down' = Append(down, m)
        PROVE  ToSet(down') = ToSet(down) \cup {m}
    BY <1>1, <2>1, PutElements
  <2> QED
    BY <2>1
<1>6. \A m \in Messages \ Calls : m.command # "RELEASE"
  BY Kinds DEF Calls
<1>7. ASSUME state = "Connecting"
      PROVE  /\ up' = <<>> /\ down' # <<>>
             /\ Head(down') = Message("SETUP", "ACCEPTED", {})
             /\ ~Has(Tail(down'), Calls)
  <2>1. /\ up = <<>> /\ down # <<>> /\ Head(down) = Message("SETUP", "ACCEPTED", {})
        /\ ~Has(Tail(down), Calls)
    BY <1>7 DEF IInv, Call
  <2>2. ASSUME NEW m \in Messages \ Calls, down' = Append(down, m)
        PROVE  /\ down' # <<>> /\ Head(down') = Head(down)
               /\ ~Has(Tail(down'), Calls)
    <3>1. Tail(down) \in Seq(Messages)
      BY <1>1, <2>1, TakeElements
    <3>2. /\ Tail(Append(down, m)) = Append(Tail(down), m)
          /\ Head(Append(down, m)) = Head(down) /\ Append(down, m) # <<>>
      BY <1>1, <2>1, HeadTailOfPut
    <3>3. Tail(down') = Append(Tail(down), m) /\ Head(down') = Head(down) /\ down' # <<>>
      BY <2>2, <3>2
    <3>4. m \in Messages /\ m \notin Calls
      OBVIOUS
    <3>5. Has(Append(Tail(down), m), Calls) <=> Has(Tail(down), Calls)
      BY <3>1, <3>4, PutNamed
    <3> QED
      BY <2>1, <3>3, <3>5
  <2> QED
    BY <2>1, <2>2
<1> QED
  BY <1>2, <1>3, <1>4, <1>5, <1>6, <1>7 DEF IInv, Call


(* What the device sends, and takes, while it is in an operation.          *)
LEMMA QuietSend ==
  ASSUME IInv, NEW m \in Messages, NEW K, m \notin K, up' = Append(up, m)
  PROVE  Quiet(up, up', K)
BY DEF Quiet

LEMMA QuietReceive ==
  ASSUME IInv, NEW command, NEW s, Receive(command, s), NEW commands, command \notin commands
  PROVE  Quiet(down, down', Of(commands))
<1>1. /\ down # <<>> /\ down' = Tail(down) /\ Head(down) \in Messages
      /\ Head(down).command = command
  BY TakeDown DEF IInv
<1> QED
  BY <1>1, Kinds DEF Quiet

(* The messages that the device sends.                                     *)
LEMMA Answers ==
  ASSUME NEW command \in Commands, NEW C \in SUBSET Channels
  PROVE  /\ Message(command, "ACCEPTED", C) \in Messages
         /\ \A commands : Message(command, "ACCEPTED", C) \in Of(commands)
                            <=> command \in commands
BY MessageType, Kinds

LEMMA BeatAnswers ==
  ASSUME NEW k \in 0..MaxBeats
  PROVE  /\ Heartbeat("ACCEPTED", k) \in Messages
         /\ \A commands : Heartbeat("ACCEPTED", k) \in Of(commands)
                            <=> "HEARTBEAT" \in commands
BY HeartbeatType, Kinds

(* A channel is attached in Ready or Flying; up to the answer or failure.  *)
LEMMA AttachingStep ==
  ASSUME IInv, ChannelsAttached
  PROVE  \E s \in {"Ready", "Flying"} :
           /\ Receive("ATTACH_CHANNELS", s) /\ state' = "Flying"
           /\ \/ \E validated \in SUBSET Head(down).ids :
                   /\ open' = (open \ Head(down).ids) \cup validated
                   /\ up' = Append(up, Message("ATTACH_CHANNELS", "ACCEPTED", validated))
                   /\ validated \in SUBSET Channels
                   /\ UNCHANGED live
              \/ live' = FALSE /\ up' = up
<1>1. PICK s \in {"Ready", "Flying"} :
        /\ Receive("ATTACH_CHANNELS", s) /\ state' = "Flying"
        /\ AttachChannels(Head(down).ids)
  BY DEF ChannelsAttached
<1>2. Head(down).ids \in SUBSET Channels
  BY <1>1, TakeDown DEF IInv
<1> QED
  BY <1>1, <1>2 DEF AttachChannels, Send

(* Every step of the device in an operation leaves the call alone.         *)
LEMMA OperationCall ==
  ASSUME IInv, UNCHANGED facade,
         \/ ChannelsAttached \/ ChannelsReleased \/ OperationEnded
         \/ HandleHeartbeat /\ state \in {"Ready", "Flying"}
  PROVE  Call'
<1>0. TypeOK
  BY DEF IInv
<1>1. CASE ChannelsAttached
  <2>1. PICK s \in {"Ready", "Flying"} :
          /\ Receive("ATTACH_CHANNELS", s) /\ state' = "Flying"
          /\ \/ \E validated \in SUBSET Channels :
                  up' = Append(up, Message("ATTACH_CHANNELS", "ACCEPTED", validated))
             \/ up' = up
    BY <1>1, AttachingStep
  <2>2. Quiet(down, down', Calls)
    BY <2>1, QuietReceive DEF Calls
  <2>3. Quiet(up, up', Calls)
    <3>1. ASSUME NEW validated \in SUBSET Channels,
                 up' = Append(up, Message("ATTACH_CHANNELS", "ACCEPTED", validated))
          PROVE  Quiet(up, up', Calls)
      <4>1. /\ Message("ATTACH_CHANNELS", "ACCEPTED", validated) \in Messages
            /\ Message("ATTACH_CHANNELS", "ACCEPTED", validated) \notin Calls
        BY Answers DEF Calls, Commands
      <4> QED
        BY <3>1, <4>1, QuietSend
    <3> QED
      BY <2>1, <3>1 DEF Quiet
  <2>4. state = s /\ UNCHANGED linked
    BY <1>0, <2>1, TakeDown
  <2> QED
    BY <2>1, <2>2, <2>3, <2>4, CallInOperation
<1>2. CASE ChannelsReleased
  <2>1. Receive("RELEASE_CHANNELS", "Flying") /\ UNCHANGED state
    BY <1>2 DEF ChannelsReleased
  <2>2. state = "Flying" /\ UNCHANGED linked /\ Head(down).ids \in SUBSET Channels
    BY <1>0, <2>1, TakeDown
  <2>3. Quiet(down, down', Calls)
    BY <2>1, QuietReceive DEF Calls
  <2>4. /\ Message("RELEASE_CHANNELS", "ACCEPTED", Head(down).ids) \in Messages
        /\ Message("RELEASE_CHANNELS", "ACCEPTED", Head(down).ids) \notin Calls
    BY <2>2, Answers DEF Calls, Commands
  <2>5. Quiet(up, up', Calls)
    BY <1>2, <2>4, QuietSend DEF ChannelsReleased, Send
  <2> QED
    BY <2>1, <2>2, <2>3, <2>5, CallInOperation
<1>3. CASE OperationEnded
  <2>1. Receive("OPERATION_ENDED", "Flying") /\ state' = "Ready"
    BY <1>3 DEF OperationEnded
  <2>2. state = "Flying" /\ UNCHANGED linked
    BY <1>0, <2>1, TakeDown
  <2>3. Quiet(down, down', Calls)
    BY <2>1, QuietReceive DEF Calls
  <2>4. /\ Message("OPERATION_ENDED", "ACCEPTED", {}) \in Messages
        /\ Message("OPERATION_ENDED", "ACCEPTED", {}) \notin Calls
    BY Answers DEF Calls, Commands
  <2>5. Quiet(up, up', Calls)
    BY <1>3, <2>4, QuietSend DEF OperationEnded, Send
  <2> QED
    BY <2>1, <2>2, <2>3, <2>5, CallInOperation
<1>4. CASE HandleHeartbeat /\ state \in {"Ready", "Flying"}
  <2>1. /\ Receive("HEARTBEAT", state) /\ UNCHANGED state
        /\ up' = Append(up, Heartbeat("ACCEPTED", Head(down).key))
    BY <1>4 DEF HandleHeartbeat, Send
  <2>2. UNCHANGED linked /\ Head(down).key \in 0..MaxBeats
    BY <1>0, <2>1, TakeDown, Kinds
  <2>3. Quiet(down, down', Calls)
    BY <2>1, QuietReceive DEF Calls
  <2>4. /\ Heartbeat("ACCEPTED", Head(down).key) \in Messages
        /\ Heartbeat("ACCEPTED", Head(down).key) \notin Calls
    BY <2>2, BeatAnswers DEF Calls
  <2>5. Quiet(up, up', Calls)
    BY <2>1, <2>4, QuietSend
  <2> QED
    BY <1>4, <2>1, <2>2, <2>3, <2>5, CallInOperation
<1> QED
  BY <1>1, <1>2, <1>3, <1>4

(* A heartbeat is not what a connecting device takes up first.             *)
LEMMA BeatsAfterSetup ==
  ASSUME IInv, HandleHeartbeat
  PROVE  state \in {"Ready", "Flying", "Releasing"}
<1>1. Receive("HEARTBEAT", state) /\ state \in Connected \cup {"Connecting"}
  BY DEF HandleHeartbeat
<1>2. down # <<>> /\ Head(down).command = "HEARTBEAT"
  BY <1>1, TakeDown DEF IInv
<1>3. ASSUME state = "Connecting" PROVE FALSE
  <2>1. Head(down) = Message("SETUP", "ACCEPTED", {})
          \/ Head(down) = Message("SETUP", "REJECTED", {})
    BY <1>2, <1>3 DEF IInv, Call
  <2> QED
    BY <1>2, <2>1 DEF Message
<1> QED
  BY <1>1, <1>3 DEF Connected

(* Every step of the device and its user keeps the call.                   *)
LEMMA DeviceCall ==
  ASSUME IInv, DeviceStep, UNCHANGED facade
  PROVE  Call'
<1>0. TypeOK /\ Call /\ up \in Seq(Messages) /\ down \in Seq(Messages)
  BY DEF IInv, TypeOK, DeviceTypeOK
<1>1. CASE AttachFails
  BY <1>0, <1>1 DEF AttachFails, UserAttaches, Go, Call, facade, records
<1>2. CASE Attach
  <2>1. state = "Disconnected" /\ state' = "Connecting" /\ linked' /\ down' = down
        /\ up' = Append(up, Message("SETUP", "NONE", {}))
    BY <1>2 DEF Attach, UserAttaches, Go, Send
  <2>2. ~admitted /\ up = <<>> /\ down = <<>>
    BY <1>0, <2>1 DEF Call
  <2>3. up' = <<Message("SETUP", "NONE", {})>>
    BY <2>1, <2>2
  <2> QED
    BY <1>0, <2>1, <2>2, <2>3 DEF Call, facade, records
<1>3. CASE Setup
  <2>1. /\ state = "Connecting" /\ down # <<>> /\ down' = Tail(down) /\ UNCHANGED <<linked, up>>
        /\ state' = IF Head(down).response = "ACCEPTED" THEN "Ready" ELSE "Disconnecting"
    BY <1>0, <1>3, TakeDown DEF Setup
  <2>2. CASE admitted
    <3>1. /\ up = <<>> /\ Head(down) = Message("SETUP", "ACCEPTED", {})
          /\ ~Has(Tail(down), Calls) /\ linked
      BY <1>0, <2>1, <2>2 DEF Call
    <3>2. state' = "Ready"
      BY <2>1, <3>1 DEF Message
    <3>3. ~Has(up', Calls)
      BY <2>1, <3>1, NoElements DEF Has
    <3> QED
      BY <2>1, <2>2, <3>1, <3>2, <3>3 DEF Call, facade
  <2>3. CASE ~admitted
    <3>1. ~linked /\ Head(down) = Message("SETUP", "REJECTED", {})
      BY <1>0, <2>1, <2>3 DEF Call
    <3>2. state' = "Disconnecting"
      BY <2>1, <3>1 DEF Message
    <3> QED
      BY <1>0, <2>1, <2>3, <3>1, <3>2 DEF Call, facade, records
  <2> QED
    BY <2>2, <2>3
<1>4. CASE Release
  <2>1. /\ state = "Ready" /\ state' = "Releasing" /\ UNCHANGED <<linked, down>>
        /\ up' = Append(up, Message("RELEASE", "NONE", {}))
    BY <1>4 DEF Release, Go, Send
  <2>2. admitted /\ linked /\ ~Has(up, Calls) /\ ~Has(down, Calls)
    BY <1>0, <2>1 DEF Call
  <2>3. /\ Message("RELEASE", "NONE", {}) \in Messages
        /\ Message("RELEASE", "NONE", {}).command = "RELEASE"
    BY MessageType DEF Commands
  <2>4. ~Has(up, Of({"SETUP"}))
    BY <2>2 DEF Has, Calls, Of
  <2>5. Message("RELEASE", "NONE", {}) \notin Of({"SETUP"})
    BY <2>3, Kinds
  <2>6. ~Has(up', Of({"SETUP"}))
    BY <1>0, <2>1, <2>3, <2>4, <2>5, PutNamed
  <2>7. \A m \in ToSet(down) : m.command # "RELEASE"
    <3> SUFFICES ASSUME NEW m \in ToSet(down), m.command = "RELEASE" PROVE FALSE
      OBVIOUS
    <3>1. m \in Messages
      BY <1>0 DEF ToSet
    <3> QED
      BY <2>2, <3>1, Kinds DEF Has, Calls
  <2> QED
    BY <2>1, <2>2, <2>6, <2>7 DEF Call, facade
<1>5. CASE ChannelsAttached \/ ChannelsReleased \/ OperationEnded
  BY <1>5, OperationCall
<1>6. CASE Released
  <2>1. /\ state = "Releasing" /\ state' = "Disconnecting" /\ down # <<>>
        /\ Head(down).command = "RELEASE" /\ Head(down).response = "ACCEPTED"
        /\ UNCHANGED linked
    BY <1>0, <1>6, TakeDown DEF Released, LeaveConnected
  <2>2. Head(down) \in ToSet(down)
    BY <1>0, <2>1, TakeElements
  <2>3. ~linked /\ ~admitted
    BY <1>0, <2>1, <2>2 DEF Call
  <2> QED
    BY <1>0, <2>1, <2>3 DEF Call, facade, records
<1>7. CASE HandleHeartbeat
  <2>1. CASE state = "Releasing"
    <3>1. /\ Receive("HEARTBEAT", state) /\ UNCHANGED state
          /\ up' = Append(up, Heartbeat("ACCEPTED", Head(down).key))
      BY <1>7 DEF HandleHeartbeat, Send
    <3>2. /\ UNCHANGED linked /\ Head(down).key \in 0..MaxBeats
          /\ down # <<>> /\ down' = Tail(down)
      BY <1>0, <3>1, TakeDown, Kinds
    <3>3. /\ Heartbeat("ACCEPTED", Head(down).key) \in Messages
          /\ Heartbeat("ACCEPTED", Head(down).key) \notin Of({"SETUP"})
      BY <3>2, BeatAnswers
    <3>4. Quiet(up, up', Of({"SETUP"}))
      BY <3>1, <3>3, QuietSend
    <3> QED
      BY <2>1, <3>1, <3>2, <3>4, CallInReleasing
  <2>2. CASE state # "Releasing"
    BY <1>7, <2>2, OperationCall, BeatsAfterSetup
  <2> QED
    BY <2>1, <2>2
<1>8. CASE Drop
  <2>1. PICK command : Receive(command, state) /\ UNCHANGED <<state, up>>
    BY <1>8 DEF Drop
  <2>2. down # <<>> /\ down' = Tail(down) /\ UNCHANGED linked
    BY <1>0, <2>1, TakeDown
  <2>3. Quiet(up, up', Of({"SETUP"}))
    BY <2>1 DEF Quiet
  <2> QED
    BY <1>8, <2>1, <2>2, <2>3, CallInReleasing, DropsInReleasing
<1>9. CASE Disconnect
  BY <1>0, <1>9 DEF Disconnect, Go, Call, facade, records
<1>10. CASE DisconnectFails
  BY <1>0, <1>10 DEF DisconnectFails, stream, Call, facade, records
<1> QED
  BY <1>1, <1>2, <1>3, <1>4, <1>5, <1>6, <1>7, <1>8, <1>9, <1>10
     DEF DeviceStep, UserStep, ReceiveStep

(* So does every step of the facade.                                       *)
LEMMA FacadeCall ==
  ASSUME IInv, FacadeAnswer \/ FacadeInitiative
  PROVE  Call'
<1>0. TypeOK /\ Call /\ up \in Seq(Messages) /\ down \in Seq(Messages)
  BY DEF IInv, TypeOK, DeviceTypeOK
<1>1. CASE AnswerSetup
  <2>1. PICK ok \in BOOLEAN :
          /\ SendDown(Message("SETUP", IF ok THEN "ACCEPTED" ELSE "REJECTED", {}))
          /\ admitted' = ok /\ linked' = ok
    BY <1>1 DEF AnswerSetup
  <2>2. Take("SETUP", "NONE") /\ UNCHANGED records
    BY <1>1 DEF AnswerSetup
  <2>3. /\ ~admitted /\ state = "Connecting" /\ down = <<>> /\ up' = <<>> /\ UNCHANGED state
    BY <1>0, <2>2, SetupComesFirst, TakeUp
  <2>4. down' = <<Message("SETUP", IF ok THEN "ACCEPTED" ELSE "REJECTED", {})>>
    BY <2>1, <2>3 DEF SendDown
  <2>5. /\ down' # <<>> /\ Tail(down') = <<>>
        /\ Head(down') = Message("SETUP", IF ok THEN "ACCEPTED" ELSE "REJECTED", {})
    BY <2>4
  <2>6. ~Has(Tail(down'), Calls)
    BY <2>5, NoElements DEF Has
  <2>7. operation = "none" /\ pending = <<>> /\ attached = {} /\ releasing = {}
    BY <1>0, <2>3 DEF Call
  <2> QED
    BY <2>1, <2>2, <2>3, <2>5, <2>6, <2>7 DEF Call, records
<1>2. CASE AnswerRelease
  <2>1. Take("RELEASE", "NONE")
    BY <1>2 DEF AnswerRelease
  <2>2. /\ admitted /\ linked /\ state = "Releasing" /\ UNCHANGED state
        /\ up # <<>> /\ up' = Tail(up)
    BY <1>0, <2>1, ReleaseComesLast, TakeUp
  <2>3. ~Has(up', Of({"SETUP"}))
    BY <1>0, <2>2, TakeNamed DEF Call
  <2>4. CASE linked' = FALSE /\ admitted' = FALSE /\ NoRecords
    BY <2>2, <2>3, <2>4 DEF Call, NoRecords
  <2>5. CASE /\ SendDown(Message("RELEASE", "REJECTED", {}))
             /\ UNCHANGED <<linked, admitted>>
    <3>1. /\ Message("RELEASE", "REJECTED", {}) \in Messages
          /\ Message("RELEASE", "REJECTED", {}).response = "REJECTED"
      BY MessageType DEF Commands
    <3>2. ToSet(down') = ToSet(down) \cup {Message("RELEASE", "REJECTED", {})}
      BY <1>0, <2>5, <3>1, PutElements DEF SendDown
    <3> QED
      BY <1>0, <2>2, <2>3, <2>5, <3>1, <3>2 DEF Call
  <2> QED
    BY <1>2, <2>4, <2>5 DEF AnswerRelease
<1>3. ASSUME NEW command, Take(command, "ACCEPTED"), command # "SETUP",
             UNCHANGED <<linked, down, admitted>>
      PROVE  Call'
  <2>1. admitted /\ up # <<>> /\ up' = Tail(up) /\ UNCHANGED state
    BY <1>0, <1>3, TakenWhenAdmitted, TakeUp
  <2> QED
    BY <1>3, <2>1, CallOfFacade
<1>4. CASE ChannelsConfirmed \/ ReleaseConfirmed \/ EndConfirmed \/ BeatAnswered
  BY <1>3, <1>4 DEF ChannelsConfirmed, ReleaseConfirmed, EndConfirmed, BeatAnswered
<1>5. ASSUME Initiate, NEW m \in Messages, m.command \notin {"SETUP", "RELEASE"}, SendDown(m)
      PROVE  Call'
  <2>1. m \in Messages \ Calls
    BY <1>5, Kinds DEF Calls
  <2>2. admitted /\ admitted' /\ UNCHANGED <<linked, state, up>>
    BY <1>5 DEF Initiate, device
  <2> QED
    BY <1>5, <2>1, <2>2, CallOfFacade DEF SendDown
<1>6. ASSUME NEW command \in Commands, NEW C \in SUBSET Channels,
             command \notin {"SETUP", "RELEASE"}, Initiate,
             SendDown(Message(command, "NONE", C))
      PROVE  Call'
  BY <1>5, <1>6, MessageType
<1>7. CASE StartOperation
  BY <1>6, <1>7 DEF StartOperation, AttachChannelsTo, Commands
<1>8. CASE AttachMore
  BY <1>6, <1>8 DEF AttachMore, AttachChannelsTo, Commands
<1>9. CASE ReleaseSome
  <2>1. PICK C \in SUBSET (attached \ releasing) :
          Initiate /\ SendDown(Message("RELEASE_CHANNELS", "NONE", C))
    BY <1>9 DEF ReleaseSome
  <2>2. C \in SUBSET Channels
    BY <1>0 DEF TypeOK
  <2> QED
    BY <1>6, <2>1, <2>2 DEF Commands
<1>10. CASE EndOperation
  BY <1>6, <1>10 DEF EndOperation, Commands
<1>11. CASE Beat
  <2>1. beats' \in 0..MaxBeats
    BY <1>0, <1>11, BoundsAssumption DEF Beat, TypeOK
  <2> QED
    BY <1>5, <1>11, <2>1, HeartbeatType DEF Beat
<1> QED
  BY <1>1, <1>2, <1>4, <1>7, <1>8, <1>9, <1>10, <1>11 DEF FacadeAnswer, FacadeInitiative

-----------------------------------------------------------------------------
(* What a change of the two streams that has nothing to do with some       *)
(* messages leaves as it was: the order of an operation's messages,        *)
LEMMA KeepOrder ==
  ASSUME IInv, admitted, Quiet(up, up', InOperation), Quiet(down, down', InOperation),
         UNCHANGED records
  PROVE  Order'
<1>0. up \in Seq(Messages) /\ down \in Seq(Messages) /\ Order
  BY DEF IInv, TypeOK, DeviceTypeOK, Admitted
<1>1. Ends \subseteq InOperation
  BY DEF Ends, InOperation, Of
<1>2. Quiet(up, up', Ends) /\ Quiet(down, down', Ends)
  BY <1>1, QuietLess
<1>3. After(up', Ends, Outside) /\ After(down', Ends, Outside)
  BY <1>0, QuietAfter DEF Order
<1>4. /\ (Has(up', Ends) <=> Has(up, Ends)) /\ (Has(down', Ends) <=> Has(down, Ends))
      /\ (Has(up', InOperation) <=> Has(up, InOperation))
      /\ (Has(down', InOperation) <=> Has(down, InOperation))
  BY <1>0, <1>2, QuietNamed
<1> QED
  BY <1>0, <1>3, <1>4 DEF Order, records

(* the channels that are released,                                         *)
LEMMA KeepReleases ==
  ASSUME IInv, admitted, Quiet(up, up', Releases), Quiet(down, down', Releases),
         releasing \subseteq releasing'
  PROVE  ReleasedOnce'
<1>0. up \in Seq(Messages) /\ down \in Seq(Messages) /\ ReleasedOnce
  BY DEF IInv, TypeOK, DeviceTypeOK, Admitted
<1>1. /\ Named(up', Releases) = Named(up, Releases)
      /\ ToSet(up') \cap Releases = ToSet(up) \cap Releases
      /\ Apart(up, Releases) => Apart(up', Releases)
  BY <1>0, QuietNamed
<1>2. /\ Named(down', Releases) = Named(down, Releases)
      /\ ToSet(down') \cap Releases = ToSet(down) \cap Releases
      /\ Apart(down, Releases) => Apart(down', Releases)
  BY <1>0, QuietNamed
<1> QED
  BY <1>0, <1>1, <1>2 DEF ReleasedOnce

(* and those that are attached.                                            *)
LEMMA KeepAttaches ==
  ASSUME IInv, admitted, Quiet(up, up', Attaches), Quiet(down, down', Attaches),
         UNCHANGED pending, attached' \subseteq attached, Attending' => Attending
  PROVE  AttachedOnce'
<1>0. up \in Seq(Messages) /\ down \in Seq(Messages) /\ Len(pending) \in Nat
  BY LenProperties DEF IInv, TypeOK, DeviceTypeOK
<1>1. /\ \A k \in DOMAIN pending : pending[k] \cap attached = {}
      /\ \A k, l \in DOMAIN pending : k < l => pending[k] \cap pending[l] = {}
  BY DEF IInv, Admitted, AttachedOnce
<1>2. PICK n \in 0..Len(pending) :
        Matches(up, pending, 0, n) /\ (Attending => Matches(down, pending, n, Len(pending)))
  BY DEF IInv, Admitted, AttachedOnce
<1>3. n \in Nat
  BY <1>0
<1>4. Matches(up', pending', 0, n)
  BY <1>0, <1>2, <1>3, QuietMatches
<1>5. Attending' => Matches(down', pending', n, Len(pending'))
  BY <1>0, <1>2, <1>3, QuietMatches
<1> QED
  BY <1>1, <1>2, <1>4, <1>5 DEF AttachedOnce

(* What the device knows of an operation changes with its messages.        *)
LEMMA KeepFollowing ==
  ASSUME IInv, admitted, Quiet(up, up', InOperation), Quiet(down, down', InOperation),
         UNCHANGED <<records, open>>, live' => live,
         state' \in {"Connecting", "Ready"} => state \in {"Connecting", "Ready"},
         state' = "Flying" => state = "Flying"
  PROVE  Following'
<1>0. up \in Seq(Messages) /\ down \in Seq(Messages) /\ Following
  BY DEF IInv, TypeOK, DeviceTypeOK, Admitted
<1>1. /\ Ends \subseteq InOperation /\ Attaches \subseteq InOperation
      /\ Releases \subseteq InOperation
  BY DEF Ends, Attaches, Releases, InOperation, Of
<1>2. /\ Quiet(up, up', Ends) /\ Quiet(down, down', Ends)
      /\ Quiet(up, up', Attaches) /\ Quiet(down, down', Attaches)
      /\ Quiet(up, up', Releases)
  BY <1>1, QuietLess
<1>3. /\ Has(up', Ends) <=> Has(up, Ends)
      /\ Has(down', Ends) <=> Has(down, Ends)
      /\ Has(up', InOperation) <=> Has(up, InOperation)
      /\ Has(down', Attaches) <=> Has(down, Attaches)
      /\ Named(up', Attaches) = Named(up, Attaches)
      /\ Named(up', Releases) = Named(up, Releases)
  BY <1>0, <1>2, QuietNamed
<1> QED
  BY <1>0, <1>3 DEF Following, records

(* All of them.                                                            *)
LEMMA KeepOperation ==
  ASSUME IInv, admitted, Quiet(up, up', InOperation), Quiet(down, down', InOperation),
         UNCHANGED <<records, open>>, live' => live,
         state' \in {"Connecting", "Ready"} => state \in {"Connecting", "Ready"},
         state' = "Flying" => state = "Flying"
  PROVE  Order' /\ ReleasedOnce' /\ AttachedOnce' /\ Following'
<1>1. Attaches \subseteq InOperation /\ Releases \subseteq InOperation
  BY DEF Attaches, Releases, InOperation, Of
<1>2. /\ Quiet(up, up', Attaches) /\ Quiet(down, down', Attaches)
      /\ Quiet(up, up', Releases) /\ Quiet(down, down', Releases)
  BY <1>1, QuietLess
<1>3. Attending' => Attending
  BY DEF Attending
<1>4. UNCHANGED records /\ UNCHANGED <<pending, attached, releasing>>
  BY DEF records
<1>5. Order'
  BY <1>4, KeepOrder
<1>6. ReleasedOnce'
  BY <1>2, <1>4, KeepReleases
<1>7. AttachedOnce'
  BY <1>2, <1>3, <1>4, KeepAttaches
<1>8. Following'
  BY KeepFollowing
<1> QED
  BY <1>5, <1>6, <1>7, <1>8

(* The heartbeats, when none is sent or taken.                             *)
LEMMA KeepHeartbeats ==
  ASSUME IInv, admitted, Quiet(up, up', Of({"HEARTBEAT"})),
         Quiet(down, down', Of({"HEARTBEAT"})), UNCHANGED <<beats, heard>>
  PROVE  Heartbeats'
<1>0. up \in Seq(Messages) /\ down \in Seq(Messages) /\ Heartbeats
  BY DEF IInv, TypeOK, DeviceTypeOK, Admitted
<1>1. Keys(up') = Keys(up) /\ GoingUp(up')
  BY <1>0, QuietKeys DEF Heartbeats
<1>2. Keys(down') = Keys(down) /\ GoingUp(down')
  BY <1>0, QuietKeys DEF Heartbeats
<1> QED
  BY <1>0, <1>1, <1>2 DEF Heartbeats

-----------------------------------------------------------------------------
(* The device takes a message of an operation: those after it.             *)
LEMMA TakesInOperation ==
  ASSUME IInv, NEW command \in {"ATTACH_CHANNELS", "RELEASE_CHANNELS", "OPERATION_ENDED"},
         NEW s \in {"Ready", "Flying"}, Receive(command, s)
  PROVE  /\ down' \in Seq(Messages) /\ After(down', Ends, Outside)
         /\ ~Has(up, Ends) /\ operation # "none"
         /\ Head(down) \in InOperation
         /\ Has(down', Ends) => Has(down, Ends)
         /\ Head(down) \notin Ends => (Has(down', Ends) <=> Has(down, Ends))
         /\ Head(down) \in Ends => Has(down, Ends) /\ ~Has(down', InOperation)
<1>1. /\ admitted /\ down # <<>> /\ down' = Tail(down)
      /\ \A commands : Head(down) \in Of(commands) <=> command \in commands
  BY TakenInOperation DEF Receive
<1>2. down \in Seq(Messages) /\ up \in Seq(Messages) /\ Order
  BY <1>1 DEF IInv, TypeOK, DeviceTypeOK, Admitted
<1>3. Head(down) \in InOperation
  BY <1>1 DEF InOperation
<1>4. Has(down, InOperation)
  BY <1>1, <1>2, <1>3, TakeNamed
<1>5. After(down', Ends, Outside) /\ (Head(down) \in Ends => ToSet(down') \subseteq Outside)
  BY <1>1, <1>2, TakeAfter DEF Order
<1>6. ToSet(down') \subseteq Outside => ~Has(down', InOperation)
  BY DEF Has, Outside
<1>7. /\ down' \in Seq(Messages) /\ (Has(down', Ends) => Has(down, Ends))
      /\ Head(down) \notin Ends => (Has(down', Ends) <=> Has(down, Ends))
      /\ Head(down) \in Ends => Has(down, Ends)
  BY <1>1, <1>2, TakeNamed
<1> QED
  BY <1>2, <1>3, <1>4, <1>5, <1>6, <1>7 DEF Order

(* Order, when the device takes such a message and answers it.             *)
LEMMA OrderAnswered ==
  ASSUME IInv, NEW command \in {"ATTACH_CHANNELS", "RELEASE_CHANNELS"},
         NEW s \in {"Ready", "Flying"}, Receive(command, s), UNCHANGED facade,
         \/ up' = up
         \/ \E m \in Messages \ Ends : up' = Append(up, m)
  PROVE  Order' /\ ~Has(up', Ends)
<1>1. /\ admitted /\ \A commands : Head(down) \in Of(commands) <=> command \in commands
  BY TakenInOperation
<1>2. /\ After(down', Ends, Outside) /\ ~Has(up, Ends) /\ operation # "none"
      /\ Has(down', Ends) => Has(down, Ends)
  BY TakesInOperation
<1>3. up \in Seq(Messages) /\ Order
  BY <1>1 DEF IInv, TypeOK, DeviceTypeOK, Admitted
<1>4. ASSUME NEW m \in Messages \ Ends, up' = Append(up, m)
      PROVE  After(up', Ends, Outside) /\ ~Has(up', Ends)
  <2>1. ToSet(up) \cap Ends = {}
    BY <1>2 DEF Has
  <2>2. After(up', Ends, Outside)
    BY <1>3, <1>4, <2>1, PutAfter DEF Order
  <2>3. ~Has(up', Ends)
    BY <1>2, <1>3, <1>4, PutNamed
  <2> QED
    BY <2>2, <2>3
<1>5. After(up', Ends, Outside) /\ ~Has(up', Ends)
  BY <1>2, <1>3, <1>4 DEF Order
<1>6. UNCHANGED operation
  BY DEF facade, records
<1> QED
  BY <1>2, <1>3, <1>5, <1>6 DEF Order

(* The device takes up channels that it is to attach, and answers.         *)
LEMMA OperationAttaches ==
  ASSUME IInv, ChannelsAttached, UNCHANGED facade
  PROVE  Order' /\ ReleasedOnce' /\ AttachedOnce' /\ Following'
<1> DEFINE C == Head(down).ids
<1>1. PICK s \in {"Ready", "Flying"} :
        /\ Receive("ATTACH_CHANNELS", s) /\ state' = "Flying"
        /\ \/ \E validated \in SUBSET C :
                /\ open' = (open \ C) \cup validated
                /\ up' = Append(up, Message("ATTACH_CHANNELS", "ACCEPTED", validated))
                /\ validated \in SUBSET Channels
                /\ UNCHANGED live
           \/ live' = FALSE /\ up' = up
  BY AttachingStep
<1>2. /\ admitted /\ live /\ state = s /\ Attending /\ down # <<>> /\ down' = Tail(down)
      /\ \A commands : Head(down) \in Of(commands) <=> "ATTACH_CHANNELS" \in commands
  BY <1>1, TakenInOperation DEF Receive
<1>3. /\ down \in Seq(Messages) /\ up \in Seq(Messages)
      /\ Order /\ ReleasedOnce /\ Following /\ Head(down) \in Attaches
      /\ releasing \subseteq attached
  BY <1>2 DEF IInv, TypeOK, DeviceTypeOK, Admitted, Attaches
<1>4. UNCHANGED <<operation, pending, attached, releasing>>
  BY DEF facade, records
<1>5. PICK n \in Nat :
        /\ n < Len(pending) /\ Len(pending) \in Nat
        /\ Matches(up, pending, 0, n) /\ C \subseteq pending[n + 1]
        /\ Matches(down', pending, n + 1, Len(pending))
  BY <1>2, <1>3, AttachIsNew
<1>6. C \cap attached = {} /\ C \cap Named(up, Attaches) = {} /\ C \cap open = {}
  BY <1>2, <1>3, AttachIsNew
<1>7. Quiet(down, down', Releases)
  BY <1>1, QuietReceive DEF Releases
<1>8. /\ \A k \in DOMAIN pending : pending[k] \cap attached = {}
      /\ \A k, l \in DOMAIN pending : k < l => pending[k] \cap pending[l] = {}
  BY <1>2 DEF IInv, Admitted, AttachedOnce
<1> HIDE DEF C
<1>9. CASE live' = FALSE /\ up' = up
  <2>1. Order'
    BY <1>1, <1>9, OrderAnswered
  <2>2. Quiet(up, up', Releases)
    BY <1>9 DEF Quiet
  <2>3. ReleasedOnce'
    BY <1>2, <1>4, <1>7, <2>2, KeepReleases
  <2>4. ~Attending' /\ Following'
    BY <1>9 DEF Attending, Following
  <2>5. n \in 0..Len(pending)
    BY <1>5
  <2>6. AttachedOnce'
    BY <1>4, <1>5, <1>8, <1>9, <2>4, <2>5 DEF AttachedOnce
  <2> QED
    BY <2>1, <2>3, <2>4, <2>6
<1>10. ASSUME NEW validated \in SUBSET C,
              open' = (open \ C) \cup validated,
              up' = Append(up, Message("ATTACH_CHANNELS", "ACCEPTED", validated)),
              validated \in SUBSET Channels
       PROVE  Order' /\ ReleasedOnce' /\ AttachedOnce' /\ Following'
  <2> DEFINE m == Message("ATTACH_CHANNELS", "ACCEPTED", validated)
  <2>1. /\ m \in Messages /\ m.ids = validated
        /\ \A commands : m \in Of(commands) <=> "ATTACH_CHANNELS" \in commands
    BY <1>10, MessageType, Answers DEF Commands
  <2>2. m \in Attaches /\ m \notin Releases /\ m \notin Ends
    BY <2>1 DEF Attaches, Releases, Ends
  <2>3. up' = Append(up, m)
    BY <1>10
  <2> HIDE DEF m
  <2>4. Order' /\ ~Has(up', Ends)
    BY <1>1, <2>1, <2>2, <2>3, OrderAnswered
  <2>5. Quiet(up, up', Releases)
    BY <2>1, <2>2, <2>3 DEF Quiet
  <2>6. ReleasedOnce'
    BY <1>2, <1>4, <1>7, <2>5, KeepReleases
  <2>7. m.ids \subseteq pending[n + 1]
    BY <1>5, <2>1
  <2>8. Matches(up', pending, 0, n + 1)
    BY <1>3, <1>5, <2>1, <2>2, <2>3, <2>7, MatchPut
  <2>9. n + 1 \in 0..Len(pending)
    BY <1>5
  <2>10. AttachedOnce'
    BY <1>4, <1>5, <1>8, <2>8, <2>9 DEF AttachedOnce
  <2>11. /\ Named(up', Attaches) = Named(up, Attaches) \cup validated
         /\ Named(up', Releases) = Named(up, Releases)
    BY <1>3, <2>1, <2>2, <2>3, PutNamed
  <2>12. Named(up, Releases) \cap validated = {}
    BY <1>3, <1>6 DEF ReleasedOnce
  <2>13. open = (attached \cup Named(up, Attaches)) \ Named(up, Releases)
    <3>1. CASE s = "Flying"
      BY <1>2, <1>3, <3>1 DEF Following
    <3>2. CASE s = "Ready"
      <4>1. ~Has(up, Ends)
        BY <1>1, TakesInOperation
      <4>2. ~Has(up, InOperation) /\ attached = {} /\ open = {}
        BY <1>2, <1>3, <3>2, <4>1 DEF Following, IInv, UserKnowsChannels
      <4>3. Named(up, Attaches) = {}
        BY <4>2 DEF Named, Has, Attaches, InOperation, Of
      <4> QED
        BY <4>2, <4>3
    <3> QED
      BY <3>1, <3>2
  <2>14. open' = (attached' \cup Named(up', Attaches)) \ Named(up', Releases)
    BY <1>4, <1>6, <1>10, <2>11, <2>12, <2>13
  <2>15. operation' # "none" /\ (operation' = "ending" => Has(down', Ends))
    <3>1. operation # "none" /\ ~Has(up, Ends)
      BY <1>1, TakesInOperation
    <3>2. Head(down) \notin Ends
      BY <1>2 DEF Ends
    <3>3. Has(down', Ends) <=> Has(down, Ends)
      BY <1>1, <3>2, TakesInOperation
    <3>4. operation = "ending" => Has(down, Ends)
      BY <1>2, <1>3, <3>1 DEF Following
    <3> QED
      BY <1>4, <3>1, <3>3, <3>4
  <2>16. Following'
    BY <1>1, <2>4, <2>14, <2>15 DEF Following
  <2> QED
    BY <2>4, <2>6, <2>10, <2>16
<1> QED
  BY <1>1, <1>9, <1>10

(* It takes up channels that it is to release, and answers.                *)
LEMMA OperationReleases ==
  ASSUME IInv, ChannelsReleased, UNCHANGED facade
  PROVE  Order' /\ ReleasedOnce' /\ AttachedOnce' /\ Following'
<1> DEFINE C == Head(down).ids
           m == Message("RELEASE_CHANNELS", "ACCEPTED", C)
<1>1. /\ Receive("RELEASE_CHANNELS", "Flying")
      /\ open' = open \ C /\ up' = Append(up, m) /\ UNCHANGED <<state, live>>
  BY DEF ChannelsReleased, Send
<1>2. /\ admitted /\ live /\ state = "Flying" /\ down # <<>> /\ down' = Tail(down)
      /\ \A commands : Head(down) \in Of(commands) <=> "RELEASE_CHANNELS" \in commands
  BY <1>1, TakenInOperation DEF Receive
<1>3. /\ down \in Seq(Messages) /\ up \in Seq(Messages) /\ Head(down) \in Messages
      /\ Order /\ ReleasedOnce /\ Following
  BY <1>1, <1>2, TakeDown DEF IInv, TypeOK, DeviceTypeOK, Admitted
<1>4. UNCHANGED <<operation, pending, attached, releasing>>
  BY DEF facade, records
<1>5. C \in SUBSET Channels
  BY <1>3, Kinds
<1>6. /\ m \in Messages /\ m.ids = C
      /\ \A commands : m \in Of(commands) <=> "RELEASE_CHANNELS" \in commands
  BY <1>5, MessageType, Answers DEF Commands
<1>7. /\ m \in Releases /\ m \notin Attaches /\ m \notin Ends
      /\ Head(down) \in Releases /\ Head(down) \notin Attaches /\ Head(down) \notin Ends
  BY <1>2, <1>6 DEF Attaches, Releases, Ends
<1> HIDE DEF m
<1>8. Order' /\ ~Has(up', Ends)
  BY <1>1, <1>6, <1>7, OrderAnswered
<1>9. ReleasedOnce'
  <2>1. /\ Named(down, Releases) = C \cup Named(down', Releases)
        /\ Head(down) \in ToSet(down) /\ ToSet(down') \subseteq ToSet(down)
    BY <1>2, <1>3, <1>7, TakeNamed
  <2>2. Apart(down', Releases) /\ C \cap Named(down', Releases) = {}
    BY <1>2, <1>3, <1>7, TakeApart DEF ReleasedOnce
  <2>3. /\ Named(up', Releases) = Named(up, Releases) \cup C
        /\ ToSet(up') = ToSet(up) \cup {m}
    BY <1>1, <1>3, <1>6, <1>7, PutNamed
  <2>4. C \cap Named(up, Releases) = {} /\ C # {}
    BY <1>3, <1>7, <2>1 DEF ReleasedOnce
  <2>5. Apart(up', Releases)
    BY <1>1, <1>3, <1>6, <2>4, PutApart DEF ReleasedOnce
  <2>6. \A x \in (ToSet(up') \cup ToSet(down')) \cap Releases : x.ids # {}
    BY <1>3, <1>6, <2>1, <2>3, <2>4 DEF ReleasedOnce
  <2>7. /\ Named(up', Releases) \subseteq releasing /\ Named(down', Releases) \subseteq releasing
        /\ Named(up', Releases) \cap Named(down', Releases) = {}
    BY <1>3, <2>1, <2>2, <2>3, <2>4 DEF ReleasedOnce
  <2> QED
    BY <1>4, <2>2, <2>5, <2>6, <2>7 DEF ReleasedOnce
<1>10. Quiet(up, up', Attaches) /\ Quiet(down, down', Attaches)
  BY <1>1, <1>2, <1>6, <1>7 DEF Quiet
<1>11. AttachedOnce'
  BY <1>1, <1>2, <1>4, <1>10, KeepAttaches DEF Attending
<1>12. /\ Named(up', Attaches) = Named(up, Attaches)
       /\ Named(up', Releases) = Named(up, Releases) \cup C
       /\ Has(down', Ends) <=> Has(down, Ends)
  BY <1>1, <1>2, <1>3, <1>6, <1>7, PutNamed, TakeNamed
<1> HIDE DEF C
<1>13. Following'
  BY <1>1, <1>2, <1>3, <1>4, <1>8, <1>12 DEF Following
<1> QED
  BY <1>8, <1>9, <1>11, <1>13

(* It takes up the end of the operation, and answers.                      *)
LEMMA OperationEnds ==
  ASSUME IInv, OperationEnded, UNCHANGED facade
  PROVE  Order' /\ ReleasedOnce' /\ AttachedOnce' /\ Following'
<1> DEFINE m == Message("OPERATION_ENDED", "ACCEPTED", {})
<1>1. /\ Receive("OPERATION_ENDED", "Flying")
      /\ up' = Append(up, m) /\ state' = "Ready" /\ UNCHANGED live
  BY DEF OperationEnded, Send
<1>2. /\ admitted /\ live /\ state = "Flying" /\ down # <<>> /\ down' = Tail(down)
      /\ \A commands : Head(down) \in Of(commands) <=> "OPERATION_ENDED" \in commands
  BY <1>1, TakenInOperation DEF Receive
<1>3. /\ down \in Seq(Messages) /\ up \in Seq(Messages) /\ Order
  BY <1>2 DEF IInv, TypeOK, DeviceTypeOK, Admitted
<1>4. UNCHANGED <<operation, pending, attached, releasing>>
  BY DEF facade, records
<1>5. /\ m \in Messages
      /\ \A commands : m \in Of(commands) <=> "OPERATION_ENDED" \in commands
  BY Answers DEF Commands
<1> HIDE DEF m
<1>6. /\ m \in Ends /\ m \notin Attaches /\ m \notin Releases /\ m \in Outside \cup Ends
      /\ Head(down) \in Ends /\ Head(down) \notin Attaches /\ Head(down) \notin Releases
  BY <1>2, <1>5 DEF Attaches, Releases, Ends
<1>7. /\ Quiet(up, up', Attaches) /\ Quiet(down, down', Attaches)
      /\ Quiet(up, up', Releases) /\ Quiet(down, down', Releases)
  BY <1>1, <1>2, <1>5, <1>6 DEF Quiet
<1>8. /\ After(down', Ends, Outside) /\ ~Has(up, Ends) /\ operation # "none"
      /\ Has(down, Ends) /\ ~Has(down', InOperation)
  BY <1>1, <1>6, TakesInOperation
<1>9. Order' /\ Has(up', Ends)
  <2>1. ToSet(up) \cap Ends = {}
    BY <1>8 DEF Has
  <2>2. After(up', Ends, Outside)
    BY <1>1, <1>3, <1>5, <2>1, PutAfter DEF Order
  <2>3. Has(up', Ends)
    BY <1>1, <1>3, <1>5, <1>6, PutNamed
  <2>4. operation = "ending"
    BY <1>3, <1>8 DEF Order
  <2> QED
    BY <1>4, <1>8, <2>2, <2>3, <2>4 DEF Order
<1>10. ReleasedOnce'
  BY <1>2, <1>4, <1>7, KeepReleases
<1>11. AttachedOnce'
  BY <1>1, <1>2, <1>4, <1>7, KeepAttaches DEF Attending
<1>12. Following'
  BY <1>1, <1>9 DEF Following
<1> QED
  BY <1>9, <1>10, <1>11, <1>12

-----------------------------------------------------------------------------
(* The facade sends a message of a running operation, or of one it starts. *)
LEMMA OrderSends ==
  ASSUME IInv, admitted, operation # "ending", operation' \in {"running", "ending"},
         NEW m \in Messages, m \in Ends => operation' = "ending",
         up' = up, down' = Append(down, m)
  PROVE  Order' /\ ~Has(up, Ends) /\ ~Has(down, Ends)
<1>1. up \in Seq(Messages) /\ down \in Seq(Messages) /\ Order
  BY DEF IInv, TypeOK, DeviceTypeOK, Admitted
<1>2. ~Has(up, Ends) /\ ~Has(down, Ends)
  BY <1>1 DEF Order
<1>3. ToSet(down) \cap Ends = {}
  BY <1>2 DEF Has
<1>4. After(down', Ends, Outside)
  BY <1>1, <1>3, PutAfter DEF Order
<1>5. Has(down', Ends) => operation' = "ending"
  BY <1>1, <1>2, PutNamed
<1> QED
  BY <1>1, <1>2, <1>4, <1>5 DEF Order

(* It sends channels to attach.                                            *)
LEMMA FacadeAttaches ==
  ASSUME IInv, NEW C \in SUBSET Channels, Initiate, AttachChannelsTo(C),
         operation \in {"none", "running"}, operation' = "running"
  PROVE  Order' /\ ReleasedOnce' /\ AttachedOnce' /\ Following'
<1> DEFINE m == Message("ATTACH_CHANNELS", "NONE", C)
<1>1. /\ admitted /\ UNCHANGED <<state, open, live, up, attached, releasing>>
      /\ \A c \in C : c \notin attached /\ NotPending(c)
      /\ pending' = Append(pending, C) /\ down' = Append(down, m)
  BY DEF Initiate, AttachChannelsTo, SendDown, device, channels
<1>2. /\ m \in Messages /\ m.ids = C
      /\ \A commands : m \in Of(commands) <=> "ATTACH_CHANNELS" \in commands
  BY MessageType, Kinds DEF Commands
<1> HIDE DEF m
<1>3. m \in Attaches /\ m \notin Releases /\ m \notin Ends
  BY <1>2 DEF Attaches, Releases, Ends
<1>4. /\ up \in Seq(Messages) /\ down \in Seq(Messages) /\ Following
      /\ pending \in Seq(SUBSET Channels)
  BY <1>1 DEF IInv, TypeOK, DeviceTypeOK, Admitted
<1>5. Order' /\ ~Has(up, Ends) /\ ~Has(down, Ends)
  BY <1>1, <1>2, <1>3, OrderSends
<1>6. Quiet(up, up', Releases) /\ Quiet(down, down', Releases)
  BY <1>1, <1>2, <1>3 DEF Quiet
<1>7. ReleasedOnce'
  BY <1>1, <1>6, KeepReleases
<1>8. Following'
  <2>1. Has(down', Attaches)
    BY <1>1, <1>2, <1>3, <1>4, PutNamed
  <2> QED
    BY <1>1, <1>4, <1>5, <2>1 DEF Following
<1> DEFINE len == Len(pending)
<1>9. /\ len \in Nat /\ Len(pending') = len + 1 /\ DOMAIN pending = 1..len
      /\ \A k \in 1..len : pending'[k] = pending[k]
      /\ pending'[len + 1] = C /\ DOMAIN pending' = 1..(len + 1)
  <2>1. pending' \in Seq(SUBSET Channels) /\ Len(pending') = len + 1
    BY <1>1, <1>4, AppendProperties
  <2> QED
    BY <1>1, <1>4, <2>1, AppendProperties, LenProperties
<1> HIDE DEF len
<1>10. /\ \A k \in DOMAIN pending : pending[k] \cap attached = {}
       /\ \A k, l \in DOMAIN pending : k < l => pending[k] \cap pending[l] = {}
  BY <1>1 DEF IInv, Admitted, AttachedOnce
<1>11. /\ \A k \in DOMAIN pending : pending[k] \cap C = {}
       /\ attached \cap C = {}
  BY <1>1 DEF NotPending
<1>12. \A k \in DOMAIN pending' : pending'[k] \cap attached' = {}
  BY <1>1, <1>9, <1>10, <1>11
<1>13. \A k, l \in DOMAIN pending' : k < l => pending'[k] \cap pending'[l] = {}
  BY <1>9, <1>10, <1>11
<1>14. PICK n \in 0..len :
         Matches(up, pending, 0, n) /\ (Attending => Matches(down, pending, n, len))
  BY <1>1 DEF IInv, Admitted, AttachedOnce, len
<1>15. n \in Nat /\ n <= len /\ n \in 0..(len + 1)
  BY <1>9
<1>16. Matches(up', pending', 0, n)
  <2>1. \A k \in (0+1)..n : pending'[k] = pending[k]
    BY <1>9, <1>15
  <2> QED
    BY <1>1, <1>14, <1>15, <2>1, MatchSame
<1>17. Attending' => Matches(down', pending', n, len + 1)
  <2> SUFFICES ASSUME Attending PROVE Matches(down', pending', n, len + 1)
    BY <1>1 DEF Attending
  <2>1. \A k \in (n+1)..len : pending'[k] = pending[k]
    BY <1>9, <1>15
  <2>2. Matches(down, pending', n, len)
    BY <1>9, <1>14, <1>15, <2>1, MatchSame
  <2>3. m.ids \subseteq pending'[len + 1]
    BY <1>2, <1>9
  <2> QED
    BY <1>1, <1>2, <1>3, <1>4, <1>9, <1>15, <2>2, <2>3, MatchPut
<1>18. AttachedOnce'
  BY <1>9, <1>12, <1>13, <1>15, <1>16, <1>17 DEF AttachedOnce
<1> QED
  BY <1>5, <1>7, <1>8, <1>18

(* It sends channels to release.                                           *)
LEMMA FacadeReleases ==
  ASSUME IInv, ReleaseSome
  PROVE  Order' /\ ReleasedOnce' /\ AttachedOnce' /\ Following'
<1>1. PICK C \in SUBSET (attached \ releasing) :
        /\ Initiate /\ operation = "running" /\ C # {}
        /\ releasing' = releasing \cup C
        /\ SendDown(Message("RELEASE_CHANNELS", "NONE", C))
        /\ UNCHANGED <<operation, pending, attached>>
  BY DEF ReleaseSome
<1> DEFINE m == Message("RELEASE_CHANNELS", "NONE", C)
<1>2. /\ admitted /\ UNCHANGED <<state, open, live, up>> /\ down' = Append(down, m)
  BY <1>1 DEF Initiate, SendDown, device, channels
<1>3. /\ up \in Seq(Messages) /\ down \in Seq(Messages) /\ attached \in SUBSET Channels
      /\ Following /\ ReleasedOnce
  BY <1>2 DEF IInv, TypeOK, DeviceTypeOK, Admitted
<1>4. /\ m \in Messages /\ m.ids = C
      /\ \A commands : m \in Of(commands) <=> "RELEASE_CHANNELS" \in commands
  BY <1>3, MessageType, Kinds DEF Commands
<1> HIDE DEF m
<1>5. m \in Releases /\ m \notin Attaches /\ m \notin Ends
  BY <1>4 DEF Attaches, Releases, Ends
<1>6. Order' /\ ~Has(up, Ends) /\ ~Has(down, Ends)
  BY <1>1, <1>2, <1>4, <1>5, OrderSends
<1>7. Quiet(up, up', Attaches) /\ Quiet(down, down', Attaches)
  BY <1>2, <1>4, <1>5 DEF Quiet
<1>8. AttachedOnce'
  BY <1>1, <1>2, <1>7, KeepAttaches DEF Attending
<1>9. /\ Named(down', Releases) = Named(down, Releases) \cup C
      /\ ToSet(down') = ToSet(down) \cup {m}
      /\ Has(down, Attaches) => Has(down', Attaches)
  BY <1>2, <1>3, <1>4, <1>5, PutNamed
<1>10. C \cap Named(down, Releases) = {} /\ C \cap Named(up, Releases) = {}
  BY <1>3 DEF ReleasedOnce
<1>11. Apart(down', Releases)
  BY <1>2, <1>3, <1>4, <1>10, PutApart DEF ReleasedOnce
<1>12. ReleasedOnce'
  BY <1>1, <1>2, <1>3, <1>4, <1>9, <1>10, <1>11 DEF ReleasedOnce
<1>13. Following'
  BY <1>1, <1>2, <1>3, <1>9 DEF Following
<1> QED
  BY <1>6, <1>8, <1>12, <1>13

(* It ends the operation.                                                  *)
LEMMA FacadeEnds ==
  ASSUME IInv, EndOperation
  PROVE  Order' /\ ReleasedOnce' /\ AttachedOnce' /\ Following'
<1> DEFINE m == Message("OPERATION_ENDED", "NONE", {})
<1>1. /\ admitted /\ UNCHANGED <<state, open, live, up, pending, attached, releasing>>
      /\ operation = "running" /\ operation' = "ending" /\ down' = Append(down, m)
  BY DEF EndOperation, Initiate, SendDown, device, channels
<1>2. up \in Seq(Messages) /\ down \in Seq(Messages) /\ Following
  BY <1>1 DEF IInv, TypeOK, DeviceTypeOK, Admitted
<1>3. /\ m \in Messages
      /\ \A commands : m \in Of(commands) <=> "OPERATION_ENDED" \in commands
  BY MessageType, Kinds DEF Commands
<1> HIDE DEF m
<1>4. m \in Ends /\ m \notin Attaches /\ m \notin Releases
  BY <1>3 DEF Attaches, Releases, Ends
<1>5. Order'
  BY <1>1, <1>3, OrderSends
<1>6. /\ Quiet(up, up', Attaches) /\ Quiet(down, down', Attaches)
      /\ Quiet(up, up', Releases) /\ Quiet(down, down', Releases)
  BY <1>1, <1>3, <1>4 DEF Quiet
<1>7. ReleasedOnce'
  BY <1>1, <1>6, KeepReleases
<1>8. AttachedOnce'
  BY <1>1, <1>6, KeepAttaches DEF Attending
<1>9. Has(down', Ends) /\ (Has(down, Attaches) => Has(down', Attaches))
  BY <1>1, <1>2, <1>3, <1>4, PutNamed
<1>10. Following'
  BY <1>1, <1>2, <1>9 DEF Following
<1> QED
  BY <1>5, <1>7, <1>8, <1>10

-----------------------------------------------------------------------------
(* The facade takes an answer about an operation: those after it.          *)
LEMMA TakesAnswer ==
  ASSUME IInv, NEW command \in {"ATTACH_CHANNELS", "RELEASE_CHANNELS", "OPERATION_ENDED"},
         Take(command, "ACCEPTED"), UNCHANGED down
  PROVE  /\ admitted /\ up # <<>> /\ up' = Tail(up) /\ UNCHANGED <<state, open, live>>
         /\ up \in Seq(Messages) /\ down \in Seq(Messages) /\ Head(up) \in Messages
         /\ \A commands : Head(up) \in Of(commands) <=> command \in commands
         /\ After(up', Ends, Outside) /\ operation # "none" /\ Has(up, InOperation)
         /\ Has(up', Ends) => Has(up, Ends)
         /\ Head(up) \notin Ends => (Has(up', Ends) <=> Has(up, Ends))
         /\ Head(up) \in Ends => Has(up, Ends) /\ ~Has(up', InOperation)
<1>1. /\ admitted /\ up # <<>> /\ up' = Tail(up) /\ UNCHANGED <<state, open, live>>
      /\ Head(up) \in Messages /\ Head(up).command = command
  BY TakeUp, TakenWhenAdmitted DEF IInv
<1>2. down \in Seq(Messages) /\ up \in Seq(Messages) /\ Order
  BY <1>1 DEF IInv, TypeOK, DeviceTypeOK, Admitted
<1>3. \A commands : Head(up) \in Of(commands) <=> command \in commands
  BY <1>1, Kinds
<1>4. Head(up) \in InOperation
  BY <1>3 DEF InOperation
<1>5. Has(up, InOperation)
  BY <1>1, <1>2, <1>4, TakeNamed
<1>6. After(up', Ends, Outside) /\ (Head(up) \in Ends => ToSet(up') \subseteq Outside)
  BY <1>1, <1>2, TakeAfter DEF Order
<1>7. ToSet(up') \subseteq Outside => ~Has(up', InOperation)
  BY DEF Has, Outside
<1>8. /\ Has(up', Ends) => Has(up, Ends)
      /\ Head(up) \notin Ends => (Has(up', Ends) <=> Has(up, Ends))
      /\ Head(up) \in Ends => Has(up, Ends)
  BY <1>1, <1>2, TakeNamed
<1> QED
  BY <1>1, <1>2, <1>3, <1>5, <1>6, <1>7, <1>8 DEF Order

(* Channels are confirmed.                                                 *)
LEMMA FacadeKnowsAttached ==
  ASSUME IInv, ChannelsConfirmed
  PROVE  Order' /\ ReleasedOnce' /\ AttachedOnce' /\ Following'
<1> DEFINE C == Head(up).ids
<1>1. /\ Take("ATTACH_CHANNELS", "ACCEPTED") /\ attached' = attached \cup C
      /\ pending' = Tail(pending) /\ UNCHANGED <<down, operation, releasing>>
  BY DEF ChannelsConfirmed
<1>2. /\ admitted /\ up # <<>> /\ up' = Tail(up) /\ UNCHANGED <<state, open, live>>
      /\ up \in Seq(Messages) /\ down \in Seq(Messages) /\ Head(up) \in Messages
      /\ \A commands : Head(up) \in Of(commands) <=> "ATTACH_CHANNELS" \in commands
      /\ After(up', Ends, Outside) /\ operation # "none" /\ Has(up, InOperation)
  BY <1>1, TakesAnswer
<1>3. Head(up) \in Attaches /\ Head(up) \notin Releases /\ Head(up) \notin Ends
  BY <1>2 DEF Attaches, Releases, Ends
<1>4. Has(up', Ends) <=> Has(up, Ends)
  BY <1>1, <1>3, TakesAnswer
<1>5. Order /\ Following /\ pending \in Seq(SUBSET Channels)
  BY <1>2 DEF IInv, Admitted, TypeOK
<1> HIDE DEF C
<1>6. Order'
  BY <1>1, <1>2, <1>4, <1>5 DEF Order
<1>7. Quiet(up, up', Releases) /\ Quiet(down, down', Releases)
  BY <1>1, <1>2, <1>3 DEF Quiet
<1>8. ReleasedOnce'
  BY <1>1, <1>2, <1>7, KeepReleases
<1>9. /\ Named(up, Attaches) = C \cup Named(up', Attaches)
      /\ Named(up', Releases) = Named(up, Releases)
  BY <1>2, <1>3, TakeNamed DEF C
<1>10. Following'
  <2>1. ~(live /\ state \in {"Connecting", "Ready"} /\ ~Has(up, Ends))
    BY <1>2, <1>5 DEF Following
  <2> QED
    BY <1>1, <1>2, <1>4, <1>5, <1>9, <2>1 DEF Following
<1>11. /\ \A k \in DOMAIN pending : pending[k] \cap attached = {}
       /\ \A k, l \in DOMAIN pending : k < l => pending[k] \cap pending[l] = {}
  BY <1>2 DEF IInv, Admitted, AttachedOnce
<1> DEFINE len == Len(pending)
<1>12. len \in Nat /\ DOMAIN pending = 1..len
  BY <1>5, LenProperties
<1>13. PICK n \in 0..len :
         Matches(up, pending, 0, n) /\ (Attending => Matches(down, pending, n, len))
  BY <1>2 DEF IInv, Admitted, AttachedOnce, len
<1>14. n \in Nat
  BY <1>12
<1>15. 0 < n /\ C \subseteq pending[0 + 1] /\ Matches(up', pending, 0 + 1, n)
  BY <1>2, <1>3, <1>13, <1>14, MatchTake DEF C
<1> HIDE DEF len
<1>16. PICK j \in Nat : n = j + 1
  <2>1. n - 1 \in Nat /\ n = (n - 1) + 1
    BY <1>14, <1>15
  <2> QED
    BY <2>1
<1>17. PICK last \in Nat : len = last + 1
  <2>1. len - 1 \in Nat /\ len = (len - 1) + 1
    BY <1>12, <1>13, <1>15
  <2> QED
    BY <2>1
<1>18. j \in 0..last
  BY <1>13, <1>16, <1>17
<1>19. /\ Len(pending') = last /\ DOMAIN pending' = 1..last
       /\ \A k \in 1..last : pending'[k] = pending[k + 1] /\ k + 1 \in DOMAIN pending
  <2>1. pending # <<>>
    BY <1>5, <1>12, <1>17 DEF len
  <2>2. /\ pending' \in Seq(SUBSET Channels) /\ Len(pending') = len - 1
        /\ \A k \in 1..Len(pending') : pending'[k] = pending[k + 1]
    BY <1>1, <1>5, <2>1, HeadTailProperties DEF len
  <2>3. DOMAIN pending' = 1..Len(pending')
    BY <2>2, LenProperties
  <2> QED
    BY <1>12, <1>17, <2>2, <2>3
<1>20. \A k \in DOMAIN pending' : pending'[k] \cap attached' = {}
  <2> SUFFICES ASSUME NEW k \in 1..last PROVE pending'[k] \cap attached' = {}
    BY <1>19
  <2>1. k + 1 \in DOMAIN pending /\ pending'[k] = pending[k + 1] /\ k \in Nat /\ k > 0
    BY <1>19
  <2>2. 1 \in DOMAIN pending /\ 1 < k + 1
    BY <1>12, <1>17, <2>1
  <2>3. pending[1] \cap pending[k + 1] = {} /\ pending[k + 1] \cap attached = {}
    BY <1>11, <2>1, <2>2
  <2> QED
    BY <1>1, <1>15, <2>1, <2>3
<1>21. \A k, l \in DOMAIN pending' : k < l => pending'[k] \cap pending'[l] = {}
  <2> SUFFICES ASSUME NEW k \in 1..last, NEW l \in 1..last, k < l
               PROVE  pending'[k] \cap pending'[l] = {}
    BY <1>19
  <2>1. k + 1 < l + 1
    OBVIOUS
  <2> QED
    BY <1>11, <1>19, <2>1
<1>22. Matches(up', pending', 0, j)
  <2>1. \A k \in (0+1)..j : pending'[k] = pending[k + 1]
    BY <1>18, <1>19
  <2> QED
    BY <1>15, <1>16, <2>1, MatchShift
<1>23. Attending' => Matches(down', pending', j, last)
  <2> SUFFICES ASSUME Attending PROVE Matches(down', pending', j, last)
    BY <1>2 DEF Attending
  <2>1. \A k \in (j+1)..last : pending'[k] = pending[k + 1]
    BY <1>16, <1>18, <1>19
  <2>2. Matches(down', pending, j + 1, last + 1)
    BY <1>1, <1>13, <1>16, <1>17
  <2> QED
    BY <1>16, <1>17, <2>1, <2>2, MatchShift
<1>24. AttachedOnce'
  BY <1>18, <1>19, <1>20, <1>21, <1>22, <1>23 DEF AttachedOnce
<1> QED
  BY <1>6, <1>8, <1>10, <1>24

(* Their release is confirmed.                                             *)
LEMMA FacadeKnowsReleased ==
  ASSUME IInv, ReleaseConfirmed
  PROVE  Order' /\ ReleasedOnce' /\ AttachedOnce' /\ Following'
<1> DEFINE C == Head(up).ids
<1>1. /\ Take("RELEASE_CHANNELS", "ACCEPTED") /\ attached' = attached \ C
      /\ releasing' = releasing \ C /\ UNCHANGED <<down, operation, pending>>
  BY DEF ReleaseConfirmed
<1>2. /\ admitted /\ up # <<>> /\ up' = Tail(up) /\ UNCHANGED <<state, open, live>>
      /\ up \in Seq(Messages) /\ down \in Seq(Messages) /\ Head(up) \in Messages
      /\ \A commands : Head(up) \in Of(commands) <=> "RELEASE_CHANNELS" \in commands
      /\ After(up', Ends, Outside) /\ operation # "none" /\ Has(up, InOperation)
  BY <1>1, TakesAnswer
<1>3. Head(up) \in Releases /\ Head(up) \notin Attaches /\ Head(up) \notin Ends
  BY <1>2 DEF Attaches, Releases, Ends
<1>4. Has(up', Ends) <=> Has(up, Ends)
  BY <1>1, <1>3, TakesAnswer
<1>5. Order /\ Following /\ ReleasedOnce /\ releasing \subseteq attached
  BY <1>2 DEF IInv, Admitted, TypeOK
<1>6. Order'
  BY <1>1, <1>2, <1>4, <1>5 DEF Order
<1>7. Quiet(up, up', Attaches) /\ Quiet(down, down', Attaches)
  BY <1>1, <1>2, <1>3 DEF Quiet
<1>8. AttachedOnce'
  BY <1>1, <1>2, <1>7, KeepAttaches DEF Attending
<1>9. /\ Named(up, Releases) = C \cup Named(up', Releases)
      /\ Named(up', Attaches) = Named(up, Attaches)
      /\ ToSet(up') \subseteq ToSet(up)
  BY <1>2, <1>3, TakeNamed
<1>10. Apart(up', Releases) /\ C \cap Named(up', Releases) = {}
  BY <1>2, <1>3, <1>5, TakeApart DEF ReleasedOnce
<1> HIDE DEF C
<1>11. ReleasedOnce'
  BY <1>1, <1>5, <1>9, <1>10 DEF ReleasedOnce
<1>12. C \subseteq attached
  BY <1>5, <1>9 DEF ReleasedOnce
<1>13. C \cap Named(up, Attaches) = {}
  <2> SUFFICES ASSUME NEW c \in Named(up, Attaches), c \in C PROVE FALSE
    OBVIOUS
  <2>1. Len(pending) \in Nat /\ DOMAIN pending = 1..Len(pending)
    BY LenProperties DEF IInv, TypeOK
  <2>2. PICK n \in 0..Len(pending) : Matches(up, pending, 0, n)
    BY <1>2 DEF IInv, Admitted, AttachedOnce
  <2>3. n \in Nat
    BY <2>1
  <2>4. PICK k \in (0+1)..n : c \in pending[k]
    BY <2>2, <2>3, MatchNamed
  <2>5. k \in DOMAIN pending
    BY <2>1, <2>2, <2>4
  <2>6. pending[k] \cap attached = {}
    BY <1>2, <2>5 DEF IInv, Admitted, AttachedOnce
  <2> QED
    BY <1>12, <2>4, <2>6
<1>14. Following'
  <2>1. ~(live /\ state \in {"Connecting", "Ready"} /\ ~Has(up, Ends))
    BY <1>2, <1>5 DEF Following
  <2> QED
    BY <1>1, <1>2, <1>4, <1>5, <1>9, <1>10, <1>13, <2>1 DEF Following
<1> QED
  BY <1>6, <1>8, <1>11, <1>14

(* The end of the operation is confirmed.                                  *)
LEMMA FacadeKnowsEnded ==
  ASSUME IInv, EndConfirmed
  PROVE  Order' /\ ReleasedOnce' /\ AttachedOnce' /\ Following'
<1>1. Take("OPERATION_ENDED", "ACCEPTED") /\ UNCHANGED down /\ NoRecords
  BY DEF EndConfirmed
<1>2. /\ admitted /\ up # <<>> /\ up' = Tail(up) /\ UNCHANGED <<state, open, live>>
      /\ up \in Seq(Messages) /\ down \in Seq(Messages)
      /\ \A commands : Head(up) \in Of(commands) <=> "OPERATION_ENDED" \in commands
      /\ After(up', Ends, Outside)
  BY <1>1, TakesAnswer
<1>3. Head(up) \in Ends
  BY <1>2 DEF Ends
<1>4. Has(up, Ends) /\ ~Has(up', InOperation)
  BY <1>1, <1>3, TakesAnswer
<1>5. Order /\ Following /\ ReleasedOnce
  BY <1>2 DEF IInv, Admitted
<1>6. ~Has(down, InOperation)
  BY <1>4, <1>5 DEF Order
<1>7. \A q : ~Has(q, InOperation) => /\ ~Has(q, Ends) /\ ~Has(q, Attaches)
                                     /\ ~Has(q, Releases) /\ Named(q, Releases) = {}
  BY DEF Has, Named, InOperation, Ends, Attaches, Releases, Of
<1>8. /\ ~Has(up', Ends) /\ ~Has(up', Attaches) /\ ~Has(up', Releases)
      /\ Named(up', Releases) = {}
      /\ ~Has(down, Ends) /\ ~Has(down, Attaches) /\ ~Has(down, Releases)
      /\ Named(down, Releases) = {}
  BY <1>4, <1>6, <1>7
<1>9. Order'
  BY <1>1, <1>2, <1>4, <1>5, <1>6, <1>8 DEF Order, NoRecords
<1>10. ReleasedOnce'
  <2>1. Apart(up', Releases)
    BY <1>2, <1>5, TakeApart DEF ReleasedOnce
  <2> QED
    BY <1>1, <1>5, <1>8, <2>1 DEF ReleasedOnce, NoRecords, Has
<1>11. AttachedOnce'
  <2>1. Matches(up', <<>>, 0, 0) /\ Matches(down, <<>>, 0, 0)
    BY <1>8, MatchNone
  <2>2. pending' = <<>> /\ DOMAIN pending' = {} /\ Len(pending') = 0 /\ 0 \in 0..0
    BY <1>1 DEF NoRecords
  <2> QED
    BY <1>1, <2>1, <2>2 DEF AttachedOnce
<1>12. Following'
  <2>1. ~(live /\ state = "Flying")
    BY <1>4, <1>5 DEF Following
  <2> QED
    BY <1>1, <1>2, <1>4, <2>1 DEF Following, NoRecords
<1> QED
  BY <1>9, <1>10, <1>11, <1>12

-----------------------------------------------------------------------------
(* A heartbeat is sent,                                                    *)
LEMMA BeatSent ==
  ASSUME IInv, Beat
  PROVE  Heartbeats'
<1>1. /\ admitted /\ up' = up /\ UNCHANGED heard
      /\ beats < MaxBeats /\ beats' = beats + 1
      /\ down' = Append(down, Heartbeat("NONE", beats'))
  BY DEF Beat, Initiate, SendDown
<1>2. /\ Heartbeats /\ down \in Seq(Messages) /\ beats \in Nat
      /\ heard \in Seq(1..MaxBeats)
  BY <1>1, BoundsAssumption DEF IInv, Admitted, TypeOK, DeviceTypeOK
<1>3. beats' \in 0..MaxBeats /\ Len(heard) \in Nat
  BY <1>1, <1>2, BoundsAssumption, LenProperties
<1> DEFINE m == Heartbeat("NONE", beats + 1)
<1>4. m \in Messages /\ m.command = "HEARTBEAT" /\ m.key = beats + 1
  BY <1>1, <1>3, HeartbeatType
<1> HIDE DEF m
<1>5. down' = Append(down, m)
  BY <1>1 DEF m
<1>6. Keys(up) \subseteq (Len(heard) + 1)..beats /\ Keys(down) \subseteq (Len(heard) + 1)..beats
  BY <1>2 DEF Heartbeats
<1>7. Keys(down') = Keys(down) \cup {beats + 1}
  BY <1>2, <1>4, <1>5, PutKeys
<1>8. \A k \in Keys(down) : k < m.key
  BY <1>2, <1>3, <1>4, <1>6
<1>9. GoingUp(down')
  BY <1>2, <1>4, <1>5, <1>8, PutKeys DEF Heartbeats
<1>10. Keys(up') \cup Keys(down') = (Len(heard) + 1)..(beats + 1)
  <2>1. Keys(up) \cup Keys(down) = (Len(heard) + 1)..beats /\ Len(heard) <= beats
    BY <1>2 DEF Heartbeats
  <2>2. (Len(heard) + 1)..(beats + 1) = ((Len(heard) + 1)..beats) \cup {beats + 1}
    BY <1>2, <1>3, <2>1
  <2> QED
    BY <1>1, <1>7, <2>1, <2>2
<1>11. \A k \in Keys(up'), l \in Keys(down') : k < l
  <2> SUFFICES ASSUME NEW k \in Keys(up), NEW l \in Keys(down) \cup {beats + 1} PROVE k < l
    BY <1>1, <1>7
  <2>1. k \in (Len(heard) + 1)..beats
    BY <1>6
  <2>2. l \in Keys(down) => k < l
    BY <1>2 DEF Heartbeats
  <2> QED
    BY <1>2, <1>3, <2>1, <2>2
<1> QED
  BY <1>1, <1>2, <1>3, <1>9, <1>10, <1>11 DEF Heartbeats

(* taken and answered,                                                     *)
LEMMA BeatTaken ==
  ASSUME IInv, admitted, HandleHeartbeat, UNCHANGED facade
  PROVE  Heartbeats'
<1>1. /\ Receive("HEARTBEAT", state)
      /\ up' = Append(up, Heartbeat("ACCEPTED", Head(down).key))
      /\ UNCHANGED <<beats, heard>>
  BY DEF HandleHeartbeat, Send, facade
<1>2. /\ down # <<>> /\ down' = Tail(down) /\ Head(down) \in Messages
      /\ Head(down).command = "HEARTBEAT"
  BY <1>1, TakeDown DEF IInv
<1>3. up \in Seq(Messages) /\ down \in Seq(Messages) /\ Heartbeats
  BY DEF IInv, Admitted, TypeOK, DeviceTypeOK
<1> DEFINE k == Head(down).key
           m == Heartbeat("ACCEPTED", k)
<1>4. k \in 0..MaxBeats
  BY <1>2, Kinds
<1>5. m \in Messages /\ m.command = "HEARTBEAT" /\ m.key = k
  BY <1>4, HeartbeatType
<1>6. up' = Append(up, m)
  BY <1>1
<1> HIDE DEF m
<1>7. /\ Keys(down) = Keys(down') \cup {k} /\ GoingUp(down')
      /\ \A l \in Keys(down') : k < l
  BY <1>2, <1>3, TakeKeys DEF Heartbeats
<1>8. Keys(up') = Keys(up) \cup {k}
  BY <1>3, <1>5, <1>6, PutKeys
<1>9. \A l \in Keys(up) : l < m.key
  BY <1>3, <1>5, <1>7 DEF Heartbeats
<1>10. GoingUp(up')
  BY <1>3, <1>5, <1>6, <1>9, PutKeys DEF Heartbeats
<1> HIDE DEF k
<1>11. \A a \in Keys(up'), b \in Keys(down') : a < b
  BY <1>3, <1>7, <1>8 DEF Heartbeats
<1> QED
  BY <1>1, <1>3, <1>7, <1>8, <1>10, <1>11 DEF Heartbeats

(* and its answer heard: it is the next.                                   *)
LEMMA BeatHeard ==
  ASSUME IInv, BeatAnswered
  PROVE  Heartbeats'
<1>1. /\ Take("HEARTBEAT", "ACCEPTED") /\ heard' = Append(heard, Head(up).key)
      /\ UNCHANGED <<down, beats>>
  BY DEF BeatAnswered
<1>2. /\ admitted /\ up # <<>> /\ up' = Tail(up) /\ Head(up).command = "HEARTBEAT"
  BY <1>1, TakeUp, TakenWhenAdmitted DEF IInv
<1>3. /\ up \in Seq(Messages) /\ Heartbeats /\ beats \in Nat
      /\ heard \in Seq(1..MaxBeats)
  BY <1>2, BoundsAssumption DEF IInv, Admitted, TypeOK, DeviceTypeOK
<1> DEFINE k == Head(up).key
           n == Len(heard)
<1>4. n \in Nat
  BY <1>3, LenProperties
<1>5. /\ Keys(up) = Keys(up') \cup {k} /\ GoingUp(up')
      /\ \A l \in Keys(up') : k < l
  BY <1>2, <1>3, TakeKeys DEF Heartbeats
<1>6. heard' = Append(heard, k)
  BY <1>1
<1> HIDE DEF k
<1>7. \A l \in Keys(down) : k < l
  BY <1>3, <1>5 DEF Heartbeats
<1>8. Keys(up) \cup Keys(down) = (n + 1)..beats
  BY <1>3 DEF Heartbeats
<1> HIDE DEF n
<1>9. k \in (n + 1)..beats /\ k \in Nat
  <2>1. k \in Keys(up)
    BY <1>5
  <2>2. k \in (n + 1)..beats
    BY <1>8, <2>1
  <2> QED
    BY <1>3, <1>4, <2>2
<1>10. k = n + 1
  <2>1. n + 1 \in Keys(up') \cup {k} \cup Keys(down)
    BY <1>3, <1>4, <1>5, <1>8, <1>9
  <2>2. n + 1 = k \/ k < n + 1
    BY <1>5, <1>7, <2>1
  <2> QED
    BY <1>3, <1>4, <1>9, <2>2
<1>11. Keys(up') \cup Keys(down') = (n + 2)..beats
  <2>1. \A l \in Keys(up') \cup Keys(down) : l # k /\ l \in (n + 1)..beats
    BY <1>5, <1>7, <1>8, <1>9
  <2>2. (n + 1)..beats = {k} \cup ((n + 2)..beats) /\ k \notin (n + 2)..beats
    BY <1>3, <1>4, <1>9, <1>10
  <2> QED
    BY <1>1, <1>5, <1>8, <2>1, <2>2
<1>12. heard = [i \in 1..n |-> i]
  BY <1>3 DEF Heartbeats, n
<1>13. heard' = [i \in 1..(n + 1) |-> i] /\ Len(heard') = n + 1
  <2>1. k \in 1..MaxBeats
    BY <1>3, <1>4, <1>9, BoundsAssumption DEF IInv, TypeOK
  <2>2. /\ heard' \in Seq(1..MaxBeats) /\ Len(heard') = n + 1
        /\ \A i \in 1..n : heard'[i] = heard[i]
        /\ heard'[n + 1] = k
    BY <1>3, <1>6, <2>1, AppendProperties DEF n
  <2>3. heard' = [i \in 1..Len(heard') |-> heard'[i]]
    BY <2>2, LenProperties
  <2>4. \A i \in 1..(n + 1) : heard'[i] = i
    BY <1>4, <1>10, <1>12, <2>2
  <2> QED
    BY <2>2, <2>3, <2>4
<1>14. n + 1 <= beats /\ (n + 1) + 1 = n + 2
  BY <1>3, <1>4, <1>9, <1>10
<1> QED
  BY <1>1, <1>3, <1>5, <1>11, <1>13, <1>14 DEF Heartbeats

-----------------------------------------------------------------------------
(* A device that is admitted finds everything as it should be.             *)
LEMMA JustAdmitted ==
  ASSUME IInv, AnswerSetup, admitted'
  PROVE  Admitted'
<1>1. /\ Take("SETUP", "NONE") /\ UNCHANGED records /\ beats' = 0 /\ heard' = <<>>
      /\ SendDown(Message("SETUP", IF admitted' THEN "ACCEPTED" ELSE "REJECTED", {}))
  BY DEF AnswerSetup
<1>2. /\ ~admitted /\ state = "Connecting" /\ UNCHANGED state /\ down = <<>> /\ up' = <<>>
  BY <1>1, SetupComesFirst, TakeUp DEF IInv
<1>3. /\ operation' = "none" /\ pending' = <<>> /\ attached' = {} /\ releasing' = {}
  BY <1>1, <1>2 DEF records, IInv, Call
<1> DEFINE m == Message("SETUP", "ACCEPTED", {})
<1>4. m \in Messages /\ m.command = "SETUP"
  BY MessageType DEF Commands
<1> HIDE DEF m
<1>5. down' = <<m>>
  BY <1>1, <1>2 DEF SendDown, m
<1>6. /\ m \notin InOperation /\ m \notin Ends /\ m \notin Attaches /\ m \notin Releases
  BY <1>4, Kinds DEF InOperation, Ends, Attaches, Releases
<1>7. /\ ToSet(up') = {} /\ ToSet(down') = {m} /\ DOMAIN up' = {} /\ DOMAIN down' = {1}
      /\ down'[1] = m
  BY <1>2, <1>5 DEF ToSet
<1>8. /\ ~Has(up', Ends) /\ ~Has(up', Attaches) /\ ~Has(up', Releases) /\ ~Has(up', InOperation)
      /\ Named(up', Releases) = {}
  BY <1>7 DEF Has, Named
<1>9. /\ ~Has(down', Ends) /\ ~Has(down', Attaches) /\ ~Has(down', Releases)
      /\ ~Has(down', InOperation) /\ Named(down', Releases) = {}
  BY <1>6, <1>7 DEF Has, Named
<1>10. Order'
  <2>1. After(up', Ends, Outside)
    BY <1>7 DEF After
  <2>2. After(down', Ends, Outside)
    BY <1>6, <1>7 DEF After
  <2> QED
    BY <1>3, <1>8, <1>9, <2>1, <2>2 DEF Order
<1>11. ReleasedOnce'
  <2>1. Apart(up', Releases)
    BY <1>7 DEF Apart
  <2>2. Apart(down', Releases)
    BY <1>6, <1>7 DEF Apart
  <2> QED
    BY <1>3, <1>6, <1>7, <1>8, <1>9, <2>1, <2>2 DEF ReleasedOnce
<1>12. AttachedOnce'
  <2>1. Matches(up', <<>>, 0, 0) /\ Matches(down', <<>>, 0, 0)
    BY <1>8, <1>9, MatchNone
  <2>2. DOMAIN pending' = {} /\ Len(pending') = 0 /\ 0 \in 0..0
    BY <1>3
  <2> QED
    BY <1>3, <2>1, <2>2 DEF AttachedOnce
<1>13. Following'
  BY <1>2, <1>3, <1>8 DEF Following
<1>14. Heartbeats'
  <2>1. Beats(up') = {} /\ Beats(down') = {}
    BY <1>4, <1>7 DEF Beats
  <2>2. Keys(up') = {} /\ Keys(down') = {} /\ GoingUp(up') /\ GoingUp(down')
    BY <2>1 DEF Keys, GoingUp
  <2>3. /\ Len(heard') = 0 /\ heard' = [i \in 1..0 |-> i] /\ (0 + 1)..0 = {} /\ 0 <= 0
    BY <1>1
  <2> QED
    BY <1>1, <2>2, <2>3 DEF Heartbeats
<1> QED
  BY <1>10, <1>11, <1>12, <1>13, <1>14 DEF Admitted

(* Every step of the device and its user keeps what holds while it is      *)
(* admitted,                                                               *)
LEMMA DeviceAdmitted ==
  ASSUME IInv, DeviceStep, UNCHANGED facade, admitted
  PROVE  Admitted'
<1>0. TypeOK /\ Call /\ up \in Seq(Messages) /\ down \in Seq(Messages) /\ Admitted /\ linked
  BY DEF IInv, TypeOK, DeviceTypeOK, Call
<1>1. state # "Disconnected" /\ state # "Disconnecting"
  BY <1>0 DEF Call
<1>2. UNCHANGED <<records, beats, heard, operation, pending, attached, releasing>>
  BY DEF facade, records
<1>3. ASSUME UNCHANGED up \/ \E m \in Messages \ InOperation : up' = Append(up, m),
             UNCHANGED down
               \/ (down # <<>> /\ Head(down) \notin InOperation /\ down' = Tail(down))
      PROVE  Quiet(up, up', InOperation) /\ Quiet(down, down', InOperation)
  BY <1>3 DEF Quiet
<1>4. ASSUME UNCHANGED up \/ \E m \in Messages \ Of({"HEARTBEAT"}) : up' = Append(up, m),
             UNCHANGED down
               \/ (down # <<>> /\ Head(down) \notin Of({"HEARTBEAT"}) /\ down' = Tail(down))
      PROVE  Heartbeats'
  <2>1. Quiet(up, up', Of({"HEARTBEAT"})) /\ Quiet(down, down', Of({"HEARTBEAT"}))
    BY <1>4 DEF Quiet
  <2> QED
    BY <1>2, <2>1, KeepHeartbeats
<1>5. CASE AttachFails \/ Attach \/ Disconnect \/ DisconnectFails
  BY <1>1, <1>5 DEF AttachFails, Attach, Disconnect, DisconnectFails, Go
<1>6. CASE Setup
  <2>1. /\ state = "Connecting" /\ down # <<>> /\ down' = Tail(down) /\ UNCHANGED <<up, open, live>>
        /\ Head(down).command = "SETUP" /\ Head(down) \in Messages
        /\ state' \in {"Ready", "Disconnecting"}
    BY <1>0, <1>6, TakeDown DEF Setup, channels
  <2>2. Head(down) \notin InOperation /\ Head(down) \notin Of({"HEARTBEAT"})
    BY <2>1, Kinds DEF InOperation
  <2>3. Quiet(up, up', InOperation) /\ Quiet(down, down', InOperation)
    BY <1>3, <2>1, <2>2
  <2>4. Order' /\ ReleasedOnce' /\ AttachedOnce' /\ Following'
    BY <1>2, <2>1, <2>3, KeepOperation
  <2>5. Heartbeats'
    BY <1>4, <2>1, <2>2
  <2> QED
    BY <2>4, <2>5 DEF Admitted
<1>7. CASE Release
  <2> DEFINE m == Message("RELEASE", "NONE", {})
  <2>1. /\ state' = "Releasing" /\ UNCHANGED <<down, open, live>> /\ up' = Append(up, m)
    BY <1>7 DEF Release, Go, Send, channels
  <2> HIDE DEF m
  <2>2. m \in Messages /\ m \notin InOperation /\ m \notin Of({"HEARTBEAT"})
    <3>1. m \in Messages /\ m.command = "RELEASE"
      BY MessageType DEF Commands, m
    <3> QED
      BY <3>1, Kinds DEF InOperation
  <2>3. Quiet(up, up', InOperation) /\ Quiet(down, down', InOperation)
    BY <1>3, <2>1, <2>2
  <2>4. Order' /\ ReleasedOnce' /\ AttachedOnce' /\ Following'
    BY <1>2, <2>1, <2>3, KeepOperation
  <2>5. Heartbeats'
    BY <1>4, <2>1, <2>2
  <2> QED
    BY <2>4, <2>5 DEF Admitted
<1>8. CASE ChannelsAttached
  <2>1. PICK s \in {"Ready", "Flying"} :
          /\ Receive("ATTACH_CHANNELS", s)
          /\ \/ \E validated \in SUBSET Channels :
                  up' = Append(up, Message("ATTACH_CHANNELS", "ACCEPTED", validated))
             \/ up' = up
    BY <1>8, AttachingStep
  <2>2. Quiet(down, down', Of({"HEARTBEAT"}))
    BY <2>1, QuietReceive
  <2>3. \A validated \in SUBSET Channels :
          Message("ATTACH_CHANNELS", "ACCEPTED", validated) \in Messages \ Of({"HEARTBEAT"})
    BY Answers DEF Commands
  <2>4. Quiet(up, up', Of({"HEARTBEAT"}))
    BY <2>1, <2>3 DEF Quiet
  <2>5. Heartbeats'
    BY <1>2, <2>2, <2>4, KeepHeartbeats
  <2> QED
    BY <1>8, <2>5, OperationAttaches DEF Admitted
<1>9. CASE ChannelsReleased
  <2>1. /\ Receive("RELEASE_CHANNELS", "Flying")
        /\ up' = Append(up, Message("RELEASE_CHANNELS", "ACCEPTED", Head(down).ids))
    BY <1>9 DEF ChannelsReleased, Send
  <2>2. Quiet(down, down', Of({"HEARTBEAT"}))
    BY <2>1, QuietReceive
  <2>3. Head(down).ids \in SUBSET Channels
    BY <1>0, <2>1, TakeDown
  <2>4. Message("RELEASE_CHANNELS", "ACCEPTED", Head(down).ids) \in Messages \ Of({"HEARTBEAT"})
    BY <2>3, Answers DEF Commands
  <2>5. Heartbeats'
    BY <1>2, <2>1, <2>2, <2>4, KeepHeartbeats DEF Quiet
  <2> QED
    BY <1>9, <2>5, OperationReleases DEF Admitted
<1>10. CASE OperationEnded
  <2>1. /\ Receive("OPERATION_ENDED", "Flying")
        /\ up' = Append(up, Message("OPERATION_ENDED", "ACCEPTED", {}))
    BY <1>10 DEF OperationEnded, Send
  <2>2. Quiet(down, down', Of({"HEARTBEAT"}))
    BY <2>1, QuietReceive
  <2>3. Message("OPERATION_ENDED", "ACCEPTED", {}) \in Messages \ Of({"HEARTBEAT"})
    BY Answers DEF Commands
  <2>4. Heartbeats'
    BY <1>2, <2>1, <2>2, <2>3, KeepHeartbeats DEF Quiet
  <2> QED
    BY <1>10, <2>4, OperationEnds DEF Admitted
<1>11. CASE Released
  <2>1. /\ state = "Releasing" /\ down # <<>>
        /\ Head(down).command = "RELEASE" /\ Head(down).response = "ACCEPTED"
    BY <1>0, <1>11, TakeDown DEF Released
  <2>2. Head(down) \in ToSet(down)
    BY <1>0, <2>1, TakeElements
  <2> QED
    BY <1>0, <2>1, <2>2 DEF Call
<1>12. CASE HandleHeartbeat
  <2>1. /\ Receive("HEARTBEAT", state) /\ UNCHANGED <<state, open, live>>
        /\ up' = Append(up, Heartbeat("ACCEPTED", Head(down).key))
    BY <1>12 DEF HandleHeartbeat, Send, channels
  <2>2. Head(down).key \in 0..MaxBeats
    BY <1>0, <2>1, TakeDown, Kinds
  <2>3. Heartbeat("ACCEPTED", Head(down).key) \in Messages \ InOperation
    BY <2>2, BeatAnswers DEF InOperation
  <2>4. Quiet(down, down', InOperation)
    BY <2>1, QuietReceive DEF InOperation
  <2>5. Quiet(up, up', InOperation)
    BY <2>1, <2>3 DEF Quiet
  <2>6. Order' /\ ReleasedOnce' /\ AttachedOnce' /\ Following'
    BY <1>2, <2>1, <2>4, <2>5, KeepOperation
  <2> QED
    BY <1>12, <2>6, BeatTaken DEF Admitted
<1>13. CASE Drop
  <2>1. PICK command \in Commands \ {"HEARTBEAT"} :
          Receive(command, state) /\ UNCHANGED <<state, open, live, up>>
    BY <1>13 DEF Drop, channels
  <2>2. state = "Releasing"
    BY <1>13, DropsInReleasing
  <2>3. Quiet(down, down', Of({"HEARTBEAT"})) /\ Quiet(up, up', Of({"HEARTBEAT"}))
    BY <2>1, QuietReceive DEF Quiet
  <2>4. Heartbeats'
    BY <1>2, <2>3, KeepHeartbeats
  <2>5. down # <<>> /\ down' = Tail(down)
    BY <1>0, <2>1, TakeDown
  <2>6. /\ Has(down', Ends) => Has(down, Ends)
        /\ Has(down', InOperation) => Has(down, InOperation)
        /\ Named(down', Releases) \subseteq Named(down, Releases)
        /\ ToSet(down') \subseteq ToSet(down)
    BY <1>0, <2>5, TakeNamed
  <2>7. After(down', Ends, Outside)
    BY <1>0, <2>5, TakeAfter DEF Admitted, Order
  <2>8. Order'
    BY <1>0, <1>2, <2>1, <2>6, <2>7 DEF Admitted, Order
  <2>9. Apart(down', Releases)
    BY <1>0, <2>5, TakeApart DEF Admitted, ReleasedOnce
  <2>10. ReleasedOnce'
    BY <1>0, <1>2, <2>1, <2>6, <2>9 DEF Admitted, ReleasedOnce
  <2>11. ~Attending'
    BY <2>1, <2>2 DEF Attending
  <2>12. AttachedOnce'
    BY <1>0, <1>2, <2>1, <2>11 DEF Admitted, AttachedOnce
  <2>13. Following'
    BY <2>1, <2>2 DEF Following
  <2> QED
    BY <2>4, <2>8, <2>10, <2>12, <2>13 DEF Admitted
<1> QED
  BY <1>5, <1>6, <1>7, <1>8, <1>9, <1>10, <1>11, <1>12, <1>13
     DEF DeviceStep, UserStep, ReceiveStep

(* and so does every step of the facade, unless it ends the call.          *)
LEMMA FacadeAdmitted ==
  ASSUME IInv, FacadeAnswer \/ FacadeInitiative, admitted'
  PROVE  Admitted'
<1>0. TypeOK /\ Call /\ up \in Seq(Messages) /\ down \in Seq(Messages)
  BY DEF IInv, TypeOK, DeviceTypeOK
<1>1. CASE AnswerSetup
  BY <1>1, JustAdmitted
<1>2. CASE AnswerRelease
  <2>1. /\ Take("RELEASE", "NONE") /\ SendDown(Message("RELEASE", "REJECTED", {}))
        /\ UNCHANGED <<records, beats, heard>>
    BY <1>2 DEF AnswerRelease
  <2>2. /\ admitted /\ up # <<>> /\ up' = Tail(up) /\ Head(up) \in Messages
        /\ Head(up).command = "RELEASE" /\ UNCHANGED <<state, open, live>>
    BY <1>0, <2>1, ReleaseComesLast, TakeUp
  <2> DEFINE m == Message("RELEASE", "REJECTED", {})
  <2>3. down' = Append(down, m)
    BY <2>1 DEF SendDown
  <2>4. m \in Messages /\ m.command = "RELEASE"
    BY MessageType DEF Commands
  <2> HIDE DEF m
  <2>5. /\ m \notin InOperation /\ m \notin Of({"HEARTBEAT"})
        /\ Head(up) \notin InOperation /\ Head(up) \notin Of({"HEARTBEAT"})
    BY <2>2, <2>4, Kinds DEF InOperation
  <2>6. /\ Quiet(up, up', InOperation) /\ Quiet(down, down', InOperation)
        /\ Quiet(up, up', Of({"HEARTBEAT"})) /\ Quiet(down, down', Of({"HEARTBEAT"}))
    BY <2>2, <2>3, <2>4, <2>5 DEF Quiet
  <2>7. Order' /\ ReleasedOnce' /\ AttachedOnce' /\ Following'
    BY <2>1, <2>2, <2>6, KeepOperation
  <2>8. Heartbeats'
    BY <2>1, <2>2, <2>6, KeepHeartbeats
  <2> QED
    BY <2>7, <2>8 DEF Admitted
<1>3. ASSUME NEW command, Take(command, "ACCEPTED"), command # "HEARTBEAT",
             command # "SETUP", UNCHANGED <<down, beats, heard>>
      PROVE  Heartbeats'
  <2>1. /\ admitted /\ up # <<>> /\ up' = Tail(up) /\ Head(up) \in Messages
        /\ Head(up).command = command
    BY <1>0, <1>3, TakeUp, TakenWhenAdmitted
  <2>2. Quiet(up, up', Of({"HEARTBEAT"})) /\ Quiet(down, down', Of({"HEARTBEAT"}))
    BY <1>3, <2>1, Kinds DEF Quiet
  <2> QED
    BY <1>3, <2>1, <2>2, KeepHeartbeats
<1>4. CASE ChannelsConfirmed
  <2>1. Heartbeats'
    BY <1>3, <1>4 DEF ChannelsConfirmed
  <2> QED
    BY <1>4, <2>1, FacadeKnowsAttached DEF Admitted
<1>5. CASE ReleaseConfirmed
  <2>1. Heartbeats'
    BY <1>3, <1>5 DEF ReleaseConfirmed
  <2> QED
    BY <1>5, <2>1, FacadeKnowsReleased DEF Admitted
<1>6. CASE EndConfirmed
  <2>1. Heartbeats'
    BY <1>3, <1>6 DEF EndConfirmed
  <2> QED
    BY <1>6, <2>1, FacadeKnowsEnded DEF Admitted
<1>7. CASE BeatAnswered
  <2>1. Take("HEARTBEAT", "ACCEPTED") /\ UNCHANGED <<down, records>>
    BY <1>7 DEF BeatAnswered
  <2>2. /\ admitted /\ up # <<>> /\ up' = Tail(up) /\ Head(up) \in Messages
        /\ Head(up).command = "HEARTBEAT" /\ UNCHANGED <<state, open, live>>
    BY <1>0, <2>1, TakeUp, TakenWhenAdmitted
  <2>3. Head(up) \notin InOperation
    BY <2>2, Kinds DEF InOperation
  <2>4. Quiet(up, up', InOperation) /\ Quiet(down, down', InOperation)
    BY <2>1, <2>2, <2>3 DEF Quiet
  <2>5. Order' /\ ReleasedOnce' /\ AttachedOnce' /\ Following'
    BY <2>1, <2>2, <2>4, KeepOperation
  <2> QED
    BY <1>7, <2>5, BeatHeard DEF Admitted
<1>8. ASSUME Initiate, NEW command \in Commands, NEW C \in SUBSET Channels,
             command # "HEARTBEAT", SendDown(Message(command, "NONE", C)),
             UNCHANGED <<beats, heard>>
      PROVE  Heartbeats'
  <2> DEFINE m == Message(command, "NONE", C)
  <2>1. m \in Messages /\ m.command = command
    BY <1>8, MessageType
  <2>2. admitted /\ UNCHANGED up /\ down' = Append(down, m)
    BY <1>8 DEF Initiate, SendDown
  <2> HIDE DEF m
  <2>3. m \notin Of({"HEARTBEAT"})
    BY <1>8, <2>1, Kinds
  <2>4. Quiet(up, up', Of({"HEARTBEAT"})) /\ Quiet(down, down', Of({"HEARTBEAT"}))
    BY <2>1, <2>2, <2>3 DEF Quiet
  <2> QED
    BY <1>8, <2>2, <2>4, KeepHeartbeats
<1>9. ASSUME Initiate, NEW C \in SUBSET Channels, AttachChannelsTo(C),
             operation \in {"none", "running"}, operation' = "running"
      PROVE  Admitted'
  <2>1. Heartbeats'
    BY <1>8, <1>9 DEF AttachChannelsTo, Commands
  <2> QED
    BY <1>9, <2>1, FacadeAttaches DEF Admitted
<1>10. CASE StartOperation
  BY <1>9, <1>10 DEF StartOperation
<1>11. CASE AttachMore
  BY <1>9, <1>11 DEF AttachMore
<1>12. CASE ReleaseSome
  <2>1. PICK C \in SUBSET (attached \ releasing) :
          /\ Initiate /\ SendDown(Message("RELEASE_CHANNELS", "NONE", C))
          /\ UNCHANGED <<beats, heard>>
    BY <1>12 DEF ReleaseSome
  <2>2. C \in SUBSET Channels
    BY <1>0 DEF TypeOK
  <2>3. Heartbeats'
    BY <1>8, <2>1, <2>2 DEF Commands
  <2> QED
    BY <1>12, <2>3, FacadeReleases DEF Admitted
<1>13. CASE EndOperation
  <2>1. Heartbeats'
    BY <1>8, <1>13 DEF EndOperation, Commands
  <2> QED
    BY <1>13, <2>1, FacadeEnds DEF Admitted
<1>14. CASE Beat
  <2>1. /\ admitted /\ UNCHANGED <<up, records, state, open, live>> /\ beats' \in 0..MaxBeats
        /\ down' = Append(down, Heartbeat("NONE", beats'))
    BY <1>0, <1>14, BoundsAssumption DEF Beat, Initiate, SendDown, device, channels, TypeOK
  <2>2. Heartbeat("NONE", beats') \in Messages \ InOperation
    <3>1. /\ Heartbeat("NONE", beats') \in Messages
          /\ Heartbeat("NONE", beats').command = "HEARTBEAT"
      BY <2>1, HeartbeatType
    <3> QED
      BY <3>1, Kinds DEF InOperation
  <2>3. Quiet(up, up', InOperation) /\ Quiet(down, down', InOperation)
    BY <2>1, <2>2 DEF Quiet
  <2>4. Order' /\ ReleasedOnce' /\ AttachedOnce' /\ Following'
    BY <2>1, <2>3, KeepOperation
  <2> QED
    BY <1>14, <2>4, BeatSent DEF Admitted
<1> QED
  BY <1>1, <1>2, <1>4, <1>5, <1>6, <1>7, <1>10, <1>11, <1>12, <1>13, <1>14
     DEF FacadeAnswer, FacadeInitiative

-----------------------------------------------------------------------------
(* The invariant holds at first and is kept by every step.                 *)
LEMMA InitInvariant == Init => IInv
<1> SUFFICES ASSUME Init PROVE IInv
  OBVIOUS
<1>1. TypeOK
  BY InitTyped
<1>2. Call
  BY DEF Init, DeviceInit, Call
<1>3. UserKnowsChannels /\ ~admitted
  BY DEF Init, DeviceInit, UserKnowsChannels
<1> QED
  BY <1>1, <1>2, <1>3 DEF IInv

LEMMA NextInvariant == IInv /\ [Next]_vars => IInv'
<1> SUFFICES ASSUME IInv, [Next]_vars PROVE IInv'
  OBVIOUS
<1>1. CASE DeviceStep /\ UNCHANGED facade
  <2>1. Next
    BY <1>1 DEF DeviceStep, Next
  <2>2. TypeOK'
    BY <1>1, DeviceTyped DEF IInv
  <2>3. admitted' => Admitted'
    BY <1>1, DeviceAdmitted DEF facade
  <2> QED
    BY <1>1, <2>1, <2>2, <2>3, DeviceCall, NextKnows DEF IInv
<1>2. CASE FacadeAnswer \/ FacadeInitiative
  <2>1. Next
    BY <1>2 DEF Next
  <2>2. TypeOK'
    BY <1>2, FacadeTyped DEF IInv
  <2> QED
    BY <1>2, <2>1, <2>2, FacadeCall, NextKnows, FacadeAdmitted DEF IInv
<1>3. CASE UNCHANGED vars
  <2>1. /\ UNCHANGED <<state, open, told, live, attaches, linked, up, down>>
        /\ UNCHANGED <<admitted, operation, pending, attached, releasing>>
        /\ UNCHANGED <<operations, refused, beats, heard>>
    BY <1>3 DEF vars, device, channels, stream, facade, records
  <2>2. TypeOK' /\ UserKnowsChannels'
    BY <2>1 DEF IInv, TypeOK, DeviceTypeOK, UserKnowsChannels
  <2>3. Call'
    BY <2>1 DEF IInv, Call
  <2>4. admitted' => /\ Order' /\ ReleasedOnce' /\ AttachedOnce'
                     /\ Following' /\ Heartbeats'
    BY <2>1 DEF IInv, Admitted, Order, ReleasedOnce, AttachedOnce, Attending,
                Following, Heartbeats
  <2> QED
    BY <2>2, <2>3, <2>4 DEF IInv, Admitted
<1> QED
  BY <1>1, <1>2, <1>3 DEF Next, DeviceStep

THEOREM Invariance == Spec => []IInv
BY InitInvariant, NextInvariant, PTL DEF Spec

(* Every variable of the device and of the facade keeps its type: the      *)
(* streams hold messages, and the facade releases only channels that are   *)
(* attached.                                                               *)
THEOREM TypeCorrectness == Spec => []TypeOK
<1>1. IInv => TypeOK
  BY DEF IInv
<1> QED
  BY <1>1, Invariance, PTL

(* However the messages cross, a device that sets up its call, is ready or *)
(* is flying takes up every message it is sent: defaultMessageHandle drops *)
(* one only while the device waits for its release.                        *)
DropsOnlyInReleasing == [][Drop => state = "Releasing"]_vars

THEOREM NothingElseDropped == Spec => DropsOnlyInReleasing
<1>1. IInv /\ [Next]_vars => [Drop => state = "Releasing"]_vars
  BY DropsInReleasing
<1> QED
  BY <1>1, Invariance, PTL DEF Spec, DropsOnlyInReleasing

(* The listener of the device knows every open channel and none that is    *)
(* gone, and a device that is not flying has none.                         *)
THEOREM UserKnows == Spec => []UserKnowsChannels
<1>1. IInv => UserKnowsChannels
  BY DEF IInv
<1> QED
  BY <1>1, Invariance, PTL

(* releaseChannels finds every channel that it looks up.                   *)
THEOREM ChannelsAreThere == Spec => []NoMissingChannel
<1>1. IInv => NoMissingChannel
  <2> SUFFICES ASSUME IInv, live, state = "Flying", down # <<>>,
                      Head(down).command = "RELEASE_CHANNELS"
               PROVE  Head(down).ids \subseteq open
    BY DEF NoMissingChannel
  <2>1. admitted /\ down \in Seq(Messages) /\ releasing \subseteq attached
    BY DEF IInv, Call, TypeOK, DeviceTypeOK
  <2>2. Head(down) \in Releases
    <3>1. Head(down) \in Messages
      BY <2>1, TakeNamed
    <3> QED
      BY <3>1, Kinds DEF Releases
  <2>3. Head(down).ids \subseteq Named(down, Releases)
    BY <2>1, <2>2, TakeNamed
  <2>4. /\ Head(down).ids \subseteq releasing
        /\ Head(down).ids \cap Named(up, Releases) = {}
    BY <2>1, <2>3 DEF IInv, Admitted, ReleasedOnce
  <2>5. open = (attached \cup Named(up, Attaches)) \ Named(up, Releases)
    BY <2>1 DEF IInv, Admitted, Following
  <2> QED
    BY <2>1, <2>4, <2>5
<1> QED
  BY <1>1, Invariance, PTL

(* When nothing is on its way, the device and the facade agree on the      *)
(* channels and on whether an operation is running.                        *)
THEOREM Agrees == Spec => []Agreement
<1>1. IInv => Agreement
  <2> SUFFICES ASSUME IInv, live, state \in {"Ready", "Flying"}, up = <<>>, down = <<>>
               PROVE  open = attached /\ (state = "Flying" <=> operation = "running")
    BY DEF Agreement
  <2>1. admitted /\ operation \in {"none", "running", "ending"}
    BY DEF IInv, Call, TypeOK
  <2>2. /\ ~Has(up, Ends) /\ ~Has(down, Ends) /\ ~Has(down, Attaches)
        /\ Named(up, Attaches) = {} /\ Named(up, Releases) = {}
    BY NoElements DEF Has, Named
  <2>3. Following
    BY <2>1 DEF IInv, Admitted
  <2>4. CASE state = "Ready"
    <3>1. attached = {} /\ operation = "none"
      BY <2>2, <2>3, <2>4 DEF Following
    <3>2. open = {}
      BY <2>4 DEF IInv, UserKnowsChannels
    <3> QED
      BY <2>4, <3>1, <3>2
  <2>5. CASE state = "Flying"
    <3>1. /\ operation # "none" /\ operation # "ending"
          /\ open = (attached \cup Named(up, Attaches)) \ Named(up, Releases)
      BY <2>2, <2>3, <2>5 DEF Following
    <3> QED
      BY <2>1, <2>2, <2>5, <3>1
  <2> QED
    BY <2>4, <2>5
<1> QED
  BY <1>1, Invariance, PTL

(* The heartbeats in two sequences, one after the other.                   *)
LEMMA JoinKeys ==
  ASSUME NEW q \in Seq(Messages), NEW r \in Seq(Messages), GoingUp(q), GoingUp(r),
         \A k \in Keys(q), l \in Keys(r) : k < l
  PROVE  Keys(q \o r) = Keys(q) \cup Keys(r) /\ GoingUp(q \o r)
<1> DEFINE s == q \o r
           n == Len(q)
<1>1. /\ n \in Nat /\ DOMAIN q = 1..n /\ Len(r) \in Nat /\ DOMAIN r = 1..Len(r)
      /\ DOMAIN s = 1..(n + Len(r))
      /\ \A i \in 1..(n + Len(r)) : s[i] = IF i <= n THEN q[i] ELSE r[i - n]
  <2>1. s \in Seq(Messages) /\ Len(s) = n + Len(r)
    BY ConcatProperties
  <2>2. n \in Nat /\ DOMAIN q = 1..n /\ Len(r) \in Nat /\ DOMAIN r = 1..Len(r)
    BY LenProperties
  <2>3. DOMAIN s = 1..(n + Len(r))
    BY <2>1, LenProperties
  <2> QED
    BY <2>2, <2>3, ConcatProperties
<1> HIDE DEF s, n
<1>2. \A i \in DOMAIN q : i \in DOMAIN s /\ s[i] = q[i]
  BY <1>1
<1>3. \A i \in DOMAIN r : i + n \in DOMAIN s /\ s[i + n] = r[i]
  <2> SUFFICES ASSUME NEW i \in DOMAIN r PROVE i + n \in DOMAIN s /\ s[i + n] = r[i]
    OBVIOUS
  <2>1. i \in 1..Len(r) /\ i + n \in 1..(n + Len(r)) /\ ~(i + n <= n) /\ (i + n) - n = i
    BY <1>1
  <2> QED
    BY <1>1, <2>1
<1>4. \A i \in Beats(s) : \/ i \in Beats(q) /\ s[i] = q[i] /\ i <= n
                          \/ i - n \in Beats(r) /\ s[i] = r[i - n] /\ i > n
  <2> SUFFICES ASSUME NEW i \in Beats(s)
               PROVE  \/ i \in Beats(q) /\ s[i] = q[i] /\ i <= n
                      \/ i - n \in Beats(r) /\ s[i] = r[i - n] /\ i > n
    OBVIOUS
  <2>1. i \in 1..(n + Len(r)) /\ s[i].command = "HEARTBEAT"
    BY <1>1 DEF Beats
  <2>2. CASE i <= n
    BY <1>1, <2>1, <2>2 DEF Beats
  <2>3. CASE ~(i <= n)
    <3>1. i - n \in 1..Len(r) /\ i > n
      BY <1>1, <2>1, <2>3
    <3>2. s[i] = r[i - n]
      BY <1>1, <2>1, <2>3
    <3> QED
      BY <1>1, <2>1, <3>1, <3>2 DEF Beats
  <2> QED
    BY <2>2, <2>3
<1>5. Keys(s) \subseteq Keys(q) \cup Keys(r)
  BY <1>4 DEF Keys
<1>6. Keys(q) \subseteq Keys(s)
  BY <1>2 DEF Keys, Beats
<1>7. Keys(r) \subseteq Keys(s)
  BY <1>3 DEF Keys, Beats
<1>8. ASSUME NEW i \in Beats(s), NEW j \in Beats(s), i < j PROVE s[i].key < s[j].key
  <2>0. i \in Nat /\ j \in Nat
    BY <1>1 DEF Beats
  <2>1. CASE j <= n
    <3>1. i <= n
      BY <1>1, <1>8, <2>0, <2>1
    <3>2. i \in Beats(q) /\ j \in Beats(q) /\ s[i] = q[i] /\ s[j] = q[j]
      BY <1>1, <1>4, <1>8, <2>0, <2>1, <3>1
    <3> QED
      BY <1>8, <3>2 DEF GoingUp
  <2>2. CASE i <= n /\ j > n
    <3>1. i \in Beats(q) /\ j - n \in Beats(r) /\ s[i] = q[i] /\ s[j] = r[j - n]
      BY <1>1, <1>4, <1>8, <2>0, <2>2
    <3>2. q[i].key \in Keys(q) /\ r[j - n].key \in Keys(r)
      BY <3>1 DEF Keys
    <3> QED
      BY <3>1, <3>2
  <2>3. CASE i > n
    <3>1. j > n /\ i - n < j - n
      BY <1>1, <1>8, <2>0, <2>3
    <3>2. i - n \in Beats(r) /\ j - n \in Beats(r) /\ s[i] = r[i - n] /\ s[j] = r[j - n]
      BY <1>1, <1>4, <1>8, <2>0, <2>3, <3>1
    <3> QED
      BY <3>1, <3>2 DEF GoingUp
  <2> QED
    BY <1>1, <2>0, <2>1, <2>2, <2>3
<1> QED
  BY <1>5, <1>6, <1>7, <1>8 DEF s, GoingUp

(* Every heartbeat is answered once and in order: those heard and those on *)
(* their way, back or forth, are all that were sent.                       *)
THEOREM BeatsAnswered == Spec => []HeartbeatsAnswered
<1>1. IInv => HeartbeatsAnswered
  <2> SUFFICES ASSUME IInv, admitted PROVE HeartbeatsAnswered
    BY DEF HeartbeatsAnswered
  <2>1. up \in Seq(Messages) /\ down \in Seq(Messages) /\ Heartbeats
    BY DEF IInv, TypeOK, DeviceTypeOK, Admitted
  <2>2. Keys(up \o down) = Keys(up) \cup Keys(down) /\ GoingUp(up \o down)
    BY <2>1, JoinKeys DEF Heartbeats
  <2>3. Keys(up \o down) = (Len(heard) + 1)..beats
    BY <2>1, <2>2 DEF Heartbeats
  <2> QED
    BY <2>1, <2>2, <2>3 DEF HeartbeatsAnswered, Heartbeats, Keys, GoingUp
<1> QED
  BY <1>1, Invariance, PTL
====
