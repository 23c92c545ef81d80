------------------------------- MODULE Queues -------------------------------
(***************************************************************************)
(* What the proofs about clients say of the messages on their way: which   *)
(* there are, what may follow what, and which of them are fresh.           *)
(***************************************************************************)
EXTENDS Naturals, Sequences, SequencesExt, SequenceTheorems, TLAPS

(* A message of K is followed by messages of L only.                       *)
After(q, K, L) == \A i, j \in DOMAIN q : i < j /\ q[i] \in K => q[j] \in L

(* The places of the messages of K that no message of F follows.           *)
Fresh(q, K, F) == {i \in DOMAIN q : q[i] \in K /\ \A j \in DOMAIN q : i < j => q[j] \notin F}

AtMostOne(S) == \A i, j \in S : i = j

(* What is in a sequence after an element is appended.                     *)
LEMMA PutElements ==
  ASSUME NEW S, NEW q \in Seq(S), NEW m \in S
  PROVE  /\ Append(q, m) \in Seq(S)
         /\ ToSet(Append(q, m)) = ToSet(q) \cup {m}
         /\ Append(q, m) # <<>>
<1> DEFINE r == Append(q, m)
<1>1. /\ r \in Seq(S) /\ r # <<>> /\ Len(r) = Len(q) + 1
      /\ \A i \in 1..Len(q) : r[i] = q[i]
      /\ r[Len(q) + 1] = m
  BY AppendProperties
<1>2. Len(q) \in Nat /\ DOMAIN q = 1..Len(q) /\ DOMAIN r = 1..Len(r)
  BY <1>1, LenProperties
<1> HIDE DEF r
<1>3. DOMAIN r = DOMAIN q \cup {Len(q) + 1}
  BY <1>1, <1>2
<1>4. ToSet(r) = ToSet(q) \cup {m}
  BY <1>1, <1>2, <1>3 DEF ToSet
<1> QED
  BY <1>1, <1>4 DEF r

(* What is in a sequence, and in what is left when its head is taken.      *)
LEMMA TakeElements ==
  ASSUME NEW S, NEW q \in Seq(S), q # <<>>
  PROVE  /\ Tail(q) \in Seq(S) /\ Head(q) \in S
         /\ ToSet(q) = {Head(q)} \cup ToSet(Tail(q))
         /\ Head(q) = q[1] /\ 1 \in DOMAIN q
         /\ \A i \in DOMAIN Tail(q) : /\ i \in Nat /\ i > 0 /\ i + 1 \in DOMAIN q
                                      /\ Tail(q)[i] = q[i + 1]
<1> DEFINE r == Tail(q)
<1>1. /\ r \in Seq(S) /\ Head(q) \in S /\ Len(r) = Len(q) - 1
      /\ \A i \in 1..Len(r) : r[i] = q[i + 1]
  BY HeadTailProperties
<1>2. Len(q) \in Nat /\ Len(q) > 0 /\ DOMAIN q = 1..Len(q) /\ DOMAIN r = 1..Len(r)
  BY <1>1, LenProperties, EmptySeq
<1>3. Head(q) = q[1]
  OBVIOUS
<1> HIDE DEF r
<1>4. 1 \in DOMAIN q /\ \A i \in DOMAIN r : i \in Nat /\ i > 0 /\ i + 1 \in DOMAIN q
  BY <1>1, <1>2
<1>5. \A i \in DOMAIN q : i = 1 \/ (i - 1 \in DOMAIN r /\ (i - 1) + 1 = i)
  BY <1>1, <1>2
<1>6. ToSet(q) = {Head(q)} \cup ToSet(r)
  <2>1. ASSUME NEW x \in ToSet(q) PROVE x = Head(q) \/ x \in ToSet(r)
    <3>1. PICK i \in DOMAIN q : x = q[i]
      BY <2>1 DEF ToSet
    <3>2. CASE i = 1
      BY <1>3, <3>1, <3>2
    <3>3. CASE i # 1
      <4>1. i - 1 \in DOMAIN r /\ (i - 1) + 1 = i
        BY <1>5, <3>3
      <4>2. r[i - 1] = q[(i - 1) + 1]
        BY <1>1, <1>2, <4>1
      <4> QED
        BY <3>1, <4>1, <4>2 DEF ToSet
    <3> QED
      BY <3>2, <3>3
  <2>2. Head(q) \in ToSet(q)
    BY <1>3, <1>4 DEF ToSet
  <2>3. ASSUME NEW x \in ToSet(r) PROVE x \in ToSet(q)
    <3>1. PICK i \in DOMAIN r : x = r[i]
      BY <2>3 DEF ToSet
    <3>2. i + 1 \in DOMAIN q /\ r[i] = q[i + 1]
      BY <1>1, <1>2, <1>4
    <3> QED
      BY <3>1, <3>2 DEF ToSet
  <2> QED
    BY <2>1, <2>2, <2>3
<1> QED
  BY <1>1, <1>2, <1>3, <1>4, <1>6 DEF r

(* The empty queue.                                                        *)
LEMMA NoElements ==
  ASSUME NEW K, NEW L, NEW F
  PROVE  /\ ToSet(<<>>) = {} /\ After(<<>>, K, L) /\ Fresh(<<>>, K, F) = {}
<1>1. DOMAIN <<>> = {}
  OBVIOUS
<1> QED
  BY <1>1 DEF ToSet, After, Fresh

(* When what may follow what is kept.                                      *)
LEMMA PutAfter ==
  ASSUME NEW S, NEW q \in Seq(S), NEW m \in S, NEW K, NEW L, After(q, K, L),
         ToSet(q) \cap K = {} \/ m \in L
  PROVE  After(Append(q, m), K, L)
<1> DEFINE r == Append(q, m)
<1>1. /\ Len(r) = Len(q) + 1 /\ r \in Seq(S)
      /\ \A i \in 1..Len(q) : r[i] = q[i]
      /\ r[Len(q) + 1] = m
  BY AppendProperties
<1>2. Len(q) \in Nat /\ DOMAIN q = 1..Len(q) /\ DOMAIN r = 1..Len(r)
  BY <1>1, LenProperties
<1> HIDE DEF r
<1>3. ASSUME NEW i \in DOMAIN r, NEW j \in DOMAIN r, i < j, r[i] \in K PROVE r[j] \in L
  <2>1. i \in DOMAIN q /\ r[i] = q[i]
    BY <1>1, <1>2, <1>3
  <2>2. CASE j = Len(q) + 1
    BY <1>1, <1>3, <2>1, <2>2 DEF ToSet
  <2>3. CASE j \in DOMAIN q
    BY <1>1, <1>2, <1>3, <2>1, <2>3 DEF After
  <2> QED
    BY <1>1, <1>2, <2>2, <2>3
<1> QED
  BY <1>3 DEF After, r

LEMMA TakeAfter ==
  ASSUME NEW S, NEW q \in Seq(S), q # <<>>, NEW K, NEW L, After(q, K, L)
  PROVE  /\ After(Tail(q), K, L)
         /\ Head(q) \in K => ToSet(Tail(q)) \subseteq L
<1>1. /\ Head(q) = q[1] /\ 1 \in DOMAIN q
      /\ \A i \in DOMAIN Tail(q) : /\ i \in Nat /\ i > 0 /\ i + 1 \in DOMAIN q
                                   /\ Tail(q)[i] = q[i + 1]
  BY TakeElements
<1> DEFINE r == Tail(q)
<1> HIDE DEF r
<1>2. ASSUME NEW i \in DOMAIN r, NEW j \in DOMAIN r, i < j, r[i] \in K PROVE r[j] \in L
  <2>1. /\ i + 1 \in DOMAIN q /\ j + 1 \in DOMAIN q /\ i + 1 < j + 1
        /\ r[i] = q[i + 1] /\ r[j] = q[j + 1]
    BY <1>1, <1>2 DEF r
  <2> QED
    BY <1>2, <2>1 DEF After
<1>3. ASSUME Head(q) \in K, NEW x \in ToSet(r) PROVE x \in L
  <2>1. PICK i \in DOMAIN r : x = r[i]
    BY <1>3 DEF ToSet
  <2>2. i + 1 \in DOMAIN q /\ 1 < i + 1 /\ r[i] = q[i + 1]
    BY <1>1 DEF r
  <2> QED
    BY <1>1, <1>3, <2>1, <2>2 DEF After
<1> QED
  BY <1>2, <1>3 DEF After, r

(* A message of F makes the others stale, another message adds itself.     *)
LEMMA PutFresh ==
  ASSUME NEW S, NEW q \in Seq(S), NEW m \in S, NEW K, NEW F
  PROVE  /\ m \in F /\ m \notin K => Fresh(Append(q, m), K, F) = {}
         /\ m \notin F /\ m \notin K => Fresh(Append(q, m), K, F) = Fresh(q, K, F)
         /\ m \notin F => Fresh(Append(q, m), K, F) \subseteq Fresh(q, K, F) \cup {Len(q) + 1}
         /\ \A i \in Fresh(q, K, F) : Append(q, m)[i] = q[i]
         /\ Append(q, m)[Len(q) + 1] = m
<1> DEFINE r == Append(q, m)
<1>1. /\ Len(r) = Len(q) + 1 /\ r \in Seq(S)
      /\ \A i \in 1..Len(q) : r[i] = q[i]
      /\ r[Len(q) + 1] = m
  BY AppendProperties
<1>2. Len(q) \in Nat /\ DOMAIN q = 1..Len(q) /\ DOMAIN r = 1..Len(r)
  BY <1>1, LenProperties
<1> HIDE DEF r
<1> DEFINE n == Len(q) + 1
<1>3. /\ DOMAIN r = DOMAIN q \cup {n} /\ n \notin DOMAIN q
      /\ \A i \in DOMAIN q : i < n /\ r[i] = q[i]
      /\ ~(n < n) /\ r[n] = m
      /\ \A i \in DOMAIN q : ~(n < i)
  BY <1>1, <1>2
<1> HIDE DEF n
<1>4. m \in F /\ m \notin K => Fresh(r, K, F) = {}
  BY <1>3 DEF Fresh
<1>5. m \notin F => Fresh(r, K, F) = Fresh(q, K, F) \cup (IF m \in K THEN {n} ELSE {})
  BY <1>3 DEF Fresh
<1> QED
  BY <1>3, <1>4, <1>5 DEF r, n, Fresh

LEMMA TakeFresh ==
  ASSUME NEW S, NEW q \in Seq(S), q # <<>>, NEW K, NEW F
  PROVE  /\ \A i \in Fresh(Tail(q), K, F) : /\ i + 1 \in Fresh(q, K, F)
                                            /\ Tail(q)[i] = q[i + 1]
         /\ AtMostOne(Fresh(q, K, F)) => AtMostOne(Fresh(Tail(q), K, F))
         /\ Fresh(q, K, F) = {} => Fresh(Tail(q), K, F) = {}
         /\ Head(q) \in K /\ ToSet(Tail(q)) \cap F = {}
              => /\ 1 \in Fresh(q, K, F)
                 /\ AtMostOne(Fresh(q, K, F)) => Fresh(Tail(q), K, F) = {}
<1>1. /\ Head(q) = q[1] /\ 1 \in DOMAIN q
      /\ \A i \in DOMAIN Tail(q) : /\ i \in Nat /\ i > 0 /\ i + 1 \in DOMAIN q
                                   /\ Tail(q)[i] = q[i + 1]
  BY TakeElements
<1>2. Tail(q) \in Seq(S) /\ Len(Tail(q)) = Len(q) - 1 /\ Len(q) \in Nat
      /\ DOMAIN q = 1..Len(q) /\ DOMAIN Tail(q) = 1..Len(Tail(q))
  BY HeadTailProperties, LenProperties
<1> DEFINE r == Tail(q)
<1> HIDE DEF r
<1>3. \A j \in DOMAIN q : 1 < j => j - 1 \in DOMAIN r /\ (j - 1) + 1 = j /\ r[j - 1] = q[j]
  <2> SUFFICES ASSUME NEW j \in DOMAIN q, 1 < j
               PROVE  j - 1 \in DOMAIN r /\ (j - 1) + 1 = j /\ r[j - 1] = q[j]
    OBVIOUS
  <2>1. j - 1 \in DOMAIN r /\ (j - 1) + 1 = j
    BY <1>2 DEF r
  <2> QED
    BY <1>1, <2>1 DEF r
<1>4. ASSUME NEW i \in Fresh(r, K, F) PROVE i + 1 \in Fresh(q, K, F) /\ r[i] = q[i + 1]
  <2>1. /\ i \in DOMAIN r /\ i \in Nat /\ i + 1 \in DOMAIN q /\ r[i] = q[i + 1] /\ r[i] \in K
        /\ \A j \in DOMAIN r : i < j => r[j] \notin F
    BY <1>1 DEF Fresh, r
  <2>2. ASSUME NEW j \in DOMAIN q, i + 1 < j PROVE q[j] \notin F
    <3>1. j \in Nat /\ 1 < j /\ i < j - 1
      BY <1>2, <2>1, <2>2
    <3>2. j - 1 \in DOMAIN r /\ r[j - 1] = q[j]
      BY <1>3, <3>1
    <3> QED
      BY <2>1, <3>1, <3>2
  <2> QED
    BY <2>1, <2>2 DEF Fresh
<1>5. ASSUME AtMostOne(Fresh(q, K, F)), NEW i \in Fresh(r, K, F), NEW j \in Fresh(r, K, F)
      PROVE  i = j
  <2>1. i + 1 = j + 1
    BY <1>4, <1>5 DEF AtMostOne
  <2>2. i \in Nat /\ j \in Nat
    BY <1>1 DEF Fresh, r
  <2> QED
    BY <2>1, <2>2
<1>6. ASSUME Head(q) \in K, ToSet(r) \cap F = {} PROVE 1 \in Fresh(q, K, F)
  <2>1. \A j \in DOMAIN q : 1 < j => q[j] \notin F
    BY <1>3, <1>6 DEF ToSet
  <2> QED
    BY <1>1, <1>6, <2>1 DEF Fresh
<1>7. ASSUME Head(q) \in K, ToSet(r) \cap F = {}, AtMostOne(Fresh(q, K, F)),
             NEW i \in Fresh(r, K, F)
      PROVE  FALSE
  <2>1. i + 1 = 1
    BY <1>4, <1>6, <1>7 DEF AtMostOne
  <2>2. i \in Nat /\ i > 0
    BY <1>1 DEF Fresh, r
  <2> QED
    BY <2>1, <2>2
<1>8. AtMostOne(Fresh(q, K, F)) => AtMostOne(Fresh(r, K, F))
  BY <1>5 DEF AtMostOne
<1>9. Fresh(q, K, F) = {} => Fresh(r, K, F) = {}
  BY <1>4
<1> QED
  BY <1>4, <1>6, <1>7, <1>8, <1>9 DEF r
=============================================================================
