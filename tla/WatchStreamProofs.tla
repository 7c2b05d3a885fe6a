-------------------------- MODULE WatchStreamProofs --------------------------
(***************************************************************************)
(* What the operations of WatchStream do to the versions of a stream.      *)
(***************************************************************************)
EXTENDS WatchStream, SequenceTheorems, TLAPS

\* A stream of a type always holds a version, and each one is of the type.
LEMMA StreamVersions ==
    ASSUME NEW V, NEW s \in Seq(V), s # <<>>
    PROVE  /\ Len(s) \in Nat \ {0}
           /\ 1 \in 1..Len(s) /\ Len(s) \in 1..Len(s)
           /\ Cached(s) \in V
           /\ Stored(s) \in V
  <1>1. Len(s) \in Nat \ {0}
    BY EmptySeq
  <1>2. 1 \in 1..Len(s) /\ Len(s) \in 1..Len(s)
    BY <1>1
  <1>. QED
    BY <1>1, <1>2, ElementOfSeq DEF Cached, Stored

\* Storing an object adds at most one version, which becomes the stored one, and
\* does not change what is cached.
LEMMA PutVersions ==
    ASSUME NEW V, NEW s \in Seq(V), s # <<>>, NEW o, NEW v,
           Changed(s, o, v) \in V
    PROVE  LET t == Put(s, o, v) IN
           /\ t \in Seq(V) /\ t # <<>>
           /\ Cached(t) = Cached(s)
           /\ Len(t) >= Len(s)
           /\ \A k \in 1..Len(t) :
                \/ k \in 1..Len(s) /\ t[k] = s[k]
                \/ k = Len(t) /\ t[k] = Stored(t)
  <1>. DEFINE w == Changed(s, o, v)
              t == Append(s, w)
  <1>1. Len(s) \in Nat \ {0} /\ 1 \in 1..Len(s)
    BY StreamVersions
  <1>2. CASE v = Stored(s)[o]
    <2>1. Put(s, o, v) = s
      BY <1>2 DEF Put
    <2>. QED
      BY <1>1, <2>1
  <1>3. CASE v # Stored(s)[o]
    <2>1. Put(s, o, v) = t
      BY <1>3 DEF Put
    <2>2. /\ t \in Seq(V)
          /\ t # <<>>
          /\ Len(t) = Len(s) + 1
          /\ \A k \in 1..Len(s) : t[k] = s[k]
          /\ t[Len(s) + 1] = w
      <3>1. w \in V
        OBVIOUS
      <3>. HIDE DEF w
      <3>. QED
        BY <3>1, AppendProperties
    <2>3. Cached(t) = Cached(s) /\ Stored(t) = w
      BY <2>2, <1>1 DEF Cached, Stored
    <2>4. \A k \in 1..Len(t) : (k \in 1..Len(s) /\ t[k] = s[k]) \/ (k = Len(t) /\ t[k] = w)
      BY <2>2, <1>1
    <2>. HIDE DEF w, t
    <2>. QED
      BY <2>1, <2>2, <2>3, <2>4, <1>1
  <1>. QED
    BY <1>2, <1>3

\* The stored version differs from the one before in the object at most.
LEMMA PutStored ==
    ASSUME NEW V, NEW s \in Seq(V), s # <<>>, NEW D, DOMAIN Stored(s) = D,
           NEW o \in D, NEW v
    PROVE  \A p \in D : Stored(Put(s, o, v))[p] = IF p = o THEN v ELSE Stored(s)[p]
  <1>. DEFINE w == Changed(s, o, v)
  <1>1. \A p \in D : w[p] = IF p = o THEN v ELSE Stored(s)[p]
    BY DEF Changed
  <1>2. CASE v = Stored(s)[o]
    BY <1>2 DEF Put
  <1>3. CASE v # Stored(s)[o]
    <2>. HIDE DEF w
    <2>1. Len(Append(s, w)) = Len(s) + 1 /\ Append(s, w)[Len(s) + 1] = w
      <3>1. \A r : Len(Append(s, r)) = Len(s) + 1 /\ Append(s, r)[Len(s) + 1] = r
        OBVIOUS
      <3>. QED
        BY <3>1
    <2>2. Stored(Put(s, o, v)) = w
      BY <1>3, <2>1 DEF Put, Stored, w
    <2>. QED
      BY <1>1, <2>2
  <1>. QED
    BY <1>2, <1>3

\* The stream grows by at most the change that is stored.
LEMMA PutLength ==
    ASSUME NEW V, NEW s \in Seq(V), NEW o, NEW v
    PROVE  Len(Put(s, o, v)) \in {Len(s), Len(s) + 1}
  <1>1. \A r : Len(Append(s, r)) = Len(s) + 1
    OBVIOUS
  <1>. QED
    BY <1>1 DEF Put

\* A cache that is behind stays so when something is stored, and is behind in what
\* is stored.
LEMMA PutAwaits ==
    ASSUME NEW V, NEW s \in Seq(V), s # <<>>, NEW D, DOMAIN Stored(s) = D,
           NEW o \in D, NEW v
    PROVE  /\ v # Stored(s)[o] => ~Fresh(Put(s, o, v), o)
           /\ \A p \in D : ~Fresh(s, p) => ~Fresh(Put(s, o, v), p)
  <1>. DEFINE w == Changed(s, o, v)
              t == Append(s, w)
  <1>1. \A p \in D : w[p] = IF p = o THEN v ELSE Stored(s)[p]
    BY DEF Changed
  <1>2. CASE v = Stored(s)[o]
    BY <1>2 DEF Put
  <1>3. CASE v # Stored(s)[o]
    <2>1. Put(s, o, v) = t
      BY <1>3 DEF Put
    <2>2. /\ Len(s) \in 1..Len(s) /\ Len(s) \in 1..Len(t)
          /\ 1..Len(s) \subseteq 1..Len(t)
          /\ \A k \in 1..Len(s) : t[k] = s[k]
          /\ t[Len(t)] = w
      <3>1. \A r : /\ Len(Append(s, r)) = Len(s) + 1
                   /\ Append(s, r)[Len(s) + 1] = r
                   /\ \A k \in 1..Len(s) : Append(s, r)[k] = s[k]
        OBVIOUS
      <3>2. Len(s) \in Nat \ {0}
        BY StreamVersions
      <3>. HIDE DEF w
      <3>. QED
        BY <3>1, <3>2
    <2>. HIDE DEF w, t
    <2>3. ~Fresh(t, o)
      BY <1>1, <1>3, <2>2 DEF Fresh, Stored
    <2>4. ASSUME NEW p \in D, p # o, ~Fresh(s, p)
          PROVE  ~Fresh(t, p)
      BY <1>1, <2>2, <2>4 DEF Fresh, Stored
    <2>. QED
      BY <2>1, <2>3, <2>4
  <1>. QED
    BY <1>2, <1>3

\* Delivering a change drops the version that was cached.
LEMMA DeliverVersions ==
    ASSUME NEW V, NEW s \in Seq(V), CanDeliver(s)
    PROVE  LET t == Deliver(s) IN
           /\ t \in Seq(V) /\ t # <<>>
           /\ Stored(t) = Stored(s)
           /\ Cached(t) = s[2] /\ 2 \in 1..Len(s)
           /\ Len(t) = Len(s) - 1
           /\ \A k \in 1..Len(t) : k + 1 \in 1..Len(s) /\ t[k] = s[k + 1]
  <1>1. Len(s) \in Nat /\ Len(s) > 1
    BY LenProperties DEF CanDeliver
  <1>2. s # <<>>
    BY <1>1, EmptySeq
  <1>3. /\ Tail(s) \in Seq(V)
        /\ Len(Tail(s)) = Len(s) - 1
        /\ \A k \in 1..Len(Tail(s)) : Tail(s)[k] = s[k + 1]
    BY <1>2, HeadTailProperties
  <1>. DEFINE t == Tail(s)
  <1>4. /\ Len(t) = Len(s) - 1
        /\ \A k \in 1..Len(t) : k + 1 \in 1..Len(s) /\ t[k] = s[k + 1]
    BY <1>1, <1>3
  <1>5. t \in Seq(V) /\ t # <<>>
    <2>1. t \in Seq(V) /\ Len(t) # 0
      BY <1>1, <1>3
    <2>. HIDE DEF t
    <2>. QED
      BY <2>1, EmptySeq
  <1>. HIDE DEF t
  <1>6. t[Len(t)] = s[Len(s)] /\ t[1] = s[2] /\ 2 \in 1..Len(s)
    BY <1>1, <1>4
  <1>7. t[Len(t)] = s[Len(s)] /\ t[1] = s[2] /\ 2 \in 1..Len(s)
        => Stored(t) = Stored(s) /\ Cached(t) = s[2]
    BY DEF Stored, Cached
  <1>8. Deliver(s) = t
    BY DEF Deliver, t
  <1>. QED
    BY <1>4, <1>5, <1>6, <1>7, <1>8

\* What a delivered version does not change is as much behind as before.
LEMMA DeliverAwaits ==
    ASSUME NEW V, NEW s \in Seq(V), CanDeliver(s),
           NEW o, s[1][o] = s[2][o], ~Fresh(s, o)
    PROVE  ~Fresh(Deliver(s), o)
  <1>. DEFINE t == Deliver(s)
  <1>1. /\ Stored(t) = Stored(s)
        /\ Len(t) = Len(s) - 1 /\ Len(s) \in Nat /\ Len(s) > 1
        /\ \A k \in 1..Len(t) : t[k] = s[k + 1]
    BY DeliverVersions, LenProperties DEF CanDeliver
  <1>. HIDE DEF t
  <1>2. PICK k \in 1..Len(s) : s[k][o] # Stored(s)[o]
    BY DEF Fresh, Stored
  <1>3. \E j \in 2..Len(s) : s[j][o] # Stored(s)[o]
    BY <1>1, <1>2
  <1>4. \E j \in 1..Len(t) : t[j][o] # Stored(t)[o]
    <2>1. PICK j \in 2..Len(s) : s[j][o] # Stored(s)[o]
      BY <1>3
    <2>2. j - 1 \in 1..Len(t) /\ t[j - 1] = s[j]
      BY <1>1
    <2>. QED
      BY <1>1, <2>1, <2>2
  <1>. QED
    BY <1>4 DEF Fresh, Stored, t

\* Listing anew keeps the stored version only.
LEMMA RelistedVersions ==
    ASSUME NEW V, NEW s \in Seq(V), s # <<>>
    PROVE  LET t == Relisted(s) IN
           /\ t \in Seq(V) /\ t # <<>>
           /\ Stored(t) = Stored(s)
           /\ Cached(t) = Stored(s)
           /\ Len(t) = 1
           /\ t[1] = Stored(s)
  BY StreamVersions DEF Relisted, Stored, Cached
=============================================================================
