----------------------- MODULE EndpointNetworkProofs -----------------------
(***************************************************************************)
(* An endpoint keeps its address, a NIC is taken for addressed while no    *)
(* other endpoint of it has a phase, a networked instance has its          *)
(* addresses, and no wakeup is lost: for any instances, NICs, endpoints    *)
(* and networks, caches any number of changes behind, and any number of    *)
(* creations on their way.                                                 *)
(***************************************************************************)
EXTENDS EndpointNetwork, WatchStreamProofs, WellFoundedInduction

EndpointVersion == [Endpoints -> Endpoint]

InstanceVersion == [Instances -> InstanceStates]

NetworkVersion == [Networks -> Network \cup {Nil}]

Queues ==
    [controller : SUBSET Endpoints, network : SUBSET Endpoints,
     provisioner : SUBSET Instances]

Same(o, p) == o.inst = p.inst /\ o.nic = p.nic

\* The address its NIC needed was there: it may be deleted since.
Settled(o) == o.exists = "gone" \/ o.deleting \/ (o.phase = "Addressed" /\ o.address # Nil)

\* An endpoint that is not stored yet has nothing, one that is there is for a NIC, and
\* has an address when it is addressed.
Proper(o) ==
    /\ o.exists = "unborn" => o.phase = "" /\ o.address = Nil /\ ~o.deleting
    /\ o.exists = "live" => o.nic # 0
    /\ o.phase = "Addressed" => Settled(o)

\* What version w is to version v that is not after it, both on their way to the
\* cache.  An endpoint is stored once, stays with its NIC and is gone for good.  It
\* gets a phase only from controllers that see it: so until its creation is
\* delivered it has none.
Follows(v, w) ==
    \A e \in Endpoints :
        /\ Proper(w[e])
        /\ v[e].exists # "unborn" => w[e].exists # "unborn" /\ Same(v[e], w[e])
        /\ v[e].exists = "gone" => w[e].exists = "gone"
        /\ v[e].exists = "unborn" => w[e].phase = ""
        /\ Settled(v[e]) => Settled(w[e])

Ordered == \A j, k \in 1..Len(bmes) : j <= k => Follows(bmes[j], bmes[k])

\* The objects and the queues are of their types.
StreamTypes ==
    /\ bmes \in Seq([Endpoints -> Endpoint])
    /\ Len(bmes) \in 1..(EndpointLag + 1)
    /\ bmis \in Seq([Instances -> InstanceStates])
    /\ Len(bmis) \in 1..(ObjectLag + 1)
    /\ bmns \in Seq([Networks -> Network \cup {Nil}])
    /\ Len(bmns) \in 1..(ObjectLag + 1)
    /\ queue \in Queues

StreamInv == StreamTypes /\ Ordered

FlightTypes ==
    /\ loop \in [Instances -> 0..Sent]
    /\ requests \in [Endpoints -> Request]
    /\ late \in SUBSET Instances

\* What is asked for is not stored yet.
RequestsOK ==
    \A e \in Endpoints : requests[e] # NoRequest =>
        /\ requests[e].inst \in Instances
        /\ requests[e].nic \in 1..Len(NICs)
        /\ StoredBme(e).exists = "unborn"

\* NIC k of instance i was taken for addressed: by a reconcile under way, for a status
\* under way, for the stored one.
Passed(i, k) == k < loop[i] \/ i \in late \/ Stored(bmis)[i] = "networked"

Served(i, k) ==
    \E e \in Endpoints : /\ StoredBme(e).inst = i /\ StoredBme(e).nic = k
                         /\ Settled(StoredBme(e))

PassedOK == \A i \in Instances, k \in 1..Len(NICs) : Passed(i, k) => Served(i, k)

FlightInv == FlightTypes /\ RequestsOK /\ PassedOK

NetworkInv == StreamInv /\ FlightInv

\* An address is changed only by taking it from an endpoint that is deleted.
Keeps(o, v) == (o.address # Nil /\ v.address # o.address) => o.deleting /\ v.address = Nil

-----------------------------------------------------------------------------
\* Streams are of their types, and never empty.
LEMMA Streams ==
    ASSUME StreamTypes
    PROVE  /\ bmes \in Seq(EndpointVersion) /\ bmes # <<>> /\ Len(bmes) \in Nat \ {0}
           /\ bmis \in Seq(InstanceVersion) /\ bmis # <<>>
           /\ bmns \in Seq(NetworkVersion) /\ bmns # <<>>
           /\ EndpointLag \in Nat /\ ObjectLag \in Nat
           /\ queue \in Queues
           /\ \A k \in 1..Len(bmes) : bmes[k] \in EndpointVersion
           /\ \A e \in Endpoints : Bme(e) \in Endpoint /\ StoredBme(e) \in Endpoint
           /\ \A n \in Networks : Bmn(n) \in Network \cup {Nil}
                                  /\ Stored(bmns)[n] \in Network \cup {Nil}
  <1>1. /\ bmes \in Seq(EndpointVersion)
        /\ bmis \in Seq(InstanceVersion)
        /\ bmns \in Seq(NetworkVersion)
        /\ queue \in Queues
    BY DEF StreamTypes, EndpointVersion, InstanceVersion, NetworkVersion
  <1>2. bmes # <<>> /\ bmis # <<>> /\ bmns # <<>> /\ Len(bmes) \in Nat \ {0}
        /\ EndpointLag \in Nat /\ ObjectLag \in Nat
    BY NetworkAssumption DEF StreamTypes
  <1>3. /\ Cached(bmes) \in EndpointVersion /\ Stored(bmes) \in EndpointVersion
        /\ Cached(bmns) \in NetworkVersion /\ Stored(bmns) \in NetworkVersion
    BY <1>1, <1>2, StreamVersions
  <1>4. \A k \in 1..Len(bmes) : bmes[k] \in EndpointVersion
    BY <1>1, ElementOfSeq
  <1>. QED
    BY <1>1, <1>2, <1>3, <1>4 DEF Bme, StoredBme, Bmn, EndpointVersion, NetworkVersion

\* The version the cache holds and the stored one are related as any two.
LEMMA CachedAndStored ==
    ASSUME StreamInv
    PROVE  /\ 1 \in 1..Len(bmes) /\ Len(bmes) \in 1..Len(bmes)
           /\ \A j \in 1..Len(bmes) : Follows(bmes[1], bmes[j]) /\ Follows(bmes[j], Stored(bmes))
           /\ \A e \in Endpoints :
                /\ Bme(e) = bmes[1][e] /\ StoredBme(e) = Stored(bmes)[e]
                /\ Proper(StoredBme(e))
                /\ Fresh(bmes, e) => \A j \in 1..Len(bmes) : bmes[j][e] = StoredBme(e)
                /\ Fresh(bmes, e) => Bme(e) = StoredBme(e)
  <1>1. Len(bmes) \in Nat \ {0}
    BY Streams DEF StreamInv
  <1>2. 1 \in 1..Len(bmes) /\ Len(bmes) \in 1..Len(bmes)
    BY <1>1
  <1>3. \A j \in 1..Len(bmes) : 1 <= j /\ j <= Len(bmes)
    BY <1>1
  <1>4. \A j \in 1..Len(bmes) : Follows(bmes[1], bmes[j]) /\ Follows(bmes[j], Stored(bmes))
    BY <1>2, <1>3 DEF StreamInv, Ordered, Stored
  <1>5. \A e \in Endpoints : Proper(StoredBme(e))
    BY <1>2, <1>4 DEF Follows, StoredBme
  <1>. QED
    BY <1>2, <1>4, <1>5 DEF Bme, StoredBme, Cached, Stored, Fresh

\* A non-empty set of addresses has a least one.
LEMMA LeastAddress ==
    ASSUME NEW S \in SUBSET Nat, S # {}
    PROVE  \E a \in S : \A b \in S : a <= b
  <1>. DEFINE R == OpToRel(<, Nat)
  <1>1. IsWellFoundedOn(R, Nat)
    BY NatLessThanWellFounded
  <1>2. \A a, b \in Nat : b < a => <<b, a>> \in R
    BY DEF OpToRel
  <1>. HIDE DEF R
  <1>3. PICK a \in S : \A b \in S : <<b, a>> \notin R
    BY <1>1, WFMin
  <1>4. \A b \in S : ~(b < a)
    BY <1>2, <1>3
  <1>. QED
    BY <1>4

\* The address that is given is one of the network's, and free.
LEMMA NextIPIsFree ==
    ASSUME StreamTypes, NEW n \in Networks, Bmn(n) # Nil, Free(n) # {}
    PROVE  NextIP(n) \in Free(n) /\ NextIP(n) \in Addresses
  <1>1. Bmn(n).spec \in Specs
    BY Streams DEF Network
  <1>2. Free(n) \subseteq Bmn(n).spec.start..Bmn(n).spec.end
    BY DEF Free, Usable
  <1>3. Free(n) \subseteq Nat /\ Free(n) \subseteq Addresses
    BY <1>1, <1>2, NetworkAssumption DEF Addresses
  <1>4. \E a \in Free(n) : \A b \in Free(n) : a <= b
    BY <1>3, LeastAddress
  <1>5. NextIP(n) \in Free(n)
    BY <1>4 DEF NextIP
  <1>. QED
    BY <1>3, <1>5

-----------------------------------------------------------------------------
(***************************************************************************)
(* What is written of an endpoint.                                         *)
(***************************************************************************)
\* It goes on as the endpoint it is, with another phase only if that was decided on
\* the stored version.
Continues(e, v) ==
    LET o == StoredBme(e) IN
    /\ o.exists = "live" /\ v.exists = "live" /\ Same(o, v)
    /\ v.phase = o.phase \/ Fresh(bmes, e)
    /\ Settled(o) => Settled(v)

\* It is created.
Begins(e, v) == StoredBme(e).exists = "unborn" /\ v.exists = "live" /\ v.phase = ""

Ends(e, v) ==
    /\ StoredBme(e).exists = "live" /\ v.exists = "gone" /\ v.phase = ""
    /\ Same(StoredBme(e), v)

Writes(e, v) ==
    /\ v \in Endpoint /\ Proper(v)
    /\ Keeps(StoredBme(e), v)
    /\ Continues(e, v) \/ Begins(e, v) \/ Ends(e, v)

\* What is written follows what is on its way.
LEMMA WrittenFollows ==
    ASSUME StreamInv, NEW e \in Endpoints, NEW v, Writes(e, v),
           NEW w, \A f \in Endpoints : w[f] = IF f = e THEN v ELSE StoredBme(f)
    PROVE  Follows(w, w) /\ \A j \in 1..Len(bmes) : Follows(bmes[j], w)
  <1>. DEFINE s == Stored(bmes)
  <1>0. /\ Follows(s, s)
        /\ \A f \in Endpoints : s[f] = StoredBme(f)
    BY CachedAndStored DEF Stored
  <1>1. \A f \in Endpoints : Proper(w[f])
    BY CachedAndStored DEF Writes
  <1>2. Follows(w, w)
    BY <1>1 DEF Follows, Same, Proper
  <1>3. ASSUME NEW j \in 1..Len(bmes)
        PROVE  Follows(bmes[j], w)
    <2>. DEFINE u == bmes[j]
    <2>1. Follows(u, s) /\ Follows(bmes[1], u)
      BY CachedAndStored
    <2>2. Fresh(bmes, e) => u[e] = StoredBme(e)
      BY CachedAndStored
    <2>. HIDE DEF u, s
    <2>3. \A f \in Endpoints : u[f].exists # "unborn"
                                 => w[f].exists # "unborn" /\ Same(u[f], w[f])
      <3>1. \A f \in Endpoints : u[f].exists # "unborn"
              => StoredBme(f).exists # "unborn" /\ Same(u[f], StoredBme(f))
        BY <1>0, <2>1 DEF Follows
      <3>. QED
        BY <3>1 DEF Writes, Continues, Begins, Ends, Same
    <2>4. \A f \in Endpoints : u[f].exists = "gone" => w[f].exists = "gone"
      <3>1. \A f \in Endpoints : u[f].exists = "gone" => StoredBme(f).exists = "gone"
        BY <1>0, <2>1 DEF Follows
      <3>. QED
        BY <3>1 DEF Writes, Continues, Begins, Ends
    <2>5. \A f \in Endpoints : u[f].exists = "unborn" => w[f].phase = ""
      <3>1. \A f \in Endpoints : u[f].exists = "unborn" => StoredBme(f).phase = ""
        BY <1>0, <2>1 DEF Follows
      <3>. QED
        BY <2>2, <3>1 DEF Writes, Continues, Begins, Ends
    <2>6. \A f \in Endpoints : Settled(u[f]) => Settled(w[f])
      <3>1. \A f \in Endpoints : Settled(u[f]) => Settled(StoredBme(f))
        BY <1>0, <2>1 DEF Follows
      <3>2. Settled(StoredBme(e)) => Settled(v)
        BY CachedAndStored DEF Writes, Continues, Begins, Ends, Settled, Proper
      <3>. QED
        BY <3>1, <3>2
    <2>. QED
      BY <1>1, <2>3, <2>4, <2>5, <2>6 DEF Follows, u
  <1>. QED
    BY <1>2, <1>3

\* Storing what controllers and users write keeps the invariant.
WritesEndpoint(e) ==
    \E v \in Endpoint :
        /\ Writes(e, v)
        /\ StoreBme(e, v)
        /\ UNCHANGED <<bmis, bmns>>
        /\ queue' \in Queues

LEMMA EndpointWritesKeepInv ==
    ASSUME StreamInv, NEW e \in Endpoints, WritesEndpoint(e)
    PROVE  /\ StreamInv'
           /\ \A f \in Endpoints : Keeps(StoredBme(f), StoredBme(f)')
           /\ \A f \in Endpoints \ {e} : UNCHANGED StoredBme(f)
           /\ Follows(Stored(bmes), Stored(bmes)')
  <1>. DEFINE V == EndpointVersion
  <1>1. PICK v \in Endpoint :
             /\ Writes(e, v)
             /\ StoreBme(e, v)
             /\ UNCHANGED <<bmis, bmns>>
             /\ queue' \in Queues
    BY DEF WritesEndpoint
  <1>2. /\ bmes \in Seq(V) /\ bmes # <<>>
        /\ bmes' = Put(bmes, e, v)
        /\ Len(bmes) \in 1..EndpointLag /\ EndpointLag \in Nat
    BY <1>1, Streams DEF StreamInv, StreamTypes, StoreBme
  <1>3. Changed(bmes, e, v) \in V /\ DOMAIN Stored(bmes) = Endpoints
    <2>1. Stored(bmes) \in [Endpoints -> Endpoint]
      BY <1>2, StreamVersions DEF EndpointVersion
    <2>. QED
      BY <2>1 DEF Changed, EndpointVersion
  <1>. HIDE DEF V
  <1>4. /\ bmes' \in Seq(V) /\ bmes' # <<>>
        /\ \A k \in 1..Len(bmes') :
             \/ k \in 1..Len(bmes) /\ bmes'[k] = bmes[k]
             \/ k = Len(bmes') /\ bmes'[k] = Stored(bmes')
    BY <1>2, <1>3, PutVersions
  <1>5. Len(bmes') \in 1..(EndpointLag + 1) /\ Len(bmes') >= Len(bmes)
    BY <1>2, PutLength
  <1>6. \A f \in Endpoints : Stored(bmes')[f] = IF f = e THEN v ELSE StoredBme(f)
    BY <1>2, <1>3, PutStored DEF StoredBme
  <1>. DEFINE w == Stored(bmes')
  <1>7. Follows(w, w) /\ \A j \in 1..Len(bmes) : Follows(bmes[j], w)
    <2>. HIDE DEF w
    <2>1. \A f \in Endpoints : w[f] = IF f = e THEN v ELSE StoredBme(f)
      BY <1>6 DEF w
    <2>. QED
      BY <1>1, <2>1, WrittenFollows
  <1>8. Ordered'
    <2>. SUFFICES ASSUME NEW j \in 1..Len(bmes'), NEW k \in 1..Len(bmes'), j <= k
                  PROVE  Follows(bmes'[j], bmes'[k])
      BY DEF Ordered
    <2>1. CASE k \in 1..Len(bmes) /\ bmes'[k] = bmes[k] /\ j \in 1..Len(bmes) /\ bmes'[j] = bmes[j]
      BY <2>1 DEF StreamInv, Ordered
    <2>2. CASE bmes'[k] = w
      BY <1>4, <1>7, <2>2
    <2>3. CASE bmes'[j] = w /\ j = Len(bmes')
      <3>1. k = j
        BY <1>5, <2>3
      <3>. QED
        BY <1>7, <2>3, <3>1
    <2>. QED
      BY <1>4, <2>1, <2>2, <2>3
  <1>9. StreamTypes'
    BY <1>1, <1>4, <1>5 DEF StreamInv, StreamTypes, V, EndpointVersion, Queues
  <1>10. \A f \in Endpoints : Keeps(StoredBme(f), StoredBme(f)')
    BY <1>1, <1>6 DEF StoredBme, Keeps, Writes
  <1>11. Follows(Stored(bmes), Stored(bmes)')
    BY <1>7, CachedAndStored DEF Stored
  <1>. QED
    BY <1>6, <1>8, <1>9, <1>10, <1>11 DEF StreamInv, StoredBme

\* A reconcile of an endpoint writes what it read to be stored.
LEMMA UpdatesWriteEndpoint ==
    ASSUME StreamInv, NEW e \in Endpoints, NEW v \in Endpoint, Proper(v),
           NEW controller \in {"controller", "network"},
           UpdateBme(controller, e, v), Keeps(Bme(e), v), Bme(e).exists = "live",
           Same(Bme(e), v),
           \/ v.exists = "live" /\ (Settled(Bme(e)) => Settled(v))
           \/ v.exists = "gone" /\ v.phase = ""
    PROVE  WritesEndpoint(e) /\ StoredBme(e).exists = "live"
  <1>1. Fresh(bmes, e) /\ Bme(e) = StoredBme(e)
    BY CachedAndStored DEF UpdateBme
  <1>2. Writes(e, v)
    BY <1>1 DEF Writes, Continues, Ends
  <1>3. queue' \in Queues
    <2>1. queue \in Queues
      BY Streams DEF StreamInv
    <2>2. queue' = [queue EXCEPT ![controller] = @ \ {e}]
      BY DEF UpdateBme, Done
    <2>. QED
      BY <2>1, <2>2 DEF Queues
  <1>. QED
    BY <1>1, <1>2, <1>3 DEF UpdateBme, WritesEndpoint

\* What an endpoint becomes that is removed.
LEMMA GoneEndpoint ==
    ASSUME NEW o \in Endpoint
    PROVE  /\ Gone(o) \in Endpoint /\ Proper(Gone(o)) /\ Same(o, Gone(o))
           /\ Gone(o).exists = "gone" /\ Gone(o).phase = "" /\ Gone(o).address = Nil
  <1>1. /\ Gone(o).exists = "gone" /\ Gone(o).phase = "" /\ Gone(o).address = Nil
        /\ Same(o, Gone(o))
    BY DEF Gone, Unborn, Same
  <1>2. Gone(o) \in Endpoint
    BY DEF Gone, Unborn, Endpoint, Phases
  <1>. QED
    BY <1>1, <1>2 DEF Proper

\* The two controllers of endpoints, which have nothing to do with one that is settled
\* but to remove it.
LEMMA ControllersWriteEndpoint ==
    ASSUME StreamInv, NEW e \in Endpoints, ControllerStep(e) \/ NetworkStep(e)
    PROVE  WritesEndpoint(e) /\ StoredBme(e).exists = "live"
  <1>. DEFINE o == Bme(e)
  <1>0. /\ o \in Endpoint /\ o.exists = "live" /\ Proper(o)
        /\ o.nic # 0 /\ o.nic \in 1..Len(NICs)
    <2>1. o \in Endpoint
      BY Streams DEF StreamInv
    <2>2. o.exists = "live"
      BY DEF ControllerStep, SetPending, RemoveFinalizer, NeedsController,
             NetworkStep, SetDeleted, SetDeleting, ReleaseAddress, SetAddressed,
             StartAddressing, Allocate, Leaving, Arriving, NeedsNetwork
    <2>3. Proper(o)
      BY CachedAndStored DEF Follows
    <2>4. o.nic # 0 /\ o.nic \in 0..Len(NICs) /\ Len(NICs) \in Nat
      BY <2>1, <2>2, <2>3, NetworkAssumption DEF Proper, Endpoint
    <2>. QED
      BY <2>1, <2>2, <2>3, <2>4
  <1>1. CASE RemoveFinalizer(e)
    <2>1. UpdateBme("controller", e, Gone(o)) /\ o.deleting
      BY <1>1 DEF RemoveFinalizer
    <2>2. Keeps(o, Gone(o))
      BY <1>0, <2>1, GoneEndpoint DEF Keeps
    <2>. QED
      BY <1>0, <2>1, <2>2, GoneEndpoint, UpdatesWriteEndpoint
  <1>2. ASSUME NEW p \in Phases, NEW c \in {"controller", "network"},
               UpdateBme(c, e, [o EXCEPT !.phase = p]),
               \/ o.deleting
               \/ o.phase # "Addressed" /\ (p = "Addressed" => o.address # Nil)
        PROVE  WritesEndpoint(e) /\ StoredBme(e).exists = "live"
    <2>. DEFINE v == [o EXCEPT !.phase = p]
    <2>1. v \in Endpoint /\ v.exists = "live" /\ Same(o, v) /\ v.nic = o.nic
          /\ v.address = o.address /\ v.deleting = o.deleting /\ v.phase = p
      BY <1>0 DEF Endpoint, Same
    <2>. HIDE DEF v
    <2>2. Keeps(o, v) /\ Proper(v) /\ UpdateBme(c, e, v) /\ (Settled(o) => Settled(v))
      BY <1>0, <1>2, <2>1 DEF Keeps, Proper, Settled, v
    <2>. QED
      BY <1>0, <2>1, <2>2, UpdatesWriteEndpoint
  <1>3. CASE SetPending(e) \/ SetDeleted(e) \/ SetDeleting(e)
    BY <1>2, <1>3 DEF SetPending, SetDeleted, SetDeleting, NeedsController, Leaving, Phases
  <1>4. CASE SetAddressed(e) \/ StartAddressing(e)
    BY <1>2, <1>4 DEF SetAddressed, StartAddressing, Arriving, NeedsNetwork, Phases
  <1>5. ASSUME NEW a \in Addresses \cup {Nil},
               UpdateBme("network", e, [o EXCEPT !.address = a]),
               (o.address = Nil /\ o.phase # "Addressed") \/ (o.deleting /\ a = Nil)
        PROVE  WritesEndpoint(e) /\ StoredBme(e).exists = "live"
    <2>. DEFINE v == [o EXCEPT !.address = a]
    <2>1. v \in Endpoint /\ v.exists = "live" /\ Same(o, v) /\ v.nic = o.nic
          /\ v.address = a /\ v.deleting = o.deleting /\ v.phase = o.phase
      BY <1>0 DEF Endpoint, Same
    <2>. HIDE DEF v
    <2>2. Keeps(o, v) /\ Proper(v) /\ UpdateBme("network", e, v) /\ (Settled(o) => Settled(v))
      BY <1>0, <1>5, <2>1 DEF Keeps, Proper, Settled, v
    <2>. QED
      BY <1>0, <2>1, <2>2, UpdatesWriteEndpoint
  <1>6. CASE ReleaseAddress(e)
    BY <1>5, <1>6 DEF ReleaseAddress, Leaving
  <1>7. CASE Allocate(e)
    <2>. DEFINE n == NetworkOf[o.nic]
    <2>1. /\ o.address = Nil /\ o.phase # "Addressed"
          /\ UpdateBme("network", e, [o EXCEPT !.address = NextIP(n)])
          /\ Bmn(n) # Nil /\ Free(n) # {}
      BY <1>7 DEF Allocate, NetworkFound, Arriving, NeedsNetwork
    <2>2. n \in Networks
      BY <1>0, NetworkAssumption
    <2>3. NextIP(n) \in Addresses
      BY <2>1, <2>2, NextIPIsFree DEF StreamInv
    <2>. QED
      BY <1>5, <2>1, <2>3
  <1>. QED
    BY <1>1, <1>3, <1>4, <1>6, <1>7 DEF ControllerStep, NetworkStep

\* Users and the garbage collector.
LEMMA DeletesWriteEndpoint ==
    ASSUME StreamInv, NEW e \in Endpoints, DeleteEndpoint(e) \/ CollectGarbage(e)
    PROVE  WritesEndpoint(e) /\ StoredBme(e).exists = "live"
  <1>. DEFINE o == StoredBme(e)
              v == [o EXCEPT !.deleting = TRUE]
  <1>1. /\ o.exists = "live" /\ StoreBme(e, v)
        /\ UNCHANGED <<bmis, bmns, queue>>
    BY DEF CollectGarbage, DeleteEndpoint
  <1>2. o \in Endpoint /\ Proper(o) /\ queue \in Queues
    BY Streams, CachedAndStored DEF StreamInv
  <1>3. /\ v \in Endpoint /\ v.exists = "live" /\ Same(o, v) /\ v.nic = o.nic
        /\ v.address = o.address /\ v.phase = o.phase /\ v.deleting
    BY <1>1, <1>2 DEF Endpoint, Same
  <1>. HIDE DEF v, o
  <1>4. Proper(v) /\ Keeps(o, v) /\ Settled(v)
    BY <1>1, <1>2, <1>3 DEF Proper, Keeps, Settled
  <1>5. Writes(e, v)
    BY <1>1, <1>3, <1>4 DEF Writes, Continues, o
  <1>. QED
    BY <1>1, <1>2, <1>3, <1>5 DEF WritesEndpoint, o

\* The caller of a creation is queued.
LEMMA AnsweredQueues ==
    ASSUME StreamInv, FlightInv, NEW e \in Endpoints, requests[e] # NoRequest, Answered(e)
    PROVE  /\ queue' \in Queues
           /\ UNCHANGED <<queue.controller, queue.network>>
           /\ queue.provisioner \subseteq queue'.provisioner
           /\ \A i \in Instances :
                \/ loop'[i] = loop[i]
                \/ /\ loop'[i] = 0
                   /\ i \in queue'.provisioner \/ Cached(bmis)[i] # "claimed"
           /\ loop' \in [Instances -> 0..Sent]
  <1>1. queue \in Queues /\ loop \in [Instances -> 0..Sent] /\ requests[e].inst \in Instances
    BY Streams DEF StreamInv, FlightInv, FlightTypes, RequestsOK
  <1>2. 0 \in 0..Sent
    BY NetworkAssumption DEF Sent
  <1>3. CASE EndQueued(requests[e].inst)
    BY <1>1, <1>2, <1>3 DEF EndQueued, NeedsProvisioner, Queues
  <1>4. CASE UNCHANGED <<loop, queue>>
    BY <1>1, <1>4
  <1>. QED
    BY <1>3, <1>4 DEF Answered

\* What is asked for is stored.
LEMMA CreationsWriteEndpoint ==
    ASSUME StreamInv, FlightInv, NEW e \in Endpoints, StoreEndpoint(e)
    PROVE  WritesEndpoint(e)
  <1>. DEFINE i == requests[e].inst
              k == requests[e].nic
              v == [Unborn EXCEPT !.exists = "live", !.inst = i, !.nic = k]
  <1>1. /\ i \in Instances /\ k \in 1..Len(NICs)
        /\ StoredBme(e).exists = "unborn"
    BY DEF FlightInv, RequestsOK, StoreEndpoint
  <1>2. /\ v.exists = "live" /\ v.phase = "" /\ v.nic = k
        /\ v \in Endpoint /\ k # 0
    <2>1. k \in 0..Len(NICs) /\ k # 0
      BY <1>1, NetworkAssumption
    <2>. QED
      BY <1>1, <2>1 DEF Unborn, Endpoint, Phases
  <1>3. StoreBme(e, v) /\ UNCHANGED <<bmis, bmns>> /\ queue' \in Queues
    BY AnsweredQueues DEF StoreEndpoint
  <1>. HIDE DEF v
  <1>4. Proper(v) /\ Keeps(StoredBme(e), v)
    BY <1>1, <1>2, CachedAndStored DEF Proper, Keeps
  <1>5. Writes(e, v)
    BY <1>1, <1>2, <1>4 DEF Writes, Begins
  <1>. QED
    BY <1>2, <1>3, <1>5 DEF WritesEndpoint

-----------------------------------------------------------------------------
(***************************************************************************)
(* What is written of instances and networks, and the watches.             *)
(***************************************************************************)
\* Storing an instance.
LEMMA StoreInstance ==
    ASSUME StreamInv, NEW i \in Instances, NEW v \in InstanceStates, StoreBmi(i, v),
           UNCHANGED <<bmes, bmns>>, queue' \in Queues
    PROVE  /\ StreamInv'
           /\ \A j \in Instances : Stored(bmis)'[j] = IF j = i THEN v ELSE Stored(bmis)[j]
  <1>. DEFINE V == InstanceVersion
  <1>1. /\ bmis \in Seq(V) /\ bmis # <<>>
        /\ bmis' = Put(bmis, i, v)
        /\ Len(bmis) \in 1..ObjectLag /\ ObjectLag \in Nat
    BY Streams DEF StreamInv, StreamTypes, StoreBmi
  <1>2. Changed(bmis, i, v) \in V /\ DOMAIN Stored(bmis) = Instances
    <2>1. Stored(bmis) \in [Instances -> InstanceStates]
      BY <1>1, StreamVersions DEF InstanceVersion
    <2>. QED
      BY <2>1 DEF Changed, InstanceVersion
  <1>. HIDE DEF V
  <1>3. bmis' \in Seq(V)
    BY <1>1, <1>2, PutVersions
  <1>4. Len(bmis') \in 1..(ObjectLag + 1)
    BY <1>1, PutLength
  <1>5. \A j \in Instances : Stored(bmis')[j] = IF j = i THEN v ELSE Stored(bmis)[j]
    BY <1>1, <1>2, PutStored
  <1>6. StreamTypes'
    BY <1>3, <1>4 DEF StreamInv, StreamTypes, V, InstanceVersion, Queues
  <1>. QED
    BY <1>5, <1>6 DEF StreamInv, Ordered, Stored

\* Storing a network.
LEMMA StoreNetwork ==
    ASSUME StreamInv, NEW n \in Networks, NEW v \in Network \cup {Nil}, StoreBmn(n, v),
           UNCHANGED <<bmes, bmis, queue>>
    PROVE  StreamInv'
  <1>. DEFINE V == NetworkVersion
  <1>1. /\ bmns \in Seq(V) /\ bmns # <<>>
        /\ bmns' = Put(bmns, n, v)
        /\ Len(bmns) \in 1..ObjectLag /\ ObjectLag \in Nat
    BY Streams DEF StreamInv, StreamTypes, StoreBmn
  <1>2. Changed(bmns, n, v) \in V
    <2>1. Stored(bmns) \in [Networks -> Network \cup {Nil}]
      BY <1>1, StreamVersions DEF NetworkVersion
    <2>. QED
      BY <2>1 DEF Changed, NetworkVersion
  <1>. HIDE DEF V
  <1>3. bmns' \in Seq(V)
    BY <1>1, <1>2, PutVersions
  <1>4. Len(bmns') \in 1..(ObjectLag + 1)
    BY <1>1, PutLength
  <1>5. StreamTypes'
    BY <1>3, <1>4 DEF StreamInv, StreamTypes, V, NetworkVersion
  <1>. QED
    BY <1>5 DEF StreamInv, Ordered

\* Users and the network controller make and remove networks.
LEMMA NetworkStepsKeepInv ==
    ASSUME StreamInv, NEW n \in Networks,
           \/ DeleteNetwork(n)
           \/ RemoveNetworkFinalizer(n)
           \/ \E s \in Specs : CreateNetwork(n, s)
    PROVE  StreamInv' /\ UNCHANGED <<bmes, bmis>>
  <1>1. CASE DeleteNetwork(n)
    <2>1. [Stored(bmns)[n] EXCEPT !.deleting = TRUE] \in Network
      BY <1>1, Streams DEF DeleteNetwork, Network, StreamInv
    <2>. QED
      BY <1>1, <2>1, StoreNetwork DEF DeleteNetwork
  <1>2. CASE RemoveNetworkFinalizer(n)
    BY <1>2, StoreNetwork DEF RemoveNetworkFinalizer
  <1>3. ASSUME NEW s \in Specs, CreateNetwork(n, s)
        PROVE  StreamInv' /\ UNCHANGED <<bmes, bmis>>
    <2>1. [spec |-> s, deleting |-> FALSE] \in Network
      BY DEF Network
    <2>. QED
      BY <1>3, <2>1, StoreNetwork DEF CreateNetwork
  <1>. QED
    BY <1>1, <1>2, <1>3

\* What the provisioner does with an instance, users do, and late updates.
LEMMA InstanceStepsKeepInv ==
    ASSUME NetworkInv, NEW i \in Instances,
           \/ DeleteInstance(i) \/ InstanceEnds(i)
           \/ ProvisionerStep(i) \/ MarkNetworkedLate(i)
    PROVE  /\ StreamInv'
           /\ UNCHANGED bmes
           /\ \A j \in Instances : Stored(bmis)'[j] = "networked" =>
                \/ Stored(bmis)[j] = "networked"
                \/ j = i /\ (loop[i] = Sent \/ i \in late)
  <1>. /\ queue \in Queues
       /\ StreamInv
    BY Streams DEF NetworkInv, StreamInv
  <1>1. ASSUME NEW v \in InstanceStates, StoreBmi(i, v), UNCHANGED <<bmes, bmns, queue>>,
               v # "networked" \/ loop[i] = Sent \/ i \in late
        PROVE  /\ StreamInv'
               /\ \A j \in Instances : Stored(bmis)'[j] = "networked" =>
                    \/ Stored(bmis)[j] = "networked"
                    \/ j = i /\ (loop[i] = Sent \/ i \in late)
    <2>1. /\ StreamInv'
          /\ \A j \in Instances : Stored(bmis)'[j] = IF j = i THEN v ELSE Stored(bmis)[j]
      BY <1>1, StoreInstance
    <2>. QED
      BY <1>1, <2>1
  <1>2. ASSUME UNCHANGED <<bmes, bmis, bmns>>, queue' \in Queues
        PROVE  StreamInv' /\ UNCHANGED Stored(bmis)
    BY <1>2 DEF StreamInv, StreamTypes, Ordered, Stored
  <1>3. CASE DeleteInstance(i) \/ InstanceEnds(i)
    BY <1>1, <1>3 DEF DeleteInstance, InstanceEnds, InstanceStates
  <1>4. CASE MarkNetworked(i)
    BY <1>1, <1>4 DEF MarkNetworked, InstanceStates
  <1>5. CASE MarkNetworkedLate(i)
    <2>1. CASE UNCHANGED bmis
      BY <1>2, <1>5, <2>1 DEF MarkNetworkedLate
    <2>2. CASE StoreBmi(i, "networked")
      BY <1>1, <1>5, <2>2 DEF MarkNetworkedLate, InstanceStates
    <2>. QED
      BY <1>5, <2>1, <2>2 DEF MarkNetworkedLate
  <1>6. Done("provisioner", i) \/ EndQueued(i) \/ UNCHANGED queue => queue' \in Queues
    <2>1. CASE Done("provisioner", i)
      BY <2>1 DEF Done, Queues
    <2>2. CASE EndQueued(i)
      BY <2>2 DEF EndQueued, Queues
    <2>. QED
      BY <2>1, <2>2
  <1>7. CASE \/ BeginNetworking(i) \/ PassNIC(i) \/ WaitForAddress(i) \/ StopOnDuplicates(i)
             \/ CreateEndpoint(i) \/ MarkRefused(i) \/ MarkUnanswered(i)
    <2>1. /\ UNCHANGED <<bmes, bmis, bmns>>
          /\ Done("provisioner", i) \/ EndQueued(i) \/ UNCHANGED queue
      BY <1>7 DEF BeginNetworking, PassNIC, WaitForAddress, StopOnDuplicates, CreateEndpoint,
                  MarkRefused, MarkUnanswered
    <2>. QED
      BY <1>2, <1>6, <2>1
  <1>. QED
    BY <1>3, <1>4, <1>5, <1>7 DEF ProvisionerStep

\* The watches and a restart.
LEMMA WatchesKeepStreams ==
    ASSUME StreamInv, WatchBmes \/ WatchBmis \/ WatchBmns \/ RestartManager
    PROVE  StreamInv' /\ UNCHANGED <<Stored(bmes), Stored(bmis)>>
  <1>. /\ bmes \in Seq(EndpointVersion) /\ bmes # <<>> /\ Len(bmes) \in 1..(EndpointLag + 1)
       /\ bmis \in Seq(InstanceVersion) /\ bmis # <<>> /\ Len(bmis) \in 1..(ObjectLag + 1)
       /\ bmns \in Seq(NetworkVersion) /\ bmns # <<>> /\ Len(bmns) \in 1..(ObjectLag + 1)
       /\ EndpointLag \in Nat /\ ObjectLag \in Nat /\ queue \in Queues
       /\ \A k \in 1..Len(bmes) : bmes[k] \in EndpointVersion
    BY Streams DEF StreamInv, StreamTypes
  <1>. USE DEF StreamInv
  <1>1. CASE WatchBmes
    <2>1. /\ bmes' \in Seq(EndpointVersion)
          /\ Stored(bmes') = Stored(bmes)
          /\ Len(bmes') = Len(bmes) - 1
          /\ \A k \in 1..Len(bmes') : k + 1 \in 1..Len(bmes) /\ bmes'[k] = bmes[k + 1]
          /\ Len(bmes) > 1
      BY <1>1, DeliverVersions DEF WatchBmes, CanDeliver
    <2>2. Len(bmes') \in 1..(EndpointLag + 1)
      BY <2>1
    <2>3. Ordered'
      <3>. SUFFICES ASSUME NEW j \in 1..Len(bmes'), NEW k \in 1..Len(bmes'), j <= k
                    PROVE  Follows(bmes'[j], bmes'[k])
        BY DEF Ordered
      <3>1. /\ j + 1 \in 1..Len(bmes) /\ bmes'[j] = bmes[j + 1]
            /\ k + 1 \in 1..Len(bmes) /\ bmes'[k] = bmes[k + 1]
            /\ j + 1 <= k + 1
        BY <2>1
      <3>. QED
        BY <3>1 DEF Ordered
    <2>4. queue' \in Queues /\ UNCHANGED <<bmis, bmns>>
      <3>1. 1 \in 1..Len(bmes) /\ 2 \in 1..Len(bmes)
        BY <2>1
      <3>2. bmes[1] \in [Endpoints -> Endpoint] /\ bmes[2] \in [Endpoints -> Endpoint]
        BY <3>1 DEF EndpointVersion
      <3>3. Delivered(bmes) \subseteq Endpoints
        BY <3>2 DEF Delivered
      <3>4. Owners \subseteq Instances
        <4>. SUFFICES ASSUME NEW k \in {1, 2}, NEW e \in Delivered(bmes), bmes[k][e].inst # Nil
                      PROVE  bmes[k][e].inst \in Instances
          BY DEF Owners
        <4>1. bmes[k][e] \in Endpoint
          BY <3>2, <3>3
        <4>. QED
          BY <4>1 DEF Endpoint
      <3>. QED
        BY <1>1, <3>3, <3>4 DEF WatchBmes, Queues
    <2>. QED
      BY <2>1, <2>2, <2>3, <2>4
         DEF StreamTypes, Stored, EndpointVersion, InstanceVersion, NetworkVersion, Queues
  <1>2. CASE WatchBmis
    <2>1. /\ bmis' \in Seq(InstanceVersion)
          /\ Stored(bmis') = Stored(bmis)
          /\ Len(bmis') = Len(bmis) - 1
          /\ Len(bmis) > 1
      BY <1>2, DeliverVersions DEF WatchBmis, CanDeliver
    <2>2. queue' \in Queues /\ UNCHANGED <<bmes, bmns>>
      <3>1. 1 \in 1..Len(bmis)
        OBVIOUS
      <3>2. bmis[1] \in [Instances -> InstanceStates]
        BY <3>1, ElementOfSeq DEF InstanceVersion
      <3>3. Delivered(bmis) \subseteq Instances
        BY <3>2 DEF Delivered
      <3>. QED
        BY <1>2, <3>3 DEF WatchBmis, Queues
    <2>. QED
      BY <2>1, <2>2
         DEF StreamTypes, Ordered, Stored, EndpointVersion, InstanceVersion, NetworkVersion, Queues
  <1>3. CASE WatchBmns
    <2>1. /\ bmns' \in Seq(NetworkVersion)
          /\ Len(bmns') = Len(bmns) - 1
          /\ Len(bmns) > 1
      BY <1>3, DeliverVersions DEF WatchBmns, CanDeliver
    <2>2. UNCHANGED <<bmes, bmis, queue>>
      BY <1>3 DEF WatchBmns
    <2>. QED
      BY <2>1, <2>2
         DEF StreamTypes, Ordered, Stored, EndpointVersion, InstanceVersion, NetworkVersion, Queues
  <1>4. CASE RestartManager
    <2>1. /\ bmes' \in Seq(EndpointVersion) /\ Stored(bmes') = Stored(bmes)
          /\ Len(bmes') = 1 /\ bmes'[1] = Stored(bmes)
      BY <1>4, RelistedVersions DEF RestartManager
    <2>2. /\ bmis' \in Seq(InstanceVersion) /\ Stored(bmis') = Stored(bmis) /\ Len(bmis') = 1
          /\ bmns' \in Seq(NetworkVersion) /\ Len(bmns') = 1
      BY <1>4, RelistedVersions DEF RestartManager
    <2>3. Ordered'
      <3>1. Follows(Stored(bmes), Stored(bmes))
        BY CachedAndStored DEF Stored
      <3>. QED
        BY <2>1, <3>1 DEF Ordered
    <2>4. queue' \in Queues
      BY <1>4 DEF RestartManager, Queues
    <2>5. 1 \in 1..(EndpointLag + 1) /\ 1 \in 1..(ObjectLag + 1)
      OBVIOUS
    <2>. QED
      BY <2>1, <2>2, <2>3, <2>4, <2>5
         DEF StreamTypes, EndpointVersion, InstanceVersion, NetworkVersion, Queues
  <1>. QED
    BY <1>1, <1>2, <1>3, <1>4

-----------------------------------------------------------------------------
(***************************************************************************)
(* What is under way.                                                      *)
(***************************************************************************)
\* What the provisioner sees to be addressed has its address; and what it does not see
\* has no phase.
LEMMA AddressedIsServed ==
    ASSUME StreamInv, NEW i \in Instances, NEW k \in 1..Len(NICs), AddressedNIC(i, k)
    PROVE  /\ Served(i, k)
           /\ \E e \in Endpoints : \A f \in Endpoints \ {e} :
                (/\ StoredBme(f).exists = "live"
                 /\ StoredBme(f).inst = i
                 /\ StoredBme(f).nic = k) => StoredBme(f).phase = ""
  <1>1. PICK e \in Endpoints : OurBMEs(i, k) = {e} /\ Bme(e).phase = "Addressed"
    BY DEF AddressedNIC
  <1>2. /\ Bme(e).exists = "live" /\ Bme(e).inst = i /\ Bme(e).nic = k
        /\ \A f \in Endpoints \ {e} :
             ~(Bme(f).exists = "live" /\ Bme(f).inst = i /\ Bme(f).nic = k)
    BY <1>1 DEF OurBMEs
  <1>. DEFINE v == bmes[1]
              w == Stored(bmes)
  <1>3. /\ Follows(v, w) /\ Follows(v, v)
        /\ \A f \in Endpoints : Bme(f) = v[f] /\ StoredBme(f) = w[f]
    BY CachedAndStored
  <1>. HIDE DEF v, w
  <1>4. StoredBme(e).inst = i /\ StoredBme(e).nic = k /\ Settled(StoredBme(e))
    <2>1. Settled(Bme(e))
      BY <1>1, <1>3 DEF Follows, Proper
    <2>. QED
      BY <1>2, <1>3, <2>1 DEF Follows, Same
  <1>5. ASSUME NEW f \in Endpoints \ {e},
               StoredBme(f).exists = "live", StoredBme(f).inst = i, StoredBme(f).nic = k
        PROVE  StoredBme(f).phase = ""
    <2>1. Bme(f).exists \in {"unborn", "live", "gone"}
      BY Streams DEF StreamInv, Endpoint
    <2>2. /\ Bme(f).exists = "gone" => StoredBme(f).exists = "gone"
          /\ Bme(f).exists # "unborn" => Same(Bme(f), StoredBme(f))
          /\ Bme(f).exists = "unborn" => StoredBme(f).phase = ""
      BY <1>3 DEF Follows
    <2>3. Bme(f).exists = "live" => Bme(f).inst = i /\ Bme(f).nic = k
      BY <1>5, <2>2 DEF Same
    <2>. QED
      BY <1>2, <1>5, <2>1, <2>2, <2>3
  <1>. QED
    BY <1>4, <1>5 DEF Served

\* A NIC that was served stays so, whatever is taken for addressed from it.
LEMMA PassedKept ==
    ASSUME NetworkInv, Follows(Stored(bmes), Stored(bmes)'), FlightTypes', RequestsOK',
           \A i \in Instances, k \in 1..Len(NICs) :
               Passed(i, k)' => Passed(i, k) \/ AddressedNIC(i, k)
    PROVE  FlightInv'
  <1>1. ASSUME NEW i \in Instances, NEW k \in 1..Len(NICs), Passed(i, k)'
        PROVE  Served(i, k)'
    <2>1. Served(i, k)
      BY <1>1, AddressedIsServed DEF NetworkInv, FlightInv, PassedOK
    <2>2. PICK e \in Endpoints : /\ StoredBme(e).inst = i /\ StoredBme(e).nic = k
                                 /\ Settled(StoredBme(e))
      BY <2>1 DEF Served
    <2>3. StoredBme(e).exists # "unborn"
      BY <2>2, CachedAndStored DEF NetworkInv, Settled, Proper
    <2>4. Same(StoredBme(e), StoredBme(e)') /\ Settled(StoredBme(e)')
      BY <2>2, <2>3 DEF Follows, StoredBme
    <2>. QED
      BY <2>2, <2>4 DEF Served, Same, Settled
  <1>. QED
    BY <1>1 DEF FlightInv, PassedOK

\* Steps that leave what is under way alone.
LEMMA FlightUnchanged ==
    ASSUME NetworkInv, Follows(Stored(bmes), Stored(bmes)'), UNCHANGED inFlight,
           UNCHANGED Stored(bmis),
           \A f \in Endpoints : StoredBme(f).exists = "unborn" => StoredBme(f)'.exists = "unborn"
    PROVE  FlightInv'
  <1>1. UNCHANGED <<loop, requests, late>>
    BY DEF inFlight
  <1>2. FlightTypes'
    BY <1>1 DEF NetworkInv, FlightInv, FlightTypes
  <1>3. RequestsOK'
    BY <1>1 DEF NetworkInv, FlightInv, RequestsOK
  <1>4. \A i \in Instances, k \in 1..Len(NICs) : Passed(i, k)' => Passed(i, k)
    BY <1>1 DEF Passed
  <1>. QED
    BY <1>2, <1>3, <1>4, PassedKept

\* What is stored follows itself.
LEMMA StoredFollows ==
    ASSUME StreamInv, UNCHANGED Stored(bmes)
    PROVE  Follows(Stored(bmes), Stored(bmes)') /\ \A e \in Endpoints : UNCHANGED StoredBme(e)
  BY CachedAndStored DEF Stored, StoredBme

\* A creation is stored, or not.
LEMMA CreationsKeepFlight ==
    ASSUME NetworkInv, NEW e \in Endpoints, CreateStep(e)
    PROVE  /\ NetworkInv'
           /\ \A f \in Endpoints : Keeps(StoredBme(f), StoredBme(f)')
           /\ \A i \in Instances : loop'[i] \in {loop[i], 0}
  <1>. StreamInv /\ FlightInv
    BY DEF NetworkInv
  <1>1. /\ requests[e] # NoRequest /\ Answered(e) /\ UNCHANGED <<bmis, bmns, late>>
        /\ requests \in [Endpoints -> Request] /\ late \in SUBSET Instances
        /\ loop \in [Instances -> 0..Sent]
    BY DEF CreateStep, StoreEndpoint, FailCreate, FlightInv, FlightTypes
  <1>2. /\ queue' \in Queues /\ loop' \in [Instances -> 0..Sent]
        /\ \A i \in Instances : loop'[i] \in {loop[i], 0}
    BY <1>1, AnsweredQueues
  <1>3. \A i \in Instances, k \in 1..Len(NICs) : Passed(i, k)' => Passed(i, k)
    <2>. SUFFICES ASSUME NEW i \in Instances, NEW k \in 1..Len(NICs), Passed(i, k)'
                  PROVE  Passed(i, k)
      OBVIOUS
    <2>1. loop[i] \in Nat /\ (k < loop'[i] => k < loop[i])
      BY <1>1, <1>2, NetworkAssumption DEF Sent
    <2>. QED
      BY <1>1, <2>1 DEF Passed
  <1>4. NoRequest \in Request
    <2>1. 0 \in 0..Len(NICs)
      BY NetworkAssumption
    <2>. QED
      BY <2>1 DEF NoRequest, Request
  <1>5. /\ requests' \in [Endpoints -> Request]
        /\ \A f \in Endpoints : requests'[f] # NoRequest =>
             /\ requests[f] # NoRequest
             /\ requests'[f].inst = requests[f].inst /\ requests'[f].nic = requests[f].nic
    <2>1. CASE requests' = [requests EXCEPT ![e] = NoRequest]
      BY <1>1, <1>4, <2>1
    <2>2. CASE requests' = [requests EXCEPT ![e].awaited = FALSE]
      <3>1. requests[e] \in Request
        BY <1>1
      <3>2. /\ [requests[e] EXCEPT !.awaited = FALSE] \in Request
            /\ [requests[e] EXCEPT !.awaited = FALSE].inst = requests[e].inst
            /\ [requests[e] EXCEPT !.awaited = FALSE].nic = requests[e].nic
        BY <3>1 DEF Request
      <3>. QED
        BY <1>1, <2>2, <3>2
    <2>. QED
      BY <2>1, <2>2 DEF CreateStep, StoreEndpoint, FailCreate
  <1>6. FlightTypes'
    BY <1>1, <1>2, <1>5 DEF FlightTypes
  <1>7. CASE StoreEndpoint(e)
    <2>1. WritesEndpoint(e)
      BY <1>7, CreationsWriteEndpoint
    <2>2. /\ StreamInv'
          /\ \A f \in Endpoints : Keeps(StoredBme(f), StoredBme(f)')
          /\ \A f \in Endpoints \ {e} : UNCHANGED StoredBme(f)
          /\ Follows(Stored(bmes), Stored(bmes)')
      BY <2>1, EndpointWritesKeepInv
    <2>3. requests'[e] = NoRequest
      BY <1>1, <1>7 DEF StoreEndpoint
    <2>4. RequestsOK'
      BY <1>5, <2>2, <2>3 DEF RequestsOK, FlightInv
    <2>. QED
      BY <1>2, <1>3, <1>6, <2>2, <2>4, PassedKept DEF NetworkInv
  <1>8. CASE FailCreate(e)
    <2>1. UNCHANGED <<bmes, bmis, bmns>>
      BY <1>8 DEF FailCreate
    <2>2. StreamInv'
      BY <1>2, <2>1 DEF StreamInv, StreamTypes, Ordered
    <2>3. UNCHANGED Stored(bmes)
      BY <2>1 DEF Stored
    <2>4. /\ Follows(Stored(bmes), Stored(bmes)')
          /\ \A f \in Endpoints : UNCHANGED StoredBme(f)
      BY <2>3, StoredFollows
    <2>5. RequestsOK'
      BY <1>5, <2>4 DEF RequestsOK, FlightInv
    <2>. QED
      BY <1>2, <1>3, <1>6, <2>2, <2>4, <2>5, PassedKept DEF NetworkInv, Keeps
  <1>. QED
    BY <1>7, <1>8 DEF CreateStep

\* The provisioner asks for an endpoint that is not stored.
LEMMA AsksForUnborn ==
    ASSUME NetworkInv, NEW i \in Instances, CreateEndpoint(i)
    PROVE  RequestsOK' /\ requests' \in [Endpoints -> Request]
  <1>1. PICK k \in 1..Len(NICs), e \in Endpoints :
          /\ NextEndpoint(e)
          /\ requests' = [requests EXCEPT ![e] = [inst |-> i, nic |-> k, awaited |-> TRUE]]
    BY DEF CreateEndpoint
  <1>2. /\ requests \in [Endpoints -> Request] /\ RequestsOK
        /\ UNCHANGED bmes /\ k \in 0..Len(NICs)
        /\ StoredBme(e).exists = "unborn"
    BY <1>1, NetworkAssumption
       DEF NetworkInv, FlightInv, FlightTypes, CreateEndpoint, NextEndpoint
  <1>. DEFINE r == [inst |-> i, nic |-> k, awaited |-> TRUE]
  <1>3. r \in Request /\ r.inst = i /\ r.nic = k
    BY <1>2 DEF Request
  <1>. HIDE DEF r
  <1>4. requests' = [requests EXCEPT ![e] = r]
    BY <1>1 DEF r
  <1>. QED
    BY <1>2, <1>3, <1>4 DEF RequestsOK, StoredBme

\* The provisioner passes a NIC only when it sees that it is addressed.
LEMMA InstanceStepsKeepFlight ==
    ASSUME NetworkInv, NEW i \in Instances,
           \/ DeleteInstance(i) \/ InstanceEnds(i)
           \/ ProvisionerStep(i) \/ MarkNetworkedLate(i)
    PROVE  /\ NetworkInv'
           /\ \A e \in Endpoints : Keeps(StoredBme(e), StoredBme(e)')
           /\ \A j \in Instances, k \in 1..Len(NICs) :
                (loop[j] = k /\ loop'[j] = k + 1) => AddressedNIC(j, k)
  <1>. StreamInv /\ FlightInv
    BY DEF NetworkInv
  <1>0. /\ requests \in [Endpoints -> Request] /\ late \in SUBSET Instances
        /\ loop \in [Instances -> 0..Sent] /\ RequestsOK
        /\ Sent \in Nat \ {0} /\ Len(NICs) \in Nat
    BY NetworkAssumption DEF FlightInv, FlightTypes, Sent
  <1>1. /\ StreamInv' /\ UNCHANGED bmes
        /\ \A j \in Instances : Stored(bmis)'[j] = "networked" =>
             \/ Stored(bmis)[j] = "networked"
             \/ j = i /\ (loop[i] = Sent \/ i \in late)
    BY InstanceStepsKeepInv
  <1>2. /\ Follows(Stored(bmes), Stored(bmes)')
        /\ \A f \in Endpoints : UNCHANGED StoredBme(f)
    <2>1. UNCHANGED Stored(bmes)
      BY <1>1 DEF Stored
    <2>. QED
      BY <2>1, StoredFollows
  <1>3. requests' \in [Endpoints -> Request] /\ RequestsOK'
    <2>1. CASE UNCHANGED requests
      BY <1>0, <1>2, <2>1 DEF RequestsOK
    <2>2. CASE CreateEndpoint(i)
      BY <2>2, AsksForUnborn
    <2>. QED
      BY <2>1, <2>2
         DEF DeleteInstance, InstanceEnds, MarkNetworkedLate, ProvisionerStep, BeginNetworking,
             PassNIC, WaitForAddress, StopOnDuplicates, MarkNetworked, MarkRefused,
             MarkUnanswered, inFlight
  <1>4. /\ late' \in SUBSET Instances
        /\ \A j \in late' : j \in late \/ (j = i /\ loop[i] = Sent)
    <2>1. CASE UNCHANGED late
      BY <1>0, <2>1
    <2>2. CASE MarkUnanswered(i)
      BY <1>0, <2>2 DEF MarkUnanswered
    <2>3. CASE late' = late \ {i}
      BY <1>0, <2>3
    <2>. QED
      BY <2>1, <2>2, <2>3
         DEF DeleteInstance, InstanceEnds, MarkNetworkedLate, ProvisionerStep, BeginNetworking,
             PassNIC, WaitForAddress, StopOnDuplicates, CreateEndpoint, MarkNetworked,
             MarkRefused, inFlight
  <1>5. /\ loop' \in [Instances -> 0..Sent]
        /\ \A j \in Instances \ {i} : loop'[j] = loop[j]
        /\ \/ loop'[i] = loop[i] \/ loop'[i] = 0
           \/ loop[i] = 0 /\ loop'[i] = 1
           \/ /\ loop[i] \in 1..Len(NICs) /\ loop'[i] = loop[i] + 1
              /\ AddressedNIC(i, loop[i])
    <2>0. 0 \in 0..Sent /\ 1 \in 0..Sent /\ \A k \in 1..Len(NICs) : k + 1 \in 0..Sent
      BY <1>0 DEF Sent
    <2>1. CASE UNCHANGED loop
      BY <1>0, <2>1
    <2>2. CASE loop' = [loop EXCEPT ![i] = 0]
      BY <1>0, <2>0, <2>2
    <2>3. CASE BeginNetworking(i)
      BY <1>0, <2>0, <2>3 DEF BeginNetworking
    <2>4. CASE PassNIC(i)
      <3>1. /\ loop[i] \in 1..Len(NICs) /\ AddressedNIC(i, loop[i])
            /\ loop' = [loop EXCEPT ![i] = @ + 1]
        BY <2>4 DEF PassNIC, Lists
      <3>. QED
        BY <1>0, <2>0, <3>1
    <2>. QED
      BY <2>1, <2>2, <2>3, <2>4
         DEF DeleteInstance, InstanceEnds, MarkNetworkedLate, ProvisionerStep,
             WaitForAddress, StopOnDuplicates, CreateEndpoint, MarkNetworked, MarkRefused,
             MarkUnanswered, inFlight, EndQueued
  <1>6. FlightTypes'
    BY <1>3, <1>4, <1>5 DEF FlightTypes
  <1>7. ASSUME NEW j \in Instances, NEW k \in 1..Len(NICs), Passed(j, k)'
        PROVE  Passed(j, k) \/ AddressedNIC(j, k)
    <2>0. k < Sent
      BY <1>0 DEF Sent
    <2>1. CASE j \in late' \/ Stored(bmis)'[j] = "networked"
      BY <1>1, <1>4, <2>0, <2>1 DEF Passed
    <2>2. CASE k < loop'[j]
      <3>1. CASE loop'[j] = loop[j]
        BY <2>2, <3>1 DEF Passed
      <3>2. CASE loop'[j] = 0 \/ (loop[j] = 0 /\ loop'[j] = 1)
        BY <1>0, <2>2, <3>2
      <3>3. CASE loop[j] \in 1..Len(NICs) /\ loop'[j] = loop[j] + 1 /\ AddressedNIC(j, loop[j])
        <4>1. k < loop[j] \/ k = loop[j]
          BY <1>0, <2>2, <3>3
        <4>. QED
          BY <3>3, <4>1 DEF Passed
      <3>. QED
        BY <1>5, <3>1, <3>2, <3>3
    <2>. QED
      BY <1>7, <2>1, <2>2 DEF Passed
  <1>8. FlightInv'
    BY <1>2, <1>3, <1>6, <1>7, PassedKept
  <1>9. ASSUME NEW j \in Instances, NEW k \in 1..Len(NICs), loop[j] = k, loop'[j] = k + 1
        PROVE  AddressedNIC(j, k)
    <2>1. k # 0 /\ k + 1 # k /\ k + 1 # 0
      BY <1>0
    <2>. QED
      BY <1>5, <1>9, <2>1
  <1>. QED
    BY <1>1, <1>2, <1>8, <1>9 DEF NetworkInv, Keeps

\* A restart leaves what was sent on its way.
LEMMA RestartKeepsFlight ==
    ASSUME NetworkInv, RestartManager
    PROVE  NetworkInv' /\ UNCHANGED Stored(bmes) /\ \A i \in Instances : loop'[i] = 0
  <1>. StreamInv /\ FlightInv
    BY DEF NetworkInv
  <1>0. /\ requests \in [Endpoints -> Request] /\ late \in SUBSET Instances
        /\ RequestsOK /\ Sent \in Nat \ {0} /\ Len(NICs) \in Nat
    BY NetworkAssumption DEF FlightInv, FlightTypes, Sent
  <1>1. StreamInv' /\ UNCHANGED <<Stored(bmes), Stored(bmis)>>
    BY WatchesKeepStreams
  <1>2. /\ Follows(Stored(bmes), Stored(bmes)')
        /\ \A f \in Endpoints : UNCHANGED StoredBme(f)
    BY <1>1, StoredFollows
  <1>3. /\ requests' = [e \in Endpoints |-> [requests[e] EXCEPT !.awaited = FALSE]]
        /\ loop' = [i \in Instances |-> 0]
        /\ late' \subseteq late \cup {i \in Instances : loop[i] = Sent}
    BY DEF RestartManager
  <1>4. ASSUME NEW e \in Endpoints
        PROVE  /\ requests'[e] \in Request
               /\ requests'[e].inst = requests[e].inst /\ requests'[e].nic = requests[e].nic
               /\ requests[e] = NoRequest => requests'[e] = NoRequest
    <2>1. requests[e] \in Request
      BY <1>0
    <2>2. requests'[e] = [requests[e] EXCEPT !.awaited = FALSE]
      BY <1>3
    <2>3. /\ requests'[e].inst = requests[e].inst /\ requests'[e].nic = requests[e].nic
          /\ requests'[e].awaited = FALSE /\ requests'[e] \in Request
      BY <2>1, <2>2 DEF Request
    <2>4. ASSUME requests[e] = NoRequest PROVE requests'[e] = NoRequest
      <3>. DEFINE r == requests'[e]
      <3>1. r = [inst |-> r.inst, nic |-> r.nic, awaited |-> r.awaited]
        BY <2>3 DEF Request
      <3>2. r.inst = Nil /\ r.nic = 0 /\ r.awaited = FALSE
        BY <2>3, <2>4 DEF NoRequest
      <3>. HIDE DEF r
      <3>3. r = [inst |-> Nil, nic |-> 0, awaited |-> FALSE]
        BY <3>1, <3>2
      <3>. QED
        BY <3>3 DEF r, NoRequest
    <2>. QED
      BY <2>3, <2>4
  <1>5. requests' \in [Endpoints -> Request]
    <2>1. \A e \in Endpoints : [requests[e] EXCEPT !.awaited = FALSE] \in Request
      BY <1>3, <1>4
    <2>. QED
      BY <1>3, <2>1
  <1>6. RequestsOK'
    BY <1>0, <1>2, <1>4 DEF RequestsOK
  <1>7. FlightTypes'
    <2>1. 0 \in 0..Sent
      BY <1>0
    <2>. QED
      BY <1>0, <1>3, <1>5, <2>1 DEF FlightTypes
  <1>8. \A i \in Instances, k \in 1..Len(NICs) : Passed(i, k)' => Passed(i, k)
    BY <1>0, <1>1, <1>3 DEF Passed, Sent
  <1>9. FlightInv'
    BY <1>2, <1>6, <1>7, <1>8, PassedKept
  <1>. QED
    BY <1>1, <1>3, <1>9 DEF NetworkInv

-----------------------------------------------------------------------------
(***************************************************************************)
(* Work is not forgotten.                                                  *)
(***************************************************************************)
Duplicated(i) == \E k \in 1..Len(NICs) : Cardinality(OurBMEs(i, k)) > 1

\* What a controller would act on is in its queue, or its watch has yet to bring a
\* version of it.
EndpointsAwaited ==
    \A e \in Endpoints :
        /\ NeedsController(Bme(e)) => e \in queue.controller \/ ~Fresh(bmes, e)
        /\ NeedsNetwork(Bme(e)) => e \in queue.network \/ ~Fresh(bmes, e)

\* An instance that is not networked is in the queue, its reconcile is under way, or
\* the provisioner has stopped at several endpoints of a NIC.
InstancesAwaited ==
    \A i \in Instances : Cached(bmis)[i] = "claimed" =>
        i \in queue.provisioner \/ ~Fresh(bmis, i) \/ Duplicated(i) \/ loop[i] # 0

Awaited == EndpointsAwaited /\ InstancesAwaited

\* Each live endpoint that is not addressed, or that is deleted with a phase, is
\* the business of one of its two controllers.
LEMMA AwaitedIsDone ==
    ASSUME StreamInv, Awaited
    PROVE  IdleIsDone
  <1>1. ASSUME NEW e \in Endpoints, Bme(e).exists = "live", Fresh(bmes, e),
               e \notin queue.controller \cup queue.network
        PROVE  Bme(e).phase = IF Bme(e).deleting THEN "" ELSE "Addressed"
    <2>1. ~NeedsController(Bme(e)) /\ ~NeedsNetwork(Bme(e))
      BY <1>1 DEF Awaited, EndpointsAwaited
    <2>2. Bme(e) \in Endpoint
      BY Streams DEF StreamInv
    <2>. QED
      BY <1>1, <2>1, <2>2 DEF NeedsController, NeedsNetwork, Endpoint
  <1>. QED
    BY <1>1 DEF Awaited, InstancesAwaited, Duplicated, IdleIsDone

\* Storing an endpoint, which leaves its queue only when it is changed.
LEMMA EndpointWritesAreAwaited ==
    ASSUME StreamInv, Awaited, NEW e \in Endpoints, NEW v \in Endpoint, StoreBme(e, v),
           UNCHANGED <<bmis, loop>>,
           \/ UNCHANGED queue
           \/ \E c \in {"controller", "network"} : Done(c, e) /\ v # StoredBme(e)
    PROVE  Awaited'
  <1>. DEFINE V == EndpointVersion
  <1>1. bmes \in Seq(V) /\ bmes # <<>> /\ bmes' = Put(bmes, e, v) /\ queue \in Queues
    BY Streams DEF StreamInv, StoreBme
  <1>2. Changed(bmes, e, v) \in V /\ DOMAIN Stored(bmes) = Endpoints
    <2>1. Stored(bmes) \in [Endpoints -> Endpoint]
      BY <1>1, StreamVersions DEF EndpointVersion
    <2>. QED
      BY <2>1 DEF Changed, EndpointVersion
  <1>. HIDE DEF V
  <1>3. Cached(bmes') = Cached(bmes)
    BY <1>1, <1>2, PutVersions
  <1>4. /\ v # StoredBme(e) => ~Fresh(bmes', e)
        /\ \A f \in Endpoints : ~Fresh(bmes, f) => ~Fresh(bmes', f)
    BY <1>1, <1>2, PutAwaits DEF StoredBme
  <1>5. /\ queue'.provisioner = queue.provisioner
        /\ \A f \in Endpoints :
             /\ f \in queue.controller => f \in queue'.controller \/ (f = e /\ v # StoredBme(e))
             /\ f \in queue.network => f \in queue'.network \/ (f = e /\ v # StoredBme(e))
    <2>1. CASE UNCHANGED queue
      BY <2>1
    <2>2. ASSUME NEW c \in {"controller", "network"}, Done(c, e), v # StoredBme(e)
          PROVE  <1>5!1 /\ <1>5!2
      BY <1>1, <2>2 DEF Done, Queues
    <2>. QED
      BY <2>1, <2>2
  <1>6. \A f \in Endpoints : Bme(f)' = Bme(f)
    BY <1>3 DEF Bme
  <1>7. EndpointsAwaited'
    <2>. SUFFICES ASSUME NEW f \in Endpoints
                  PROVE  /\ NeedsController(Bme(f)') => f \in queue'.controller \/ ~Fresh(bmes', f)
                         /\ NeedsNetwork(Bme(f)') => f \in queue'.network \/ ~Fresh(bmes', f)
      BY DEF EndpointsAwaited, NeedsController, NeedsNetwork
    <2>. QED
      BY <1>4, <1>5, <1>6 DEF Awaited, EndpointsAwaited
  <1>8. \A i \in Instances : Duplicated(i) => Duplicated(i)'
    <2>1. \A i, k : OurBMEs(i, k)' = OurBMEs(i, k)
      BY <1>6 DEF OurBMEs
    <2>. QED
      BY <2>1 DEF Duplicated
  <1>9. InstancesAwaited'
    BY <1>5, <1>8 DEF Awaited, InstancesAwaited
  <1>. QED
    BY <1>7, <1>9 DEF Awaited

\* What the controllers of endpoints write is never what they read.
LEMMA ControllersAreAwaited ==
    ASSUME StreamInv, Awaited, NEW e \in Endpoints, ControllerStep(e) \/ NetworkStep(e)
    PROVE  Awaited'
  <1>. DEFINE o == Bme(e)
  <1>1. ASSUME NEW c \in {"controller", "network"}, NEW v \in Endpoint,
               UpdateBme(c, e, v), v # o
        PROVE  Awaited'
    <2>1. o = StoredBme(e)
      BY <1>1, CachedAndStored DEF UpdateBme
    <2>. QED
      BY <1>1, <2>1, EndpointWritesAreAwaited DEF UpdateBme, inFlight
  <1>2. o \in Endpoint
    BY Streams DEF StreamInv
  <1>3. ASSUME NEW p \in Phases, p # o.phase, NEW c \in {"controller", "network"},
               UpdateBme(c, e, [o EXCEPT !.phase = p])
        PROVE  Awaited'
    <2>. DEFINE v == [o EXCEPT !.phase = p]
    <2>1. v \in Endpoint /\ v.phase = p
      BY <1>2 DEF Endpoint
    <2>. HIDE DEF v
    <2>. QED
      BY <1>1, <1>3, <2>1 DEF v
  <1>4. ASSUME NEW a \in Addresses \cup {Nil}, a # o.address,
               UpdateBme("network", e, [o EXCEPT !.address = a])
        PROVE  Awaited'
    <2>. DEFINE v == [o EXCEPT !.address = a]
    <2>1. v \in Endpoint /\ v.address = a
      BY <1>2 DEF Endpoint
    <2>. HIDE DEF v
    <2>. QED
      BY <1>1, <1>4, <2>1 DEF v
  <1>5. CASE SetPending(e)
    BY <1>3, <1>5 DEF SetPending, NeedsController, Phases
  <1>6. CASE RemoveFinalizer(e)
    <2>1. o.exists = "live" /\ UpdateBme("controller", e, Gone(o))
      BY <1>6 DEF RemoveFinalizer, NeedsController
    <2>2. Gone(o) \in Endpoint /\ Gone(o).exists = "gone"
      BY <1>2, GoneEndpoint
    <2>. QED
      BY <1>1, <2>1, <2>2
  <1>7. CASE SetDeleted(e) \/ SetDeleting(e) \/ SetAddressed(e) \/ StartAddressing(e)
    BY <1>3, <1>7 DEF SetDeleted, SetDeleting, SetAddressed, StartAddressing, Leaving, Arriving,
                      NeedsNetwork, Phases
  <1>8. CASE ReleaseAddress(e)
    BY <1>4, <1>8 DEF ReleaseAddress
  <1>9. CASE Allocate(e)
    <2>. DEFINE n == NetworkOf[o.nic]
    <2>1. /\ o.address = Nil /\ o.exists = "live"
          /\ UpdateBme("network", e, [o EXCEPT !.address = NextIP(n)])
          /\ Bmn(n) # Nil /\ Free(n) # {}
      BY <1>9 DEF Allocate, NetworkFound, Arriving, NeedsNetwork
    <2>2. n \in Networks
      <3>1. Proper(o)
        BY CachedAndStored DEF Follows
      <3>2. o.nic \in 1..Len(NICs)
        BY <1>2, <2>1, <3>1, NetworkAssumption DEF Proper, Endpoint
      <3>. QED
        BY <3>2, NetworkAssumption
    <2>3. NextIP(n) \in Addresses
      BY <2>1, <2>2, NextIPIsFree DEF StreamInv
    <2>4. Nil \notin Addresses
      BY NetworkAssumption DEF Addresses
    <2>. QED
      BY <1>4, <2>1, <2>3, <2>4
  <1>. QED
    BY <1>5, <1>6, <1>7, <1>8, <1>9 DEF ControllerStep, NetworkStep

\* Users and the garbage collector take no endpoint out of a queue.
LEMMA DeletesAreAwaited ==
    ASSUME StreamInv, Awaited, NEW e \in Endpoints, DeleteEndpoint(e) \/ CollectGarbage(e)
    PROVE  Awaited'
  <1>1. DeleteEndpoint(e)
    BY DEF CollectGarbage
  <1>2. [StoredBme(e) EXCEPT !.deleting = TRUE] \in Endpoint
    <2>1. StoredBme(e) \in Endpoint
      BY Streams DEF StreamInv
    <2>. QED
      BY <2>1 DEF Endpoint
  <1>. QED
    BY <1>1, <1>2, EndpointWritesAreAwaited DEF DeleteEndpoint, inFlight

\* What keeps the cached endpoints and instances, and gives up an instance only to
\* queue it, when it is changed, or for several endpoints of a NIC.
LEMMA StepsAreAwaited ==
    ASSUME StreamInv, Awaited,
           \A e \in Endpoints : /\ UNCHANGED Bme(e)
                                /\ ~Fresh(bmes, e) => ~Fresh(bmes', e),
           UNCHANGED <<Cached(bmis), queue.controller, queue.network>>,
           \A i \in Instances : ~Fresh(bmis, i) => ~Fresh(bmis', i),
           \A i \in Instances :
             i \in queue.provisioner \/ loop[i] # 0 =>
               \/ i \in queue'.provisioner \/ loop'[i] # 0
               \/ ~Fresh(bmis', i) \/ Duplicated(i) \/ Cached(bmis)[i] # "claimed"
    PROVE  Awaited'
  <1>1. EndpointsAwaited'
    <2>. SUFFICES ASSUME NEW e \in Endpoints
                  PROVE  /\ NeedsController(Bme(e)') => e \in queue'.controller \/ ~Fresh(bmes', e)
                         /\ NeedsNetwork(Bme(e)') => e \in queue'.network \/ ~Fresh(bmes', e)
      BY DEF EndpointsAwaited, NeedsController, NeedsNetwork
    <2>. QED
      BY DEF Awaited, EndpointsAwaited
  <1>2. \A i \in Instances : Duplicated(i) => Duplicated(i)'
    <2>1. \A i, k : OurBMEs(i, k)' = OurBMEs(i, k)
      BY DEF OurBMEs
    <2>. QED
      BY <2>1 DEF Duplicated
  <1>3. InstancesAwaited'
    BY <1>2 DEF Awaited, InstancesAwaited
  <1>. QED
    BY <1>1, <1>3 DEF Awaited

\* Storing an instance, or nothing.
LEMMA InstanceStoring ==
    ASSUME StreamInv, NEW i \in Instances, NEW v \in InstanceStates, StoreBmi(i, v)
    PROVE  /\ Cached(bmis') = Cached(bmis)
           /\ v # Stored(bmis)[i] => ~Fresh(bmis', i)
           /\ \A j \in Instances : ~Fresh(bmis, j) => ~Fresh(bmis', j)
  <1>. DEFINE V == InstanceVersion
  <1>1. bmis \in Seq(V) /\ bmis # <<>> /\ bmis' = Put(bmis, i, v)
    BY Streams DEF StreamInv, StoreBmi
  <1>2. Changed(bmis, i, v) \in V /\ DOMAIN Stored(bmis) = Instances
    <2>1. Stored(bmis) \in [Instances -> InstanceStates]
      BY <1>1, StreamVersions DEF InstanceVersion
    <2>. QED
      BY <2>1 DEF Changed, InstanceVersion
  <1>. HIDE DEF V
  <1>. QED
    BY <1>1, <1>2, PutVersions, PutAwaits

\* Of instances: a reconcile ends by queueing its instance, by marking it networked,
\* or at several endpoints of a NIC.
LEMMA InstancesAreAwaited ==
    ASSUME NetworkInv, Awaited, NEW i \in Instances,
           \/ DeleteInstance(i) \/ InstanceEnds(i)
           \/ ProvisionerStep(i) \/ MarkNetworkedLate(i)
    PROVE  Awaited'
  <1>. /\ StreamInv /\ queue \in Queues
       /\ loop \in [Instances -> 0..Sent]
       /\ Sent \in Nat \ {0} /\ Len(NICs) \in Nat
    BY Streams, NetworkAssumption DEF NetworkInv, FlightInv, FlightTypes, StreamInv, Sent
  <1>1. \A e \in Endpoints : /\ UNCHANGED Bme(e)
                             /\ ~Fresh(bmes, e) => ~Fresh(bmes', e)
    BY InstanceStepsKeepInv DEF Bme
  <1>2. CASE DeleteInstance(i) \/ InstanceEnds(i) \/ MarkNetworkedLate(i)
    <2>1. UNCHANGED <<queue, loop>>
      BY <1>2 DEF DeleteInstance, InstanceEnds, MarkNetworkedLate, inFlight
    <2>2. /\ UNCHANGED Cached(bmis)
          /\ \A j \in Instances : ~Fresh(bmis, j) => ~Fresh(bmis', j)
      <3>1. CASE UNCHANGED bmis
        BY <3>1
      <3>2. CASE \E v \in InstanceStates : StoreBmi(i, v)
        BY <3>2, InstanceStoring
      <3>. QED
        BY <1>2, <3>1, <3>2 DEF DeleteInstance, InstanceEnds, MarkNetworkedLate, InstanceStates
    <2>. QED
      BY <1>1, <2>1, <2>2, StepsAreAwaited
  <1>3. CASE MarkNetworked(i)
    <2>1. /\ StoreBmi(i, "networked") /\ Stored(bmis)[i] # "networked"
          /\ loop' = [loop EXCEPT ![i] = 0] /\ UNCHANGED queue
      BY <1>3 DEF MarkNetworked
    <2>2. /\ UNCHANGED Cached(bmis) /\ ~Fresh(bmis', i)
          /\ \A j \in Instances : ~Fresh(bmis, j) => ~Fresh(bmis', j)
      BY <2>1, InstanceStoring DEF InstanceStates
    <2>. QED
      BY <1>1, <2>1, <2>2, StepsAreAwaited
  <1>4. ASSUME UNCHANGED <<bmis, queue.controller, queue.network>>,
               \A j \in Instances : j \in queue.provisioner \/ loop[j] # 0 =>
                 \/ j \in queue'.provisioner \/ loop'[j] # 0
                 \/ Duplicated(j) \/ Cached(bmis)[j] # "claimed"
        PROVE  Awaited'
    BY <1>1, <1>4, StepsAreAwaited
  <1>5. CASE EndQueued(i) /\ UNCHANGED bmis
    BY <1>4, <1>5 DEF EndQueued, NeedsProvisioner, Queues
  <1>6. CASE BeginNetworking(i)
    BY <1>4, <1>6 DEF BeginNetworking, Done, Queues
  <1>7. CASE PassNIC(i)
    BY <1>4, <1>7 DEF PassNIC, Lists
  <1>8. CASE StopOnDuplicates(i)
    BY <1>4, <1>8 DEF StopOnDuplicates, Duplicated
  <1>9. CASE CreateEndpoint(i)
    BY <1>4, <1>9 DEF CreateEndpoint
  <1>. QED
    BY <1>2, <1>3, <1>5, <1>6, <1>7, <1>8, <1>9
       DEF ProvisionerStep, WaitForAddress, MarkRefused, MarkUnanswered

\* Of creations: the caller is queued.
LEMMA CreationsAreAwaited ==
    ASSUME NetworkInv, Awaited, NEW e \in Endpoints, CreateStep(e)
    PROVE  Awaited'
  <1>. StreamInv /\ FlightInv
    BY DEF NetworkInv
  <1>1. /\ UNCHANGED <<bmis, queue.controller, queue.network>>
        /\ queue.provisioner \subseteq queue'.provisioner
        /\ \A i \in Instances :
             \/ loop'[i] = loop[i]
             \/ /\ loop'[i] = 0
                /\ i \in queue'.provisioner \/ Cached(bmis)[i] # "claimed"
    BY AnsweredQueues DEF CreateStep, StoreEndpoint, FailCreate
  <1>2. \A f \in Endpoints : /\ UNCHANGED Bme(f)
                             /\ ~Fresh(bmes, f) => ~Fresh(bmes', f)
    <2>1. CASE UNCHANGED bmes
      BY <2>1 DEF Bme
    <2>2. CASE \E v \in Endpoint : StoreBme(e, v)
      <3>1. PICK v \in Endpoint : bmes' = Put(bmes, e, v)
        BY <2>2 DEF StoreBme
      <3>. DEFINE V == EndpointVersion
      <3>2. bmes \in Seq(V) /\ bmes # <<>>
        BY Streams DEF StreamInv
      <3>3. Changed(bmes, e, v) \in V /\ DOMAIN Stored(bmes) = Endpoints
        <4>1. Stored(bmes) \in [Endpoints -> Endpoint]
          BY <3>2, StreamVersions DEF EndpointVersion
        <4>. QED
          BY <4>1 DEF Changed, EndpointVersion
      <3>. HIDE DEF V
      <3>. QED
        BY <3>1, <3>2, <3>3, PutVersions, PutAwaits DEF Bme
    <2>. QED
      BY <2>1, <2>2, CreationsWriteEndpoint
         DEF CreateStep, StoreEndpoint, FailCreate, WritesEndpoint
  <1>. QED
    BY <1>1, <1>2, StepsAreAwaited

\* The watches queue what they change, and the owners of endpoints, so that nothing
\* else changes for who is not queued.
LEMMA WatchesAreAwaited ==
    ASSUME StreamInv, Awaited, WatchBmes \/ WatchBmis \/ RestartManager
    PROVE  Awaited'
  <1>0. /\ bmes \in Seq(EndpointVersion) /\ bmes # <<>> /\ Len(bmes) \in Nat \ {0}
        /\ bmis \in Seq(InstanceVersion) /\ bmis # <<>>
        /\ queue \in Queues
        /\ \A k \in 1..Len(bmes) : bmes[k] \in EndpointVersion
    BY Streams DEF StreamInv
  <1>1. CASE WatchBmes
    <2>1. /\ CanDeliver(bmes) /\ bmes' = Deliver(bmes) /\ UNCHANGED <<bmis, loop>>
          /\ Cached(bmes') = bmes[2] /\ Cached(bmes) = bmes[1]
          /\ 1 \in 1..Len(bmes) /\ 2 \in 1..Len(bmes)
      <3>1. CanDeliver(bmes) /\ bmes' = Deliver(bmes) /\ UNCHANGED <<bmis, loop>>
        BY <1>1 DEF WatchBmes, inFlight
      <3>2. Cached(bmes') = bmes[2] /\ 2 \in 1..Len(bmes)
        BY <1>0, <3>1, DeliverVersions
      <3>. QED
        BY <1>0, <3>1, <3>2 DEF Cached
    <2>2. /\ \A e \in Endpoints : Bme(e) = bmes[1][e] /\ Bme(e)' = bmes[2][e]
          /\ DOMAIN bmes[1] = Endpoints
      BY <1>0, <2>1 DEF Bme, EndpointVersion
    <2>3. \A e \in Endpoints : e \in Delivered(bmes) <=> Bme(e) # Bme(e)'
      BY <2>2 DEF Delivered
    <2>4. \A e \in Endpoints \ Delivered(bmes) : ~Fresh(bmes, e) => ~Fresh(bmes', e)
      BY <1>0, <2>1, <2>2, <2>3, DeliverAwaits
    <2>5. /\ \A e \in Endpoints :
               /\ NeedsController(Bme(e)') => (e \in queue'.controller
                                                <=> e \in queue.controller \cup Delivered(bmes))
               /\ NeedsNetwork(Bme(e)') => (e \in queue'.network
                                                <=> e \in queue.network \cup Delivered(bmes))
          /\ queue'.provisioner = {i \in queue.provisioner \cup Owners :
                                    Cached(bmis)[i] = "claimed"}
      <3>1. Delivered(bmes) \subseteq Endpoints
        BY <2>2 DEF Delivered
      <3>. QED
        BY <1>0, <1>1, <2>2, <3>1 DEF WatchBmes, NeedsProvisioner, Queues
    <2>6. EndpointsAwaited'
      <3>. SUFFICES ASSUME NEW e \in Endpoints
                    PROVE  /\ NeedsController(Bme(e)')
                                => e \in queue'.controller \/ ~Fresh(bmes', e)
                           /\ NeedsNetwork(Bme(e)')
                                => e \in queue'.network \/ ~Fresh(bmes', e)
        BY DEF EndpointsAwaited, NeedsController, NeedsNetwork
      <3>1. CASE e \in Delivered(bmes)
        BY <2>5, <3>1
      <3>2. CASE e \notin Delivered(bmes)
        BY <2>3, <2>4, <2>5, <3>2 DEF Awaited, EndpointsAwaited
      <3>. QED
        BY <3>1, <3>2
    <2>7. ASSUME NEW i \in Instances, i \notin Owners, Duplicated(i)
          PROVE  Duplicated(i)'
      <3>1. \A e \in Endpoints : Bme(e)' = Bme(e) \/ (Bme(e).inst # i /\ Bme(e)'.inst # i)
        <4>. SUFFICES ASSUME NEW e \in Delivered(bmes)
                      PROVE  bmes[1][e].inst # i /\ bmes[2][e].inst # i
          BY <2>2, <2>3
        <4>. QED
          BY <2>7, NetworkAssumption DEF Owners
      <3>2. \A k : OurBMEs(i, k)' = OurBMEs(i, k)
        BY <3>1 DEF OurBMEs
      <3>. QED
        BY <2>7, <3>2 DEF Duplicated
    <2>8. InstancesAwaited'
      BY <2>1, <2>5, <2>7 DEF Awaited, InstancesAwaited
    <2>. QED
      BY <2>6, <2>8 DEF Awaited
  <1>2. CASE WatchBmis
    <2>1. /\ CanDeliver(bmis) /\ bmis' = Deliver(bmis) /\ UNCHANGED <<bmes, loop>>
          /\ queue' = [queue EXCEPT !.provisioner = {i \in @ \cup Delivered(bmis) :
                                                      bmis[2][i] = "claimed"}]
          /\ Cached(bmis') = bmis[2] /\ Cached(bmis) = bmis[1]
      BY <1>0, <1>2, DeliverVersions DEF WatchBmis, NeedsProvisioner, Cached, inFlight
    <2>2. bmis[1] \in [Instances -> InstanceStates]
      BY <1>0, <2>1, StreamVersions DEF InstanceVersion
    <2>3. \A i \in Instances : i \in Delivered(bmis) <=> bmis[1][i] # bmis[2][i]
      BY <2>2 DEF Delivered
    <2>4. \A i \in Instances \ Delivered(bmis) : ~Fresh(bmis, i) => ~Fresh(bmis', i)
      BY <1>0, <2>1, <2>3, DeliverAwaits
    <2>5. /\ UNCHANGED <<queue.controller, queue.network>>
          /\ queue'.provisioner = {i \in queue.provisioner \cup Delivered(bmis) :
                                    bmis[2][i] = "claimed"}
      BY <1>0, <2>1 DEF Queues
    <2>6. \A i \in Instances : Duplicated(i) => Duplicated(i)'
      BY <2>1 DEF Duplicated, OurBMEs, Bme
    <2>7. EndpointsAwaited'
      BY <2>1, <2>5 DEF Awaited, EndpointsAwaited, NeedsController, NeedsNetwork, Bme
    <2>8. InstancesAwaited'
      BY <2>1, <2>3, <2>4, <2>5, <2>6 DEF Awaited, InstancesAwaited
    <2>. QED
      BY <2>7, <2>8 DEF Awaited
  <1>3. CASE RestartManager
    <2>1. Cached(bmes') = Stored(bmes) /\ Cached(bmis') = Stored(bmis)
      BY <1>0, <1>3, RelistedVersions DEF RestartManager
    <2>2. /\ \A e \in Endpoints : Bme(e)' = StoredBme(e)
          /\ queue'.controller = {e \in Endpoints : NeedsController(StoredBme(e))}
          /\ queue'.network = {e \in Endpoints : NeedsNetwork(StoredBme(e))}
          /\ queue'.provisioner = {i \in Instances : Stored(bmis)[i] = "claimed"}
      BY <1>3, <2>1 DEF RestartManager, NeedsProvisioner, Bme, StoredBme
    <2>3. EndpointsAwaited'
      <3>. SUFFICES ASSUME NEW e \in Endpoints
                    PROVE  /\ NeedsController(Bme(e)') => e \in queue'.controller
                           /\ NeedsNetwork(Bme(e)') => e \in queue'.network
        BY DEF EndpointsAwaited, NeedsController, NeedsNetwork
      <3>. QED
        BY <2>2
    <2>4. InstancesAwaited'
      BY <2>1, <2>2 DEF InstancesAwaited
    <2>. QED
      BY <2>3, <2>4 DEF Awaited
  <1>. QED
    BY <1>1, <1>2, <1>3

\* At the beginning the instances are queued, and there is nothing else.
LEMMA AwaitedInit == Init => Awaited
  <1>. SUFFICES ASSUME Init PROVE Awaited
    OBVIOUS
  <1>1. \A e \in Endpoints : Bme(e) = Unborn
    BY DEF Init, Bme, Cached
  <1>2. Unborn.exists = "unborn"
    BY DEF Unborn
  <1>. QED
    BY <1>1, <1>2 DEF Init, Awaited, EndpointsAwaited, InstancesAwaited, NeedsController,
                      NeedsNetwork

-----------------------------------------------------------------------------
(***************************************************************************)
(* The theorems.                                                           *)
(***************************************************************************)
\* No endpoint exists at the beginning.
LEMMA StreamInvInit == Init => StreamInv
  <1>. SUFFICES ASSUME Init PROVE StreamInv
    OBVIOUS
  <1>1. PICK s \in Specs : bmns = <<[n \in Networks |-> [spec |-> s, deleting |-> FALSE]]>>
    BY DEF Init
  <1>. DEFINE first == [e \in Endpoints |-> Unborn]
              second == [i \in Instances |-> "claimed"]
              third == [n \in Networks |-> [spec |-> s, deleting |-> FALSE]]
  <1>2. first \in EndpointVersion /\ \A e \in Endpoints : first[e] = Unborn
    <2>1. Unborn \in Endpoint
      <3>1. 0 \in 0..Len(NICs)
        BY NetworkAssumption
      <3>. QED
        BY <3>1 DEF Unborn, Endpoint, Phases
    <2>. QED
      BY <2>1 DEF EndpointVersion
  <1>3. second \in InstanceVersion /\ third \in NetworkVersion
    BY DEF InstanceVersion, InstanceStates, NetworkVersion, Network
  <1>4. bmes = <<first>> /\ bmis = <<second>> /\ bmns = <<third>>
    BY <1>1 DEF Init
  <1>5. queue \in Queues
    BY DEF Init, Queues
  <1>. HIDE DEF first, second, third
  <1>6. /\ bmes \in Seq(EndpointVersion) /\ Len(bmes) = 1 /\ bmes[1] = first
        /\ bmis \in Seq(InstanceVersion) /\ Len(bmis) = 1
        /\ bmns \in Seq(NetworkVersion) /\ Len(bmns) = 1
    BY <1>2, <1>3, <1>4
  <1>7. Follows(first, first)
    <2>1. /\ Unborn.exists = "unborn" /\ Unborn.phase = "" /\ Unborn.address = Nil
          /\ ~Unborn.deleting
      BY DEF Unborn
    <2>. QED
      BY <1>2, <2>1 DEF Follows, Proper, Same
  <1>8. Ordered
    BY <1>6, <1>7 DEF Ordered
  <1>9. 1 \in 1..(EndpointLag + 1) /\ 1 \in 1..(ObjectLag + 1)
    BY NetworkAssumption
  <1>. QED
    BY <1>5, <1>6, <1>8, <1>9
       DEF StreamInv, StreamTypes, EndpointVersion, InstanceVersion, NetworkVersion, Queues

\* And nothing is under way.
LEMMA FlightInvInit == Init => FlightInv
  <1>. SUFFICES ASSUME Init PROVE FlightInv
    OBVIOUS
  <1>1. /\ loop = [i \in Instances |-> 0]
        /\ requests = [e \in Endpoints |-> NoRequest]
        /\ late = {}
        /\ bmis = <<[i \in Instances |-> "claimed"]>>
    BY DEF Init
  <1>2. 0 \in 0..Sent /\ NoRequest \in Request /\ Len(NICs) \in Nat
    <2>1. 0 \in 0..Len(NICs) /\ 0 \in 0..Sent
      BY NetworkAssumption DEF Sent
    <2>. QED
      BY <2>1, NetworkAssumption DEF NoRequest, Request
  <1>3. FlightTypes
    BY <1>1, <1>2 DEF FlightTypes
  <1>4. RequestsOK
    BY <1>1 DEF RequestsOK
  <1>5. \A i \in Instances : Stored(bmis)[i] = "claimed"
    BY <1>1 DEF Stored
  <1>6. PassedOK
    BY <1>1, <1>2, <1>5 DEF PassedOK, Passed
  <1>. QED
    BY <1>3, <1>4, <1>6 DEF FlightInv

\* Steps that write an endpoint that is there.
LEMMA EndpointStepsKeepInv ==
    ASSUME NetworkInv, NEW e \in Endpoints,
           ControllerStep(e) \/ NetworkStep(e) \/ DeleteEndpoint(e) \/ CollectGarbage(e)
    PROVE  /\ NetworkInv'
           /\ \A f \in Endpoints : Keeps(StoredBme(f), StoredBme(f)')
           /\ UNCHANGED loop
  <1>1. StreamInv
    BY DEF NetworkInv
  <1>2. WritesEndpoint(e) /\ StoredBme(e).exists = "live"
    BY <1>1, ControllersWriteEndpoint, DeletesWriteEndpoint
  <1>3. /\ StreamInv'
        /\ \A f \in Endpoints : Keeps(StoredBme(f), StoredBme(f)')
        /\ \A f \in Endpoints \ {e} : UNCHANGED StoredBme(f)
        /\ Follows(Stored(bmes), Stored(bmes)')
    BY <1>1, <1>2, EndpointWritesKeepInv
  <1>4. UNCHANGED inFlight /\ UNCHANGED bmis
    BY DEF ControllerStep, SetPending, RemoveFinalizer, NetworkStep, SetDeleted, SetDeleting,
           ReleaseAddress, SetAddressed, StartAddressing, Allocate, UpdateBme,
           CollectGarbage, DeleteEndpoint
  <1>5. \A f \in Endpoints : StoredBme(f).exists = "unborn" => StoredBme(f)'.exists = "unborn"
    BY <1>2, <1>3
  <1>6. FlightInv'
    BY <1>3, <1>4, <1>5, FlightUnchanged DEF Stored
  <1>. QED
    BY <1>3, <1>4, <1>6 DEF NetworkInv, inFlight

\* Steps that store no endpoint and no instance, and leave what is under way alone.
LEMMA QuietStepsKeepInv ==
    ASSUME NetworkInv, StreamInv', UNCHANGED <<Stored(bmes), Stored(bmis)>>, UNCHANGED inFlight
    PROVE  NetworkInv' /\ \A e \in Endpoints : Keeps(StoredBme(e), StoredBme(e)')
  <1>1. /\ Follows(Stored(bmes), Stored(bmes)')
        /\ \A e \in Endpoints : UNCHANGED StoredBme(e)
    BY StoredFollows DEF NetworkInv
  <1>2. FlightInv'
    BY <1>1, FlightUnchanged
  <1>. QED
    BY <1>1, <1>2 DEF NetworkInv, Keeps

\* What every step does.
LEMMA EveryNetworkStep ==
    ASSUME NetworkInv, [Next]_vars
    PROVE  /\ NetworkInv'
           /\ \A e \in Endpoints : Keeps(StoredBme(e), StoredBme(e)')
           /\ \A i \in Instances, k \in 1..Len(NICs) :
                (loop[i] = k /\ loop'[i] = k + 1) => AddressedNIC(i, k)
  <1>. StreamInv /\ loop \in [Instances -> 0..Sent] /\ Len(NICs) \in Nat
    BY NetworkAssumption DEF NetworkInv, FlightInv, FlightTypes
  <1>0. ASSUME \A i \in Instances : loop'[i] \in {loop[i], 0}
        PROVE  \A i \in Instances, k \in 1..Len(NICs) : ~(loop[i] = k /\ loop'[i] = k + 1)
    <2>1. \A k \in 1..Len(NICs) : k + 1 # k /\ k + 1 # 0
      OBVIOUS
    <2>. QED
      BY <1>0, <2>1
  <1>1. CASE \E e \in Endpoints :
               \/ ControllerStep(e) \/ NetworkStep(e)
               \/ DeleteEndpoint(e) \/ CollectGarbage(e)
    BY <1>0, <1>1, EndpointStepsKeepInv
  <1>2. CASE \E e \in Endpoints : CreateStep(e)
    BY <1>0, <1>2, CreationsKeepFlight
  <1>3. CASE \E i \in Instances :
               \/ DeleteInstance(i) \/ InstanceEnds(i)
               \/ ProvisionerStep(i) \/ MarkNetworkedLate(i)
    BY <1>3, InstanceStepsKeepFlight
  <1>4. ASSUME StreamInv', UNCHANGED <<Stored(bmes), Stored(bmis)>>, UNCHANGED inFlight
        PROVE  /\ NetworkInv'
               /\ \A e \in Endpoints : Keeps(StoredBme(e), StoredBme(e)')
               /\ \A i \in Instances, k \in 1..Len(NICs) :
                    ~(loop[i] = k /\ loop'[i] = k + 1)
    BY <1>0, <1>4, QuietStepsKeepInv DEF inFlight
  <1>5. CASE \E n \in Networks :
               \/ DeleteNetwork(n)
               \/ RemoveNetworkFinalizer(n)
               \/ \E s \in Specs : CreateNetwork(n, s)
    <2>1. StreamInv' /\ UNCHANGED <<bmes, bmis>>
      BY <1>5, NetworkStepsKeepInv
    <2>2. UNCHANGED inFlight
      BY <1>5 DEF DeleteNetwork, RemoveNetworkFinalizer, CreateNetwork
    <2>. QED
      BY <1>4, <2>1, <2>2 DEF Stored
  <1>6. CASE WatchBmes \/ WatchBmis \/ WatchBmns
    <2>1. UNCHANGED inFlight
      BY <1>6 DEF WatchBmes, WatchBmis, WatchBmns
    <2>. QED
      BY <1>4, <1>6, <2>1, WatchesKeepStreams
  <1>7. CASE RestartManager
    <2>1. NetworkInv' /\ UNCHANGED Stored(bmes) /\ \A i \in Instances : loop'[i] = 0
      BY <1>7, RestartKeepsFlight
    <2>. QED
      BY <1>0, <2>1 DEF Keeps, StoredBme
  <1>8. CASE UNCHANGED vars
    <2>1. StreamInv' /\ UNCHANGED <<Stored(bmes), Stored(bmis)>> /\ UNCHANGED inFlight
      BY <1>8 DEF vars, inFlight, StreamInv, StreamTypes, Ordered, Stored
    <2>. QED
      BY <1>4, <2>1
  <1>9. CASE UserStep
    BY <1>1, <1>3, <1>5, <1>9 DEF UserStep
  <1>10. CASE SystemStep
    BY <1>1, <1>2, <1>3, <1>5, <1>6, <1>10 DEF SystemStep
  <1>. QED
    BY <1>7, <1>8, <1>9, <1>10 DEF Next

\* So the invariant holds throughout.
LEMMA NetworkInvHolds == Spec => []NetworkInv
  <1>1. NetworkInv /\ [Next]_vars => NetworkInv'
    BY EveryNetworkStep
  <1>2. Init => NetworkInv
    BY StreamInvInit, FlightInvInit DEF NetworkInv
  <1>. QED
    BY <1>1, <1>2, PTL DEF Spec

\* And work is not forgotten.
LEMMA AwaitedHolds == Spec => []Awaited
  <1>1. ASSUME NetworkInv, Awaited, [Next]_vars
        PROVE  Awaited'
    <2>. StreamInv
      BY <1>1 DEF NetworkInv
    <2>1. CASE UNCHANGED <<bmes, bmis, queue, loop>>
      BY <1>1, <2>1, StepsAreAwaited DEF Bme
    <2>2. ASSUME NEW n \in Networks,
                 \/ DeleteNetwork(n)
                 \/ RemoveNetworkFinalizer(n)
                 \/ \E s \in Specs : CreateNetwork(n, s)
          PROVE  Awaited'
      BY <2>1, <2>2 DEF DeleteNetwork, RemoveNetworkFinalizer, CreateNetwork, inFlight
    <2>3. CASE WatchBmns \/ UNCHANGED vars
      BY <2>1, <2>3 DEF WatchBmns, vars, inFlight
    <2>4. CASE UserStep
      BY <1>1, <2>2, <2>4, DeletesAreAwaited, InstancesAreAwaited DEF UserStep
    <2>5. CASE SystemStep
      BY <1>1, <2>2, <2>3, <2>5, ControllersAreAwaited, DeletesAreAwaited, CreationsAreAwaited,
         InstancesAreAwaited, WatchesAreAwaited DEF SystemStep
    <2>. QED
      BY <1>1, <2>3, <2>4, <2>5, WatchesAreAwaited DEF Next
  <1>2. NetworkInv /\ Awaited /\ [Next]_vars => Awaited'
    BY <1>1
  <1>. QED
    BY <1>2, AwaitedInit, NetworkInvHolds, PTL DEF Spec

\* Endpoints, instances, networks, queues and what is under way are of their types: an
\* address that is given is one of the network's range.
THEOREM NetworkTypes == Spec => []NetworkTypeOK
  <1>1. NetworkInv => NetworkTypeOK
    BY DEF NetworkInv, StreamInv, FlightInv, StreamTypes, FlightTypes, NetworkTypeOK, Queues
  <1>. QED
    BY <1>1, NetworkInvHolds, PTL

\* No controller that is behind takes an address from an endpoint, or gives it
\* another one (network.go:105-157, 210-226).
THEOREM AddressesAreKept == Spec => AddressIsKept
  <1>1. NetworkInv /\ [Next]_vars
          => [\A e \in Endpoints :
                LET a == StoredBme(e).address IN
                (a # Nil /\ StoredBme(e)'.address # a)
                  => StoredBme(e).deleting /\ StoredBme(e)'.address = Nil]_vars
    BY EveryNetworkStep DEF Keeps
  <1>. QED
    BY <1>1, NetworkInvHolds, PTL DEF Spec, AddressIsKept

\* A NIC may get endpoints twice, also from creations stored late, but what the
\* provisioner does not see when it takes the NIC for addressed, no controller has
\* seen either: it has no phase, and so no address (provisioner.go:354-446).
THEOREM NICsArePassedOnOneEndpoint == Spec => PassedOnOneEndpoint
  <1>1. NetworkInv /\ [Next]_vars
          => [\A i \in Instances, k \in 1..Len(NICs) :
                (loop[i] = k /\ loop'[i] = k + 1)
                  => \E e \in Endpoints : \A f \in Endpoints \ {e} :
                       (/\ StoredBme(f).exists = "live"
                        /\ StoredBme(f).inst = i
                        /\ StoredBme(f).nic = k) => StoredBme(f).phase = ""]_vars
    <2>. SUFFICES ASSUME NetworkInv, Next, NEW i \in Instances, NEW k \in 1..Len(NICs),
                         loop[i] = k, loop'[i] = k + 1
                  PROVE  \E e \in Endpoints : \A f \in Endpoints \ {e} :
                           (/\ StoredBme(f).exists = "live"
                            /\ StoredBme(f).inst = i
                            /\ StoredBme(f).nic = k) => StoredBme(f).phase = ""
      OBVIOUS
    <2>1. AddressedNIC(i, k)
      BY EveryNetworkStep
    <2>. QED
      BY <2>1, AddressedIsServed DEF NetworkInv
  <1>. QED
    BY <1>1, NetworkInvHolds, PTL DEF Spec, PassedOnOneEndpoint

\* What a reconcile saw to be addressed is so, or was deleted, when its status update
\* is stored, however late (provisioner.go:346-460).
THEOREM NetworkedInstancesHaveAddresses == Spec => []NetworkedHasAddresses
  <1>1. NetworkInv => NetworkedHasAddresses
    BY DEF NetworkInv, FlightInv, PassedOK, Passed, Served, Settled, NetworkedHasAddresses
  <1>. QED
    BY <1>1, NetworkInvHolds, PTL

\* No wakeup is lost: an endpoint that is in no queue, and that no watch will bring,
\* has its address or was deleted before it got a phase, and the instance for which
\* the provisioner stopped has a NIC with several endpoints (controller.go:41-82,
\* network.go:96-232, provisioner.go:434-446).
THEOREM IdleEndpointsAreDone == Spec => []IdleIsDone
  <1>1. NetworkInv /\ Awaited => IdleIsDone
    BY AwaitedIsDone DEF NetworkInv
  <1>. QED
    BY <1>1, NetworkInvHolds, AwaitedHolds, PTL
=============================================================================
