--------------------------- MODULE EndpointNetwork ---------------------------
(***************************************************************************)
(* The endpoints of instances and their addresses: the provisioner creates *)
(* one endpoint for each NIC of its hardware and waits until all have an   *)
(* address, the endpoint controller and the network controller of          *)
(* endpoints share the phases of one object, and users may delete          *)
(* endpoints, networks and instances at any time.                          *)
(*                                                                         *)
(* Every controller is driven by its work queue.  A watch event puts an    *)
(* object into the queues of the controllers that watch it, a reconcile    *)
(* takes it out; an error, a conflict and Requeue leave it in (such a      *)
(* reconcile changes nothing here and is no step).  So a reconcile that    *)
(* returns without a requeue runs again only when something wakes it.      *)
(*                                                                         *)
(* A reconcile whose one write is of the object it read is one step: the   *)
(* write is refused when the object has changed.  The provisioner's is     *)
(* not: it lists the endpoints of one NIC after the other, and what it     *)
(* sends then, the creation of an endpoint or the instance's status, is    *)
(* stored when it arrives, whatever the lists were by that time, and also  *)
(* when the call failed for the caller or the manager has ended.           *)
(***************************************************************************)
EXTENDS Naturals, Sequences, FiniteSets, WatchStream

CONSTANTS
    Nil,           \* no object, no address
    Instances,     \* the instances, by UID
    Endpoints,     \* the endpoints, numbered in the order they are asked for
    Networks,      \* the names of networks
    Specs,         \* what a network may be: [start, end, reserved]
    NICs,          \* the NICs of an instance's hardware, in the order of its spec
    NetworkOf,     \* the network each NIC's networkRef names
    EndpointLag,   \* how many versions of the endpoints are on their way to the cache
    ObjectLag      \* the same for the instances and for the networks

\* A range ends below the largest address, past which the walk would start anew.
\* Nil is no UID and no address.
ASSUME NetworkAssumption ==
    /\ Endpoints \subseteq Nat
    /\ EndpointLag \in Nat \ {0}
    /\ ObjectLag \in Nat \ {0}
    /\ Len(NICs) \in Nat
    /\ NetworkOf \in [1..Len(NICs) -> Networks]
    /\ \A s \in Specs : s.start \in Nat /\ s.end \in Nat /\ s.start < s.end
    /\ Nil \notin Instances /\ \A s \in Specs : Nil \notin s.start..s.end

VARIABLES
    bmes, bmis, bmns,   \* the endpoints, instances and networks
    queue,              \* the work queues
    loop,               \* the NIC the provisioner's reconcile of an instance is at
    requests,           \* creations of endpoints that were sent and are not stored
    late                \* instances with a status update that nobody waits for;
                        \* one that would be refused by now is forgotten

inFlight == <<loop, requests, late>>

vars == <<bmes, bmis, bmns, queue, loop, requests, late>>

Addresses == UNION {s.start..s.end : s \in Specs}

Phases == {"", "Pending", "Addressing", "Addressed", "Deleting", "Deleted"}

Endpoint ==
    [exists : {"unborn", "live", "gone"}, inst : Instances \cup {Nil},
     nic : 0..Len(NICs), phase : Phases, deleting : BOOLEAN,
     address : Addresses \cup {Nil}]

\* Of an instance: it claimed its hardware, its endpoints are addressed (the
\* networked condition), it is being deleted, it is gone.
InstanceStates == {"claimed", "networked", "deleting", "gone"}

Network == [spec : Specs, deleting : BOOLEAN]

Request == [inst : Instances \cup {Nil}, nic : 0..Len(NICs), awaited : BOOLEAN]

\* Past the last NIC, the instance's status is sent.
Sent == Len(NICs) + 1

NetworkTypeOK ==
    /\ bmes \in Seq([Endpoints -> Endpoint])
    /\ Len(bmes) \in 1..(EndpointLag + 1)
    /\ bmis \in Seq([Instances -> InstanceStates])
    /\ Len(bmis) \in 1..(ObjectLag + 1)
    /\ bmns \in Seq([Networks -> Network \cup {Nil}])
    /\ Len(bmns) \in 1..(ObjectLag + 1)
    /\ queue \in [controller : SUBSET Endpoints, network : SUBSET Endpoints,
                  provisioner : SUBSET Instances]
    /\ loop \in [Instances -> 0..Sent]
    /\ requests \in [Endpoints -> Request]
    /\ late \in SUBSET Instances

Unborn == [exists |-> "unborn", inst |-> Nil, nic |-> 0, phase |-> "",
           deleting |-> FALSE, address |-> Nil]

\* Whose it was is remembered.
Gone(o) == [Unborn EXCEPT !.exists = "gone", !.inst = o.inst, !.nic = o.nic]

NoRequest == [inst |-> Nil, nic |-> 0, awaited |-> FALSE]

Init ==
    /\ bmes = <<[e \in Endpoints |-> Unborn]>>
    /\ bmis = <<[i \in Instances |-> "claimed"]>>
    /\ \E s \in Specs : bmns = <<[n \in Networks |-> [spec |-> s, deleting |-> FALSE]]>>
    /\ queue = [controller |-> {}, network |-> {}, provisioner |-> Instances]
    /\ loop = [i \in Instances |-> 0]
    /\ requests = [e \in Endpoints |-> NoRequest]
    /\ late = {}

-----------------------------------------------------------------------------
\* What the controllers read, and what is stored.
Bme(e) == Cached(bmes)[e]
Bmn(n) == Cached(bmns)[n]
StoredBme(e) == Stored(bmes)[e]

StoreBme(e, v) ==
    /\ Len(bmes) <= EndpointLag
    /\ bmes' = Put(bmes, e, v)

StoreBmi(i, v) ==
    /\ Len(bmis) <= ObjectLag
    /\ bmis' = Put(bmis, i, v)

StoreBmn(n, v) ==
    /\ Len(bmns) <= ObjectLag
    /\ bmns' = Put(bmns, n, v)

\* The item is taken out of the controller's queue and handled.
Done(controller, item) == queue' = [queue EXCEPT ![controller] = @ \ {item}]

\* Mutant: the write is not tied to the version that was read.
UpdateUnconditionally(controller, e, v) ==
    /\ e \in queue[controller]
    /\ StoreBme(e, v)
    /\ Done(controller, e)
    /\ UNCHANGED <<bmis, bmns, inFlight>>

\* A reconcile that writes the endpoint; refused, and so queued again, when the
\* endpoint it read is not the stored one.
UpdateBme(controller, e, v) ==
    /\ e \in queue[controller]
    /\ Fresh(bmes, e)
    /\ StoreBme(e, v)
    /\ Done(controller, e)
    /\ UNCHANGED <<bmis, bmns, inFlight>>

\* What the controllers do something about: an object o for which they return at
\* once is taken out of their queues when it gets in, as such a reconcile changes
\* nothing and only an event of o can make it act again.
NeedsController(o) ==
    /\ o.exists = "live"
    /\ IF o.deleting THEN o.phase = "Deleted" ELSE o.phase = ""

\* An endpoint without a phase is none of its network's business.
NeedsNetwork(o) ==
    /\ o.exists = "live"
    /\ o.phase # ""
    /\ IF o.deleting THEN o.phase # "Deleted" ELSE o.phase # "Addressed"

\* The networked condition of the instance is there, and False.
NeedsProvisioner(o) == o = "claimed"

Leaving(e) == NeedsNetwork(Bme(e)) /\ Bme(e).deleting
Arriving(e) == NeedsNetwork(Bme(e)) /\ ~Bme(e).deleting

(***************************************************************************)
(* Users, the rest of the instance's life, and Kubernetes.                 *)
(***************************************************************************)
DeleteEndpoint(e) ==
    /\ StoredBme(e).exists = "live"
    /\ ~StoredBme(e).deleting
    /\ StoreBme(e, [StoredBme(e) EXCEPT !.deleting = TRUE])
    /\ UNCHANGED <<bmis, bmns, queue, inFlight>>

CreateNetwork(n, s) ==
    /\ Stored(bmns)[n] = Nil
    /\ StoreBmn(n, [spec |-> s, deleting |-> FALSE])
    /\ UNCHANGED <<bmes, bmis, queue, inFlight>>

DeleteNetwork(n) ==
    /\ Stored(bmns)[n] # Nil
    /\ StoreBmn(n, [Stored(bmns)[n] EXCEPT !.deleting = TRUE])
    /\ Stored(bmns)[n].deleting = FALSE
    /\ UNCHANGED <<bmes, bmis, queue, inFlight>>

DeleteInstance(i) ==
    /\ Stored(bmis)[i] \in {"claimed", "networked"}
    /\ StoreBmi(i, "deleting")
    /\ late' = late \ {i}
    /\ UNCHANGED <<bmes, bmns, queue, loop, requests>>

\* Cleaned and terminated, as InstanceLifecycle has it, by reconciles of their own.
InstanceEnds(i) ==
    /\ Stored(bmis)[i] = "deleting"
    /\ loop[i] = 0
    /\ StoreBmi(i, "gone")
    /\ UNCHANGED <<bmes, bmns, queue, inFlight>>

\* The garbage collector deletes what is owned by an object that is gone.
CollectGarbage(e) ==
    /\ StoredBme(e).exists = "live"
    /\ Stored(bmis)[StoredBme(e).inst] = "gone"
    /\ DeleteEndpoint(e)

(***************************************************************************)
(* The endpoint controller (controller.go).                                *)
(***************************************************************************)
SetPending(e) ==
    /\ NeedsController(Bme(e))
    /\ ~Bme(e).deleting
    /\ UpdateBme("controller", e, [Bme(e) EXCEPT !.phase = "Pending"])

RemoveFinalizer(e) ==
    /\ NeedsController(Bme(e))
    /\ Bme(e).deleting
    /\ UpdateBme("controller", e, Gone(Bme(e)))

(***************************************************************************)
(* The network's controller of endpoints (network.go).                     *)
(***************************************************************************)
NetworkFound(e) == Bmn(NetworkOf[Bme(e).nic]) # Nil

\* Mutant: an endpoint whose network is gone waits for it.
SetDeletedByNetwork(e) ==
    /\ Leaving(e)
    /\ Bme(e).address = Nil
    /\ NetworkFound(e)
    /\ UpdateBme("network", e, [Bme(e) EXCEPT !.phase = "Deleted"])

SetDeleted(e) ==
    /\ Leaving(e)
    /\ Bme(e).address = Nil
    /\ UpdateBme("network", e, [Bme(e) EXCEPT !.phase = "Deleted"])

SetDeleting(e) ==
    /\ Leaving(e)
    /\ Bme(e).address # Nil
    /\ NetworkFound(e)
    /\ Bme(e).phase # "Deleting"
    /\ UpdateBme("network", e, [Bme(e) EXCEPT !.phase = "Deleting"])

\* Mutant: the address is released only to a network that still exists.
ReleaseAddressToNetwork(e) ==
    /\ Leaving(e)
    /\ Bme(e).address # Nil
    /\ NetworkFound(e) /\ Bme(e).phase = "Deleting"
    /\ UpdateBme("network", e, [Bme(e) EXCEPT !.address = Nil])

ReleaseAddress(e) ==
    /\ Leaving(e)
    /\ Bme(e).address # Nil
    /\ NetworkFound(e) => Bme(e).phase = "Deleting"
    /\ UpdateBme("network", e, [Bme(e) EXCEPT !.address = Nil])

SetAddressed(e) ==
    /\ Arriving(e)
    /\ Bme(e).address # Nil
    /\ UpdateBme("network", e, [Bme(e) EXCEPT !.phase = "Addressed"])

StartAddressing(e) ==
    /\ Arriving(e)
    /\ Bme(e).address = Nil
    /\ NetworkFound(e)
    /\ Bme(e).phase = "Pending"
    /\ UpdateBme("network", e, [Bme(e) EXCEPT !.phase = "Addressing"])

\* Mutant: the walk goes one address too far.
UsablePastEnd(s) == (s.start..(s.end + 1)) \ s.reserved

\* What the walk from Start to End does not skip: the network's address, its
\* gateway, its broadcast address and the nameservers are reserved, and so is
\* what the listed endpoints of the network have.
Usable(s) == (s.start..s.end) \ s.reserved

Taken(n) ==
    {Bme(e).address : e \in {f \in Endpoints :
        Bme(f).exists = "live" /\ NetworkOf[Bme(f).nic] = n}}

Free(n) == Usable(Bmn(n).spec) \ Taken(n)

NextIP(n) == CHOOSE a \in Free(n) : \A b \in Free(n) : a <= b

\* Mutant: an endpoint that finds no free address is not queued again.
AllocateOrDrop(e) ==
    /\ Arriving(e)
    /\ Bme(e).address = Nil
    /\ NetworkFound(e)
    /\ Bme(e).phase # "Pending"
    /\ IF Free(NetworkOf[Bme(e).nic]) # {}
       THEN UpdateBme("network", e,
                      [Bme(e) EXCEPT !.address = NextIP(NetworkOf[Bme(e).nic])])
       ELSE /\ e \in queue.network
            /\ Done("network", e)
            /\ UNCHANGED <<bmes, bmis, bmns, inFlight>>

Allocate(e) ==
    /\ Arriving(e)
    /\ Bme(e).address = Nil
    /\ NetworkFound(e)
    /\ Bme(e).phase # "Pending"
    /\ Free(NetworkOf[Bme(e).nic]) # {}
    /\ UpdateBme("network", e,
                 [Bme(e) EXCEPT !.address = NextIP(NetworkOf[Bme(e).nic])])

\* The network controller: a network goes when it is deleted, endpoints or not.
RemoveNetworkFinalizer(n) ==
    /\ Bmn(n) # Nil
    /\ Bmn(n).deleting
    /\ Fresh(bmns, n)
    /\ StoreBmn(n, Nil)
    /\ UNCHANGED <<bmes, bmis, queue, inFlight>>

(***************************************************************************)
(* The provisioner, while the networked condition is False.                *)
(***************************************************************************)
\* Mutant: endpoints that are not addressed yet are not counted.
OurAddressedBMEs(i, k) ==
    {e \in Endpoints : Bme(e).exists = "live" /\ Bme(e).inst = i /\ Bme(e).nic = k
                       /\ Bme(e).phase = "Addressed"}

\* The endpoints listed for NIC k that are owned by instance i.
OurBMEs(i, k) ==
    {e \in Endpoints : Bme(e).exists = "live" /\ Bme(e).inst = i /\ Bme(e).nic = k}

\* Mutant: the phase of the endpoint is not looked at.
CreatedNIC(i, k) == \E e \in Endpoints : OurBMEs(i, k) = {e}

AddressedNIC(i, k) ==
    \E e \in Endpoints : OurBMEs(i, k) = {e} /\ Bme(e).phase = "Addressed"

\* The instance is taken out of the queue.
BeginNetworking(i) ==
    /\ i \in queue.provisioner
    /\ loop[i] = 0
    /\ loop' = [loop EXCEPT ![i] = 1]
    /\ Done("provisioner", i)
    /\ UNCHANGED <<bmes, bmis, bmns, requests, late>>

\* The reconcile lists the endpoints of NIC k; it is not waiting for a creation.
Lists(i, k) ==
    /\ k \in 1..Len(NICs)
    /\ loop[i] = k
    /\ \A e \in Endpoints : ~(requests[e].inst = i /\ requests[e].awaited)

\* The reconcile ends; the instance is queued for now or for a minute later.
EndQueued(i) ==
    /\ loop' = [loop EXCEPT ![i] = 0]
    /\ queue' = [queue EXCEPT !.provisioner =
                    IF NeedsProvisioner(Cached(bmis)[i]) THEN @ \cup {i} ELSE @]

\* After the last NIC the status is sent.
PassNIC(i) ==
    /\ \E k \in 1..Len(NICs) : Lists(i, k) /\ AddressedNIC(i, k)
    /\ loop' = [loop EXCEPT ![i] = @ + 1]
    /\ UNCHANGED <<bmes, bmis, bmns, queue, requests, late>>

WaitForAddress(i) ==
    /\ \E k \in 1..Len(NICs), e \in Endpoints :
         Lists(i, k) /\ OurBMEs(i, k) = {e} /\ Bme(e).phase # "Addressed"
    /\ EndQueued(i)
    /\ UNCHANGED <<bmes, bmis, bmns, requests, late>>

\* Several endpoints of one NIC: an event, and no requeue.
StopOnDuplicates(i) ==
    /\ \E k \in 1..Len(NICs) : Lists(i, k) /\ Cardinality(OurBMEs(i, k)) > 1
    /\ loop' = [loop EXCEPT ![i] = 0]
    /\ UNCHANGED <<bmes, bmis, bmns, queue, requests, late>>

\* Of the endpoints that are left.
NextEndpoint(e) ==
    LET Left == {f \in Endpoints : StoredBme(f).exists = "unborn" /\ requests[f] = NoRequest} IN
    e \in Left /\ \A f \in Left : e <= f

\* Create is called.  The name is generated, so each creation makes another endpoint.
CreateEndpoint(i) ==
    /\ \E k \in 1..Len(NICs), e \in Endpoints :
         /\ Lists(i, k)
         /\ OurBMEs(i, k) = {}
         /\ NextEndpoint(e)
         /\ requests' = [requests EXCEPT ![e] = [inst |-> i, nic |-> k, awaited |-> TRUE]]
    /\ UNCHANGED <<bmes, bmis, bmns, queue, loop, late>>

\* The caller of creation e, if it is there, has its answer.
Answered(e) ==
    IF requests[e].awaited THEN EndQueued(requests[e].inst) ELSE UNCHANGED <<loop, queue>>

\* It is stored whatever endpoints there are by now.
StoreEndpoint(e) ==
    /\ requests[e] # NoRequest
    /\ StoreBme(e, [Unborn EXCEPT !.exists = "live", !.inst = requests[e].inst,
                                  !.nic = requests[e].nic])
    /\ Answered(e)
    /\ requests' = [requests EXCEPT ![e] = NoRequest]
    /\ UNCHANGED <<bmis, bmns, late>>

\* The call fails: the endpoint is not stored, or later.
FailCreate(e) ==
    /\ requests[e] # NoRequest
    /\ Answered(e)
    /\ \/ requests' = [requests EXCEPT ![e] = NoRequest]
       \/ /\ requests[e].awaited
          /\ requests' = [requests EXCEPT ![e].awaited = FALSE]
    /\ UNCHANGED <<bmes, bmis, bmns, late>>

\* The instance's status is stored if it is still as it was read: claimed is what it
\* is at first, and never again.
MarkNetworked(i) ==
    /\ loop[i] = Sent
    /\ Stored(bmis)[i] = "claimed"
    /\ StoreBmi(i, "networked")
    /\ loop' = [loop EXCEPT ![i] = 0]
    /\ late' = late \ {i}
    /\ UNCHANGED <<bmes, bmns, queue, requests>>

MarkRefused(i) ==
    /\ loop[i] = Sent
    /\ Stored(bmis)[i] # "claimed"
    /\ EndQueued(i)
    /\ UNCHANGED <<bmes, bmis, bmns, requests, late>>

\* The call fails, and the status may be stored later.
MarkUnanswered(i) ==
    /\ loop[i] = Sent
    /\ Stored(bmis)[i] = "claimed"
    /\ EndQueued(i)
    /\ late' = late \cup {i}
    /\ UNCHANGED <<bmes, bmis, bmns, requests>>

\* It arrives, or is lost.
MarkNetworkedLate(i) ==
    /\ i \in late
    /\ late' = late \ {i}
    /\ StoreBmi(i, "networked") \/ UNCHANGED bmis
    /\ UNCHANGED <<bmes, bmns, queue, loop, requests>>

(***************************************************************************)
(* The watches: what a delivered version changes is queued.                *)
(***************************************************************************)
\* The objects that the oldest undelivered version changes.
Delivered(s) == {o \in DOMAIN s[1] : s[1][o] # s[2][o]}

\* Mutant: the provisioner does not watch the endpoints it owns.
OwnersUnwatched == {}

\* The instances that own the endpoints about to be delivered.
Owners ==
    {bmes[k][e].inst : k \in {1, 2}, e \in Delivered(bmes)} \ {Nil}

WatchBmes ==
    /\ CanDeliver(bmes)
    /\ bmes' = Deliver(bmes)
    /\ queue' = [controller |-> {e \in queue.controller \cup Delivered(bmes) :
                                  NeedsController(bmes[2][e])},
                 network |-> {e \in queue.network \cup Delivered(bmes) :
                                  NeedsNetwork(bmes[2][e])},
                 provisioner |-> {i \in queue.provisioner \cup Owners :
                                      NeedsProvisioner(Cached(bmis)[i])}]
    /\ UNCHANGED <<bmis, bmns, inFlight>>

WatchBmis ==
    /\ CanDeliver(bmis)
    /\ bmis' = Deliver(bmis)
    /\ queue' = [queue EXCEPT !.provisioner = {i \in @ \cup Delivered(bmis) :
                                                NeedsProvisioner(bmis[2][i])}]
    /\ UNCHANGED <<bmes, bmns, inFlight>>

WatchBmns ==
    /\ CanDeliver(bmns)
    /\ bmns' = Deliver(bmns)
    /\ UNCHANGED <<bmes, bmis, queue, inFlight>>

\* A restarted manager queues all it lists.  What the old one has sent may arrive.
RestartManager ==
    /\ bmes' = Relisted(bmes)
    /\ bmis' = Relisted(bmis)
    /\ bmns' = Relisted(bmns)
    /\ queue' = [controller |-> {e \in Endpoints : NeedsController(StoredBme(e))},
                 network |-> {e \in Endpoints : NeedsNetwork(StoredBme(e))},
                 provisioner |-> {i \in Instances : NeedsProvisioner(Stored(bmis)[i])}]
    /\ loop' = [i \in Instances |-> 0]
    /\ requests' = [e \in Endpoints |-> [requests[e] EXCEPT !.awaited = FALSE]]
    /\ late' = late \cup {i \in Instances : loop[i] = Sent /\ Stored(bmis)[i] = "claimed"}

-----------------------------------------------------------------------------
ControllerStep(e) == SetPending(e) \/ RemoveFinalizer(e)

NetworkStep(e) ==
    \/ SetDeleted(e)
    \/ SetDeleting(e)
    \/ ReleaseAddress(e)
    \/ SetAddressed(e)
    \/ StartAddressing(e)
    \/ Allocate(e)

ProvisionerStep(i) ==
    \/ BeginNetworking(i)
    \/ PassNIC(i)
    \/ WaitForAddress(i)
    \/ StopOnDuplicates(i)
    \/ CreateEndpoint(i)
    \/ MarkNetworked(i)
    \/ MarkRefused(i)
    \/ MarkUnanswered(i)

\* The API server serves a creation, or it is lost.
CreateStep(e) == StoreEndpoint(e) \/ FailCreate(e)

UserStep ==
    \/ \E e \in Endpoints : DeleteEndpoint(e)
    \/ \E n \in Networks : DeleteNetwork(n) \/ \E s \in Specs : CreateNetwork(n, s)
    \/ \E i \in Instances : DeleteInstance(i) \/ InstanceEnds(i)

SystemStep ==
    \/ \E e \in Endpoints :
         ControllerStep(e) \/ NetworkStep(e) \/ CollectGarbage(e) \/ CreateStep(e)
    \/ \E i \in Instances : ProvisionerStep(i) \/ MarkNetworkedLate(i)
    \/ \E n \in Networks : RemoveNetworkFinalizer(n)
    \/ WatchBmes
    \/ WatchBmis
    \/ WatchBmns

Next == UserStep \/ SystemStep \/ RestartManager

\* Workers take what is queued, watches deliver, the garbage collector runs, and what
\* was sent is served or lost.  Users do as they like.
Fairness ==
    /\ \A e \in Endpoints :
         /\ WF_vars(ControllerStep(e))
         /\ WF_vars(NetworkStep(e))
         /\ WF_vars(CollectGarbage(e))
         /\ WF_vars(CreateStep(e))
    /\ \A i \in Instances : WF_vars(ProvisionerStep(i)) /\ WF_vars(MarkNetworkedLate(i))
    /\ WF_vars(WatchBmes)
    /\ WF_vars(WatchBmis)
    /\ WF_vars(WatchBmns)

Spec == Init /\ [][Next]_vars /\ Fairness

-----------------------------------------------------------------------------
(***************************************************************************)
(* Properties.                                                             *)
(***************************************************************************)
\* An address, once given, stays with its endpoint until the endpoint is deleted,
\* although two controllers write the endpoint from a cache that is behind.
AddressIsKept ==
    [][\A e \in Endpoints :
         LET a == StoredBme(e).address IN
         (a # Nil /\ StoredBme(e)'.address # a)
           => StoredBme(e).deleting /\ StoredBme(e)'.address = Nil]_vars

\* A NIC may have several endpoints, but when the provisioner takes it for addressed, no
\* other endpoint of it than the one it sees has got as far as a phase, whatever was
\* created since (provisioner.go:354-446): the network hands no second address to a
\* NIC before that NIC is taken for addressed.
PassedOnOneEndpoint ==
    [][\A i \in Instances, k \in 1..Len(NICs) :
         (loop[i] = k /\ loop'[i] = k + 1)
           => \E e \in Endpoints : \A f \in Endpoints \ {e} :
                (/\ StoredBme(f).exists = "live"
                 /\ StoredBme(f).inst = i
                 /\ StoredBme(f).nic = k) => StoredBme(f).phase = ""]_vars

\* A networked instance has for every NIC an endpoint with an address, unless it was
\* deleted: although the NICs are looked at one after the other, in a cache, and the
\* status is stored later (provisioner.go:346-460), what was seen to be addressed
\* stays so.
NetworkedHasAddresses ==
    \A i \in Instances :
        Stored(bmis)[i] = "networked"
          => \A k \in 1..Len(NICs) : \E e \in Endpoints :
               LET o == StoredBme(e) IN
               /\ o.inst = i /\ o.nic = k
               /\ \/ o.exists = "gone" \/ o.deleting
                  \/ o.phase = "Addressed" /\ o.address # Nil

\* No wakeup is lost: what no queue holds and no watch will bring has nothing left
\* to be done.  An endpoint has its address, or was deleted before it got a phase; an
\* instance that is not networked, nor worked on, has a NIC with several endpoints, at
\* which the provisioner stops without a requeue (controller.go:41-82,
\* network.go:96-232, provisioner.go:434-446).
IdleIsDone ==
    /\ \A e \in Endpoints :
         (/\ Bme(e).exists = "live"
          /\ Fresh(bmes, e)
          /\ e \notin queue.controller \cup queue.network)
           => Bme(e).phase = IF Bme(e).deleting THEN "" ELSE "Addressed"
    /\ \A i \in Instances :
         (/\ Cached(bmis)[i] = "claimed"
          /\ Fresh(bmis, i)
          /\ i \notin queue.provisioner
          /\ loop[i] = 0)
           => \E k \in 1..Len(NICs) : Cardinality(OurBMEs(i, k)) > 1

\* What a deleted instance's endpoints had goes back to the network for good, also
\* when the provisioner creates another endpoint after the instance is gone, and
\* when the network goes before the endpoints.
AddressesComeBack ==
    <>[](\A e \in Endpoints :
           (StoredBme(e).exists = "live" /\ Stored(bmis)[StoredBme(e).inst] = "gone")
             => StoredBme(e).address = Nil)

\* An endpoint that is deleted after it got a phase disappears.
DeletedEndpointsGo ==
    \A e \in Endpoints :
        (StoredBme(e).deleting /\ StoredBme(e).phase # "")
            ~> (StoredBme(e).exists = "gone")

\* No endpoint waits for ever while its network has an address that no endpoint
\* of it has: it is asked for again until one comes free (network.go:230).
Servable(e) ==
    LET n == NetworkOf[StoredBme(e).nic]
        taken == {StoredBme(f).address : f \in {g \in Endpoints :
                    StoredBme(g).exists = "live" /\ NetworkOf[StoredBme(g).nic] = n}} IN
    /\ StoredBme(e).exists = "live"
    /\ ~StoredBme(e).deleting
    /\ StoredBme(e).phase # "Addressed"
    /\ Stored(bmns)[n] # Nil
    /\ ~(Usable(Stored(bmns)[n].spec) \subseteq taken)

EndpointsAreServed == \A e \in Endpoints : []<>~Servable(e)

\* An instance whose endpoints are all addressed is woken and marked networked, unless
\* the manager is restarted or the calls that mark it fail for ever: then a reconcile
\* starts anew (provisioner.go:441-462, 765-785).
InstancesAreNetworked ==
    \A i \in Instances :
        \/ []<>~(/\ Stored(bmis)[i] = "claimed"
                 /\ \A k \in 1..Len(NICs) : \E e \in Endpoints :
                      /\ {f \in Endpoints : StoredBme(f).exists = "live" /\ StoredBme(f).inst = i
                                            /\ StoredBme(f).nic = k} = {e}
                      /\ StoredBme(e).phase = "Addressed")
        \/ []<><<RestartManager \/ MarkUnanswered(i)>>_vars

\* The lock is held so that no duplicate IPs are handed out, which "doesn't need to
\* be fast, it needs to be accurate" (network.go:160-161).
OneEndpointPerAddress ==
    \A e, f \in Endpoints :
        (StoredBme(e).address # Nil /\ StoredBme(e).address = StoredBme(f).address) => e = f

\* The network's controller sets a deleted endpoint without an address to Deleted,
\* and "Done deleting so remove bme finalizer" follows (network.go:96,
\* controller.go:58): every deleted endpoint goes.
EveryDeletedEndpointGoes ==
    \A e \in Endpoints : StoredBme(e).deleting ~> (StoredBme(e).exists = "gone")
=============================================================================
