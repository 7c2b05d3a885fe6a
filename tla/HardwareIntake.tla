--------------------------- MODULE HardwareIntake ---------------------------
(***************************************************************************)
(* How a machine becomes hardware that can be provisioned.  Its agent      *)
(* reports what it found to the discovery server, which keeps it in a      *)
(* BareMetalDiscovery with two writes; a user makes a BareMetalHardware of *)
(* it, and says which NICs and which drive to use; the hardware controller *)
(* copies the discovered hardware, compares the two, and holds the         *)
(* not-ready taint until all is found.                                     *)
(*                                                                         *)
(* The no-schedule taint and the reference to an instance are the subject  *)
(* of InstanceLifecycle.  A reconcile leaves the work queue when it writes *)
(* or finds nothing to do; Requeue and a conflict leave it in.             *)
(***************************************************************************)
EXTENDS Naturals, Sequences, FiniteSets, WatchStream

CONSTANTS
    Nil,           \* no object, no hardware
    Machines,      \* the machines, by systemUUID
    Hardware,      \* the names of BareMetalHardware
    MachineOf,     \* the systemUUID each of them gives
    Specs,         \* what users ask for: [nics, imageDrive]
    Reports,       \* what agents find: [nics, storage, valid]
    Requests,      \* the /discover requests served at a time
    Lag            \* how many versions of a type are on their way to the cache

\* A NIC of a spec is the set of interfaces it needs, several for a bond.  A report
\* is valid when the webhooks accept it, all its MAC addresses being such.
ASSUME IntakeAssumption ==
    /\ Lag \in Nat \ {0}
    /\ MachineOf \in [Hardware -> Machines]
    /\ \A s \in Specs : IsFiniteSet(s.nics) /\ {} \notin s.nics
    /\ Nil \notin Reports \cup Requests

VARIABLES bmhs, bmds, request, queue

vars == <<bmhs, bmds, request, queue>>

\* A condition by its reason: its part is found, is not found, is not given, or
\* the condition has not been set yet.  Only Valid has the status True.
Reasons == {"unset", "Valid", "Invalid", "NotSet"}

HardwareObject ==
    [spec : Specs, deleting : BOOLEAN, notReady : BOOLEAN,
     hardware : Reports \cup {Nil},
     hardwareSet : Reasons, nicsValid : Reasons, imageDriveValid : Reasons]

\* by tells one creation from another, as the UID does.
Discovery == [by : Requests, hardware : Reports \cup {Nil}]

Request ==
    [at : {"free", "create", "fill"}, machine : Machines \cup {Nil},
     hardware : Reports \cup {Nil}]

IntakeTypeOK ==
    /\ bmhs \in Seq([Hardware -> HardwareObject \cup {Nil}])
    /\ Len(bmhs) \in 1..(Lag + 1)
    /\ bmds \in Seq([Machines -> Discovery \cup {Nil}])
    /\ Len(bmds) \in 1..(Lag + 1)
    /\ request \in [Requests -> Request]
    /\ queue \in SUBSET Hardware

NewHardware(s) ==
    [spec |-> s, deleting |-> FALSE, notReady |-> FALSE, hardware |-> Nil,
     hardwareSet |-> "unset", nicsValid |-> "unset", imageDriveValid |-> "unset"]

Free == [at |-> "free", machine |-> Nil, hardware |-> Nil]

Init ==
    /\ bmhs = <<[h \in Hardware |-> Nil]>>
    /\ bmds = <<[m \in Machines |-> Nil]>>
    /\ request = [r \in Requests |-> Free]
    /\ queue = {}

-----------------------------------------------------------------------------
Bmh(h) == Cached(bmhs)[h]
Bmd(m) == Cached(bmds)[m]
StoredBmh(h) == Stored(bmhs)[h]
StoredBmd(m) == Stored(bmds)[m]

StoreBmh(h, v) ==
    /\ Len(bmhs) <= Lag
    /\ bmhs' = Put(bmhs, h, v)

StoreBmd(m, v) ==
    /\ Len(bmds) <= Lag
    /\ bmds' = Put(bmds, m, v)

(***************************************************************************)
(* Users, as the webhooks let them.                                        *)
(***************************************************************************)
\* Mutant: an update is not refused for the hardware that is there.
UpdateAlwaysAdmitted(o) == TRUE

\* An update of the object, not of its status, validates the hardware it has got.
UpdateAdmitted(o) == o.hardware # Nil => o.hardware.valid

\* The systemUUID must be new to the cache.
CreateHardware(h, s) ==
    /\ StoredBmh(h) = Nil
    /\ \A g \in Hardware : Bmh(g) # Nil => MachineOf[g] # MachineOf[h]
    /\ StoreBmh(h, NewHardware(s))
    /\ UNCHANGED <<bmds, request, queue>>

EditHardware(h, s) ==
    /\ StoredBmh(h) # Nil
    /\ UpdateAdmitted(StoredBmh(h))
    /\ s # StoredBmh(h).spec
    /\ StoreBmh(h, [StoredBmh(h) EXCEPT !.spec = s])
    /\ UNCHANGED <<bmds, request, queue>>

DeleteHardware(h) ==
    /\ StoredBmh(h) # Nil
    /\ ~StoredBmh(h).deleting
    /\ StoreBmh(h, [StoredBmh(h) EXCEPT !.deleting = TRUE])
    /\ UNCHANGED <<bmds, request, queue>>

DeleteDiscovery(m) ==
    /\ StoredBmd(m) # Nil
    /\ StoreBmd(m, Nil)
    /\ UNCHANGED <<bmhs, request, queue>>

(***************************************************************************)
(* The discovery server: discover.                                         *)
(***************************************************************************)
Known(m) == \E h \in Hardware : Bmh(h) # Nil /\ MachineOf[h] = m

\* An agent of machine m reports hardware w.  A machine with hardware, or with a
\* discovery that is filled in, is answered at once; a discovery that exists and
\* is not filled in makes the creation fail, and nothing else is tried.
ReceiveReport(r, m, w) ==
    /\ request[r].at = "free"
    /\ ~Known(m)
    /\ Bmd(m) = Nil
    /\ request' = [request EXCEPT ![r] = [at |-> "create", machine |-> m, hardware |-> w]]
    /\ UNCHANGED <<bmhs, bmds, queue>>

\* The webhook reads the cache, the API server refuses a name that is taken.
Admitted(m) == Bmd(m) = Nil /\ StoredBmd(m) = Nil

\* Mutant: a discovery that already exists is filled in as if it were created.
CreateOrUpdateDiscovery(r) ==
    /\ request[r].at = "create"
    /\ StoreBmd(request[r].machine, [by |-> r, hardware |-> Nil])
    /\ request' = [request EXCEPT ![r].at = "fill"]
    /\ UNCHANGED <<bmhs, queue>>

CreateDiscovery(r) ==
    /\ request[r].at = "create"
    /\ Admitted(request[r].machine)
    /\ StoreBmd(request[r].machine, [by |-> r, hardware |-> Nil])
    /\ request' = [request EXCEPT ![r].at = "fill"]
    /\ UNCHANGED <<bmhs, queue>>

\* Creation fails: an error, and the agent exits.
RefuseReport(r) ==
    /\ request[r].at = "create"
    /\ ~Admitted(request[r].machine)
    /\ request' = [request EXCEPT ![r] = Free]
    /\ UNCHANGED <<bmhs, bmds, queue>>

\* The status is written with the version that the creation returned.
FillDiscovery(r) ==
    LET m == request[r].machine IN
    /\ request[r].at = "fill"
    /\ IF StoredBmd(m) = [by |-> r, hardware |-> Nil]
       THEN StoreBmd(m, [by |-> r, hardware |-> request[r].hardware])
       ELSE UNCHANGED bmds
    /\ request' = [request EXCEPT ![r] = Free]
    /\ UNCHANGED <<bmhs, queue>>

(***************************************************************************)
(* The hardware controller.                                                *)
(***************************************************************************)
\* Mutant: the status is taken for the reason.
NicsStatus(o) ==
    IF o.spec.nics # {} /\ UNION o.spec.nics \subseteq o.hardware.nics
    THEN "True" ELSE "False"

NicsReason(o) ==
    IF o.spec.nics = {} THEN "NotSet"
    ELSE IF UNION o.spec.nics \subseteq o.hardware.nics THEN "Valid" ELSE "Invalid"

ImageDriveReason(o) ==
    IF o.spec.imageDrive = Nil THEN "NotSet"
    ELSE IF o.spec.imageDrive \in o.hardware.storage THEN "Valid" ELSE "Invalid"

ConditionsMet(o) ==
    o.hardwareSet = "Valid" /\ o.nicsValid = "Valid" /\ o.imageDriveValid = "Valid"

\* Mutant: hardware that is not tainted yet is looked at as if it were.
TaintedLater(o) == ~o.notReady \/ ~ConditionsMet(o)

TaintSynced(o) == o.notReady = ~ConditionsMet(o)

ConditionsSynced(o) ==
    /\ o.hardwareSet = "Valid"
    /\ o.nicsValid = NicsReason(o)
    /\ o.imageDriveValid = ImageDriveReason(o)

\* Mutant: hardware without a discovery is not queued again.
SettledUndiscovered(o) ==
    \/ o = Nil
    \/ ~o.deleting /\ TaintSynced(o) /\ o.hardware # Nil /\ ConditionsSynced(o)
    \/ ~o.deleting /\ TaintSynced(o) /\ o.hardware = Nil /\ o.hardwareSet = "NotSet"

\* Nothing to do until the object changes: such an object is taken out of the
\* queue when it gets in.
Settled(o) ==
    \/ o = Nil
    \/ ~o.deleting /\ TaintSynced(o) /\ o.hardware # Nil /\ ConditionsSynced(o)

\* Mutant: the write is not tied to the version that was read.
UpdateUnconditionally(h, v) ==
    /\ h \in queue
    /\ StoredBmh(h) # Nil
    /\ StoreBmh(h, v)
    /\ queue' = queue \ {h}
    /\ UNCHANGED <<bmds, request>>

UpdateBmh(h, v) ==
    /\ h \in queue
    /\ Fresh(bmhs, h)
    /\ StoreBmh(h, v)
    /\ queue' = queue \ {h}
    /\ UNCHANGED <<bmds, request>>

Alive(h) == Bmh(h) # Nil /\ ~Bmh(h).deleting

RemoveFinalizer(h) ==
    /\ Bmh(h) # Nil
    /\ Bmh(h).deleting
    /\ UpdateAdmitted(Bmh(h))
    /\ UpdateBmh(h, Nil)

SyncNotReady(h) ==
    /\ Alive(h)
    /\ ~TaintSynced(Bmh(h))
    /\ UpdateAdmitted(Bmh(h))
    /\ UpdateBmh(h, [Bmh(h) EXCEPT !.notReady = ~ConditionsMet(Bmh(h))])

\* The reconciles past the taints.
Examined(h) == Alive(h) /\ TaintSynced(Bmh(h))

SetHardwareSet(h) ==
    LET reason == IF Bmh(h).hardware = Nil THEN "NotSet" ELSE "Valid" IN
    /\ Examined(h)
    /\ Bmh(h).hardwareSet # reason
    /\ UpdateBmh(h, [Bmh(h) EXCEPT !.hardwareSet = reason])

\* Mutant: the condition is set once.
SetNicsValidOnce(h) ==
    /\ Examined(h)
    /\ Bmh(h).hardware # Nil
    /\ Bmh(h).hardwareSet = "Valid"
    /\ Bmh(h).nicsValid = "unset"
    /\ UpdateBmh(h, [Bmh(h) EXCEPT !.nicsValid = NicsReason(Bmh(h))])

SetNicsValid(h) ==
    /\ Examined(h)
    /\ Bmh(h).hardware # Nil
    /\ Bmh(h).hardwareSet = "Valid"
    /\ Bmh(h).nicsValid # NicsReason(Bmh(h))
    /\ UpdateBmh(h, [Bmh(h) EXCEPT !.nicsValid = NicsReason(Bmh(h))])

SetImageDriveValid(h) ==
    /\ Examined(h)
    /\ Bmh(h).hardware # Nil
    /\ Bmh(h).hardwareSet = "Valid"
    /\ Bmh(h).nicsValid = NicsReason(Bmh(h))
    /\ Bmh(h).imageDriveValid # ImageDriveReason(Bmh(h))
    /\ UpdateBmh(h, [Bmh(h) EXCEPT !.imageDriveValid = ImageDriveReason(Bmh(h))])

\* Without a discovery that is filled in the hardware is queued again.
CopyHardware(h) ==
    LET bmd == Bmd(MachineOf[h]) IN
    /\ Examined(h)
    /\ Bmh(h).hardware = Nil
    /\ Bmh(h).hardwareSet = "NotSet"
    /\ bmd # Nil
    /\ bmd.hardware # Nil
    /\ UpdateBmh(h, [Bmh(h) EXCEPT !.hardware = bmd.hardware])

(***************************************************************************)
(* The watches, and the manager with its discovery server.                 *)
(***************************************************************************)
WatchBmhs ==
    /\ CanDeliver(bmhs)
    /\ bmhs' = Deliver(bmhs)
    /\ queue' = {h \in Hardware :
                    /\ h \in queue \/ bmhs[1][h] # bmhs[2][h]
                    /\ ~Settled(bmhs[2][h])}
    /\ UNCHANGED <<bmds, request>>

WatchBmds ==
    /\ CanDeliver(bmds)
    /\ bmds' = Deliver(bmds)
    /\ UNCHANGED <<bmhs, request, queue>>

RestartManager ==
    /\ bmhs' = Relisted(bmhs)
    /\ bmds' = Relisted(bmds)
    /\ request' = [r \in Requests |-> Free]
    /\ queue' = {h \in Hardware : ~Settled(StoredBmh(h))}

-----------------------------------------------------------------------------
HardwareStep(h) ==
    \/ RemoveFinalizer(h)
    \/ SyncNotReady(h)
    \/ SetHardwareSet(h)
    \/ SetNicsValid(h)
    \/ SetImageDriveValid(h)
    \/ CopyHardware(h)

Serve(r) == CreateDiscovery(r) \/ RefuseReport(r) \/ FillDiscovery(r)

Report(m) == \E r \in Requests, w \in Reports : ReceiveReport(r, m, w)

UserStep ==
    \/ \E h \in Hardware, s \in Specs : CreateHardware(h, s) \/ EditHardware(h, s)
    \/ \E h \in Hardware : DeleteHardware(h)
    \/ \E m \in Machines : DeleteDiscovery(m)

Next ==
    \/ \E h \in Hardware : HardwareStep(h)
    \/ \E r \in Requests : Serve(r)
    \/ \E m \in Machines : Report(m)
    \/ UserStep
    \/ WatchBmhs
    \/ WatchBmds
    \/ RestartManager

\* The worker takes what is queued, requests that were begun are served, watches
\* deliver, and machines boot again and again.  Users do as they like.
Fairness ==
    /\ \A h \in Hardware : WF_vars(HardwareStep(h))
    /\ \A r \in Requests : WF_vars(Serve(r))
    /\ \A m \in Machines : WF_vars(Report(m))
    /\ WF_vars(WatchBmhs)
    /\ WF_vars(WatchBmds)

Spec == Init /\ [][Next]_vars /\ Fairness

-----------------------------------------------------------------------------
(***************************************************************************)
(* Properties.                                                             *)
(***************************************************************************)
\* Once the controller has looked at hardware, it is free of the not-ready taint
\* only when the discovered hardware is known, which the provisioner takes for
\* granted (provisioner.go:399).
ReadyIsDiscovered ==
    \A h \in Hardware :
        LET o == StoredBmh(h) IN
        (o # Nil /\ ~o.notReady /\ o.hardwareSet # "unset") => o.hardware # Nil

\* Hardware whose discovery the webhooks would have refused, had they seen it, is
\* never offered for provisioning: the taint comes before the copy, and its removal
\* is refused.
RefusedIsNeverReady ==
    \A h \in Hardware :
        LET o == StoredBmh(h) IN
        (o # Nil /\ o.hardware # Nil /\ ~o.hardware.valid) => o.notReady

\* No wakeup is lost: hardware that is not queued and that no watch will bring is
\* not being deleted, has its discovered hardware, and the taint that this and its
\* spec deserve, although nothing tells the controller of discoveries
\* (baremetalhardware_controller.go:505-517).
IdleIsDone ==
    \A h \in Hardware :
        LET o == Bmh(h) IN
        (o # Nil /\ Fresh(bmhs, h) /\ h \notin queue)
          => /\ ~o.deleting
             /\ o.hardware # Nil
             /\ o.notReady = ~(NicsReason(o) = "Valid" /\ ImageDriveReason(o) = "Valid")

\* What was discovered of a machine is copied once: hardware keeps it until it is
\* removed, although conditions, taints and specs are written from stale copies.
HardwareIsKept ==
    [][\A h \in Hardware :
         (StoredBmh(h) # Nil /\ StoredBmh(h).hardware # Nil)
           => \/ StoredBmh(h)' = Nil
              \/ StoredBmh(h)'.hardware = StoredBmh(h).hardware]_vars

\* A discovery is filled in once, by the report it was created for, although
\* several reports of the machine are served at a time.
DiscoveryIsKept ==
    [][\A m \in Machines :
         (StoredBmd(m) # Nil /\ StoredBmd(m)' # Nil)
           => \/ StoredBmd(m)' = StoredBmd(m)
              \/ StoredBmd(m).hardware = Nil /\ StoredBmd(m)'.by = StoredBmd(m).by]_vars

\* Hardware that is left alone gets the taint that its spec and the hardware it
\* has deserve, for good: what users change while the conditions are written one
\* by one is not lost (baremetalhardware_controller.go:194).
ReadinessSettles ==
    \A h \in Hardware :
        \/ []<><<UserStep>>_vars
        \/ <>[](LET o == StoredBmh(h) IN
                (o # Nil /\ ~o.deleting)
                  => o.notReady = ~(/\ o.hardware # Nil
                                    /\ o.hardware.valid
                                    /\ NicsReason(o) = "Valid"
                                    /\ ImageDriveReason(o) = "Valid"))

\* Hardware does not miss the discovery of its machine, although nothing tells the
\* controller when it is filled in (it is queued again, 505-517): unless users go on
\* making changes for ever, that is over.
DiscoveryIsCopied ==
    \A h \in Hardware :
        \/ []<><<UserStep>>_vars
        \/ []<>~(/\ StoredBmh(h) # Nil
                 /\ ~StoredBmh(h).deleting
                 /\ StoredBmh(h).hardware = Nil
                 /\ StoredBmd(MachineOf[h]) # Nil
                 /\ StoredBmd(MachineOf[h]).hardware # Nil)

\* The hardware controller waits for a discovery that "does not have any hardware
\* set yet" (baremetalhardware_controller.go:516) and the server takes a report of
\* one that is not filled in (server.go:441): it is filled in, or deleted.
DiscoveriesAreFilled ==
    \A m \in Machines :
        []<>~(StoredBmd(m) # Nil /\ StoredBmd(m).hardware = Nil)
=============================================================================
