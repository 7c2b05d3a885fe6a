------------------------- MODULE InstanceLifecycle -------------------------
(***************************************************************************)
(* The life of BareMetalInstances (BMI) on BareMetalHardware (BMH): the    *)
(* instance, scheduler, provisioner and hardware controllers of the        *)
(* manager, the boot and ready handlers of the discovery server, and the   *)
(* agent running on each machine.                                          *)
(*                                                                         *)
(* Every controller has one worker and reads the informer caches, which    *)
(* may be behind the API server (WatchStream).  One reconcile makes at     *)
(* most one write, so a reconcile is one action, except the provisioner's  *)
(* talk with the agent over HTTP: it reads the caches, asks for the        *)
(* agent's status, and acts on the answer with the objects it read at the  *)
(* beginning.  A conflict, an API error or a handler that returns without  *)
(* writing leaves the state as it is and needs no action here.             *)
(***************************************************************************)
EXTENDS WatchStream

CONSTANTS
    Instances,   \* UIDs an instance may be created with
    Hardware,    \* BMHs; each stands for the machine with its systemUUID
    Addresses,   \* IPs the DHCP server hands out
    Names,       \* metadata.name of instances; a name may be used again
    Nil,         \* an absent reference
    NameOf,      \* the name of each instance
    Matches,     \* the hardware each instance's hardwareSelector matches
    Tolerates,   \* the taints each instance tolerates
    Lease,       \* the addresses each machine may be given
    Prepared,    \* hardware that is known to be ready when the history begins
    Verdicts,    \* what the hardware conditions may say: {TRUE} when spec and
                 \* discovered hardware always agree
    Edits,       \* what users do to hardware: "canProvision", "delete"
    InstanceLag, \* bound: changes of instances the cache may be behind
    HardwareLag  \* bound: changes of hardware the cache may be behind

NoSchedule == "unschedulable"
NotReady == "not-ready"
Taints == {NoSchedule, NotReady}

ASSUME ConstantsAssumption ==
    /\ Nil \notin Instances \cup Hardware \cup Addresses
    /\ NameOf \in [Instances -> Names]
    /\ Matches \in [Instances -> SUBSET Hardware]
    /\ Tolerates \in [Instances -> SUBSET Taints]
    /\ Lease \in [Hardware -> SUBSET Addresses]
    /\ Prepared \subseteq Hardware
    /\ Verdicts \subseteq BOOLEAN
    /\ InstanceLag \in Nat
    /\ HardwareLag \in Nat

VARIABLES
    bmis,      \* stream of [Instances -> Instance]
    bmhs,      \* stream of [Hardware -> HardwareObject]
    call,      \* the provisioner's conversation with an agent
    machine,   \* what each machine runs
    disk       \* what is on each machine's image drive

vars == <<bmis, bmhs, call, machine, disk>>

(***************************************************************************)
(* The objects.  A condition is "None" until it is first set.              *)
(***************************************************************************)
Phases == {"", "Pending", "Provisioning", "Running", "Cleaning",
           "Terminating", "Terminated"}
Statuses == {"None", "True", "False", "Error"}

Instance ==
    [exists: {"unborn", "live", "gone"}, deleting: BOOLEAN, phase: Phases,
     hardwareName: Hardware \cup {Nil}, agentInfo: Addresses \cup {Nil},
     scheduled: Statuses, networked: Statuses,
     imaged: Statuses, cleaned: Statuses]

\* ready: the three conditions (hardware is discovered, the NICs and the image
\* drive of the spec are found on it) as last written are all of them True.
HardwareObject ==
    [exists: {"live", "gone"}, deleting: BOOLEAN,
     instanceRef: Instances \cup {Nil}, canProvision: BOOLEAN,
     taints: SUBSET Taints, ready: BOOLEAN]

\* Manager.currentAction: kept until the machine is booted again.
Action == [type: {"none", "image", "clean"}, result: {"", "working", "ok", "error"},
           target: Instances \cup {Nil}]

\* An agent listens before it reports ready and answers only afterwards.
Machine == [runs: {"off", "agent", "os"}, ip: Addresses \cup {Nil},
            serving: BOOLEAN, action: Action]

Disk == [data: Instances \cup {Nil}, whole: BOOLEAN]

NoAction == [type |-> "none", result |-> "", target |-> Nil]
Blank == [data |-> Nil, whole |-> FALSE]

\* The provisioner's call holds the objects it read, the hardware only when it
\* may write it back, and the agent's answer.
Call == [stage: {"none", "asked", "answered"}, inst: Instances \cup {Nil},
         bmi: Instance, bmh: HardwareObject, answer: Action]

Unborn ==
    [exists |-> "unborn", deleting |-> FALSE, phase |-> "",
     hardwareName |-> Nil, agentInfo |-> Nil, scheduled |-> "None",
     networked |-> "None", imaged |-> "None", cleaned |-> "None"]
Created == [Unborn EXCEPT !.exists = "live"]
Gone == [Unborn EXCEPT !.exists = "gone"]

\* A BMH is created without taints and without conditions.
NewHardware ==
    [exists |-> "live", deleting |-> FALSE, instanceRef |-> Nil,
     canProvision |-> TRUE, taints |-> {}, ready |-> FALSE]
RemovedHardware == [NewHardware EXCEPT !.exists = "gone", !.canProvision = FALSE]

NoCall == [stage |-> "none", inst |-> Nil, bmi |-> Unborn, bmh |-> NewHardware,
           answer |-> NoAction]
Off == [runs |-> "off", ip |-> Nil, serving |-> FALSE, action |-> NoAction]

Init ==
    /\ bmis = << [i \in Instances |-> Unborn] >>
    /\ bmhs = << [h \in Hardware |->
                    [NewHardware EXCEPT !.ready = (h \in Prepared)]] >>
    /\ call = NoCall
    /\ machine = [h \in Hardware |-> Off]
    /\ disk = [h \in Hardware |-> Blank]

TypeOK ==
    /\ bmis \in Seq([Instances -> Instance]) /\ bmis # <<>>
    /\ bmhs \in Seq([Hardware -> HardwareObject]) /\ bmhs # <<>>
    /\ call \in Call
    /\ machine \in [Hardware -> Machine]
    /\ disk \in [Hardware -> Disk]

(***************************************************************************)
(* Reads through the manager's client, and writes to the API server.       *)
(***************************************************************************)
Bmi(i) == Cached(bmis)[i]
Bmh(h) == Cached(bmhs)[h]
StoredBmi(i) == Stored(bmis)[i]
StoredBmh(h) == Stored(bmhs)[h]

StoreBmi(i, v) == Len(bmis) <= InstanceLag /\ bmis' = Put(bmis, i, v)
StoreBmh(h, v) == Len(bmhs) <= HardwareLag /\ bmhs' = Put(bmhs, h, v)

\* Update and Status().Update of an object just read from the cache.
UpdateBmi(i, v) ==
    /\ Fresh(bmis, i)
    /\ StoreBmi(i, v)
    /\ UNCHANGED <<bmhs, call, machine, disk>>

UpdateBmh(h, v) ==
    /\ Fresh(bmhs, h)
    /\ StoreBmh(h, v)
    /\ UNCHANGED <<bmis, call, machine, disk>>

(***************************************************************************)
(* Users.                                                                  *)
(***************************************************************************)
CreateInstance(i) ==
    /\ StoredBmi(i).exists = "unborn"
    /\ \A j \in Instances : NameOf[j] = NameOf[i] => StoredBmi(j).exists # "live"
    /\ StoreBmi(i, Created)
    /\ UNCHANGED <<bmhs, call, machine, disk>>

\* The finalizer the webhook adds keeps a deleted instance until it is removed.
DeleteInstance(i) ==
    /\ StoredBmi(i).exists = "live"
    /\ ~StoredBmi(i).deleting
    /\ StoreBmi(i, [StoredBmi(i) EXCEPT !.deleting = TRUE])
    /\ UNCHANGED <<bmhs, call, machine, disk>>

\* Cleaning failed, so the user removes the finalizer, having cleaned the machine
\* by hand if it still is the instance's.
CleanByHandAndForceDelete(i) ==
    LET itsHardware == {h \in Hardware : StoredBmh(h).instanceRef = i} IN
    /\ StoredBmi(i).exists = "live"
    /\ StoredBmi(i).deleting
    /\ StoredBmi(i).cleaned = "Error"
    /\ StoreBmi(i, Gone)
    /\ machine' = [h \in Hardware |-> IF h \in itsHardware THEN Off ELSE machine[h]]
    /\ disk' = [h \in Hardware |-> IF h \in itsHardware THEN Blank ELSE disk[h]]
    /\ UNCHANGED <<bmhs, call>>

EditHardware(h) ==
    /\ StoredBmh(h).exists = "live"
    /\ ~StoredBmh(h).deleting
    /\ \/ /\ "canProvision" \in Edits
          /\ StoreBmh(h, [StoredBmh(h) EXCEPT !.canProvision = ~@])
       \/ /\ "delete" \in Edits
          /\ StoreBmh(h, [StoredBmh(h) EXCEPT !.deleting = TRUE])
    /\ UNCHANGED <<bmis, call, machine, disk>>

(***************************************************************************)
(* The instance controller.                                                *)
(***************************************************************************)
Live(i) == Bmi(i).exists = "live" /\ ~Bmi(i).deleting
Deleting(i) == Bmi(i).exists = "live" /\ Bmi(i).deleting

SetPending(i) ==
    /\ Live(i)
    /\ Bmi(i).phase = ""
    /\ UpdateBmi(i, [Bmi(i) EXCEPT !.phase = "Pending"])

\* The validating webhook sees every update of the object but not of its
\* status, and refuses an agentInfo outside of these phases.
Admitted(r) == r.agentInfo = Nil \/ r.phase \in {"Provisioning", "Cleaning"}

RemoveFinalizer(i) ==
    /\ Deleting(i)
    /\ Bmi(i).phase = "Terminated"
    /\ Admitted(Bmi(i))
    /\ UpdateBmi(i, Gone)

(***************************************************************************)
(* The scheduler.                                                          *)
(***************************************************************************)
TerminateUnscheduled(i) ==
    /\ Deleting(i)
    /\ Bmi(i).phase # "Terminated"
    /\ Bmi(i).scheduled # "True"
    /\ UpdateBmi(i, [Bmi(i) EXCEPT !.phase = "Terminated"])

Unschedule(i) ==
    /\ Deleting(i)
    /\ Bmi(i).phase = "Terminating"
    /\ Bmi(i).scheduled = "True"
    /\ UpdateBmi(i, [Bmi(i) EXCEPT !.scheduled = "False", !.hardwareName = Nil])

Pending(i) == Live(i) /\ Bmi(i).phase = "Pending"

InitScheduled(i) ==
    /\ Pending(i)
    /\ Bmi(i).scheduled = "None"
    /\ UpdateBmi(i, [Bmi(i) EXCEPT !.scheduled = "False"])

StartProvisioning(i) ==
    /\ Pending(i)
    /\ Bmi(i).scheduled = "True"
    /\ UpdateBmi(i, [Bmi(i) EXCEPT !.phase = "Provisioning"])

MarkScheduled(i) ==
    /\ Pending(i)
    /\ Bmi(i).scheduled = "False"
    /\ Bmi(i).hardwareName # Nil
    /\ UpdateBmi(i, [Bmi(i) EXCEPT !.scheduled = "True"])

Listed == {h \in Hardware : Bmh(h).exists = "live"}

Taken(h) ==
    \/ Bmh(h).instanceRef # Nil
    \/ \E j \in Instances : Bmi(j).exists = "live" /\ Bmi(j).hardwareName = h

Acceptable(i, h) ==
    /\ ~Bmh(h).deleting
    /\ ~Taken(h)
    /\ h \in Matches[i]
    /\ Bmh(h).canProvision
    /\ Bmh(h).taints \subseteq Tolerates[i]

\* acceptableBMH collects &bmh, the address of the one variable the loop
\* assigns (go 1.13), so each of its entries is the hardware listed last: the
\* choice needs an acceptable hardware but may fall on any that is listed.
Chosen(i) == IF \E h \in Listed : Acceptable(i, h) THEN Listed ELSE {}

Schedule(i) ==
    /\ Pending(i)
    /\ Bmi(i).scheduled = "False"
    /\ Bmi(i).hardwareName = Nil
    /\ \E h \in Chosen(i) : UpdateBmi(i, [Bmi(i) EXCEPT !.hardwareName = h])

(***************************************************************************)
(* The provisioner: deleting instances.                                    *)
(***************************************************************************)
\* The hardware of instance i as the cache has it; a hardwareName that names
\* nothing finds nothing.
HasHardware(i) == Bmi(i).hardwareName \in Listed
Its(i) == Bmh(Bmi(i).hardwareName)

Releasing(i) ==
    /\ call.stage = "none"
    /\ Deleting(i)
    /\ Bmi(i).scheduled = "True"
    /\ Bmi(i).phase \notin {"Terminating", "Terminated"}

InitCleaned(i) ==
    /\ Releasing(i)
    /\ Bmi(i).cleaned = "None"
    /\ UpdateBmi(i, [Bmi(i) EXCEPT !.cleaned = "False"])

TerminateCleaned(i) ==
    /\ Releasing(i)
    /\ Bmi(i).cleaned = "True"
    /\ UpdateBmi(i, [Bmi(i) EXCEPT !.phase = "Terminating", !.agentInfo = Nil])

StartCleaning(i) ==
    /\ Releasing(i)
    /\ Bmi(i).cleaned = "False"
    /\ Bmi(i).phase # "Cleaning"
    /\ UpdateBmi(i, [Bmi(i) EXCEPT !.phase = "Cleaning"])

Cleaning(i) == Releasing(i) /\ Bmi(i).cleaned = "False" /\ Bmi(i).phase = "Cleaning"

\* Mutant: a hardware that is being deleted is taken for one that is gone.
TerminateOnDeletedHardware(i) ==
    /\ Cleaning(i)
    /\ HasHardware(i) => (Its(i).deleting \/ Its(i).instanceRef \notin {Nil, i})
    /\ UpdateBmi(i, [Bmi(i) EXCEPT !.phase = "Terminating"])

\* The hardware is gone or thinks another instance is on it.
TerminateUncleaned(i) ==
    /\ Cleaning(i)
    /\ HasHardware(i) => Its(i).instanceRef \notin {Nil, i}
    /\ UpdateBmi(i, [Bmi(i) EXCEPT !.phase = "Terminating"])

MarkCleaned(i) ==
    /\ Cleaning(i)
    /\ HasHardware(i)
    /\ Its(i).instanceRef = Nil
    /\ UpdateBmi(i, [Bmi(i) EXCEPT !.cleaned = "True"])

(***************************************************************************)
(* The provisioner: live instances.                                        *)
(***************************************************************************)
Provisioning(i) ==
    /\ call.stage = "none"
    /\ Live(i)
    /\ Bmi(i).scheduled = "True"
    /\ Bmi(i).phase = "Provisioning"
    /\ HasHardware(i)
    /\ ~Its(i).deleting
    /\ NotReady \notin Its(i).taints

\* Mutant: the reference is compared with the instance only.
ClaimFromOther(i) ==
    /\ Provisioning(i)
    /\ Its(i).instanceRef # i
    /\ UpdateBmh(Bmi(i).hardwareName, [Its(i) EXCEPT !.instanceRef = i])

Claim(i) ==
    /\ Provisioning(i)
    /\ Its(i).instanceRef = Nil
    /\ UpdateBmh(Bmi(i).hardwareName, [Its(i) EXCEPT !.instanceRef = i])

Installing(i) == Provisioning(i) /\ Its(i).instanceRef = i

InitNetworked(i) ==
    /\ Installing(i)
    /\ Bmi(i).networked = "None"
    /\ UpdateBmi(i, [Bmi(i) EXCEPT !.networked = "False"])

\* Every NIC has one endpoint and each is addressed, which may take any time.
MarkNetworked(i) ==
    /\ Installing(i)
    /\ Bmi(i).networked = "False"
    /\ UpdateBmi(i, [Bmi(i) EXCEPT !.networked = "True"])

InitImaged(i) ==
    /\ Installing(i)
    /\ Bmi(i).networked = "True"
    /\ Bmi(i).imaged = "None"
    /\ UpdateBmi(i, [Bmi(i) EXCEPT !.imaged = "False"])

Run(i) ==
    /\ Installing(i)
    /\ Bmi(i).networked = "True"
    /\ Bmi(i).imaged = "True"
    /\ UpdateBmi(i, [Bmi(i) EXCEPT !.phase = "Running", !.agentInfo = Nil])

Imaging(i) == Installing(i) /\ Bmi(i).networked = "True" /\ Bmi(i).imaged = "False"

(***************************************************************************)
(* The provisioner and the agent.                                          *)
(***************************************************************************)
\* getAgentStatus sends the request with the objects of the cache in hand.
AskAgent(i) ==
    /\ Imaging(i) \/ (Cleaning(i) /\ HasHardware(i) /\ Its(i).instanceRef = i)
    /\ Bmi(i).agentInfo # Nil
    /\ call' = [stage |-> "asked", inst |-> i, bmi |-> Bmi(i),
                bmh |-> IF Bmi(i).deleting THEN Its(i) ELSE NewHardware,
                answer |-> NoAction]
    /\ UNCHANGED <<bmis, bmhs, machine, disk>>

\* No agent answers, an answer or a write fails, or the agent is still busy,
\* busy with another action, or busy when it is told to act.
EndCall ==
    /\ call.stage # "none"
    /\ call' = NoCall
    /\ UNCHANGED <<bmis, bmhs, machine, disk>>

Reached(h) ==
    /\ machine[h].runs = "agent"
    /\ machine[h].serving
    /\ machine[h].ip = call.bmi.agentInfo

AgentAnswers(h) ==
    /\ call.stage = "asked"
    /\ Reached(h)
    /\ call' = [call EXCEPT !.stage = "answered", !.answer = machine[h].action]
    /\ UNCHANGED <<bmis, bmhs, machine, disk>>

Answered(type, result) ==
    /\ call.stage = "answered"
    /\ call.answer.type = type
    /\ call.answer.result = result

\* POST /image or /clean, accepted when the agent has no action yet.
TellAgent(h) ==
    /\ Answered("none", "")
    /\ Reached(h)
    /\ machine[h].action = NoAction
    /\ machine' = [machine EXCEPT ![h].action =
                     [type |-> IF call.bmi.deleting THEN "clean" ELSE "image",
                      result |-> "working", target |-> call.inst]]
    /\ call' = NoCall
    /\ UNCHANGED <<bmis, bmhs, disk>>

\* A write of an object read when the call began is refused if it changed.
WriteBmi(v) ==
    /\ call.bmi = StoredBmi(call.inst)
    /\ StoreBmi(call.inst, v)
    /\ call' = NoCall
    /\ UNCHANGED <<bmhs, machine, disk>>

RecordImagingFailed ==
    /\ Answered("image", "error")
    /\ ~call.bmi.deleting
    /\ WriteBmi([call.bmi EXCEPT !.imaged = "Error"])

\* Mutant: the agent's status is tested for its type and error only.
RecordImagedEarly ==
    /\ Answered("image", "ok") \/ Answered("image", "working")
    /\ ~call.bmi.deleting
    /\ WriteBmi([call.bmi EXCEPT !.imaged = "True"])

RecordImaged ==
    /\ Answered("image", "ok")
    /\ ~call.bmi.deleting
    /\ WriteBmi([call.bmi EXCEPT !.imaged = "True"])

RecordCleaningFailed ==
    /\ Answered("clean", "error")
    /\ call.bmi.deleting
    /\ WriteBmi([call.bmi EXCEPT !.cleaned = "Error"])

ReleaseAs(ref) ==
    /\ call.stage = "answered"
    /\ call.bmi.deleting
    /\ call.bmh = StoredBmh(call.bmi.hardwareName)
    /\ StoreBmh(call.bmi.hardwareName, [call.bmh EXCEPT !.instanceRef = ref])
    /\ call' = NoCall
    /\ UNCHANGED <<bmis, machine, disk>>

\* Mutants: released although cleaning failed, while it is going on, and with an
\* empty reference in the place of none.
ReleaseUncleaned == Answered("clean", "error") /\ ReleaseAs(Nil)
ReleaseEarly == Answered("clean", "working") /\ ReleaseAs(Nil)
ReleaseToEmptyRef == Answered("clean", "ok") /\ ReleaseAs("")

\* Done cleaning: the reference to the instance is taken off the hardware.
ReleaseHardware ==
    /\ Answered("clean", "ok")
    /\ ReleaseAs(Nil)

(***************************************************************************)
(* The hardware controller: one step per reconcile, in the code's order.   *)
(***************************************************************************)
TaintSynced(h) ==
    (NoSchedule \in Bmh(h).taints) = (Bmh(h).deleting \/ ~Bmh(h).canProvision)

ReadySynced(h) ==
    Bmh(h).deleting \/ (NotReady \in Bmh(h).taints) = ~Bmh(h).ready

Toggle(set, e) == IF e \in set THEN set \ {e} ELSE set \cup {e}

\* A hardware that is being deleted only ever gains the taint.
SyncNoSchedule(h) ==
    /\ h \in Listed
    /\ ~TaintSynced(h)
    /\ UpdateBmh(h, [Bmh(h) EXCEPT !.taints = Toggle(@, NoSchedule)])

SyncNotReady(h) ==
    /\ h \in Listed
    /\ TaintSynced(h)
    /\ ~ReadySynced(h)
    /\ UpdateBmh(h, [Bmh(h) EXCEPT !.taints = Toggle(@, NotReady)])

Settled(h) == h \in Listed /\ TaintSynced(h) /\ ReadySynced(h)

\* Mutant: an instance that is being deleted counts as not found.
RefFoundNotDeleting(h) == Bmh(h).instanceRef \in {i \in Instances : Live(i)}

\* The instance the reference names is found and has the reference's UID.
RefFound(h) == Bmh(h).instanceRef \in {i \in Instances : Bmi(i).exists = "live"}

\* Mutant: a hardware that is being deleted does not wait for its instance.
DropInstanceRefToDelete(h) ==
    /\ Settled(h)
    /\ Bmh(h).instanceRef # Nil
    /\ Bmh(h).deleting \/ ~RefFound(h)
    /\ UpdateBmh(h, [Bmh(h) EXCEPT !.instanceRef = Nil])

DropInstanceRef(h) ==
    /\ Settled(h)
    /\ Bmh(h).instanceRef # Nil
    /\ ~RefFound(h)
    /\ UpdateBmh(h, [Bmh(h) EXCEPT !.instanceRef = Nil])

\* Delete by name: the API server deletes the instance that has it now.
DeleteItsInstance(h) ==
    /\ Settled(h)
    /\ Bmh(h).deleting
    /\ Bmh(h).instanceRef # Nil
    /\ RefFound(h)
    /\ \E j \in Instances :
         /\ NameOf[j] = NameOf[Bmh(h).instanceRef]
         /\ DeleteInstance(j)

\* Mutant: the finalizer goes without a look at the reference.
RemoveHardwareFinalizerEarly(h) ==
    /\ Settled(h)
    /\ Bmh(h).deleting
    /\ UpdateBmh(h, RemovedHardware)

RemoveHardwareFinalizer(h) ==
    /\ Settled(h)
    /\ Bmh(h).deleting
    /\ Bmh(h).instanceRef = Nil
    /\ UpdateBmh(h, RemovedHardware)

\* The conditions say whether the spec and the discovered hardware agree; users
\* change the one and the agent the other, so each verdict may come at any time.
SetConditions(h) ==
    /\ Settled(h)
    /\ ~Bmh(h).deleting
    /\ Bmh(h).instanceRef # Nil => RefFound(h)
    /\ \E verdict \in Verdicts : UpdateBmh(h, [Bmh(h) EXCEPT !.ready = verdict])

(***************************************************************************)
(* The machines: network boot, the agent and its actions.                  *)
(***************************************************************************)
\* The instance the discovery server finds for a machine's systemUUID.
ItsInstance(h, phases) ==
    /\ h \in Listed
    /\ Bmh(h).instanceRef # Nil
    /\ RefFound(h)
    /\ Bmi(Bmh(h).instanceRef).phase \in phases

\* Mutant: an instance that is being cleaned still boots its system.
BootWhileCleaning(h) ==
    /\ IF ItsInstance(h, {"Running", "Cleaning"})
       THEN machine' = [machine EXCEPT ![h] = [Off EXCEPT !.runs = "os"]]
       ELSE \E ip \in Lease[h] :
              machine' = [machine EXCEPT ![h] = [Off EXCEPT !.runs = "agent", !.ip = ip]]
    /\ UNCHANGED <<bmis, bmhs, call, disk>>

\* Power on, power cycle or crash: the machine asks the discovery server what
\* to boot.
Boot(h) ==
    /\ IF ItsInstance(h, {"Running"})
       THEN machine' = [machine EXCEPT ![h] = [Off EXCEPT !.runs = "os"]]
       ELSE \E ip \in Lease[h] :
              machine' = [machine EXCEPT ![h] = [Off EXCEPT !.runs = "agent", !.ip = ip]]
    /\ UNCHANGED <<bmis, bmhs, call, disk>>

\* The agent reports its address; when the response is lost it reports again
\* and does not serve yet.
AgentReady(h) ==
    /\ machine[h].runs = "agent"
    /\ ~machine[h].serving
    /\ ItsInstance(h, {"Provisioning", "Cleaning"})
    /\ LET i == Bmh(h).instanceRef IN
         /\ Fresh(bmis, i)
         /\ StoreBmi(i, [Bmi(i) EXCEPT !.agentInfo = machine[h].ip])
    /\ \E heard \in BOOLEAN :
         machine' = [machine EXCEPT ![h].serving = heard]
    /\ UNCHANGED <<bmhs, call, disk>>

Working(h, type) ==
    machine[h].action.type = type /\ machine[h].action.result = "working"

Finish(h, result) == machine' = [machine EXCEPT ![h].action.result = result]

ImageBegins(h) ==
    /\ Working(h, "image")
    /\ disk' = [disk EXCEPT ![h] = [data |-> machine[h].action.target, whole |-> FALSE]]
    /\ UNCHANGED <<bmis, bmhs, call, machine>>

ImageSucceeds(h) ==
    /\ Working(h, "image")
    /\ disk[h] = [data |-> machine[h].action.target, whole |-> FALSE]
    /\ disk' = [disk EXCEPT ![h].whole = TRUE]
    /\ Finish(h, "ok")
    /\ UNCHANGED <<bmis, bmhs, call>>

CleanSucceeds(h) ==
    /\ Working(h, "clean")
    /\ disk' = [disk EXCEPT ![h] = Blank]
    /\ Finish(h, "ok")
    /\ UNCHANGED <<bmis, bmhs, call>>

ActionFails(h) ==
    /\ machine[h].action.result = "working"
    /\ Finish(h, "error")
    /\ UNCHANGED <<bmis, bmhs, call, disk>>

(***************************************************************************)
(* The watches and the manager process.                                    *)
(***************************************************************************)
WatchBmis ==
    /\ CanDeliver(bmis)
    /\ bmis' = Deliver(bmis)
    /\ UNCHANGED <<bmhs, call, machine, disk>>

WatchBmhs ==
    /\ CanDeliver(bmhs)
    /\ bmhs' = Deliver(bmhs)
    /\ UNCHANGED <<bmis, call, machine, disk>>

RestartManager ==
    /\ bmis' = Relisted(bmis)
    /\ bmhs' = Relisted(bmhs)
    /\ call' = NoCall
    /\ UNCHANGED <<machine, disk>>

-----------------------------------------------------------------------------
UserStep ==
    \/ \E i \in Instances :
         \/ CreateInstance(i)
         \/ DeleteInstance(i)
         \/ CleanByHandAndForceDelete(i)
    \/ \E h \in Hardware : EditHardware(h)

InstanceStep ==
    \E i \in Instances :
      \/ SetPending(i)
      \/ RemoveFinalizer(i)
      \/ TerminateUnscheduled(i)
      \/ Unschedule(i)
      \/ InitScheduled(i)
      \/ StartProvisioning(i)
      \/ MarkScheduled(i)
      \/ Schedule(i)

ProvisionerStep ==
    \/ \E i \in Instances :
         \/ InitCleaned(i)
         \/ TerminateCleaned(i)
         \/ StartCleaning(i)
         \/ TerminateUncleaned(i)
         \/ MarkCleaned(i)
         \/ Claim(i)
         \/ InitNetworked(i)
         \/ MarkNetworked(i)
         \/ InitImaged(i)
         \/ Run(i)
         \/ AskAgent(i)
    \/ \E h \in Hardware :
         \/ AgentAnswers(h)
         \/ TellAgent(h)
    \/ EndCall
    \/ RecordImagingFailed
    \/ RecordImaged
    \/ RecordCleaningFailed
    \/ ReleaseHardware

HardwareStep ==
    \E h \in Hardware :
      \/ SyncNoSchedule(h)
      \/ SyncNotReady(h)
      \/ DropInstanceRef(h)
      \/ DeleteItsInstance(h)
      \/ RemoveHardwareFinalizer(h)
      \/ SetConditions(h)

MachineStep ==
    \E h \in Hardware :
      \/ Boot(h)
      \/ AgentReady(h)
      \/ ImageBegins(h)
      \/ ImageSucceeds(h)
      \/ CleanSucceeds(h)
      \/ ActionFails(h)

Next ==
    \/ UserStep
    \/ InstanceStep
    \/ ProvisionerStep
    \/ HardwareStep
    \/ MachineStep
    \/ WatchBmis
    \/ WatchBmhs
    \/ RestartManager

Spec == Init /\ [][Next]_vars

-----------------------------------------------------------------------------
(***************************************************************************)
(* Properties.                                                             *)
(***************************************************************************)
\* A machine with anything of an instance on its disk is held by it: the
\* hardware is handed on only after the agent reported a finished clean, and
\* the instance does not go before that (provisioner.go:257-268).
FreeHardwareIsClean ==
    \A h \in Hardware : disk[h].data # Nil =>
        /\ StoredBmh(h).instanceRef = disk[h].data
        /\ StoredBmi(disk[h].data).exists = "live"
        /\ StoredBmi(disk[h].data).hardwareName = h

\* Whatever an agent writes is written for the instance that holds its machine,
\* although the request was made from objects read before the agent answered.
ImagesForHolder ==
    \A h \in Hardware :
        Working(h, "image") => machine[h].action.target = StoredBmh(h).instanceRef

\* An instance that got past claiming its hardware keeps it, whatever the other
\* controllers do with their caches, until it is being deleted.
LiveInstanceHoldsHardware ==
    \A i \in Instances :
        LET b == StoredBmi(i) IN
        (b.exists = "live" /\ ~b.deleting /\ b.networked # "None") =>
            /\ b.hardwareName # Nil
            /\ StoredBmh(b.hardwareName).exists = "live"
            /\ StoredBmh(b.hardwareName).instanceRef = i

\* A running instance runs on its own image.
RunningOnOwnImage ==
    \A i \in Instances :
        LET b == StoredBmi(i) IN
        (b.phase = "Running") => disk[b.hardwareName].data = i

\* A machine that runs an operating system runs that of its holder, although the
\* discovery server decides what a machine boots from caches (server.go:129-203).
SystemIsHolders ==
    \A h \in Hardware : machine[h].runs = "os" =>
        /\ disk[h].data # Nil
        /\ disk[h].data = StoredBmh(h).instanceRef

\* Only the agent's clean on behalf of a deleted instance, or its user, takes an
\* instance's data off a disk.
OnlyDeletedAreErased ==
    [][\A h \in Hardware :
         LET i == disk[h].data IN
         (i # Nil /\ disk'[h].data # i) => StoredBmi(i).deleting]_vars

\* When imaging is done the phase is set to Running (provisioner.go:485): the image
\* of a running instance is whole.
RunningIsImaged ==
    \A i \in Instances :
        LET b == StoredBmi(i) IN
        (b.phase = "Running" /\ ~b.deleting) => disk[b.hardwareName].whole

\* The scheduler locks while it finds and sets a hardware name
\* (scheduler.go:152-154), so that no hardware is given to two instances.
OneInstancePerHardware ==
    \A i, j \in Instances :
        (StoredBmi(i).hardwareName # Nil
         /\ StoredBmi(i).hardwareName = StoredBmi(j).hardwareName) => i = j

\* agentInfo is set in no other phase than Provisioning and Cleaning
\* (baremetalinstance_webhook.go:150-157); an instance that breaks this can never
\* have its finalizer removed.
AgentInfoInPhase == \A i \in Instances : Admitted(StoredBmi(i))

\* The scheduler gives an instance hardware that its cache shows to be free,
\* matching the selector, allowed to be provisioned and tolerated
\* (scheduler.go:177-239).
ScheduledOnAcceptable ==
    [][\A i \in Instances :
         (StoredBmi(i).hardwareName = Nil /\ StoredBmi(i)'.hardwareName # Nil)
           => Acceptable(i, StoredBmi(i)'.hardwareName)]_vars

\* The machines are handed over as HardwareCustody says.
Custody == INSTANCE HardwareCustody WITH
    holder <- [h \in Hardware |-> StoredBmh(h).instanceRef],
    content <- [h \in Hardware |-> disk[h].data]
CustodyIsKept == Custody!CustodySpec
=============================================================================
