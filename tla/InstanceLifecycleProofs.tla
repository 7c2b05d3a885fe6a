---------------------- MODULE InstanceLifecycleProofs ----------------------
(***************************************************************************)
(* The types of InstanceLifecycle hold in every reachable state, for any   *)
(* instances, hardware and addresses and caches any number of changes      *)
(* behind.                                                                 *)
(***************************************************************************)
EXTENDS InstanceLifecycle, WatchStreamProofs

-----------------------------------------------------------------------------
\* What a controller reads and what the API server stores are objects.
LEMMA ReadTypes ==
    ASSUME TypeOK
    PROVE  /\ \A i \in Instances : Bmi(i) \in Instance /\ StoredBmi(i) \in Instance
           /\ \A h \in Hardware : Bmh(h) \in HardwareObject /\ StoredBmh(h) \in HardwareObject
  <1>1. Cached(bmis) \in [Instances -> Instance] /\ Stored(bmis) \in [Instances -> Instance]
    BY StreamVersions DEF TypeOK
  <1>2. Cached(bmhs) \in [Hardware -> HardwareObject] /\ Stored(bmhs) \in [Hardware -> HardwareObject]
    BY StreamVersions DEF TypeOK
  <1>. QED
    BY <1>1, <1>2 DEF Bmi, Bmh, StoredBmi, StoredBmh

\* The values objects, machines and disks start from are of their types.
LEMMA InitialTypes ==
    /\ Unborn \in Instance /\ Created \in Instance /\ Gone \in Instance
    /\ NewHardware \in HardwareObject /\ RemovedHardware \in HardwareObject
    /\ NoAction \in Action /\ Off \in Machine /\ Blank \in Disk /\ NoCall \in Call
  <1>1. Unborn \in Instance /\ Created \in Instance /\ Gone \in Instance
    BY DEF Unborn, Created, Gone, Instance, Phases, Statuses
  <1>2. NewHardware \in HardwareObject /\ RemovedHardware \in HardwareObject
    BY DEF NewHardware, RemovedHardware, HardwareObject, Taints
  <1>3. NoAction \in Action /\ Blank \in Disk
    BY DEF NoAction, Action, Blank, Disk
  <1>4. Off \in Machine
    BY <1>3 DEF Off, Machine
  <1>5. NoCall \in Call
    BY <1>1, <1>2, <1>3 DEF NoCall, Call
  <1>. QED
    BY <1>1, <1>2, <1>3, <1>4, <1>5

\* Storing objects of their type keeps the streams of their types.
LEMMA StoreTypes ==
    ASSUME TypeOK
    PROVE  /\ \A i, v : v \in Instance /\ StoreBmi(i, v)
                => bmis' \in Seq([Instances -> Instance]) /\ bmis' # <<>>
           /\ \A h, v : v \in HardwareObject /\ StoreBmh(h, v)
                => bmhs' \in Seq([Hardware -> HardwareObject]) /\ bmhs' # <<>>
  <1>1. ASSUME NEW i, NEW v \in Instance, StoreBmi(i, v)
        PROVE  bmis' \in Seq([Instances -> Instance]) /\ bmis' # <<>>
    <2>. DEFINE V == [Instances -> Instance]
    <2>1. bmis \in Seq(V) /\ bmis # <<>> /\ bmis' = Put(bmis, i, v)
      BY <1>1 DEF TypeOK, StoreBmi
    <2>2. Changed(bmis, i, v) \in V
      BY <1>1, <2>1, StreamVersions DEF Changed
    <2>. HIDE DEF V
    <2>3. bmis' \in Seq(V) /\ bmis' # <<>>
      BY <2>1, <2>2, PutVersions
    <2>. QED
      BY <2>3 DEF V
  <1>2. ASSUME NEW h, NEW v \in HardwareObject, StoreBmh(h, v)
        PROVE  bmhs' \in Seq([Hardware -> HardwareObject]) /\ bmhs' # <<>>
    <2>. DEFINE V == [Hardware -> HardwareObject]
    <2>1. bmhs \in Seq(V) /\ bmhs # <<>> /\ bmhs' = Put(bmhs, h, v)
      BY <1>2 DEF TypeOK, StoreBmh
    <2>2. Changed(bmhs, h, v) \in V
      BY <1>2, <2>1, StreamVersions DEF Changed
    <2>. HIDE DEF V
    <2>3. bmhs' \in Seq(V) /\ bmhs' # <<>>
      BY <2>1, <2>2, PutVersions
    <2>. QED
      BY <2>3 DEF V
  <1>. QED
    BY <1>1, <1>2

\* Updates of objects of their type keep the types of everything.
LEMMA UpdateTypes ==
    ASSUME TypeOK
    PROVE  /\ \A i, v : v \in Instance /\ UpdateBmi(i, v) => TypeOK'
           /\ \A h, v : v \in HardwareObject /\ UpdateBmh(h, v) => TypeOK'
  BY StoreTypes DEF TypeOK, UpdateBmi, UpdateBmh

-----------------------------------------------------------------------------
(***************************************************************************)
(* Every kind of step keeps the types.                                     *)
(***************************************************************************)
\* Steps of the users.
LEMMA UserTypes ==
    ASSUME TypeOK, UserStep
    PROVE  TypeOK'
  <1>1. ASSUME NEW i \in Instances, CreateInstance(i)
        PROVE  TypeOK'
    BY <1>1, InitialTypes, StoreTypes DEF CreateInstance, TypeOK
  <1>2. ASSUME NEW i \in Instances, DeleteInstance(i)
        PROVE  TypeOK'
    <2>1. [StoredBmi(i) EXCEPT !.deleting = TRUE] \in Instance
      BY ReadTypes DEF Instance
    <2>. QED
      BY <1>2, <2>1, StoreTypes DEF DeleteInstance, TypeOK
  <1>3. ASSUME NEW i \in Instances, CleanByHandAndForceDelete(i)
        PROVE  TypeOK'
    BY <1>3, InitialTypes, StoreTypes DEF CleanByHandAndForceDelete, TypeOK
  <1>4. ASSUME NEW h \in Hardware, EditHardware(h)
        PROVE  TypeOK'
    <2>1. /\ [StoredBmh(h) EXCEPT !.canProvision = ~@] \in HardwareObject
          /\ [StoredBmh(h) EXCEPT !.deleting = TRUE] \in HardwareObject
      BY ReadTypes DEF HardwareObject
    <2>. QED
      BY <1>4, <2>1, StoreTypes DEF EditHardware, TypeOK
  <1>. QED
    BY <1>1, <1>2, <1>3, <1>4 DEF UserStep

\* Steps of the instance controller and the scheduler.
LEMMA InstanceTypes ==
    ASSUME TypeOK, InstanceStep
    PROVE  TypeOK'
  <1>. SUFFICES ASSUME NEW i \in Instances,
                       \/ SetPending(i)
                       \/ RemoveFinalizer(i)
                       \/ TerminateUnscheduled(i)
                       \/ Unschedule(i)
                       \/ InitScheduled(i)
                       \/ StartProvisioning(i)
                       \/ MarkScheduled(i)
                       \/ Schedule(i)
                PROVE  TypeOK'
    BY DEF InstanceStep
  <1>. /\ Bmi(i) \in Instance
       /\ Gone \in Instance
    BY ReadTypes, InitialTypes
  <1>1. /\ \A p \in Phases : [Bmi(i) EXCEPT !.phase = p] \in Instance
        /\ \A p \in Statuses : [Bmi(i) EXCEPT !.scheduled = p] \in Instance
        /\ \A h \in Hardware : [Bmi(i) EXCEPT !.hardwareName = h] \in Instance
        /\ [Bmi(i) EXCEPT !.scheduled = "False", !.hardwareName = Nil] \in Instance
    BY DEF Instance, Statuses
  <1>2. /\ {"Pending", "Terminated", "Provisioning"} \subseteq Phases
        /\ {"True", "False"} \subseteq Statuses
        /\ Chosen(i) \subseteq Hardware
    BY DEF Phases, Statuses, Chosen, Listed
  <1>. QED
    BY <1>1, <1>2, UpdateTypes
       DEF SetPending, RemoveFinalizer, TerminateUnscheduled, Unschedule,
           InitScheduled, StartProvisioning, MarkScheduled, Schedule

\* Steps of the provisioner.
LEMMA ProvisionerTypes ==
    ASSUME TypeOK, ProvisionerStep
    PROVE  TypeOK'
  <1>1. ASSUME NEW i \in Instances,
               \/ InitCleaned(i)
               \/ TerminateCleaned(i)
               \/ StartCleaning(i)
               \/ TerminateUncleaned(i)
               \/ MarkCleaned(i)
               \/ InitNetworked(i)
               \/ MarkNetworked(i)
               \/ InitImaged(i)
               \/ Run(i)
        PROVE  TypeOK'
    <2>. Bmi(i) \in Instance
      BY ReadTypes
    <2>1. /\ \A p \in Phases : [Bmi(i) EXCEPT !.phase = p] \in Instance
          /\ \A p \in Phases : [Bmi(i) EXCEPT !.phase = p, !.agentInfo = Nil] \in Instance
          /\ \A p \in Statuses : [Bmi(i) EXCEPT !.cleaned = p] \in Instance
          /\ \A p \in Statuses : [Bmi(i) EXCEPT !.networked = p] \in Instance
          /\ \A p \in Statuses : [Bmi(i) EXCEPT !.imaged = p] \in Instance
      BY DEF Instance
    <2>2. /\ {"Terminating", "Cleaning", "Running"} \subseteq Phases
          /\ {"True", "False"} \subseteq Statuses
      BY DEF Phases, Statuses
    <2>. QED
      BY <1>1, <2>1, <2>2, UpdateTypes
         DEF InitCleaned, TerminateCleaned, StartCleaning, TerminateUncleaned,
             MarkCleaned, InitNetworked, MarkNetworked, InitImaged, Run
  <1>2. ASSUME NEW i \in Instances, Claim(i)
        PROVE  TypeOK'
    <2>1. Bmi(i).hardwareName \in Hardware
      BY <1>2 DEF Claim, Provisioning, HasHardware, Listed
    <2>2. [Its(i) EXCEPT !.instanceRef = i] \in HardwareObject
      BY <2>1, ReadTypes DEF Its, HardwareObject
    <2>. QED
      BY <1>2, <2>2, UpdateTypes DEF Claim
  <1>3. ASSUME NEW i \in Instances, AskAgent(i)
        PROVE  TypeOK'
    <2>1. Bmi(i).hardwareName \in Hardware
      BY <1>3 DEF AskAgent, Imaging, Installing, Provisioning, HasHardware, Listed
    <2>2. Its(i) \in HardwareObject /\ Bmi(i) \in Instance
      BY <2>1, ReadTypes DEF Its
    <2>3. call' \in Call
      BY <1>3, <2>2, InitialTypes DEF AskAgent, Call
    <2>. QED
      BY <1>3, <2>3 DEF AskAgent, TypeOK
  <1>4. ASSUME NEW h \in Hardware, AgentAnswers(h)
        PROVE  TypeOK'
    <2>1. machine[h].action \in Action /\ call \in Call
      BY DEF TypeOK, Machine
    <2>2. call' \in Call
      BY <1>4, <2>1 DEF AgentAnswers, Call
    <2>. QED
      BY <1>4, <2>2 DEF AgentAnswers, TypeOK
  <1>5. ASSUME NEW h \in Hardware, TellAgent(h)
        PROVE  TypeOK'
    <2>1. machine[h] \in Machine /\ call.inst \in Instances \cup {Nil}
      BY DEF TypeOK, Call
    <2>. DEFINE a == [type |-> IF call.bmi.deleting THEN "clean" ELSE "image",
                      result |-> "working", target |-> call.inst]
    <2>2. a \in Action
      BY <2>1 DEF Action
    <2>3. [machine EXCEPT ![h].action = a] \in [Hardware -> Machine]
      <3>. HIDE DEF a
      <3>. QED
        BY <2>1, <2>2 DEF TypeOK, Machine
    <2>. QED
      BY <1>5, <2>3, InitialTypes DEF TellAgent, TypeOK
  <1>6. ASSUME EndCall
        PROVE  TypeOK'
    BY <1>6, InitialTypes DEF EndCall, TypeOK
  <1>7. ASSUME RecordImagingFailed \/ RecordImaged \/ RecordCleaningFailed
        PROVE  TypeOK'
    <2>1. /\ \A p \in Statuses : [call.bmi EXCEPT !.imaged = p] \in Instance
          /\ \A p \in Statuses : [call.bmi EXCEPT !.cleaned = p] \in Instance
      BY DEF TypeOK, Call, Instance
    <2>2. {"True", "Error"} \subseteq Statuses
      BY DEF Statuses
    <2>3. \A v \in Instance : WriteBmi(v) => TypeOK'
      BY StoreTypes, InitialTypes DEF WriteBmi, TypeOK
    <2>. QED
      BY <1>7, <2>1, <2>2, <2>3
         DEF RecordImagingFailed, RecordImaged, RecordCleaningFailed
  <1>8. ASSUME ReleaseHardware
        PROVE  TypeOK'
    <2>1. [call.bmh EXCEPT !.instanceRef = Nil] \in HardwareObject
      BY DEF TypeOK, Call, HardwareObject
    <2>. QED
      BY <1>8, <2>1, StoreTypes, InitialTypes DEF ReleaseHardware, ReleaseAs, TypeOK
  <1>. QED
    BY <1>1, <1>2, <1>3, <1>4, <1>5, <1>6, <1>7, <1>8 DEF ProvisionerStep

\* Steps of the hardware controller.
LEMMA HardwareTypes ==
    ASSUME TypeOK, HardwareStep
    PROVE  TypeOK'
  <1>1. ASSUME NEW h \in Hardware,
               \/ SyncNoSchedule(h)
               \/ SyncNotReady(h)
               \/ DropInstanceRef(h)
               \/ RemoveHardwareFinalizer(h)
               \/ SetConditions(h)
        PROVE  TypeOK'
    <2>. Bmh(h) \in HardwareObject /\ RemovedHardware \in HardwareObject
      BY ReadTypes, InitialTypes
    <2>1. \A e \in Taints : [Bmh(h) EXCEPT !.taints = Toggle(@, e)] \in HardwareObject
      BY DEF HardwareObject, Toggle
    <2>2. /\ [Bmh(h) EXCEPT !.instanceRef = Nil] \in HardwareObject
          /\ \A verdict \in Verdicts : [Bmh(h) EXCEPT !.ready = verdict] \in HardwareObject
      BY ConstantsAssumption DEF HardwareObject
    <2>3. NoSchedule \in Taints /\ NotReady \in Taints
      BY DEF Taints
    <2>. QED
      BY <1>1, <2>1, <2>2, <2>3, UpdateTypes
         DEF SyncNoSchedule, SyncNotReady, DropInstanceRef,
             RemoveHardwareFinalizer, SetConditions
  <1>2. ASSUME NEW h \in Hardware, DeleteItsInstance(h)
        PROVE  TypeOK'
    BY <1>2, UserTypes DEF DeleteItsInstance, UserStep
  <1>. QED
    BY <1>1, <1>2 DEF HardwareStep

\* Steps of the machines and their agents.
LEMMA MachineTypes ==
    ASSUME TypeOK, MachineStep
    PROVE  TypeOK'
  <1>. SUFFICES ASSUME NEW h \in Hardware,
                       \/ Boot(h)
                       \/ AgentReady(h)
                       \/ ImageBegins(h)
                       \/ ImageSucceeds(h)
                       \/ CleanSucceeds(h)
                       \/ ActionFails(h)
                PROVE  TypeOK'
    BY DEF MachineStep
  <1>. machine[h] \in Machine /\ disk[h] \in Disk
    BY DEF TypeOK
  <1>1. CASE Boot(h)
    <2>1. /\ [Off EXCEPT !.runs = "os"] \in Machine
          /\ \A ip \in Lease[h] : [Off EXCEPT !.runs = "agent", !.ip = ip] \in Machine
      BY InitialTypes, ConstantsAssumption DEF Machine
    <2>2. \A m \in Machine : [machine EXCEPT ![h] = m] \in [Hardware -> Machine]
      BY DEF TypeOK
    <2>. QED
      BY <1>1, <2>1, <2>2 DEF Boot, TypeOK
  <1>2. CASE AgentReady(h)
    <2>. DEFINE i == Bmh(h).instanceRef
    <2>1. i \in Instances
      BY <1>2, ReadTypes DEF AgentReady, ItsInstance, RefFound
    <2>2. [Bmi(i) EXCEPT !.agentInfo = machine[h].ip] \in Instance
      BY <2>1, ReadTypes DEF Instance, Machine
    <2>3. bmis' \in Seq([Instances -> Instance]) /\ bmis' # <<>>
      BY <1>2, <2>2, StoreTypes DEF AgentReady
    <2>4. \A heard \in BOOLEAN : [machine EXCEPT ![h].serving = heard] \in [Hardware -> Machine]
      BY DEF TypeOK, Machine
    <2>. QED
      BY <1>2, <2>3, <2>4 DEF AgentReady, TypeOK
  <1>3. \A r \in {"ok", "error"} : Finish(h, r) => machine' \in [Hardware -> Machine]
    <2>. SUFFICES ASSUME NEW r \in {"ok", "error"}, Finish(h, r)
                  PROVE  machine' \in [Hardware -> Machine]
      OBVIOUS
    <2>1. [machine[h].action EXCEPT !.result = r] \in Action
      BY DEF Machine, Action
    <2>2. [machine[h] EXCEPT !.action = [machine[h].action EXCEPT !.result = r]] \in Machine
      BY <2>1 DEF Machine
    <2>3. machine' = [machine EXCEPT
                        ![h] = [machine[h] EXCEPT
                                  !.action = [machine[h].action EXCEPT !.result = r]]]
      BY DEF Finish, TypeOK
    <2>. QED
      BY <2>2, <2>3 DEF TypeOK
  <1>4. CASE ImageBegins(h)
    <2>1. [data |-> machine[h].action.target, whole |-> FALSE] \in Disk
      BY DEF Machine, Action, Disk
    <2>. QED
      BY <1>4, <2>1 DEF ImageBegins, TypeOK
  <1>5. CASE ImageSucceeds(h)
    BY <1>5, <1>3 DEF ImageSucceeds, TypeOK, Disk
  <1>6. CASE CleanSucceeds(h)
    BY <1>6, <1>3, InitialTypes DEF CleanSucceeds, TypeOK
  <1>7. CASE ActionFails(h)
    BY <1>7, <1>3 DEF ActionFails, TypeOK
  <1>. QED
    BY <1>1, <1>2, <1>4, <1>5, <1>6, <1>7

\* The watches deliver, and the manager restarts.
LEMMA WatchTypes ==
    ASSUME TypeOK, WatchBmis \/ WatchBmhs \/ RestartManager
    PROVE  TypeOK'
  <1>1. CASE WatchBmis
    BY <1>1, DeliverVersions DEF WatchBmis, TypeOK
  <1>2. CASE WatchBmhs
    BY <1>2, DeliverVersions DEF WatchBmhs, TypeOK
  <1>3. CASE RestartManager
    BY <1>3, RelistedVersions, InitialTypes DEF RestartManager, TypeOK
  <1>. QED
    BY <1>1, <1>2, <1>3

-----------------------------------------------------------------------------
\* Whatever users, controllers, agents and watches do, the streams, the
\* provisioner's call, the machines and the disks have their types.
THEOREM TypesHold == Spec => []TypeOK
  <1>1. Init => TypeOK
    <2>. SUFFICES ASSUME Init PROVE TypeOK
      OBVIOUS
    <2>1. [i \in Instances |-> Unborn] \in [Instances -> Instance]
      BY InitialTypes
    <2>2. [h \in Hardware |-> [NewHardware EXCEPT !.ready = (h \in Prepared)]]
             \in [Hardware -> HardwareObject]
      <3>1. \A b \in BOOLEAN : [NewHardware EXCEPT !.ready = b] \in HardwareObject
        BY InitialTypes DEF HardwareObject
      <3>2. \A h \in Hardware : (h \in Prepared) \in BOOLEAN
        OBVIOUS
      <3>. QED
        BY <3>1, <3>2
    <2>. QED
      BY <2>1, <2>2, InitialTypes DEF Init, TypeOK
  <1>2. TypeOK /\ [Next]_vars => TypeOK'
    <2>1. TypeOK /\ Next => TypeOK'
      BY UserTypes, InstanceTypes, ProvisionerTypes, HardwareTypes, MachineTypes,
         WatchTypes DEF Next
    <2>2. TypeOK /\ UNCHANGED vars => TypeOK'
      BY DEF TypeOK, vars
    <2>. QED
      BY <2>1, <2>2
  <1>. QED
    BY <1>1, <1>2, PTL DEF Spec
=============================================================================
