---------------------------- MODULE CustodyProofs ----------------------------
(***************************************************************************)
(* The lifecycle implements HardwareCustody: InstanceRef and what is on    *)
(* the image drives change as the promise of a clean handover allows.  And *)
(* an instance that got its hardware keeps it until it is deleted.         *)
(***************************************************************************)
EXTENDS HardwareHandoverProofs

CustodyStep == [Custody!CustodyNext]_Custody!custodyVars

-----------------------------------------------------------------------------
(***************************************************************************)
(* The kinds of steps the promise sees.                                    *)
(***************************************************************************)
\* Neither the references nor the contents of the disks change.
LEMMA NothingHandedOver ==
    ASSUME \A h \in Hardware : /\ StoredBmh(h).instanceRef' = StoredBmh(h).instanceRef
                              /\ disk'[h].data = disk[h].data
    PROVE  CustodyStep
  BY DEF CustodyStep, Custody!custodyVars

\* One hardware is stored: claimed while free and empty, given back while empty,
\* or kept.
LEMMA ReferenceStored ==
    ASSUME TypeOK, NEW h \in Hardware, NEW w \in HardwareObject,
           StoreBmh(h, w), UNCHANGED disk,
           \/ w.instanceRef = StoredBmh(h).instanceRef
           \/ w.instanceRef = Nil /\ disk[h].data = Nil
           \/ /\ w.instanceRef \in Instances
              /\ StoredBmh(h).instanceRef = Nil /\ disk[h].data = Nil
    PROVE  CustodyStep
  <1>. DEFINE holder == [g \in Hardware |-> StoredBmh(g).instanceRef]
              content == [g \in Hardware |-> disk[g].data]
  <1>1. \A g \in Hardware :
          StoredBmh(g).instanceRef' = IF g = h THEN w.instanceRef ELSE StoredBmh(g).instanceRef
    BY StoredBmhVersions
  <1>2. holder' = [holder EXCEPT ![h] = w.instanceRef]
    BY <1>1
  <1>3. content' = content
    OBVIOUS
  <1>4. CASE w.instanceRef = StoredBmh(h).instanceRef
    BY <1>1, <1>4, NothingHandedOver
  <1>5. CASE w.instanceRef = Nil /\ disk[h].data = Nil
    <2>1. Custody!Release(h)
      BY <1>2, <1>3, <1>5 DEF Custody!Release
    <2>. QED
      BY <2>1 DEF CustodyStep, Custody!CustodyNext
  <1>6. CASE /\ w.instanceRef \in Instances
             /\ StoredBmh(h).instanceRef = Nil /\ disk[h].data = Nil
    <2>1. Custody!Take(h, w.instanceRef)
      BY <1>2, <1>3, <1>6 DEF Custody!Take
    <2>. QED
      BY <1>6, <2>1 DEF CustodyStep, Custody!CustodyNext
  <1>. QED
    BY <1>4, <1>5, <1>6

\* What one disk holds changes: to nothing, or from nothing to the holder's image.
LEMMA DiskWritten ==
    ASSUME UNCHANGED bmhs, NEW h \in Hardware,
           \A g \in Hardware : g # h => disk'[g].data = disk[g].data,
           \/ disk'[h].data \in {Nil, disk[h].data}
           \/ /\ disk[h].data = Nil
              /\ disk'[h].data = StoredBmh(h).instanceRef
              /\ StoredBmh(h).instanceRef # Nil
    PROVE  CustodyStep
  <1>. DEFINE holder == [g \in Hardware |-> StoredBmh(g).instanceRef]
              content == [g \in Hardware |-> disk[g].data]
  <1>1. \A g : StoredBmh(g)' = StoredBmh(g)
    BY DEF StoredBmh
  <1>2. holder' = holder
    BY <1>1
  <1>3. content' = [content EXCEPT ![h] = disk'[h].data]
    OBVIOUS
  <1>4. CASE disk'[h].data = disk[h].data
    BY <1>1, <1>4, NothingHandedOver
  <1>5. CASE disk'[h].data = Nil
    <2>1. Custody!Wipe(h)
      BY <1>2, <1>3, <1>5 DEF Custody!Wipe
    <2>. QED
      BY <2>1 DEF CustodyStep, Custody!CustodyNext
  <1>6. CASE /\ disk[h].data = Nil
             /\ disk'[h].data = StoredBmh(h).instanceRef
             /\ StoredBmh(h).instanceRef # Nil
    <2>1. Custody!Fill(h)
      BY <1>2, <1>3, <1>6 DEF Custody!Fill
    <2>. QED
      BY <2>1 DEF CustodyStep, Custody!CustodyNext
  <1>. QED
    BY <1>4, <1>5, <1>6

\* What is on a disk is of the instance the stored reference names, and no
\* instance has two machines with anything on them.
LEMMA ContentIsHolders ==
    ASSUME TypeOK, HandoverInv
    PROVE  /\ \A h \in Hardware : disk[h].data # Nil =>
                /\ StoredBmh(h).instanceRef = disk[h].data
                /\ StoredBmi(disk[h].data).exists = "live"
           /\ \A g, h \in Hardware :
                disk[h].data # Nil /\ disk[g].data = disk[h].data => g = h
  <1>1. \A h \in Hardware : \A i : Hosts(h, i) =>
          /\ StoredBmh(h).instanceRef = i
          /\ StoredBmi(i).exists = "live" /\ StoredBmi(i).hardwareName = h
    BY Versions DEF Hosts, On, Placed
  <1>. QED
    BY <1>1 DEF HandoverInv, DisksInv, Machines

\* The instance a dropped reference names is gone.
LEMMA DroppedIsGone ==
    ASSUME TypeOK, AssignmentInv, NEW h \in Hardware, DropInstanceRef(h)
    PROVE  /\ StoredBmh(h).instanceRef \in Instances
           /\ StoredBmi(StoredBmh(h).instanceRef).exists = "gone"
  <1>. DEFINE i == Bmh(h).instanceRef
  <1>1. i # Nil /\ ~RefFound(h) /\ StoredBmh(h) = Bmh(h)
    BY FreshBmh DEF DropInstanceRef, UpdateBmh
  <1>2. i \in Instances
    BY <1>1, ReadTypes DEF HardwareObject
  <1>3. Bmi(i).exists # "live" /\ Bmi(i) \in Instance
    BY <1>1, <1>2, ReadTypes DEF RefFound
  <1>4. Bmi(i).exists # "unborn"
    <2>1. \E k \in 1..Len(bmhs) : bmhs[k][h].instanceRef = i
      BY <1>1, Versions
    <2>. QED
      BY <1>1, <2>1 DEF AssignmentInv, References
  <1>5. StoredBmi(i).exists = "gone"
    BY <1>2, <1>3, <1>4, StoredFollowsCached DEF Instance, AssignmentInv, Follows
  <1>. QED
    BY <1>1, <1>2, <1>5

-----------------------------------------------------------------------------
(***************************************************************************)
(* Every step of the lifecycle is of one of these kinds.                   *)
(***************************************************************************)
\* Steps that write no hardware and no disk.
LEMMA StutterCustody ==
    ASSUME UNCHANGED <<bmhs, disk>>
    PROVE  CustodyStep
  BY NothingHandedOver DEF StoredBmh

\* Users edit hardware, and clean a machine whose cleaning failed.
LEMMA UserCustody ==
    ASSUME TypeOK, HandoverInv, UserStep
    PROVE  CustodyStep
  <1>1. ASSUME NEW i \in Instances, CreateInstance(i) \/ DeleteInstance(i)
        PROVE  CustodyStep
    BY <1>1, StutterCustody DEF CreateInstance, DeleteInstance
  <1>2. ASSUME NEW i \in Instances, CleanByHandAndForceDelete(i)
        PROVE  CustodyStep
    <2>1. /\ UNCHANGED bmhs
          /\ disk' = [h \in Hardware |-> IF StoredBmh(h).instanceRef = i
                                         THEN Blank ELSE disk[h]]
      BY <1>2 DEF CleanByHandAndForceDelete
    <2>2. \A h \in Hardware : disk'[h].data # disk[h].data =>
            disk[h].data = i /\ i # Nil /\ disk'[h].data = Nil
      BY <2>1, ContentIsHolders, ConstantsAssumption DEF Blank
    <2>3. CASE \A h \in Hardware : disk'[h].data = disk[h].data
      BY <2>1, <2>3, NothingHandedOver DEF StoredBmh
    <2>4. CASE \E h \in Hardware : disk'[h].data # disk[h].data
      <3>1. PICK h \in Hardware : disk'[h].data # disk[h].data
        BY <2>4
      <3>2. \A g \in Hardware : g # h => disk'[g].data = disk[g].data
        BY <2>2, <3>1, ContentIsHolders
      <3>. QED
        BY <2>1, <2>2, <3>1, <3>2, DiskWritten
    <2>. QED
      BY <2>3, <2>4
  <1>3. ASSUME NEW h \in Hardware, EditHardware(h)
        PROVE  CustodyStep
    <2>1. PICK w : /\ StoreBmh(h, w) /\ UNCHANGED disk
                   /\ \/ w = [StoredBmh(h) EXCEPT !.canProvision = ~@]
                      \/ w = [StoredBmh(h) EXCEPT !.deleting = TRUE]
      BY <1>3 DEF EditHardware
    <2>2. w \in HardwareObject /\ w.instanceRef = StoredBmh(h).instanceRef
      BY <2>1, ReadTypes DEF HardwareObject
    <2>. QED
      BY <2>1, <2>2, ReferenceStored
  <1>. QED
    BY <1>1, <1>2, <1>3 DEF UserStep

\* The instance controller and the scheduler write instances only.
LEMMA InstanceCustody == InstanceStep => CustodyStep
  BY StutterCustody
     DEF InstanceStep, SetPending, RemoveFinalizer, TerminateUnscheduled, Unschedule,
         InitScheduled, StartProvisioning, MarkScheduled, Schedule, UpdateBmi

\* The provisioner claims free hardware and releases what was cleaned.
LEMMA ProvisionerCustody ==
    ASSUME TypeOK, HandoverInv, ProvisionerStep
    PROVE  CustodyStep
  <1>1. ASSUME NEW i \in Instances,
               \/ InitCleaned(i) \/ TerminateCleaned(i) \/ StartCleaning(i)
               \/ TerminateUncleaned(i) \/ MarkCleaned(i) \/ InitNetworked(i)
               \/ MarkNetworked(i) \/ InitImaged(i) \/ Run(i) \/ AskAgent(i)
        PROVE  CustodyStep
    BY <1>1, StutterCustody
       DEF InitCleaned, TerminateCleaned, StartCleaning, TerminateUncleaned, MarkCleaned,
           InitNetworked, MarkNetworked, InitImaged, Run, AskAgent, UpdateBmi
  <1>2. ASSUME NEW i \in Instances, Claim(i)
        PROVE  CustodyStep
    <2>. DEFINE h == Bmi(i).hardwareName
                w == [Bmh(h) EXCEPT !.instanceRef = i]
    <2>1. h \in Hardware /\ Bmh(h).instanceRef = Nil /\ UpdateBmh(h, w)
      BY <1>2 DEF Claim, Provisioning, HasHardware, Listed, Its
    <2>2. w \in HardwareObject /\ w.instanceRef = i
      BY <2>1, ReadTypes DEF HardwareObject
    <2>. HIDE DEF h, w
    <2>3. StoredBmh(h).instanceRef = Nil
      BY <2>1, FreshBmh DEF UpdateBmh
    <2>4. disk[h].data = Nil
      BY <2>1, <2>3, ContentIsHolders
    <2>. QED
      BY <2>1, <2>2, <2>3, <2>4, ReferenceStored DEF UpdateBmh
  <1>3. ASSUME \/ \E h \in Hardware : AgentAnswers(h) \/ TellAgent(h)
               \/ EndCall \/ RecordImagingFailed \/ RecordImaged \/ RecordCleaningFailed
        PROVE  CustodyStep
    BY <1>3, StutterCustody
       DEF AgentAnswers, TellAgent, EndCall, RecordImagingFailed, RecordImaged,
           RecordCleaningFailed, WriteBmi
  <1>4. CASE ReleaseHardware
    <2>. DEFINE h == call.bmi.hardwareName
                w == [call.bmh EXCEPT !.instanceRef = Nil]
    <2>1. StoreBmh(h, w) /\ UNCHANGED disk
      BY <1>4 DEF ReleaseHardware, ReleaseAs
    <2>2. h \in Hardware /\ disk[h].data = Nil
      BY <1>4 DEF ReleaseHardware, ReleaseAs, HandoverInv, AssignmentInv, CallIsSound,
                  DisksInv, AnswerIsGood, Answered
    <2>3. w \in HardwareObject /\ w.instanceRef = Nil
      BY DEF TypeOK, Call, HardwareObject
    <2>. QED
      BY <2>1, <2>2, <2>3, ReferenceStored
  <1>. QED
    BY <1>1, <1>2, <1>3, <1>4 DEF ProvisionerStep

\* The hardware controller drops the reference to an instance that is gone.
LEMMA HardwareCustodyStep ==
    ASSUME TypeOK, HandoverInv, HardwareStep
    PROVE  CustodyStep
  <1>1. ASSUME NEW h \in Hardware,
               SyncNoSchedule(h) \/ SyncNotReady(h) \/ SetConditions(h)
        PROVE  CustodyStep
    <2>1. PICK w : /\ UpdateBmh(h, w)
                   /\ \/ \E e \in Taints : w = [Bmh(h) EXCEPT !.taints = Toggle(@, e)]
                      \/ \E r \in Verdicts : w = [Bmh(h) EXCEPT !.ready = r]
      BY <1>1 DEF SyncNoSchedule, SyncNotReady, SetConditions, Taints
    <2>2. w \in HardwareObject /\ w.instanceRef = Bmh(h).instanceRef
      BY <2>1, ReadTypes, ConstantsAssumption DEF HardwareObject, Toggle
    <2>3. Bmh(h) = StoredBmh(h)
      BY <2>1, FreshBmh DEF UpdateBmh
    <2>. QED
      BY <2>1, <2>2, <2>3, ReferenceStored DEF UpdateBmh
  <1>2. ASSUME NEW h \in Hardware, DropInstanceRef(h)
        PROVE  CustodyStep
    <2>. DEFINE w == [Bmh(h) EXCEPT !.instanceRef = Nil]
    <2>1. UpdateBmh(h, w) /\ w \in HardwareObject /\ w.instanceRef = Nil
      BY <1>2, ReadTypes DEF DropInstanceRef, HardwareObject
    <2>2. disk[h].data = Nil
      BY <1>2, DroppedIsGone, ContentIsHolders DEF HandoverInv
    <2>. HIDE DEF w
    <2>. QED
      BY <2>1, <2>2, ReferenceStored DEF UpdateBmh
  <1>3. ASSUME NEW h \in Hardware, RemoveHardwareFinalizer(h)
        PROVE  CustodyStep
    <2>1. Bmh(h).instanceRef = Nil /\ UpdateBmh(h, RemovedHardware)
      BY <1>3 DEF RemoveHardwareFinalizer
    <2>2. RemovedHardware \in HardwareObject /\ RemovedHardware.instanceRef = Nil
      BY InitialTypes DEF RemovedHardware, NewHardware
    <2>3. StoredBmh(h).instanceRef = Nil
      BY <2>1, FreshBmh DEF UpdateBmh
    <2>. QED
      BY <2>1, <2>2, <2>3, ReferenceStored DEF UpdateBmh
  <1>4. ASSUME NEW h \in Hardware, DeleteItsInstance(h)
        PROVE  CustodyStep
    BY <1>4, StutterCustody DEF DeleteItsInstance, DeleteInstance
  <1>. QED
    BY <1>1, <1>2, <1>3, <1>4 DEF HardwareStep

\* Agents write the holder's image and clean.
LEMMA MachineCustody ==
    ASSUME TypeOK, HandoverInv, MachineStep
    PROVE  CustodyStep
  <1>1. ASSUME NEW h \in Hardware, Boot(h) \/ AgentReady(h) \/ ActionFails(h)
        PROVE  CustodyStep
    BY <1>1, StutterCustody DEF Boot, AgentReady, ActionFails
  <1>2. ASSUME NEW h \in Hardware, ImageBegins(h)
        PROVE  CustodyStep
    <2>. DEFINE i == machine[h].action.target
    <2>1. /\ UNCHANGED bmhs
          /\ \A g \in Hardware : disk'[g].data = IF g = h THEN i ELSE disk[g].data
      BY <1>2 DEF ImageBegins, TypeOK
    <2>2. i \in Instances /\ StoredBmh(h).instanceRef = i
      BY <1>2, Versions DEF ImageBegins, HandoverInv, DisksInv, Machines, Hosts
    <2>3. disk[h].data \in {Nil, i}
      BY <2>2, ContentIsHolders
    <2>. QED
      BY <2>1, <2>2, <2>3, DiskWritten, ConstantsAssumption
  <1>3. ASSUME NEW h \in Hardware, ImageSucceeds(h) \/ CleanSucceeds(h)
        PROVE  CustodyStep
    <2>1. /\ UNCHANGED bmhs
          /\ \A g \in Hardware : g # h => disk'[g].data = disk[g].data
          /\ disk'[h].data \in {Nil, disk[h].data}
      BY <1>3 DEF ImageSucceeds, CleanSucceeds, TypeOK, Disk, Blank
    <2>. QED
      BY <2>1, DiskWritten
  <1>. QED
    BY <1>1, <1>2, <1>3 DEF MachineStep

\* The watches and a restart change what is cached, not what is stored.
LEMMA WatchCustody ==
    ASSUME TypeOK, WatchBmis \/ WatchBmhs \/ RestartManager
    PROVE  CustodyStep
  <1>1. Stored(bmhs)' = Stored(bmhs) /\ UNCHANGED disk
    BY DeliverVersions, RelistedVersions
       DEF TypeOK, WatchBmis, WatchBmhs, RestartManager
  <1>. QED
    BY <1>1, NothingHandedOver DEF StoredBmh

-----------------------------------------------------------------------------
\* As long as the provisioner reaches the agents it means, machines are handed over
\* as the promise says: to one instance at a time, filled by their holder only, and
\* given back empty (provisioner.go:257-268, 303-321).
THEOREM LifecycleKeepsCustody == Spec /\ []RightAgent => CustodyIsKept
  <1>1. Init => Custody!CustodyInit
    <2>. SUFFICES ASSUME Init PROVE Custody!CustodyInit
      OBVIOUS
    <2>1. \A h \in Hardware : StoredBmh(h).instanceRef = Nil /\ disk[h].data = Nil
      BY DEF Init, StoredBmh, Stored, NewHardware, Blank
    <2>. QED
      BY <2>1 DEF Custody!CustodyInit
  <1>2. TypeOK /\ HandoverInv /\ [Next]_vars => CustodyStep
    BY UserCustody, InstanceCustody, ProvisionerCustody, HardwareCustodyStep,
       MachineCustody, WatchCustody, StutterCustody DEF Next, vars
  <1>. QED
    BY <1>1, <1>2, TypesHold, HandoverHolds, PTL
       DEF Spec, CustodyIsKept, Custody!CustodySpec, CustodyStep
-----------------------------------------------------------------------------
(***************************************************************************)
(* LiveInstanceHoldsHardware is inductive under AssignmentInv.             *)
(***************************************************************************)
\* Instance b is past claiming its hardware and is not being deleted.
Settling(b) == b.exists = "live" /\ ~b.deleting /\ b.networked # "None"

\* Hardware h is stored with a reference to instance i.
HeldBy(h, i) ==
    h \in Hardware /\ StoredBmh(h).exists = "live" /\ StoredBmh(h).instanceRef = i

\* The property, in these words.
LEMMA HoldingIs ==
    ASSUME TypeOK
    PROVE  LiveInstanceHoldsHardware <=>
             \A i \in Instances :
               Settling(StoredBmi(i)) => HeldBy(StoredBmi(i).hardwareName, i)
  BY ReadTypes, ConstantsAssumption DEF LiveInstanceHoldsHardware, Settling, HeldBy, Instance

\* The same of the next state.
LEMMA HoldingIsNext ==
    ASSUME TypeOK'
    PROVE  LiveInstanceHoldsHardware' <=>
             \A i \in Instances :
               (Settling(StoredBmi(i)) => HeldBy(StoredBmi(i).hardwareName, i))'
  <1>1. \A i \in Instances : StoredBmi(i)' \in Instance
    <2>1. Stored(bmis') \in [Instances -> Instance]
      BY StreamVersions DEF TypeOK
    <2>. QED
      BY <2>1 DEF StoredBmi
  <1>. QED
    BY <1>1, ConstantsAssumption DEF LiveInstanceHoldsHardware, Settling, HeldBy, Instance

\* A write to an instance that gets past claiming only on hardware it holds.
LEMMA InstanceKeepsHolding ==
    ASSUME TypeOK, TypeOK', LiveInstanceHoldsHardware, UNCHANGED bmhs,
           NEW i \in Instances, NEW v \in Instance, StoreBmi(i, v),
           Settling(v) => \/ HeldBy(v.hardwareName, i)
                          \/ /\ Settling(StoredBmi(i))
                             /\ v.hardwareName = StoredBmi(i).hardwareName
    PROVE  LiveInstanceHoldsHardware'
  <1>1. \A h, j : HeldBy(h, j)' = HeldBy(h, j)
    BY DEF HeldBy, StoredBmh
  <1>2. \A j \in Instances : StoredBmi(j)' = IF j = i THEN v ELSE StoredBmi(j)
    BY StoredBmiVersions
  <1>. QED
    BY <1>1, <1>2, HoldingIs, HoldingIsNext

\* A write to a hardware that takes its reference from none but a departing
\* instance.
LEMMA HardwareKeepsHolding ==
    ASSUME TypeOK, TypeOK', LiveInstanceHoldsHardware, UNCHANGED bmis,
           NEW h \in Hardware, NEW w \in HardwareObject, StoreBmh(h, w),
           LET j == StoredBmh(h).instanceRef IN
           \/ w.exists = "live" /\ w.instanceRef = j
           \/ j \notin Instances
           \/ j \in Instances /\ Departing(StoredBmi(j))
    PROVE  LiveInstanceHoldsHardware'
  <1>1. \A g \in Hardware : StoredBmh(g)' = IF g = h THEN w ELSE StoredBmh(g)
    BY StoredBmhVersions
  <1>2. \A i : StoredBmi(i)' = StoredBmi(i)
    BY DEF StoredBmi
  <1>3. \A i \in Instances :
          Settling(StoredBmi(i)) /\ HeldBy(StoredBmi(i).hardwareName, i)
            => HeldBy(StoredBmi(i).hardwareName, i)'
    BY <1>1, <1>2 DEF HeldBy, Settling, Departing
  <1>. QED
    BY <1>2, <1>3, HoldingIs, HoldingIsNext

\* Steps that store nothing.
LEMMA NothingStored ==
    ASSUME UNCHANGED <<Stored(bmis), Stored(bmhs)>>, LiveInstanceHoldsHardware
    PROVE  LiveInstanceHoldsHardware'
  BY DEF LiveInstanceHoldsHardware, StoredBmi, StoredBmh

\* Updates of an instance that change neither its hardware nor its networking, or
\* are made of one that is being deleted.
LEMMA InstanceUpdateHolds ==
    ASSUME TypeOK, TypeOK', LiveInstanceHoldsHardware,
           NEW i \in Instances, NEW v \in Instance, UpdateBmi(i, v),
           \/ v.deleting \/ v.exists = "gone" \/ v.networked = "None"
           \/ /\ Settling(v) => Settling(Bmi(i))
              /\ v.hardwareName = Bmi(i).hardwareName
           \/ HeldBy(v.hardwareName, i)
    PROVE  LiveInstanceHoldsHardware'
  <1>1. StoreBmi(i, v) /\ UNCHANGED bmhs /\ Bmi(i) = StoredBmi(i)
    BY FreshBmi DEF UpdateBmi
  <1>. QED
    BY <1>1, InstanceKeepsHolding DEF Settling

\* The cached hardware of a live instance that it has claimed is its own.
LEMMA ClaimedIsHeld ==
    ASSUME TypeOK, AssignmentInv, NEW i \in Instances, Installing(i)
    PROVE  HeldBy(Bmi(i).hardwareName, i)
  <1>. DEFINE h == Bmi(i).hardwareName
  <1>1. /\ h \in Hardware /\ Bmh(h).instanceRef = i /\ i # Nil
        /\ ~Departing(Bmi(i))
    BY ConstantsAssumption
       DEF Installing, Provisioning, HasHardware, Listed, Its, Live, Departing
  <1>. HIDE DEF h
  <1>2. bmhs[1][h].instanceRef = i /\ StoredBmh(h) = bmhs[Len(bmhs)][h]
        /\ Len(bmhs) \in Nat \ {0}
    BY <1>1, Versions
  <1>3. StoredBmh(h).instanceRef = i
    <2>1. Len(bmhs) \in 1..Len(bmhs) /\ 1 \in 1..Len(bmhs)
      BY <1>2
    <2>. QED
      BY <1>1, <1>2, <2>1 DEF AssignmentInv, Handover
  <1>4. StoredBmh(h).exists = "live"
    BY <1>1, <1>2, <1>3 DEF AssignmentInv, References
  <1>. QED
    BY <1>1, <1>3, <1>4 DEF HeldBy, h
-----------------------------------------------------------------------------
(***************************************************************************)
(* Every kind of step keeps LiveInstanceHoldsHardware.                     *)
(***************************************************************************)
\* Users create, delete and remove instances, and edit hardware.
LEMMA UserHolding ==
    ASSUME TypeOK, TypeOK', AssignmentInv, LiveInstanceHoldsHardware, UserStep
    PROVE  LiveInstanceHoldsHardware'
  <1>1. ASSUME NEW i \in Instances, NEW v \in Instance, StoreBmi(i, v), UNCHANGED bmhs,
               v \in {Created, Gone} \/ v.deleting
        PROVE  LiveInstanceHoldsHardware'
    <2>1. ~Settling(v)
      BY <1>1 DEF Settling, Created, Gone, Unborn
    <2>. QED
      BY <1>1, <2>1, InstanceKeepsHolding
  <1>2. Created \in Instance /\ Gone \in Instance
    BY InitialTypes DEF Created, Gone, Unborn
  <1>3. ASSUME NEW i \in Instances, CreateInstance(i) \/ CleanByHandAndForceDelete(i)
        PROVE  LiveInstanceHoldsHardware'
    BY <1>1, <1>2, <1>3 DEF CreateInstance, CleanByHandAndForceDelete
  <1>4. ASSUME NEW i \in Instances, DeleteInstance(i)
        PROVE  LiveInstanceHoldsHardware'
    <2>. DEFINE v == [StoredBmi(i) EXCEPT !.deleting = TRUE]
    <2>1. v \in Instance /\ v.deleting
      BY ReadTypes DEF Instance
    <2>2. StoreBmi(i, v) /\ UNCHANGED bmhs
      BY <1>4 DEF DeleteInstance
    <2>. HIDE DEF v
    <2>. QED
      BY <1>1, <2>1, <2>2
  <1>5. ASSUME NEW h \in Hardware, EditHardware(h)
        PROVE  LiveInstanceHoldsHardware'
    <2>1. PICK w : /\ StoreBmh(h, w) /\ UNCHANGED bmis
                   /\ \/ w = [StoredBmh(h) EXCEPT !.canProvision = ~@]
                      \/ w = [StoredBmh(h) EXCEPT !.deleting = TRUE]
      BY <1>5 DEF EditHardware
    <2>2. StoredBmh(h).exists = "live" /\ StoredBmh(h) \in HardwareObject
      BY <1>5, ReadTypes DEF EditHardware
    <2>3. /\ w \in HardwareObject /\ w.exists = "live"
          /\ w.instanceRef = StoredBmh(h).instanceRef
      BY <2>1, <2>2 DEF HardwareObject
    <2>. QED
      BY <2>1, <2>3, HardwareKeepsHolding
  <1>. QED
    BY <1>3, <1>4, <1>5 DEF UserStep

\* The instance controller and the scheduler do not touch the hardware of an
\* instance that got past claiming.
LEMMA InstanceHolding ==
    ASSUME TypeOK, TypeOK', LiveInstanceHoldsHardware, InstanceStep
    PROVE  LiveInstanceHoldsHardware'
  <1>. SUFFICES ASSUME NEW i \in Instances,
                       \/ SetPending(i)
                       \/ RemoveFinalizer(i)
                       \/ TerminateUnscheduled(i)
                       \/ Unschedule(i)
                       \/ InitScheduled(i)
                       \/ StartProvisioning(i)
                       \/ MarkScheduled(i)
                       \/ Schedule(i)
                PROVE  LiveInstanceHoldsHardware'
    BY DEF InstanceStep
  <1>1. Bmi(i) \in Instance
    BY ReadTypes
  <1>. DEFINE b == Bmi(i)
  <1>2. b = Bmi(i)
    OBVIOUS
  <1>. HIDE DEF b
  <1>3. ASSUME NEW v, UpdateBmi(i, v),
               \/ \E p \in {"Pending", "Provisioning"} : v = [b EXCEPT !.phase = p]
               \/ \E c \in {"True", "False"} : v = [b EXCEPT !.scheduled = c]
        PROVE  LiveInstanceHoldsHardware'
    <2>1. /\ v \in Instance /\ v.exists = b.exists /\ v.deleting = b.deleting
          /\ v.networked = b.networked /\ v.hardwareName = b.hardwareName
      BY <1>1, <1>2, <1>3 DEF Instance, Phases, Statuses
    <2>. QED
      BY <1>2, <1>3, <2>1, InstanceUpdateHolds DEF Settling
  <1>4. CASE SetPending(i) \/ InitScheduled(i) \/ StartProvisioning(i) \/ MarkScheduled(i)
    BY <1>2, <1>3, <1>4 DEF SetPending, InitScheduled, StartProvisioning, MarkScheduled
  <1>5. CASE RemoveFinalizer(i)
    <2>1. Gone \in Instance /\ Gone.exists = "gone"
      BY InitialTypes DEF Gone, Unborn
    <2>. QED
      BY <1>5, <2>1, InstanceUpdateHolds DEF RemoveFinalizer
  <1>6. CASE TerminateUnscheduled(i) \/ Unschedule(i)
    <2>1. PICK v : /\ UpdateBmi(i, v) /\ b.deleting
                   /\ \/ v = [b EXCEPT !.phase = "Terminated"]
                      \/ v = [b EXCEPT !.scheduled = "False", !.hardwareName = Nil]
      BY <1>2, <1>6 DEF TerminateUnscheduled, Unschedule, Deleting
    <2>2. v \in Instance /\ v.deleting
      BY <1>1, <1>2, <2>1 DEF Instance, Phases, Statuses
    <2>. QED
      BY <2>1, <2>2, InstanceUpdateHolds
  <1>7. CASE Schedule(i)
    <2>1. PICK h \in Hardware : UpdateBmi(i, [b EXCEPT !.hardwareName = h])
      BY <1>2, <1>7 DEF Schedule, Chosen, Listed
    <2>. DEFINE v == [b EXCEPT !.hardwareName = h]
    <2>2. Bmi(i).exists = "live" /\ ~Bmi(i).deleting /\ Bmi(i).hardwareName = Nil
      BY <1>7 DEF Schedule, Pending, Live
    <2>3. Bmi(i) = StoredBmi(i)
      BY <2>1, FreshBmi DEF UpdateBmi
    <2>4. ~Settling(StoredBmi(i))
      BY <2>2, <2>3, HoldingIs, ConstantsAssumption DEF HeldBy
    <2>5. /\ v \in Instance /\ v.exists = b.exists /\ v.deleting = b.deleting
          /\ v.networked = b.networked
      BY <1>1, <1>2 DEF Instance
    <2>. HIDE DEF v
    <2>6. v.networked = "None"
      BY <1>2, <2>2, <2>3, <2>4, <2>5 DEF Settling
    <2>7. UpdateBmi(i, v)
      BY <2>1 DEF v
    <2>. QED
      BY <2>5, <2>6, <2>7, InstanceUpdateHolds
  <1>. QED
    BY <1>4, <1>5, <1>6, <1>7
\* The provisioner goes on with an instance on hardware it has claimed, works for
\* deleted ones, and claims free hardware.
LEMMA ProvisionerHolding ==
    ASSUME TypeOK, TypeOK', AssignmentInv, LiveInstanceHoldsHardware, ProvisionerStep
    PROVE  LiveInstanceHoldsHardware'
  <1>1. ASSUME NEW i \in Instances,
               \/ InitCleaned(i)
               \/ TerminateCleaned(i)
               \/ StartCleaning(i)
               \/ TerminateUncleaned(i)
               \/ MarkCleaned(i)
        PROVE  LiveInstanceHoldsHardware'
    <2>1. Bmi(i) \in Instance /\ Bmi(i).deleting
      BY <1>1, ReadTypes
         DEF InitCleaned, TerminateCleaned, StartCleaning, TerminateUncleaned,
             MarkCleaned, Cleaning, Releasing, Deleting
    <2>2. PICK v : /\ UpdateBmi(i, v)
                   /\ \/ \E c \in {"True", "False"} : v = [Bmi(i) EXCEPT !.cleaned = c]
                      \/ \E p \in {"Cleaning", "Terminating"} : v = [Bmi(i) EXCEPT !.phase = p]
                      \/ v = [Bmi(i) EXCEPT !.phase = "Terminating", !.agentInfo = Nil]
      <3>1. CASE InitCleaned(i) \/ MarkCleaned(i)
        BY <3>1 DEF InitCleaned, MarkCleaned
      <3>2. CASE StartCleaning(i) \/ TerminateUncleaned(i)
        BY <3>2 DEF StartCleaning, TerminateUncleaned
      <3>3. CASE TerminateCleaned(i)
        BY <3>3 DEF TerminateCleaned
      <3>. QED
        BY <1>1, <3>1, <3>2, <3>3
    <2>3. v \in Instance /\ v.deleting
      BY <2>1, <2>2 DEF Instance, Phases, Statuses
    <2>. QED
      BY <2>2, <2>3, InstanceUpdateHolds
  <1>2. ASSUME NEW i \in Instances,
               InitNetworked(i) \/ MarkNetworked(i) \/ InitImaged(i) \/ Run(i)
        PROVE  LiveInstanceHoldsHardware'
    <2>1. Bmi(i) \in Instance /\ HeldBy(Bmi(i).hardwareName, i)
      BY <1>2, ReadTypes, ClaimedIsHeld
         DEF InitNetworked, MarkNetworked, InitImaged, Run
    <2>2. PICK v : /\ UpdateBmi(i, v)
                   /\ \/ \E c \in {"True", "False"} : v = [Bmi(i) EXCEPT !.networked = c]
                      \/ v = [Bmi(i) EXCEPT !.imaged = "False"]
                      \/ v = [Bmi(i) EXCEPT !.phase = "Running", !.agentInfo = Nil]
      BY <1>2 DEF InitNetworked, MarkNetworked, InitImaged, Run
    <2>3. v \in Instance /\ v.hardwareName = Bmi(i).hardwareName
      BY <2>1, <2>2 DEF Instance, Phases, Statuses
    <2>. QED
      BY <2>1, <2>2, <2>3, InstanceUpdateHolds
  <1>3. ASSUME NEW i \in Instances, Claim(i)
        PROVE  LiveInstanceHoldsHardware'
    <2>. DEFINE h == Bmi(i).hardwareName
                w == [Bmh(h) EXCEPT !.instanceRef = i]
    <2>1. h \in Hardware /\ Bmh(h).instanceRef = Nil /\ UpdateBmh(h, w)
      BY <1>3 DEF Claim, Provisioning, HasHardware, Listed, Its
    <2>2. w \in HardwareObject
      BY <2>1, ReadTypes DEF HardwareObject
    <2>. HIDE DEF h, w
    <2>3. StoredBmh(h).instanceRef \notin Instances
      BY <2>1, FreshBmh, ConstantsAssumption DEF UpdateBmh
    <2>. QED
      BY <2>1, <2>2, <2>3, HardwareKeepsHolding DEF UpdateBmh
  <1>4. ASSUME \/ \E i \in Instances : AskAgent(i)
               \/ \E h \in Hardware : AgentAnswers(h) \/ TellAgent(h)
               \/ EndCall
        PROVE  LiveInstanceHoldsHardware'
    BY <1>4, NothingStored DEF AskAgent, AgentAnswers, TellAgent, EndCall
  <1>5. ASSUME RecordImagingFailed \/ RecordImaged \/ RecordCleaningFailed
        PROVE  LiveInstanceHoldsHardware'
    <2>. DEFINE i == call.inst
                b == call.bmi
    <2>1. i \in Instances /\ b \in Instance /\ b = StoredBmi(i) /\ UNCHANGED bmhs
      BY <1>5
         DEF RecordImagingFailed, RecordImaged, RecordCleaningFailed, WriteBmi, Answered,
             AssignmentInv, CallIsSound, TypeOK, Call
    <2>2. PICK v : /\ StoreBmi(i, v)
                   /\ \/ \E c \in {"True", "Error"} : v = [b EXCEPT !.imaged = c]
                      \/ v = [b EXCEPT !.cleaned = "Error"]
      BY <1>5 DEF RecordImagingFailed, RecordImaged, RecordCleaningFailed, WriteBmi
    <2>. HIDE DEF i, b
    <2>3. /\ v \in Instance /\ v.hardwareName = b.hardwareName
          /\ Settling(v) => Settling(b)
      BY <2>1, <2>2 DEF Instance, Statuses, Settling
    <2>. QED
      BY <2>1, <2>2, <2>3, InstanceKeepsHolding
  <1>6. CASE ReleaseHardware
    <2>. DEFINE h == call.bmi.hardwareName
                w == [call.bmh EXCEPT !.instanceRef = Nil]
    <2>1. /\ StoreBmh(h, w) /\ UNCHANGED bmis
          /\ call.bmh = StoredBmh(h)
      BY <1>6 DEF ReleaseHardware, ReleaseAs
    <2>2. /\ h \in Hardware /\ call.inst \in Instances
          /\ call.bmh.instanceRef = call.inst /\ Departing(Bmi(call.inst))
      BY <1>6 DEF ReleaseHardware, ReleaseAs, AssignmentInv, CallIsSound
    <2>3. w \in HardwareObject
      BY DEF TypeOK, Call, HardwareObject
    <2>4. Departing(StoredBmi(call.inst))
      BY <2>2, StoredFollowsCached DEF AssignmentInv, Follows
    <2>. HIDE DEF h, w
    <2>. QED
      BY <2>1, <2>2, <2>3, <2>4, HardwareKeepsHolding
  <1>. QED
    BY <1>1, <1>2, <1>3, <1>4, <1>5, <1>6 DEF ProvisionerStep

\* The hardware controller drops references to instances that are gone, and lets
\* go of hardware without a reference.
LEMMA HardwareHolding ==
    ASSUME TypeOK, TypeOK', AssignmentInv, LiveInstanceHoldsHardware, HardwareStep
    PROVE  LiveInstanceHoldsHardware'
  <1>1. ASSUME NEW h \in Hardware,
               SyncNoSchedule(h) \/ SyncNotReady(h) \/ SetConditions(h)
        PROVE  LiveInstanceHoldsHardware'
    <2>1. PICK w : /\ UpdateBmh(h, w)
                   /\ \/ \E e \in Taints : w = [Bmh(h) EXCEPT !.taints = Toggle(@, e)]
                      \/ \E r \in Verdicts : w = [Bmh(h) EXCEPT !.ready = r]
      BY <1>1 DEF SyncNoSchedule, SyncNotReady, SetConditions, Taints
    <2>2. Bmh(h).exists = "live" /\ Bmh(h) \in HardwareObject
      BY <1>1, ReadTypes DEF SyncNoSchedule, SyncNotReady, SetConditions, Settled, Listed
    <2>3. /\ w \in HardwareObject /\ w.exists = "live"
          /\ w.instanceRef = Bmh(h).instanceRef
      BY <2>1, <2>2, ConstantsAssumption DEF HardwareObject, Toggle
    <2>4. Bmh(h) = StoredBmh(h)
      BY <2>1, FreshBmh DEF UpdateBmh
    <2>. QED
      BY <2>1, <2>3, <2>4, HardwareKeepsHolding DEF UpdateBmh
  <1>2. ASSUME NEW h \in Hardware, DropInstanceRef(h)
        PROVE  LiveInstanceHoldsHardware'
    <2>. DEFINE w == [Bmh(h) EXCEPT !.instanceRef = Nil]
    <2>1. UpdateBmh(h, w) /\ w \in HardwareObject
      BY <1>2, ReadTypes DEF DropInstanceRef, HardwareObject
    <2>2. /\ StoredBmh(h).instanceRef \in Instances
          /\ Departing(StoredBmi(StoredBmh(h).instanceRef))
      BY <1>2, DroppedIsGone DEF Departing
    <2>. HIDE DEF w
    <2>. QED
      BY <2>1, <2>2, HardwareKeepsHolding DEF UpdateBmh
  <1>3. ASSUME NEW h \in Hardware, RemoveHardwareFinalizer(h)
        PROVE  LiveInstanceHoldsHardware'
    <2>1. Bmh(h).instanceRef = Nil /\ UpdateBmh(h, RemovedHardware)
      BY <1>3 DEF RemoveHardwareFinalizer
    <2>2. RemovedHardware \in HardwareObject
      BY InitialTypes DEF RemovedHardware, NewHardware
    <2>3. StoredBmh(h).instanceRef \notin Instances
      BY <2>1, FreshBmh, ConstantsAssumption DEF UpdateBmh
    <2>. QED
      BY <2>1, <2>2, <2>3, HardwareKeepsHolding DEF UpdateBmh
  <1>4. ASSUME NEW h \in Hardware, DeleteItsInstance(h)
        PROVE  LiveInstanceHoldsHardware'
    BY <1>4, UserHolding DEF DeleteItsInstance, UserStep
  <1>. QED
    BY <1>1, <1>2, <1>3, <1>4 DEF HardwareStep

\* An agent's report changes the address it is reached at only.
LEMMA MachineHolding ==
    ASSUME TypeOK, TypeOK', LiveInstanceHoldsHardware, MachineStep
    PROVE  LiveInstanceHoldsHardware'
  <1>1. ASSUME NEW h \in Hardware,
               \/ Boot(h)
               \/ ImageBegins(h)
               \/ ImageSucceeds(h)
               \/ CleanSucceeds(h)
               \/ ActionFails(h)
        PROVE  LiveInstanceHoldsHardware'
    BY <1>1, NothingStored
       DEF Boot, ImageBegins, ImageSucceeds, CleanSucceeds, ActionFails
  <1>2. ASSUME NEW h \in Hardware, AgentReady(h)
        PROVE  LiveInstanceHoldsHardware'
    <2>. DEFINE i == Bmh(h).instanceRef
                v == [Bmi(i) EXCEPT !.agentInfo = machine[h].ip]
    <2>1. /\ i \in Instances /\ Bmi(i) = StoredBmi(i) /\ StoreBmi(i, v)
          /\ UNCHANGED bmhs
      BY <1>2, FreshBmi DEF AgentReady, ItsInstance, RefFound
    <2>2. Bmi(i) \in Instance /\ machine[h].ip \in Addresses \cup {Nil}
      BY <2>1, ReadTypes DEF TypeOK, Machine
    <2>3. /\ v \in Instance /\ v.hardwareName = Bmi(i).hardwareName
          /\ Settling(v) => Settling(Bmi(i))
      BY <2>2 DEF Instance, Settling
    <2>. HIDE DEF i, v
    <2>. QED
      BY <2>1, <2>3, InstanceKeepsHolding
  <1>. QED
    BY <1>1, <1>2 DEF MachineStep

\* The watches and a restart store nothing.
LEMMA WatchHolding ==
    ASSUME TypeOK, LiveInstanceHoldsHardware, WatchBmis \/ WatchBmhs \/ RestartManager
    PROVE  LiveInstanceHoldsHardware'
  <1>1. UNCHANGED <<Stored(bmis), Stored(bmhs)>>
    BY DeliverVersions, RelistedVersions
       DEF TypeOK, WatchBmis, WatchBmhs, RestartManager
  <1>. QED
    BY <1>1, NothingStored

\* An instance that got past claiming its hardware holds it until it is deleted,
\* whatever the hardware controller, the other instances and the users do meanwhile
\* (provisioner.go:303-323, baremetalhardware_controller.go:94-139, 244-272), and
\* whichever agents the provisioner reaches.
THEOREM LiveInstancesHoldHardware == Spec => []LiveInstanceHoldsHardware
  <1>1. Init => LiveInstanceHoldsHardware
    <2>. SUFFICES ASSUME Init PROVE LiveInstanceHoldsHardware
      OBVIOUS
    <2>1. \A i \in Instances : StoredBmi(i) = Unborn
      BY DEF Init, StoredBmi, Stored
    <2>2. Unborn.exists = "unborn"
      BY DEF Unborn
    <2>. QED
      BY <2>1, <2>2 DEF LiveInstanceHoldsHardware
  <1>2. TypeOK /\ TypeOK' /\ AssignmentInv /\ LiveInstanceHoldsHardware /\ [Next]_vars
          => LiveInstanceHoldsHardware'
    BY UserHolding, InstanceHolding, ProvisionerHolding, HardwareHolding,
       MachineHolding, WatchHolding, NothingStored DEF Next, vars
  <1>. QED
    BY <1>1, <1>2, TypesHold, AssignmentsHold, PTL DEF Spec

\* No two instances that are not being deleted are past claiming one hardware, and
\* no two hardware name one instance that is not over.
AssignmentsApart ==
    /\ \A i, j \in Instances :
         (/\ Settling(StoredBmi(i)) /\ Settling(StoredBmi(j))
          /\ StoredBmi(i).hardwareName = StoredBmi(j).hardwareName) => i = j
    /\ \A g, h \in Hardware :
         LET i == StoredBmh(g).instanceRef IN
         (/\ i # Nil /\ ~Over(StoredBmi(i))
          /\ StoredBmh(h).instanceRef = i) => g = h

\* The scheduler may put two instances on one hardware (scheduler.go:152-239), but
\* no two are ever installed on it: the claim lets one through, and it stays alone
\* on that hardware and on no other until it is over (provisioner.go:303-323).
THEOREM DoubleBookingIsHarmless == Spec => []AssignmentsApart
  <1>1. TypeOK /\ AssignmentInv /\ LiveInstanceHoldsHardware => AssignmentsApart
    <2>. SUFFICES ASSUME TypeOK, AssignmentInv, LiveInstanceHoldsHardware
                  PROVE  AssignmentsApart
      OBVIOUS
    <2>1. \A i, j \in Instances :
            (/\ Settling(StoredBmi(i)) /\ Settling(StoredBmi(j))
             /\ StoredBmi(i).hardwareName = StoredBmi(j).hardwareName) => i = j
      BY HoldingIs DEF HeldBy
    <2>2. \A h \in Hardware :
            LET i == StoredBmh(h).instanceRef IN
            (i # Nil /\ ~Over(StoredBmi(i))) => StoredBmi(i).hardwareName = h
      BY Versions DEF AssignmentInv, References, On
    <2>. QED
      BY <2>1, <2>2 DEF AssignmentsApart
  <1>. QED
    BY <1>1, TypesHold, AssignmentsHold, LiveInstancesHoldHardware, PTL
=============================================================================
