----------------------- MODULE HardwareHandoverProofs -----------------------
(***************************************************************************)
(* AssignmentInv is inductive, and so is DisksInv as long as the           *)
(* provisioner reaches the agents it means: no interleaving of users,      *)
(* controllers with caches any number of changes behind, agents and        *)
(* restarts puts two instances on one disk.                                *)
(***************************************************************************)
EXTENDS HardwareHandover, InstanceLifecycleProofs

\* What is to be proved of every kind of step.
DisksKept == DisksInv /\ RightAgent => DisksInv'
HandoverKept == AssignmentInv' /\ DisksKept

-----------------------------------------------------------------------------
(***************************************************************************)
(* Versions of instances.                                                  *)
(***************************************************************************)
\* An instance may stay as it is.
LEMMA FollowsSame == \A b \in Instance : Follows(b, b)
  BY DEF Follows, On

\* What is over or on h stays over or on h.
LEMMA FollowsOn ==
    ASSUME NEW b \in Instance, NEW v \in Instance, Follows(v, b),
           NEW h \in Hardware, Over(b) \/ On(b, h)
    PROVE  Over(v) \/ On(v, h)
  BY DEF Follows, On

\* What may follow a later version may follow an earlier one.
LEMMA FollowsTransitive ==
    ASSUME NEW a \in Instance, NEW b \in Instance, NEW c \in Instance,
           Follows(b, a), Follows(c, b)
    PROVE  Follows(c, a)
  BY DEF Follows, On

\* The first and the last version of each stream, and their types.
LEMMA Versions ==
    ASSUME TypeOK
    PROVE  /\ Len(bmis) \in Nat \ {0} /\ Len(bmhs) \in Nat \ {0}
           /\ \A i : Bmi(i) = bmis[1][i] /\ StoredBmi(i) = bmis[Len(bmis)][i]
           /\ \A h : Bmh(h) = bmhs[1][h] /\ StoredBmh(h) = bmhs[Len(bmhs)][h]
           /\ \A l \in 1..Len(bmis) : bmis[l] \in [Instances -> Instance]
           /\ \A l \in 1..Len(bmhs) : bmhs[l] \in [Hardware -> HardwareObject]
  <1>1. Len(bmis) \in Nat \ {0} /\ Len(bmhs) \in Nat \ {0}
    BY StreamVersions DEF TypeOK
  <1>2. /\ \A l \in 1..Len(bmis) : bmis[l] \in [Instances -> Instance]
        /\ \A l \in 1..Len(bmhs) : bmhs[l] \in [Hardware -> HardwareObject]
    BY ElementOfSeq DEF TypeOK
  <1>. QED
    BY <1>1, <1>2 DEF Bmi, Bmh, StoredBmi, StoredBmh, Cached, Stored

\* What the stored instance may be after the cached one.
LEMMA StoredFollowsCached ==
    ASSUME TypeOK, Aging, NEW i \in Instances
    PROVE  Follows(StoredBmi(i), Bmi(i))
  BY Versions DEF Aging

\* The streams after one of their objects is stored.
LEMMA StoredBmiVersions ==
    ASSUME TypeOK, NEW i \in Instances, NEW v \in Instance, StoreBmi(i, v)
    PROVE  /\ \A j : Bmi(j)' = Bmi(j)
           /\ \A j \in Instances : StoredBmi(j)' = IF j = i THEN v ELSE StoredBmi(j)
           /\ Len(bmis') >= Len(bmis)
           /\ \A l \in 1..Len(bmis') :
                \/ l \in 1..Len(bmis) /\ bmis'[l] = bmis[l]
                \/ l = Len(bmis') /\ \A j : bmis'[l][j] = StoredBmi(j)'
  <1>. DEFINE V == [Instances -> Instance]
  <1>1. bmis \in Seq(V) /\ bmis # <<>> /\ bmis' = Put(bmis, i, v)
    BY DEF TypeOK, StoreBmi
  <1>2. /\ Changed(bmis, i, v) \in V
        /\ DOMAIN Stored(bmis) = Instances
    BY <1>1, StreamVersions DEF Changed
  <1>. HIDE DEF V
  <1>3. /\ Cached(bmis') = Cached(bmis)
        /\ Len(bmis') >= Len(bmis)
        /\ \A k \in 1..Len(bmis') :
             \/ k \in 1..Len(bmis) /\ bmis'[k] = bmis[k]
             \/ k = Len(bmis') /\ bmis'[k] = Stored(bmis')
    BY <1>1, <1>2, PutVersions
  <1>4. \A p \in Instances : Stored(bmis')[p] = IF p = i THEN v ELSE Stored(bmis)[p]
    BY <1>1, <1>2, PutStored
  <1>. QED
    BY <1>3, <1>4 DEF Bmi, StoredBmi

\* The same of the stream of hardware.
LEMMA StoredBmhVersions ==
    ASSUME TypeOK, NEW h \in Hardware, NEW w \in HardwareObject, StoreBmh(h, w)
    PROVE  /\ \A g \in Hardware : StoredBmh(g)' = IF g = h THEN w ELSE StoredBmh(g)
           /\ Len(bmhs') >= Len(bmhs)
           /\ \A k \in 1..Len(bmhs') :
                \/ k \in 1..Len(bmhs) /\ bmhs'[k] = bmhs[k]
                \/ k = Len(bmhs') /\ \A g : bmhs'[k][g] = StoredBmh(g)'
  <1>. DEFINE V == [Hardware -> HardwareObject]
  <1>1. bmhs \in Seq(V) /\ bmhs # <<>> /\ bmhs' = Put(bmhs, h, w)
    BY DEF TypeOK, StoreBmh
  <1>2. /\ Changed(bmhs, h, w) \in V
        /\ DOMAIN Stored(bmhs) = Hardware
    BY <1>1, StreamVersions DEF Changed
  <1>. HIDE DEF V
  <1>3. /\ Cached(bmhs') = Cached(bmhs)
        /\ Len(bmhs') >= Len(bmhs)
        /\ \A k \in 1..Len(bmhs') :
             \/ k \in 1..Len(bmhs) /\ bmhs'[k] = bmhs[k]
             \/ k = Len(bmhs') /\ bmhs'[k] = Stored(bmhs')
    BY <1>1, <1>2, PutVersions
  <1>4. \A p \in Hardware : Stored(bmhs')[p] = IF p = h THEN w ELSE Stored(bmhs)[p]
    BY <1>1, <1>2, PutStored
  <1>. QED
    BY <1>3, <1>4 DEF StoredBmh

-----------------------------------------------------------------------------
(***************************************************************************)
(* Writes of instances.                                                    *)
(***************************************************************************)
\* What instance i may be stored as without harm to the other parts of the
\* invariant.
Allowed(i, v) ==
    /\ v \in Instance
    /\ v.exists # "unborn"
    /\ Follows(v, StoredBmi(i))
    /\ (v.agentInfo # Nil /\ ~Over(v)) =>
         v.hardwareName \in Hardware /\ v.agentInfo \in Lease[v.hardwareName]
    /\ Departing(Bmi(i)) \/ (~Over(v) /\ v.cleaned = "None")

\* Machines that host instance i go on hosting it.
KeepsHost(i, v) == \A h \in Hardware : Hosts(h, i) => On(v, h) /\ v.cleaned # "True"

\* A write that is allowed keeps what is said of the instances and references.
LEMMA InstancesKept ==
    ASSUME TypeOK, AssignmentInv, NEW i \in Instances, NEW v,
           Allowed(i, v), StoreBmi(i, v), UNCHANGED bmhs
    PROVE  Aging' /\ AgentAddresses' /\ Untouched' /\ References' /\ Handover'
  <1>. v \in Instance
    BY DEF Allowed
  <1>1. /\ \A j : Bmi(j)' = Bmi(j)
        /\ \A j \in Instances : StoredBmi(j)' = IF j = i THEN v ELSE StoredBmi(j)
        /\ Len(bmis') >= Len(bmis)
        /\ \A l \in 1..Len(bmis') :
             \/ l \in 1..Len(bmis) /\ bmis'[l] = bmis[l]
             \/ l = Len(bmis') /\ \A j : bmis'[l][j] = StoredBmi(j)'
    BY StoredBmiVersions
  <1>2. Len(bmis) \in Nat \ {0} /\ \A j : StoredBmi(j) = bmis[Len(bmis)][j]
    BY Versions
  <1>3. \A j \in Instances : \A l \in 1..Len(bmis) : bmis[l][j] \in Instance
    BY Versions
  <1>4. Aging'
    <2>. SUFFICES ASSUME NEW j \in Instances, NEW l \in 1..Len(bmis')
                  PROVE  /\ \A k \in 1..l : Follows(bmis'[l][j], bmis'[k][j])
                         /\ bmis'[l][j].exists = "unborn" => bmis'[l][j] = Unborn
      BY DEF Aging
    <2>1. CASE l \in 1..Len(bmis) /\ bmis'[l] = bmis[l]
      <3>1. \A k \in 1..l : k \in 1..Len(bmis) /\ k \in 1..Len(bmis') /\ l <= Len(bmis)
        BY <1>1, <1>2, <2>1
      <3>2. \A k \in 1..l : bmis'[k][j] = bmis[k][j]
        <4>. SUFFICES ASSUME NEW k \in 1..l PROVE bmis'[k][j] = bmis[k][j]
          OBVIOUS
        <4>1. CASE bmis'[k] = bmis[k]
          BY <4>1
        <4>2. CASE k = Len(bmis')
          BY <4>2, <2>1, <3>1, <1>1, <1>2
        <4>. QED
          BY <4>1, <4>2, <3>1, <1>1
      <3>. QED
        BY <2>1, <3>2 DEF AssignmentInv, Aging
    <2>2. CASE l = Len(bmis') /\ \A p : bmis'[l][p] = StoredBmi(p)'
      <3>1. StoredBmi(j) \in Instance /\ bmis'[l][j] = IF j = i THEN v ELSE StoredBmi(j)
        BY <1>1, <1>2, <1>3, <2>2
      <3>2. Follows(bmis'[l][j], StoredBmi(j)) /\ bmis'[l][j] \in Instance
        BY <3>1, FollowsSame DEF Allowed
      <3>3. \A k \in 1..Len(bmis) : Follows(bmis'[l][j], bmis[k][j])
        <4>. SUFFICES ASSUME NEW k \in 1..Len(bmis) PROVE Follows(bmis'[l][j], bmis[k][j])
          OBVIOUS
        <4>1. Follows(StoredBmi(j), bmis[k][j])
          BY <1>2 DEF AssignmentInv, Aging
        <4>. QED
          BY <4>1, <3>1, <3>2, <1>3, FollowsTransitive
      <3>4. \A k \in 1..l : Follows(bmis'[l][j], bmis'[k][j])
        BY <1>1, <2>2, <3>2, <3>3, FollowsSame
      <3>5. bmis'[l][j].exists = "unborn" => bmis'[l][j] = Unborn
        BY <3>1, <1>2 DEF Allowed, AssignmentInv, Aging
      <3>. QED
        BY <3>4, <3>5
    <2>. QED
      BY <2>1, <2>2, <1>1
  <1>5. AgentAddresses'
    BY <1>1, <1>2 DEF AgentAddresses, AssignmentInv, Allowed
  <1>6. Untouched'
    BY <1>1 DEF Untouched, AssignmentInv, Allowed
  <1>7. References'
    <2>. SUFFICES ASSUME NEW h \in Hardware, NEW k \in 1..Len(bmhs),
                         NEW j, j = bmhs[k][h].instanceRef, j # Nil
                  PROVE  /\ bmhs[k][h].exists = "live"
                         /\ Bmi(j).exists # "unborn"
                         /\ Over(StoredBmi(j)') \/ On(StoredBmi(j)', h)
      BY <1>1 DEF References
    <2>1. j \in Instances
      BY Versions DEF HardwareObject
    <2>2. /\ bmhs[k][h].exists = "live"
          /\ Bmi(j).exists # "unborn"
          /\ Over(StoredBmi(j)) \/ On(StoredBmi(j), h)
      BY DEF AssignmentInv, References
    <2>3. StoredBmi(i) \in Instance /\ (j = i => Over(v) \/ On(v, h))
      BY <2>2, <1>2, <1>3, FollowsOn DEF Allowed
    <2>. QED
      BY <2>1, <2>2, <2>3, <1>1
  <1>8. Handover'
    BY <1>1 DEF Handover, AssignmentInv
  <1>. QED
    BY <1>4, <1>5, <1>6, <1>7, <1>8

\* It takes no machine from the instance it hosts.
LEMMA HostsKept ==
    ASSUME TypeOK, NEW i \in Instances, NEW v \in Instance, KeepsHost(i, v),
           StoreBmi(i, v), UNCHANGED bmhs
    PROVE  \A h \in Hardware, j \in Instances : Hosts(h, j) => Hosts(h, j)'
  BY StoredBmiVersions DEF Hosts, KeepsHost

\* A step that leaves the disks and what the agents do alone, and does not take a
\* machine from its instance, keeps what is said of the machines.
LEMMA MachinesKept ==
    ASSUME TypeOK, disk' = disk,
           \A h \in Hardware : /\ machine'[h].action = machine[h].action
                              /\ machine'[h].runs = machine[h].runs
                              /\ machine'[h].ip = machine[h].ip,
           \A h \in Hardware, j \in Instances : Hosts(h, j) => Hosts(h, j)'
    PROVE  (Listening => Listening') /\ (Machines => Machines')
  <1>1. \A h \in Hardware : disk[h].data \in Instances \cup {Nil}
    BY DEF TypeOK, Disk
  <1>2. \A h \in Hardware : Working(h, "image")' = Working(h, "image")
    BY DEF Working
  <1>. QED
    BY <1>1, <1>2 DEF Machines, Listening

\* The call stays sound when it, the hosts and the caches it relies on are kept.
LEMMA CallKept ==
    ASSUME CallIsSound, call' = call,
           \A h \in Hardware, j \in Instances : Hosts(h, j) => Hosts(h, j)',
           \A j \in Instances : Departing(Bmi(j)) => Departing(Bmi(j)'),
           (call.stage # "none" /\ ~call.bmi.deleting)
             => StoredBmi(call.inst)'.cleaned = "None"
    PROVE  CallIsSound'
  BY DEF CallIsSound

\* Its answer stays good when clean machines are left so.
LEMMA AnswerKept ==
    ASSUME CallIsSound, call' = call,
           \A h \in Hardware : (disk[h].data = Nil /\ ~Working(h, "image"))
                               => disk'[h].data = Nil /\ ~Working(h, "image")'
    PROVE  AnswerIsGood => AnswerIsGood'
  BY DEF CallIsSound, AnswerIsGood, Answered

\* The agents' work and the disks are as they were.
LEMMA WorkKept ==
    ASSUME UNCHANGED <<machine, disk>>
    PROVE  \A h \in Hardware : (disk[h].data = Nil /\ ~Working(h, "image"))
                               => disk'[h].data = Nil /\ ~Working(h, "image")'
  BY DEF Working

\* An ended call claims nothing.
LEMMA NoCallIsSound == call' = NoCall => CallIsSound' /\ AnswerIsGood'
  BY DEF CallIsSound, AnswerIsGood, Answered, NoCall

\* An allowed write to an instance that takes no machine from it.
LEMMA InstanceWritten ==
    ASSUME TypeOK, AssignmentInv, NEW i \in Instances, NEW v,
           Allowed(i, v), KeepsHost(i, v), StoreBmi(i, v),
           UNCHANGED <<bmhs, machine, disk>>,
           \/ call' = NoCall
           \/ /\ call' = call
              /\ call.stage = "none" \/ (StoredBmi(i).cleaned = "None" => v.cleaned = "None")
    PROVE  HandoverKept
  <1>. v \in Instance
    BY DEF Allowed
  <1>1. \A h \in Hardware, j \in Instances : Hosts(h, j) => Hosts(h, j)'
    BY HostsKept
  <1>2. /\ \A j : Bmi(j)' = Bmi(j)
        /\ \A j \in Instances : StoredBmi(j)' = IF j = i THEN v ELSE StoredBmi(j)
    BY StoredBmiVersions
  <1>3. Listening' /\ (Machines => Machines')
    BY <1>1, MachinesKept DEF AssignmentInv
  <1>4. CallIsSound' /\ (AnswerIsGood => AnswerIsGood')
    <2>1. CASE call' = NoCall
      BY <2>1, NoCallIsSound
    <2>2. CASE /\ call' = call
               /\ call.stage = "none" \/ (StoredBmi(i).cleaned = "None" => v.cleaned = "None")
      <3>1. (call.stage # "none" /\ ~call.bmi.deleting)
              => StoredBmi(call.inst)'.cleaned = "None"
        BY <2>2, <1>2 DEF AssignmentInv, CallIsSound
      <3>. QED
        BY <2>2, <3>1, <1>1, <1>2, CallKept, AnswerKept, WorkKept DEF AssignmentInv
    <2>. QED
      BY <2>1, <2>2
  <1>. QED
    BY <1>3, <1>4, InstancesKept DEF AssignmentInv, HandoverKept, DisksKept, DisksInv

-----------------------------------------------------------------------------
(***************************************************************************)
(* Writes of hardware.                                                     *)
(***************************************************************************)
\* The reference w carries and the references it takes back.
RefAllowed(h, w) ==
    /\ w \in HardwareObject
    /\ w.instanceRef # Nil =>
         /\ w.exists = "live"
         /\ Bmi(w.instanceRef).exists # "unborn"
         /\ Over(StoredBmi(w.instanceRef)) \/ On(StoredBmi(w.instanceRef), h)
    /\ \A k \in 1..Len(bmhs) :
         LET j == bmhs[k][h].instanceRef IN
         (j # Nil /\ w.instanceRef # j) => Departing(Bmi(j))

\* An allowed write to a hardware that keeps its host, or has nothing to keep.
LEMMA HardwareWritten ==
    ASSUME TypeOK, AssignmentInv, NEW h \in Hardware, NEW w,
           RefAllowed(h, w), StoreBmh(h, w), UNCHANGED <<bmis, machine, disk>>,
           call' \in {call, NoCall},
           \/ \A j \in Instances : Hosts(h, j) => w.instanceRef = j
           \/ /\ DisksInv => disk[h].data = Nil /\ ~Working(h, "image")
              /\ call' = NoCall
    PROVE  HandoverKept
  <1>. w \in HardwareObject
    BY DEF RefAllowed
  <1>1. /\ \A g \in Hardware : StoredBmh(g)' = IF g = h THEN w ELSE StoredBmh(g)
        /\ Len(bmhs') >= Len(bmhs)
        /\ \A k \in 1..Len(bmhs') :
             \/ k \in 1..Len(bmhs) /\ bmhs'[k] = bmhs[k]
             \/ k = Len(bmhs') /\ \A g : bmhs'[k][g] = StoredBmh(g)'
    BY StoredBmhVersions
  <1>2. /\ Len(bmhs) \in Nat \ {0}
        /\ \A g : StoredBmh(g) = bmhs[Len(bmhs)][g]
        /\ \A k \in 1..Len(bmhs) : bmhs[k] \in [Hardware -> HardwareObject]
    BY Versions
  <1>3. (\A j : Bmi(j)' = Bmi(j)) /\ (\A j : StoredBmi(j)' = StoredBmi(j))
    BY DEF Bmi, StoredBmi
  <1>4. Aging' /\ AgentAddresses' /\ Untouched'
    BY <1>3 DEF AssignmentInv, Aging, AgentAddresses, Untouched
  <1>5. References'
    BY <1>1, <1>2, <1>3 DEF AssignmentInv, References, RefAllowed
  <1>6. Handover'
    <2>. SUFFICES ASSUME NEW g \in Hardware, NEW l \in 1..Len(bmhs'), NEW k \in 1..l,
                         NEW j, j = bmhs'[k][g].instanceRef, j # Nil,
                         bmhs'[l][g].instanceRef # j
                  PROVE  Departing(Bmi(j))
      BY <1>3 DEF Handover
    <2>1. k \in 1..Len(bmhs') /\ Len(bmhs') \in Nat
      BY <1>1, <1>2
    <2>2. k # l
      OBVIOUS
    <2>3. k \in 1..Len(bmhs) /\ bmhs'[k] = bmhs[k]
      BY <2>1, <2>2, <1>1, <1>2
    <2>4. CASE l \in 1..Len(bmhs) /\ bmhs'[l] = bmhs[l]
      BY <2>3, <2>4 DEF AssignmentInv, Handover
    <2>5. CASE bmhs'[l][g] = StoredBmh(g)'
      <3>1. CASE g = h
        BY <3>1, <2>3, <2>5, <1>1 DEF RefAllowed
      <3>2. CASE g # h
        <4>1. bmhs'[l][g] = bmhs[Len(bmhs)][g] /\ k \in 1..Len(bmhs) /\ Len(bmhs) \in 1..Len(bmhs)
          BY <3>2, <2>3, <2>5, <1>1, <1>2
        <4>. QED
          BY <4>1, <2>3 DEF AssignmentInv, Handover
      <3>. QED
        BY <3>1, <3>2
    <2>. QED
      BY <2>4, <2>5, <1>1
  <1>7. \A g \in Hardware, j \in Instances :
          Hosts(g, j) /\ (g = h => w.instanceRef = j) => Hosts(g, j)'
    <2>. SUFFICES ASSUME NEW g \in Hardware, NEW j \in Instances, Hosts(g, j),
                         g = h => w.instanceRef = j
                  PROVE  Hosts(g, j)'
      OBVIOUS
    <2>1. StoredBmh(g)'.instanceRef = j
      BY <1>1, <1>2 DEF Hosts
    <2>. QED
      BY <2>1, <1>1, <1>3 DEF Hosts
  <1>8. CASE \A j \in Instances : Hosts(h, j) => w.instanceRef = j
    <2>1. Listening' /\ (Machines => Machines')
      BY <1>7, <1>8, MachinesKept DEF AssignmentInv
    <2>2. CallIsSound' /\ (AnswerIsGood => AnswerIsGood')
      <3>1. CASE call' = call
        <4>1. (call.stage # "none" /\ ~call.bmi.deleting)
                => StoredBmi(call.inst)'.cleaned = "None"
          BY <3>1, <1>3 DEF AssignmentInv, CallIsSound
        <4>. QED
          BY <3>1, <4>1, <1>3, <1>7, <1>8, CallKept, AnswerKept, WorkKept DEF AssignmentInv
      <3>. QED
        BY <3>1, NoCallIsSound
    <2>. QED
      BY <2>1, <2>2, <1>4, <1>5, <1>6 DEF AssignmentInv, HandoverKept, DisksKept, DisksInv
  <1>9. CASE /\ DisksInv => disk[h].data = Nil /\ ~Working(h, "image")
             /\ call' = NoCall
    <2>1. \A g \in Hardware : Working(g, "image")' = Working(g, "image")
      BY DEF Working
    <2>2. \A g \in Hardware : disk[g].data \in Instances \cup {Nil}
      BY DEF TypeOK, Disk
    <2>3. DisksInv => Machines'
      BY <1>7, <1>9, <2>1, <2>2 DEF DisksInv, Machines
    <2>4. Listening'
      BY DEF AssignmentInv, Listening
    <2>. QED
      BY <2>3, <2>4, <1>4, <1>5, <1>6, <1>9, NoCallIsSound
         DEF AssignmentInv, HandoverKept, DisksKept, DisksInv
  <1>. QED
    BY <1>8, <1>9

\* An update that keeps the stored reference.
LEMMA ReferenceKept ==
    ASSUME TypeOK, AssignmentInv, NEW h \in Hardware, NEW w \in HardwareObject,
           StoreBmh(h, w), UNCHANGED <<bmis, call, machine, disk>>,
           w.exists = "live", w.instanceRef = StoredBmh(h).instanceRef
    PROVE  HandoverKept
  <1>1. Len(bmhs) \in Nat \ {0} /\ StoredBmh(h) = bmhs[Len(bmhs)][h]
    BY Versions
  <1>2. RefAllowed(h, w)
    BY <1>1 DEF RefAllowed, AssignmentInv, References, Handover
  <1>3. \A j \in Instances : Hosts(h, j) => w.instanceRef = j
    BY <1>1 DEF Hosts
  <1>. QED
    BY <1>2, <1>3, HardwareWritten

-----------------------------------------------------------------------------
(***************************************************************************)
(* The kinds of writes the controllers make.                               *)
(***************************************************************************)
\* An update that is not refused read the stored object.
LEMMA FreshBmi ==
    ASSUME TypeOK, NEW i, Fresh(bmis, i)
    PROVE  Bmi(i) = StoredBmi(i)
  BY Versions DEF Fresh

\* The same of the hardware.
LEMMA FreshBmh ==
    ASSUME TypeOK, NEW h, Fresh(bmhs, h)
    PROVE  /\ Bmh(h) = StoredBmh(h)
           /\ \A k \in 1..Len(bmhs) : bmhs[k][h] = Bmh(h)
  BY Versions DEF Fresh

\* An instance goes on, where it is.
GoesOn(i, v) ==
    LET b == StoredBmi(i) IN
    /\ v \in Instance
    /\ b.exists = "live" /\ v.exists = "live"
    /\ b.deleting => v.deleting
    /\ Over(v) <=> Over(b)
    /\ v.hardwareName = b.hardwareName
    /\ b.scheduled = "True" => v.scheduled = "True"
    /\ \/ v.agentInfo \in {Nil, b.agentInfo}
       \/ v.hardwareName \in Hardware /\ v.agentInfo \in Lease[v.hardwareName]
    /\ \/ v.cleaned = b.cleaned
       \/ Departing(Bmi(i)) /\ (v.cleaned = "True" => \A h \in Hardware : ~Hosts(h, i))

\* Writes that go on with an instance are allowed.
LEMMA GoingOn ==
    ASSUME TypeOK, AssignmentInv, NEW i \in Instances, NEW v, GoesOn(i, v)
    PROVE  Allowed(i, v) /\ KeepsHost(i, v)
  <1>. DEFINE b == StoredBmi(i)
  <1>1. b = bmis[Len(bmis)][i] /\ Len(bmis) \in 1..Len(bmis)
    BY Versions
  <1>2. Placed(b) => Placed(v)
    BY DEF Placed, GoesOn
  <1>3. Follows(v, b)
    BY <1>2 DEF Follows, GoesOn, On, Departing
  <1>4. (v.agentInfo # Nil /\ ~Over(v)) =>
          v.hardwareName \in Hardware /\ v.agentInfo \in Lease[v.hardwareName]
    <2>1. (b.agentInfo # Nil /\ ~Over(b)) =>
            b.hardwareName \in Hardware /\ b.agentInfo \in Lease[b.hardwareName]
      BY <1>1 DEF AssignmentInv, AgentAddresses
    <2>. QED
      BY <2>1 DEF GoesOn
  <1>5. Departing(Bmi(i)) \/ (~Over(v) /\ v.cleaned = "None")
    BY DEF GoesOn, AssignmentInv, Untouched
  <1>6. Allowed(i, v)
    BY <1>3, <1>4, <1>5 DEF Allowed, GoesOn
  <1>7. KeepsHost(i, v)
    BY <1>2 DEF KeepsHost, GoesOn, Hosts, On
  <1>. QED
    BY <1>6, <1>7

\* An instance that departs ends.
Ends(i, v) ==
    /\ v \in Instance
    /\ v.exists # "unborn"
    /\ StoredBmi(i).exists = "live"
    /\ Over(v) /\ Departing(v)
    /\ Departing(Bmi(i))

\* Writes that end an instance are allowed.
LEMMA Ending ==
    ASSUME NEW i, NEW v, Ends(i, v)
    PROVE  Allowed(i, v)
  BY DEF Ends, Allowed, Follows

\* Reconciles that update the instance they read.
LEMMA InstanceUpdated ==
    ASSUME TypeOK, AssignmentInv, NEW i \in Instances, NEW v, UpdateBmi(i, v),
           call.stage = "none" \/ (StoredBmi(i).cleaned = "None" => v.cleaned = "None"),
           \/ GoesOn(i, v)
           \/ Ends(i, v) /\ \A h \in Hardware : ~Hosts(h, i)
    PROVE  HandoverKept
  <1>1. Allowed(i, v) /\ KeepsHost(i, v)
    BY GoingOn, Ending DEF KeepsHost
  <1>. QED
    BY <1>1, InstanceWritten DEF UpdateBmi

-----------------------------------------------------------------------------
(***************************************************************************)
(* Every kind of step keeps the invariant.                                 *)
(***************************************************************************)
\* Steps of the instance controller and the scheduler.
LEMMA InstanceHandover ==
    ASSUME TypeOK, AssignmentInv, InstanceStep
    PROVE  HandoverKept
  <1>. SUFFICES ASSUME NEW i \in Instances,
                       \/ SetPending(i)
                       \/ RemoveFinalizer(i)
                       \/ TerminateUnscheduled(i)
                       \/ Unschedule(i)
                       \/ InitScheduled(i)
                       \/ StartProvisioning(i)
                       \/ MarkScheduled(i)
                       \/ Schedule(i)
                PROVE  HandoverKept
    BY DEF InstanceStep
  <1>. DEFINE b == Bmi(i)
  <1>1. b \in Instance
    BY ReadTypes
  <1>2. \A v : UpdateBmi(i, v) => StoredBmi(i) = b
    BY FreshBmi DEF UpdateBmi
  <1>. HIDE DEF b
  <1>3. ASSUME NEW v, UpdateBmi(i, v), b.exists = "live", ~Over(b),
               \/ \E p \in {"Pending", "Provisioning"} : v = [b EXCEPT !.phase = p]
               \/ \E p \in {"False", "True"} :
                    v = [b EXCEPT !.scheduled = p] /\ (b.scheduled = "True" => p = "True")
        PROVE  HandoverKept
    <2>1. v \in Instance /\ v.exists = "live" /\ v.cleaned = b.cleaned /\ ~Over(v)
      BY <1>1, <1>3 DEF Instance, Phases, Statuses, Over
    <2>2. GoesOn(i, v)
      BY <1>1, <1>2, <1>3, <2>1 DEF GoesOn, Instance
    <2>. QED
      BY <1>2, <1>3, <2>1, <2>2, InstanceUpdated
  <1>4. CASE \/ SetPending(i)
             \/ InitScheduled(i)
             \/ StartProvisioning(i)
             \/ MarkScheduled(i)
    <2>1. b.exists = "live" /\ ~Over(b)
      BY <1>4 DEF SetPending, InitScheduled, StartProvisioning, MarkScheduled,
                  Pending, Live, Over, b
    <2>. QED
      BY <1>3, <1>4, <2>1
         DEF SetPending, InitScheduled, StartProvisioning, MarkScheduled, b
  <1>5. CASE Schedule(i)
    <2>1. PICK h \in Chosen(i) : UpdateBmi(i, [b EXCEPT !.hardwareName = h])
      BY <1>5 DEF Schedule, b
    <2>. DEFINE v == [b EXCEPT !.hardwareName = h]
    <2>2. /\ b.exists = "live" /\ ~b.deleting /\ ~Over(b)
          /\ b.scheduled = "False" /\ b.hardwareName = Nil
      BY <1>5 DEF Schedule, Pending, Live, Over, b
    <2>3. b.cleaned = "None" /\ b.agentInfo = Nil
      <3>1. b.cleaned = "None"
        BY <1>2, <2>1, <2>2 DEF AssignmentInv, Untouched, Departing, b
      <3>2. Nil \notin Hardware /\ b = bmis[1][i] /\ 1 \in 1..Len(bmis)
        BY Versions, ConstantsAssumption DEF b
      <3>. QED
        BY <2>2, <3>1, <3>2 DEF AssignmentInv, AgentAddresses
    <2>4. v \in Instance
      BY <1>1 DEF Instance, Chosen, Listed
    <2>5. /\ v.exists = "live" /\ ~v.deleting /\ ~Over(v) /\ v.cleaned = "None"
          /\ v.agentInfo = Nil /\ v.scheduled = "False"
      BY <1>1, <2>2, <2>3 DEF Instance, Over
    <2>. HIDE DEF v
    <2>6. Allowed(i, v)
      BY <1>2, <2>1, <2>2, <2>4, <2>5 DEF Allowed, Follows, Departing, Placed, v
    <2>7. KeepsHost(i, v)
      BY <1>2, <2>1, <2>2 DEF KeepsHost, Hosts, On, Placed, v
    <2>. QED
      BY <1>2, <2>1, <2>5, <2>6, <2>7, InstanceWritten DEF UpdateBmi, v
  <1>6. ASSUME NEW v, UpdateBmi(i, v), Deleting(i), v \in Instance, v.exists # "unborn",
               Over(v), Departing(v), b.cleaned = "None" => v.cleaned = "None",
               b.scheduled # "True" \/ Over(b)
        PROVE  HandoverKept
    <2>1. Ends(i, v)
      BY <1>2, <1>6 DEF Ends, Deleting, Departing, b
    <2>2. \A h \in Hardware : ~Hosts(h, i)
      BY <1>2, <1>6 DEF Hosts, On, Placed
    <2>. QED
      BY <1>2, <1>6, <2>1, <2>2, InstanceUpdated
  <1>7. CASE RemoveFinalizer(i)
    <2>1. /\ Gone \in Instance /\ Gone.exists = "gone" /\ Gone.cleaned = "None"
          /\ Over(Gone) /\ Departing(Gone)
      BY InitialTypes DEF Gone, Unborn, Over, Departing
    <2>2. Deleting(i) /\ Over(b) /\ UpdateBmi(i, Gone)
      BY <1>7 DEF RemoveFinalizer, Over, b
    <2>. QED
      BY <1>6, <2>1, <2>2
  <1>8. CASE TerminateUnscheduled(i)
    <2>1. /\ Deleting(i) /\ b.exists = "live" /\ b.deleting /\ b.scheduled # "True"
          /\ UpdateBmi(i, [b EXCEPT !.phase = "Terminated"])
      BY <1>8 DEF TerminateUnscheduled, Deleting, b
    <2>. DEFINE v == [b EXCEPT !.phase = "Terminated"]
    <2>2. /\ v \in Instance /\ v.exists = "live" /\ v.deleting /\ v.cleaned = b.cleaned
          /\ v.phase = "Terminated"
      BY <1>1, <2>1 DEF Instance, Phases
    <2>. HIDE DEF v
    <2>. QED
      BY <1>6, <2>1, <2>2 DEF Over, Departing, v
  <1>9. CASE Unschedule(i)
    <2>1. /\ Deleting(i) /\ b.exists = "live" /\ b.deleting /\ b.phase = "Terminating"
          /\ UpdateBmi(i, [b EXCEPT !.scheduled = "False", !.hardwareName = Nil])
      BY <1>9 DEF Unschedule, Deleting, b
    <2>. DEFINE v == [b EXCEPT !.scheduled = "False", !.hardwareName = Nil]
    <2>2. /\ v \in Instance /\ v.exists = "live" /\ v.deleting /\ v.cleaned = b.cleaned
          /\ v.phase = "Terminating"
      BY <1>1, <2>1 DEF Instance, Statuses
    <2>. HIDE DEF v
    <2>. QED
      BY <1>6, <2>1, <2>2 DEF Over, Departing, v
  <1>. QED
    BY <1>4, <1>5, <1>7, <1>8, <1>9

\* What the cache shows of a machine that hosts an instance.
LEMMA HostIsSeen ==
    ASSUME TypeOK, AssignmentInv, NEW i \in Instances, NEW h \in Hardware, Hosts(h, i),
           Bmi(i) = StoredBmi(i)
    PROVE  /\ Bmh(h).instanceRef = i /\ h \in Listed /\ Bmi(i).hardwareName = h
           /\ Bmi(i).cleaned # "True" /\ ~Over(Bmi(i)) /\ Bmi(i).scheduled = "True"
  <1>1. Bmh(h) = bmhs[1][h] /\ 1 \in 1..Len(bmhs)
    BY Versions
  <1>2. Bmh(h).instanceRef = i
    BY <1>1 DEF Hosts
  <1>3. Bmh(h).exists = "live"
    BY <1>1, <1>2, ConstantsAssumption DEF AssignmentInv, References
  <1>. QED
    BY <1>2, <1>3 DEF Hosts, On, Placed, Listed

\* Steps of the provisioner for a deleted instance, short of its call.
LEMMA ReleasingHandover ==
    ASSUME TypeOK, AssignmentInv, NEW i \in Instances,
           \/ InitCleaned(i)
           \/ TerminateCleaned(i)
           \/ StartCleaning(i)
           \/ TerminateUncleaned(i)
           \/ MarkCleaned(i)
    PROVE  HandoverKept
  <1>. DEFINE b == Bmi(i)
  <1>1. b \in Instance
    BY ReadTypes
  <1>2. \A v : UpdateBmi(i, v) => StoredBmi(i) = b
    BY FreshBmi DEF UpdateBmi
  <1>3. /\ call.stage = "none" /\ Departing(b) /\ b.exists = "live" /\ b.deleting
        /\ b.scheduled = "True" /\ ~Over(b)
    BY DEF InitCleaned, TerminateCleaned, StartCleaning, TerminateUncleaned, MarkCleaned,
           Cleaning, Releasing, Deleting, Departing, Over
  <1>4. \A h \in Hardware : Hosts(h, i) /\ StoredBmi(i) = b =>
          Bmh(h).instanceRef = i /\ h \in Listed /\ b.hardwareName = h /\ b.cleaned # "True"
    BY HostIsSeen
  <1>5. b = Bmi(i)
    OBVIOUS
  <1>. HIDE DEF b
  <1>6. ASSUME NEW v \in Instance, UpdateBmi(i, v), v.exists = "live", v.deleting, ~Over(v),
               v.hardwareName = b.hardwareName, v.agentInfo = b.agentInfo,
               v.scheduled = "True",
               v.cleaned = "True" => \A h \in Hardware : ~Hosts(h, i)
        PROVE  HandoverKept
    <2>1. GoesOn(i, v)
      BY <1>2, <1>3, <1>5, <1>6 DEF GoesOn
    <2>. QED
      BY <1>3, <1>6, <2>1, InstanceUpdated
  <1>7. ASSUME NEW v \in Instance, UpdateBmi(i, v), v.exists = "live", v.deleting,
               v.phase = "Terminating", \A h \in Hardware : ~Hosts(h, i)
        PROVE  HandoverKept
    <2>1. Ends(i, v)
      BY <1>2, <1>3, <1>5, <1>7 DEF Ends, Over, Departing
    <2>. QED
      BY <1>3, <1>7, <2>1, InstanceUpdated
  <1>8. ASSUME NEW v, UpdateBmi(i, v),
               \/ v = [b EXCEPT !.phase = "Cleaning"]
               \/ \E p \in {"False", "True"} :
                    /\ v = [b EXCEPT !.cleaned = p]
                    /\ p = "True" => \A h \in Hardware : ~Hosts(h, i),
               b.cleaned # "True"
        PROVE  HandoverKept
    <2>1. v \in Instance /\ v.exists = "live" /\ v.deleting
      BY <1>1, <1>3, <1>8 DEF Instance, Phases, Statuses
    <2>2. v.phase \in {b.phase, "Cleaning"}
      BY <1>1, <1>8 DEF Instance
    <2>3. ~Over(v)
      BY <1>3, <2>1, <2>2 DEF Over
    <2>4. /\ v.hardwareName = b.hardwareName /\ v.agentInfo = b.agentInfo
          /\ v.scheduled = "True"
          /\ v.cleaned = "True" => \A h \in Hardware : ~Hosts(h, i)
      BY <1>1, <1>3, <1>8 DEF Instance
    <2>. QED
      BY <1>6, <1>8, <2>1, <2>3, <2>4
  <1>9. CASE InitCleaned(i) \/ StartCleaning(i)
    BY <1>5, <1>8, <1>9 DEF InitCleaned, StartCleaning
  <1>10. CASE MarkCleaned(i)
    <2>1. /\ b.cleaned = "False" /\ Bmh(b.hardwareName).instanceRef = Nil
          /\ UpdateBmi(i, [b EXCEPT !.cleaned = "True"])
      BY <1>5, <1>10 DEF MarkCleaned, Cleaning, Its
    <2>2. \A h \in Hardware : ~Hosts(h, i)
      BY <1>2, <1>4, <2>1, ConstantsAssumption
    <2>. QED
      BY <1>8, <2>1, <2>2
  <1>11. CASE TerminateCleaned(i)
    <2>. DEFINE v == [b EXCEPT !.phase = "Terminating", !.agentInfo = Nil]
    <2>1. b.cleaned = "True" /\ UpdateBmi(i, v)
      BY <1>5, <1>11 DEF TerminateCleaned
    <2>2. \A h \in Hardware : ~Hosts(h, i)
      BY <1>2, <1>4, <2>1
    <2>3. v \in Instance /\ v.exists = "live" /\ v.deleting /\ v.phase = "Terminating"
      BY <1>1, <1>3 DEF Instance, Phases
    <2>. QED
      BY <1>7, <2>1, <2>2, <2>3
  <1>12. CASE TerminateUncleaned(i)
    <2>. DEFINE v == [b EXCEPT !.phase = "Terminating"]
    <2>1. /\ b.hardwareName \in Listed => Bmh(b.hardwareName).instanceRef # i
          /\ UpdateBmi(i, v)
      BY <1>5, <1>12 DEF TerminateUncleaned, HasHardware, Its
    <2>2. \A h \in Hardware : ~Hosts(h, i)
      BY <1>2, <1>4, <2>1
    <2>3. v \in Instance /\ v.exists = "live" /\ v.deleting /\ v.phase = "Terminating"
      BY <1>1, <1>3 DEF Instance, Phases
    <2>. QED
      BY <1>7, <2>1, <2>2, <2>3
  <1>. QED
    BY <1>9, <1>10, <1>11, <1>12

\* Steps of the provisioner for a live instance on its hardware.
LEMMA InstallingHandover ==
    ASSUME TypeOK, AssignmentInv, NEW i \in Instances,
           \/ InitNetworked(i)
           \/ MarkNetworked(i)
           \/ InitImaged(i)
           \/ Run(i)
    PROVE  HandoverKept
  <1>. DEFINE b == Bmi(i)
  <1>1. b \in Instance
    BY ReadTypes
  <1>2. \A v : UpdateBmi(i, v) => StoredBmi(i) = b
    BY FreshBmi DEF UpdateBmi
  <1>3. call.stage = "none" /\ b.exists = "live" /\ ~b.deleting /\ ~Over(b)
    BY DEF InitNetworked, MarkNetworked, InitImaged, Run, Installing, Provisioning, Live, Over
  <1>4. b = Bmi(i)
    OBVIOUS
  <1>. HIDE DEF b
  <1>5. ASSUME NEW v, UpdateBmi(i, v),
               \/ v = [b EXCEPT !.networked = "False"]
               \/ v = [b EXCEPT !.networked = "True"]
               \/ v = [b EXCEPT !.imaged = "False"]
               \/ v = [b EXCEPT !.phase = "Running", !.agentInfo = Nil]
        PROVE  HandoverKept
    <2>1. v \in Instance /\ v.exists = "live" /\ ~Over(v)
      <3>1. v \in Instance /\ v.exists = "live"
        BY <1>1, <1>3, <1>5 DEF Instance, Phases, Statuses
      <3>2. v.phase \in {b.phase, "Running"}
        BY <1>1, <1>5 DEF Instance
      <3>. QED
        BY <1>3, <3>1, <3>2 DEF Over
    <2>2. /\ v.hardwareName = b.hardwareName /\ v.agentInfo \in {Nil, b.agentInfo}
          /\ v.scheduled = b.scheduled /\ v.cleaned = b.cleaned
      BY <1>1, <1>5 DEF Instance
    <2>3. GoesOn(i, v)
      BY <1>2, <1>3, <1>5, <2>1, <2>2 DEF GoesOn
    <2>. QED
      BY <1>3, <1>5, <2>3, InstanceUpdated
  <1>. QED
    BY <1>4, <1>5 DEF InitNetworked, MarkNetworked, InitImaged, Run

\* Free hardware is claimed.
LEMMA ClaimHandover ==
    ASSUME TypeOK, AssignmentInv, NEW i \in Instances, Claim(i)
    PROVE  HandoverKept
  <1>. DEFINE h == Bmi(i).hardwareName
              w == [Bmh(h) EXCEPT !.instanceRef = i]
  <1>1. /\ h \in Hardware /\ Bmh(h).exists = "live" /\ Bmh(h).instanceRef = Nil
        /\ call.stage = "none"
    BY DEF Claim, Provisioning, HasHardware, Listed, Its
  <1>2. UpdateBmh(h, w)
    BY DEF Claim, Its
  <1>3. \A k \in 1..Len(bmhs) : bmhs[k][h].instanceRef = Nil
    BY <1>1, <1>2, FreshBmh DEF UpdateBmh
  <1>4. w \in HardwareObject /\ w.instanceRef = i /\ w.exists = "live"
    BY <1>1, ReadTypes DEF HardwareObject
  <1>5. On(Bmi(i), h) /\ Bmi(i).exists = "live"
    BY DEF Claim, Provisioning, Live, On, Placed, Over
  <1>6. Over(StoredBmi(i)) \/ On(StoredBmi(i), h)
    BY <1>1, <1>5, ReadTypes, StoredFollowsCached, FollowsOn DEF AssignmentInv
  <1>. HIDE DEF h, w
  <1>7. RefAllowed(h, w)
    BY <1>3, <1>4, <1>5, <1>6 DEF RefAllowed
  <1>8. \A j \in Instances : ~Hosts(h, j)
    BY <1>3, Versions, ConstantsAssumption DEF Hosts
  <1>. QED
    BY <1>1, <1>2, <1>7, <1>8, HardwareWritten DEF UpdateBmh

\* A step of the machines or the call leaves what is said of the objects.
LEMMA ObjectsUnchanged ==
    ASSUME AssignmentInv, UNCHANGED <<bmis, bmhs>>
    PROVE  /\ Aging' /\ AgentAddresses' /\ Untouched' /\ References' /\ Handover'
           /\ \A i : Bmi(i)' = Bmi(i) /\ StoredBmi(i)' = StoredBmi(i)
           /\ \A h, i : Hosts(h, i)' = Hosts(h, i)
  <1>1. /\ \A i : Bmi(i)' = Bmi(i) /\ StoredBmi(i)' = StoredBmi(i)
        /\ \A h, i : Hosts(h, i)' = Hosts(h, i)
    BY DEF Bmi, StoredBmi, Hosts
  <1>2. Aging' /\ AgentAddresses' /\ Untouched' /\ References' /\ Handover'
    BY <1>1 DEF AssignmentInv, Aging, AgentAddresses, Untouched, References, Handover
  <1>. QED
    BY <1>1, <1>2

\* A step that changes nothing but the call.
LEMMA OnlyCallChanges ==
    ASSUME AssignmentInv, UNCHANGED <<bmis, bmhs, machine, disk>>, CallIsSound',
           DisksInv /\ RightAgent => AnswerIsGood'
    PROVE  HandoverKept
  <1>1. \A h, type : Working(h, type)' = Working(h, type)
    BY DEF Working
  <1>2. Listening' /\ (Machines => Machines')
    BY <1>1, ObjectsUnchanged DEF AssignmentInv, Listening, Machines
  <1>. QED
    BY <1>2, ObjectsUnchanged DEF AssignmentInv, HandoverKept, DisksKept, DisksInv

\* The provisioner asks the agent, with the objects it read.
LEMMA AskHandover ==
    ASSUME TypeOK, AssignmentInv, NEW i \in Instances, AskAgent(i)
    PROVE  HandoverKept
  <1>. PICK b : b = Bmi(i)
    OBVIOUS
  <1>. PICK h : h = b.hardwareName
    OBVIOUS
  <1>1. /\ UNCHANGED <<bmis, bmhs, machine, disk>>
        /\ call' = [stage |-> "asked", inst |-> i, bmi |-> b,
                    bmh |-> IF b.deleting THEN Bmh(h) ELSE NewHardware,
                    answer |-> NoAction]
        /\ b.agentInfo # Nil
    BY DEF AskAgent, Its
  <1>2. /\ b.exists = "live" /\ b.scheduled = "True"
        /\ b.phase \in {"Provisioning", "Cleaning"}
        /\ h \in Hardware /\ Bmh(h).instanceRef = i
    BY DEF AskAgent, Imaging, Installing, Provisioning, Live, Cleaning, Releasing,
           Deleting, HasHardware, Listed, Its
  <1>3. ~Over(b) /\ On(b, h)
    BY <1>2 DEF Over, On, Placed
  <1>4. b.agentInfo \in Lease[h]
    <2>1. b = bmis[1][i] /\ 1 \in 1..Len(bmis)
      BY Versions
    <2>. QED
      BY <1>1, <1>3, <2>1 DEF AssignmentInv, AgentAddresses
  <1>5. ~b.deleting => Hosts(h, i) /\ StoredBmi(i).cleaned = "None"
    <2>. SUFFICES ASSUME ~b.deleting
                  PROVE  Hosts(h, i) /\ StoredBmi(i).cleaned = "None"
      OBVIOUS
    <2>1. ~Departing(b)
      BY <1>2 DEF Departing
    <2>2. ~Over(StoredBmi(i)) /\ StoredBmi(i).cleaned = "None"
      BY <2>1 DEF AssignmentInv, Untouched
    <2>3. On(StoredBmi(i), h)
      BY <1>2, <1>3, <2>2, ReadTypes, StoredFollowsCached, FollowsOn DEF AssignmentInv
    <2>4. \A k \in 1..Len(bmhs) : bmhs[k][h].instanceRef = i
      <3>1. Bmh(h) = bmhs[1][h] /\ \A k \in 1..Len(bmhs) : 1 \in 1..k
        BY Versions
      <3>. QED
        BY <1>2, <2>1, <3>1, ConstantsAssumption DEF AssignmentInv, Handover
    <2>. QED
      BY <2>2, <2>3, <2>4 DEF Hosts
  <1>6. b.deleting => Departing(b)
    BY DEF Departing
  <1>7. CallIsSound' /\ AnswerIsGood'
    <2>1. /\ call'.inst = i /\ call'.bmi = b /\ call'.stage = "asked"
          /\ b.deleting => call'.bmh = Bmh(h)
      BY <1>1
    <2>2. ~Answered("clean", "ok")'
      BY <2>1 DEF Answered
    <2>3. Bmi(call.inst)' = b /\ StoredBmi(call.inst)' = StoredBmi(i)
      BY <1>1, <2>1 DEF Bmi, StoredBmi
    <2>4. call'.bmi.hardwareName = h /\ Hosts(h, call.inst)' = Hosts(h, i)
      BY <1>1, <2>1 DEF Hosts, StoredBmi
    <2>. QED
      BY <1>2, <1>4, <1>5, <1>6, <2>1, <2>2, <2>3, <2>4 DEF CallIsSound, AnswerIsGood
  <1>. QED
    BY <1>1, <1>7, OnlyCallChanges

\* The right agent answers what its own machine does.
LEMMA AnswerHandover ==
    ASSUME TypeOK, AssignmentInv, NEW h \in Hardware, AgentAnswers(h)
    PROVE  HandoverKept
  <1>1. /\ UNCHANGED <<bmis, bmhs, machine, disk>>
        /\ call.stage # "none" /\ Reached(h)
    BY DEF AgentAnswers
  <1>2. /\ call'.inst = call.inst /\ call'.bmi = call.bmi /\ call'.bmh = call.bmh
        /\ call'.answer = machine[h].action
    BY DEF AgentAnswers, TypeOK, Call
  <1>3. /\ Bmi(call.inst)' = Bmi(call.inst) /\ StoredBmi(call.inst)' = StoredBmi(call.inst)
        /\ \A g : Hosts(g, call.inst)' = Hosts(g, call.inst)
    BY <1>1, <1>2 DEF Bmi, StoredBmi, Hosts
  <1>4. DisksInv /\ RightAgent => AnswerIsGood'
    <2>. SUFFICES ASSUME DisksInv, RightAgent, Answered("clean", "ok")'
                  PROVE  LET g == call.bmi.hardwareName IN
                         disk'[g].data = Nil /\ ~Working(g, "image")'
      BY <1>2 DEF AnswerIsGood
    <2>1. h = call.bmi.hardwareName
      BY <1>1 DEF RightAgent
    <2>. QED
      BY <1>1, <1>2, <2>1 DEF Answered, DisksInv, Machines, Working
  <1>5. CallIsSound'
    BY <1>1, <1>2, <1>3 DEF AssignmentInv, CallIsSound
  <1>. QED
    BY <1>1, <1>4, <1>5, OnlyCallChanges

\* The right agent is told to image or to clean for the instance of its machine.
LEMMA TellHandover ==
    ASSUME TypeOK, AssignmentInv, NEW h \in Hardware, TellAgent(h)
    PROVE  HandoverKept
  <1>1. /\ UNCHANGED <<bmis, bmhs, disk>> /\ call' = NoCall
        /\ call.stage # "none" /\ Reached(h)
    BY DEF TellAgent, Answered
  <1>2. PICK a : /\ a.result = "working" /\ a.target = call.inst
                 /\ a.type = "image" => ~call.bmi.deleting
                 /\ machine' = [machine EXCEPT ![h].action = a]
    <2>. WITNESS [type |-> IF call.bmi.deleting THEN "clean" ELSE "image",
                  result |-> "working", target |-> call.inst]
    <2>. QED
      BY DEF TellAgent
  <1>3. \A g \in Hardware :
          /\ machine'[g].runs = machine[g].runs /\ machine'[g].ip = machine[g].ip
          /\ machine'[g].action = IF g = h THEN a ELSE machine[g].action
    BY <1>2 DEF TypeOK, Machine
  <1>4. Listening'
    BY <1>3 DEF AssignmentInv, Listening
  <1>5. DisksInv /\ RightAgent => Machines'
    <2>. SUFFICES ASSUME DisksInv, RightAgent PROVE Machines'
      OBVIOUS
    <2>1. h = call.bmi.hardwareName
      BY <1>1 DEF RightAgent
    <2>2. a.type = "image" => a.target \in Instances /\ Hosts(h, a.target)
      BY <1>1, <1>2, <2>1 DEF AssignmentInv, CallIsSound
    <2>3. \A g \in Hardware :
            Working(g, "image")' => /\ machine'[g].action.target \in Instances
                                    /\ Hosts(g, machine'[g].action.target)
      BY <1>3, <2>2 DEF DisksInv, Machines, Working
    <2>. QED
      BY <1>1, <1>2, <1>3, <2>3, ObjectsUnchanged DEF DisksInv, Machines
  <1>. QED
    BY <1>1, <1>4, <1>5, NoCallIsSound, ObjectsUnchanged
       DEF AssignmentInv, HandoverKept, DisksKept, DisksInv

\* The answer is recorded with the instance read before the call.
LEMMA RecordHandover ==
    ASSUME TypeOK, AssignmentInv,
           RecordImagingFailed \/ RecordImaged \/ RecordCleaningFailed
    PROVE  HandoverKept
  <1>. PICK i : i = call.inst
    OBVIOUS
  <1>. PICK b : b = call.bmi
    OBVIOUS
  <1>1. PICK v : /\ WriteBmi(v)
                 /\ \/ \E p \in {"True", "Error"} : v = [b EXCEPT !.imaged = p]
                    \/ b.deleting /\ v = [b EXCEPT !.cleaned = "Error"]
    BY DEF RecordImagingFailed, RecordImaged, RecordCleaningFailed
  <1>2. /\ b = StoredBmi(i) /\ StoreBmi(i, v) /\ call' = NoCall
        /\ UNCHANGED <<bmhs, machine, disk>>
    BY <1>1 DEF WriteBmi
  <1>3. /\ i \in Instances /\ b \in Instance /\ b.exists = "live"
        /\ b.deleting => Departing(Bmi(i))
    BY DEF TypeOK, Call, AssignmentInv, CallIsSound, Answered, RecordImagingFailed,
           RecordImaged, RecordCleaningFailed
  <1>4. /\ v \in Instance /\ v.exists = "live" /\ v.deleting = b.deleting
        /\ v.phase = b.phase /\ v.hardwareName = b.hardwareName
        /\ v.agentInfo = b.agentInfo /\ v.scheduled = b.scheduled
        /\ v.cleaned = b.cleaned \/ (b.deleting /\ v.cleaned = "Error")
    BY <1>1, <1>3 DEF Instance, Statuses
  <1>5. GoesOn(i, v)
    BY <1>2, <1>3, <1>4 DEF GoesOn, Over
  <1>. QED
    BY <1>2, <1>3, <1>5, GoingOn, InstanceWritten

\* The hardware read before the call is released.
LEMMA ReleaseHandover ==
    ASSUME TypeOK, AssignmentInv, ReleaseHardware
    PROVE  HandoverKept
  <1>. PICK i : i = call.inst
    OBVIOUS
  <1>. PICK h : h = call.bmi.hardwareName
    OBVIOUS
  <1>. PICK w : w = [call.bmh EXCEPT !.instanceRef = Nil]
    OBVIOUS
  <1>1. /\ call.bmh = StoredBmh(h) /\ StoreBmh(h, w) /\ call' = NoCall
        /\ UNCHANGED <<bmis, machine, disk>>
        /\ call.stage # "none" /\ call.bmi.deleting
    BY DEF ReleaseHardware, ReleaseAs, Answered
  <1>2. /\ i \in Instances /\ h \in Hardware /\ StoredBmh(h).instanceRef = i
        /\ Departing(Bmi(i))
        /\ DisksInv => disk[h].data = Nil /\ ~Working(h, "image")
    BY <1>1 DEF ReleaseHardware, AssignmentInv, CallIsSound, DisksInv, AnswerIsGood
  <1>3. w \in HardwareObject /\ w.instanceRef = Nil
    BY DEF TypeOK, Call, HardwareObject
  <1>4. RefAllowed(h, w)
    <2>1. /\ StoredBmh(h) = bmhs[Len(bmhs)][h] /\ Len(bmhs) \in 1..Len(bmhs)
          /\ \A k \in 1..Len(bmhs) : k \in 1..Len(bmhs)
      BY Versions
    <2>2. \A k \in 1..Len(bmhs) :
            (bmhs[k][h].instanceRef # Nil) => Departing(Bmi(bmhs[k][h].instanceRef))
      BY <1>2, <2>1 DEF AssignmentInv, Handover
    <2>. QED
      BY <1>3, <2>2 DEF RefAllowed
  <1>. QED
    BY <1>1, <1>2, <1>4, HardwareWritten

\* Every step of the provisioner.
LEMMA ProvisionerHandover ==
    ASSUME TypeOK, AssignmentInv, ProvisionerStep
    PROVE  HandoverKept
  <1>1. CASE EndCall
    BY <1>1, NoCallIsSound, OnlyCallChanges DEF EndCall
  <1>. QED
    BY <1>1, ReleasingHandover, InstallingHandover, ClaimHandover, AskHandover,
       AnswerHandover, TellHandover, RecordHandover, ReleaseHandover
       DEF ProvisionerStep

\* An instance is deleted, by a user or with its hardware.
LEMMA DeleteHandover ==
    ASSUME TypeOK, AssignmentInv, NEW i \in Instances, DeleteInstance(i)
    PROVE  HandoverKept
  <1>. DEFINE b == StoredBmi(i)
              v == [b EXCEPT !.deleting = TRUE]
  <1>1. /\ StoreBmi(i, v) /\ b.exists = "live" /\ b \in Instance
        /\ UNCHANGED <<bmhs, call, machine, disk>>
    BY ReadTypes DEF DeleteInstance
  <1>2. /\ v \in Instance /\ v.exists = "live" /\ v.deleting /\ v.phase = b.phase
        /\ v.hardwareName = b.hardwareName /\ v.agentInfo = b.agentInfo
        /\ v.scheduled = b.scheduled /\ v.cleaned = b.cleaned
    BY <1>1 DEF Instance
  <1>. HIDE DEF v
  <1>3. GoesOn(i, v)
    BY <1>1, <1>2 DEF GoesOn, Over
  <1>. QED
    BY <1>1, <1>2, <1>3, GoingOn, InstanceWritten

\* A user removes an instance whose cleaning failed.
LEMMA CleanByHandHandover ==
    ASSUME TypeOK, AssignmentInv, NEW i \in Instances, CleanByHandAndForceDelete(i)
    PROVE  HandoverKept
  <1>. DEFINE its == {h \in Hardware : StoredBmh(h).instanceRef = i}
  <1>1. /\ StoredBmi(i).exists = "live" /\ StoredBmi(i).cleaned = "Error"
        /\ StoreBmi(i, Gone) /\ UNCHANGED <<bmhs, call>>
        /\ machine' = [h \in Hardware |-> IF h \in its THEN Off ELSE machine[h]]
        /\ disk' = [h \in Hardware |-> IF h \in its THEN Blank ELSE disk[h]]
    BY DEF CleanByHandAndForceDelete
  <1>2. /\ Gone \in Instance /\ Gone.exists = "gone"
        /\ Over(Gone) /\ Departing(Gone)
    BY InitialTypes DEF Gone, Unborn, Over, Departing
  <1>3. Departing(Bmi(i))
    BY <1>1 DEF AssignmentInv, Untouched
  <1>4. Allowed(i, Gone)
    BY <1>1, <1>2, <1>3, Ending DEF Ends
  <1>5. /\ \A j : Bmi(j)' = Bmi(j)
        /\ \A j \in Instances : StoredBmi(j)' = IF j = i THEN Gone ELSE StoredBmi(j)
    BY <1>1, <1>2, StoredBmiVersions
  <1>6. \A h \in Hardware : Hosts(h, i) => h \in its
    BY Versions DEF Hosts
  <1>7. \A h \in Hardware, j \in Instances : Hosts(h, j) /\ j # i => Hosts(h, j)'
    BY <1>1, <1>5 DEF Hosts
  <1>8. \A h \in Hardware :
          /\ h \in its => /\ disk'[h].data = Nil /\ machine'[h].runs = "off"
                         /\ machine'[h].action.type = "none"
          /\ h \notin its => disk'[h] = disk[h] /\ machine'[h] = machine[h]
    BY <1>1 DEF Off, Blank, NoAction
  <1>. HIDE DEF its
  <1>9. \A h \in Hardware :
          Working(h, "image")' => h \notin its /\ Working(h, "image")
    BY <1>8 DEF Working
  <1>10. \A h \in Hardware : disk[h].data \in Instances \cup {Nil}
    BY DEF TypeOK, Disk
  <1>11. DisksInv => Machines'
    <2>. SUFFICES ASSUME DisksInv PROVE Machines'
      OBVIOUS
    <2>1. \A h \in Hardware :
            (h \notin its /\ disk[h].data # Nil) =>
                /\ disk[h].data \in Instances \ {i}
                /\ Hosts(h, disk[h].data)
      BY <1>6, <1>10 DEF DisksInv, Machines
    <2>2. \A h \in Hardware :
            (h \notin its /\ Working(h, "image")) =>
                /\ machine[h].action.target \in Instances
                /\ Hosts(h, machine[h].action.target)
                /\ machine[h].action.target # i
      BY <1>6 DEF DisksInv, Machines
    <2>. QED
      BY <2>1, <2>2, <1>7, <1>8, <1>9 DEF DisksInv, Machines
  <1>12. Listening'
    BY <1>8 DEF AssignmentInv, Listening
  <1>13. CallIsSound' /\ (AnswerIsGood => AnswerIsGood')
    <2>1. (call.stage # "none" /\ ~call.bmi.deleting) => call.inst # i
      BY <1>1 DEF AssignmentInv, CallIsSound
    <2>2. (call.stage # "none" /\ ~call.bmi.deleting)
            => StoredBmi(call.inst)'.cleaned = "None"
      BY <1>1, <1>5, <2>1 DEF AssignmentInv, CallIsSound
    <2>3. \A h \in Hardware : (disk[h].data = Nil /\ ~Working(h, "image"))
                               => disk'[h].data = Nil /\ ~Working(h, "image")'
      BY <1>8, <1>9
    <2>4. CallIsSound'
      BY <1>1, <1>5, <1>7, <2>1, <2>2 DEF AssignmentInv, CallIsSound
    <2>. QED
      BY <1>1, <2>3, <2>4, AnswerKept DEF AssignmentInv
  <1>. QED
    BY <1>1, <1>4, <1>11, <1>12, <1>13, InstancesKept
       DEF AssignmentInv, HandoverKept, DisksKept, DisksInv

\* Every step of the users.
LEMMA UserHandover ==
    ASSUME TypeOK, AssignmentInv, UserStep
    PROVE  HandoverKept
  <1>1. ASSUME NEW i \in Instances, CreateInstance(i)
        PROVE  HandoverKept
    <2>1. /\ StoredBmi(i).exists = "unborn" /\ StoreBmi(i, Created)
          /\ UNCHANGED <<bmhs, call, machine, disk>>
      BY <1>1 DEF CreateInstance
    <2>2. StoredBmi(i) = Unborn
      BY <2>1, Versions DEF AssignmentInv, Aging
    <2>3. /\ Created \in Instance /\ Created.exists = "live" /\ Created.phase = ""
          /\ Created.agentInfo = Nil /\ Created.cleaned = "None"
      BY InitialTypes DEF Created, Unborn
    <2>4. /\ Unborn.exists = "unborn" /\ Unborn.phase = "" /\ ~Unborn.deleting
      BY DEF Unborn
    <2>5. Allowed(i, Created)
      BY <2>2, <2>3, <2>4 DEF Allowed, Follows, Departing, Over, Placed
    <2>6. KeepsHost(i, Created)
      BY <2>1 DEF KeepsHost, Hosts, On, Placed
    <2>. QED
      BY <2>1, <2>3, <2>5, <2>6, InstanceWritten
  <1>2. ASSUME NEW h \in Hardware, EditHardware(h)
        PROVE  HandoverKept
    <2>1. PICK w : /\ StoreBmh(h, w)
                   /\ \/ w = [StoredBmh(h) EXCEPT !.canProvision = ~@]
                      \/ w = [StoredBmh(h) EXCEPT !.deleting = TRUE]
      BY <1>2 DEF EditHardware
    <2>2. /\ StoredBmh(h).exists = "live" /\ StoredBmh(h) \in HardwareObject
          /\ UNCHANGED <<bmis, call, machine, disk>>
      BY <1>2, ReadTypes DEF EditHardware
    <2>3. /\ w \in HardwareObject /\ w.exists = "live"
          /\ w.instanceRef = StoredBmh(h).instanceRef
      BY <2>1, <2>2 DEF HardwareObject
    <2>. QED
      BY <2>1, <2>2, <2>3, ReferenceKept
  <1>. QED
    BY <1>1, <1>2, DeleteHandover, CleanByHandHandover DEF UserStep

\* Every step of the hardware controller.
LEMMA HardwareStepHandover ==
    ASSUME TypeOK, AssignmentInv, HardwareStep
    PROVE  HandoverKept
  <1>1. ASSUME NEW h \in Hardware, SyncNoSchedule(h) \/ SyncNotReady(h) \/ SetConditions(h)
        PROVE  HandoverKept
    <2>1. PICK w : /\ UpdateBmh(h, w)
                   /\ \/ \E e \in Taints : w = [Bmh(h) EXCEPT !.taints = Toggle(@, e)]
                      \/ \E r \in Verdicts : w = [Bmh(h) EXCEPT !.ready = r]
      BY <1>1 DEF SyncNoSchedule, SyncNotReady, SetConditions, Taints
    <2>2. Bmh(h).exists = "live" /\ Bmh(h) \in HardwareObject
      BY <1>1, ReadTypes DEF SyncNoSchedule, SyncNotReady, SetConditions, Settled, Listed
    <2>3. /\ w \in HardwareObject /\ w.exists = "live"
          /\ w.instanceRef = Bmh(h).instanceRef
      BY <2>1, <2>2, ConstantsAssumption DEF HardwareObject, Toggle
    <2>. QED
      BY <2>1, <2>3, FreshBmh, ReferenceKept DEF UpdateBmh
  <1>2. ASSUME NEW h \in Hardware, DropInstanceRef(h)
        PROVE  HandoverKept
    <2>. DEFINE i == Bmh(h).instanceRef
                w == [Bmh(h) EXCEPT !.instanceRef = Nil]
    <2>1. i # Nil /\ ~RefFound(h) /\ UpdateBmh(h, w)
      BY <1>2 DEF DropInstanceRef
    <2>2. \A k \in 1..Len(bmhs) : bmhs[k][h].instanceRef = i
      BY <2>1, FreshBmh DEF UpdateBmh
    <2>3. i \in Instances /\ w \in HardwareObject /\ w.instanceRef = Nil
      BY <2>1, ReadTypes DEF HardwareObject
    <2>4. Bmi(i).exists = "gone"
      <3>1. Bmi(i).exists # "live" /\ Bmi(i) \in Instance
        BY <2>1, <2>3, ReadTypes DEF RefFound
      <3>2. Bmi(i).exists # "unborn"
        BY <2>1, <2>2, Versions DEF AssignmentInv, References
      <3>. QED
        BY <3>1, <3>2 DEF Instance
    <2>5. StoredBmi(i).exists = "gone"
      BY <2>3, <2>4, StoredFollowsCached DEF AssignmentInv, Follows
    <2>. HIDE DEF w
    <2>6. RefAllowed(h, w)
      BY <2>2, <2>3, <2>4 DEF RefAllowed, Departing
    <2>7. \A j \in Instances : ~Hosts(h, j)
      BY <2>2, <2>5, Versions DEF Hosts, On, Placed
    <2>. QED
      BY <2>1, <2>6, <2>7, HardwareWritten DEF UpdateBmh
  <1>3. ASSUME NEW h \in Hardware, RemoveHardwareFinalizer(h)
        PROVE  HandoverKept
    <2>1. Bmh(h).instanceRef = Nil /\ UpdateBmh(h, RemovedHardware)
      BY <1>3 DEF RemoveHardwareFinalizer
    <2>2. \A k \in 1..Len(bmhs) : bmhs[k][h].instanceRef = Nil
      BY <2>1, FreshBmh DEF UpdateBmh
    <2>3. RemovedHardware \in HardwareObject /\ RemovedHardware.instanceRef = Nil
      BY InitialTypes DEF RemovedHardware, NewHardware
    <2>4. RefAllowed(h, RemovedHardware)
      BY <2>2, <2>3 DEF RefAllowed
    <2>5. \A j \in Instances : ~Hosts(h, j)
      BY <2>2, Versions, ConstantsAssumption DEF Hosts
    <2>. QED
      BY <2>1, <2>4, <2>5, HardwareWritten DEF UpdateBmh
  <1>4. ASSUME NEW h \in Hardware, DeleteItsInstance(h)
        PROVE  HandoverKept
    BY <1>4, DeleteHandover DEF DeleteItsInstance
  <1>. QED
    BY <1>1, <1>2, <1>3, <1>4 DEF HardwareStep

\* A step of one machine: its disk holds what it held, its target's data or none.
LEMMA OnlyMachineChanges ==
    ASSUME AssignmentInv, UNCHANGED <<bmis, bmhs, call>>, NEW h \in Hardware,
           \A g \in Hardware : g # h => machine'[g] = machine[g] /\ disk'[g] = disk[g],
           \/ disk'[h].data \in {Nil, disk[h].data}
           \/ Working(h, "image") /\ disk'[h].data = machine[h].action.target,
           Working(h, "image")' => /\ Working(h, "image")
                                  /\ machine'[h].action.target = machine[h].action.target,
           (machine'[h].action.type = "clean" /\ machine'[h].action.result = "ok")
             => disk'[h].data = Nil,
           machine'[h].runs = "agent" => machine'[h].ip \in Lease[h]
    PROVE  HandoverKept
  <1>1. \A g \in Hardware : g # h => Working(g, "image")' = Working(g, "image")
    BY DEF Working
  <1>2. Machines => Machines'
    <2>. SUFFICES ASSUME Machines PROVE Machines'
      OBVIOUS
    <2>1. \A g \in Hardware : disk'[g].data # Nil => Hosts(g, disk'[g].data)
      BY DEF Machines
    <2>2. \A g \in Hardware :
            Working(g, "image")' => /\ machine'[g].action.target \in Instances
                                    /\ Hosts(g, machine'[g].action.target)
      BY <1>1 DEF Machines
    <2>. QED
      BY <2>1, <2>2, ObjectsUnchanged DEF Machines
  <1>3. Listening'
    BY DEF AssignmentInv, Listening
  <1>4. CallIsSound' /\ (AnswerIsGood => AnswerIsGood')
    <2>1. \A g \in Hardware : (disk[g].data = Nil /\ ~Working(g, "image"))
                               => disk'[g].data = Nil /\ ~Working(g, "image")'
      BY <1>1
    <2>2. (call.stage # "none" /\ ~call.bmi.deleting)
            => StoredBmi(call.inst)'.cleaned = "None"
      BY ObjectsUnchanged DEF AssignmentInv, CallIsSound
    <2>. QED
      BY <2>1, <2>2, ObjectsUnchanged, CallKept, AnswerKept DEF AssignmentInv
  <1>. QED
    BY <1>2, <1>3, <1>4, ObjectsUnchanged
       DEF AssignmentInv, HandoverKept, DisksKept, DisksInv

\* A machine reports ready and its address is written to its instance.
LEMMA AgentReadyHandover ==
    ASSUME TypeOK, AssignmentInv, NEW h \in Hardware, AgentReady(h)
    PROVE  HandoverKept
  <1>. PICK i : i = Bmh(h).instanceRef
    OBVIOUS
  <1>. PICK b : b = Bmi(i)
    OBVIOUS
  <1>. PICK v : v = [b EXCEPT !.agentInfo = machine[h].ip]
    OBVIOUS
  <1>1. /\ i # Nil /\ i \in Instances /\ b.exists = "live"
        /\ b.phase \in {"Provisioning", "Cleaning"} /\ b \in Instance
    BY ReadTypes DEF AgentReady, ItsInstance, RefFound
  <1>2. /\ Fresh(bmis, i) /\ StoreBmi(i, v) /\ UNCHANGED <<bmhs, call, disk>>
        /\ machine[h].runs = "agent"
    BY DEF AgentReady
  <1>3. b = StoredBmi(i)
    BY <1>2, FreshBmi
  <1>4. On(b, h)
    <2>1. Bmh(h) = bmhs[1][h] /\ 1 \in 1..Len(bmhs)
      BY Versions
    <2>2. Over(b) \/ On(b, h)
      BY <1>1, <1>3, <2>1 DEF AssignmentInv, References
    <2>. QED
      BY <1>1, <2>2 DEF Over
  <1>5. machine[h].ip \in Lease[h] /\ machine[h] \in Machine
    BY <1>2 DEF AssignmentInv, Listening, TypeOK
  <1>6. /\ v \in Instance /\ v.exists = b.exists /\ v.deleting = b.deleting
        /\ v.phase = b.phase /\ v.hardwareName = b.hardwareName
        /\ v.agentInfo = machine[h].ip /\ v.scheduled = b.scheduled
        /\ v.cleaned = b.cleaned
    BY <1>1, <1>5 DEF Instance, Machine
  <1>7. GoesOn(i, v)
    BY <1>1, <1>3, <1>4, <1>5, <1>6 DEF GoesOn, Over, On
  <1>8. Allowed(i, v) /\ KeepsHost(i, v)
    BY <1>1, <1>7, GoingOn
  <1>9. /\ Aging' /\ AgentAddresses' /\ Untouched' /\ References' /\ Handover'
        /\ \A g \in Hardware, j \in Instances : Hosts(g, j) => Hosts(g, j)'
    BY <1>1, <1>2, <1>6, <1>8, InstancesKept, HostsKept
  <1>10. \A g \in Hardware : /\ machine'[g].action = machine[g].action
                             /\ machine'[g].runs = machine[g].runs
                             /\ machine'[g].ip = machine[g].ip
    BY DEF AgentReady, TypeOK, Machine
  <1>11. Listening' /\ (Machines => Machines')
    BY <1>2, <1>9, <1>10, MachinesKept DEF AssignmentInv
  <1>12. CallIsSound' /\ (AnswerIsGood => AnswerIsGood')
    <2>1. \A g \in Hardware : (disk[g].data = Nil /\ ~Working(g, "image"))
                               => disk'[g].data = Nil /\ ~Working(g, "image")'
      BY <1>2, <1>10 DEF Working
    <2>2. /\ \A j : Bmi(j)' = Bmi(j)
          /\ \A j \in Instances : StoredBmi(j)' = IF j = i THEN v ELSE StoredBmi(j)
      BY <1>1, <1>2, <1>6, StoredBmiVersions
    <2>3. (call.stage # "none" /\ ~call.bmi.deleting)
            => StoredBmi(call.inst)'.cleaned = "None"
      BY <1>2, <1>3, <1>6, <2>2 DEF AssignmentInv, CallIsSound
    <2>. QED
      BY <1>2, <1>9, <2>1, <2>2, <2>3, CallKept, AnswerKept DEF AssignmentInv
  <1>. QED
    BY <1>9, <1>11, <1>12 DEF AssignmentInv, HandoverKept, DisksKept, DisksInv

\* Every step of the machines and their agents.
LEMMA MachineHandover ==
    ASSUME TypeOK, AssignmentInv, MachineStep
    PROVE  HandoverKept
  <1>. SUFFICES ASSUME NEW h \in Hardware,
                       \/ Boot(h)
                       \/ ImageBegins(h)
                       \/ ImageSucceeds(h)
                       \/ CleanSucceeds(h)
                       \/ ActionFails(h)
                PROVE  HandoverKept
    BY AgentReadyHandover DEF MachineStep
  <1>1. /\ machine[h] \in Machine /\ disk[h] \in Disk
        /\ machine[h].action \in Action
        /\ machine[h].runs = "agent" => machine[h].ip \in Lease[h]
    BY DEF TypeOK, Machine, AssignmentInv, Listening
  <1>2. \A r : Finish(h, r) =>
          /\ \A g \in Hardware : g # h => machine'[g] = machine[g]
          /\ machine'[h].runs = machine[h].runs /\ machine'[h].ip = machine[h].ip
          /\ machine'[h].action.type = machine[h].action.type
          /\ machine'[h].action.target = machine[h].action.target
          /\ machine'[h].action.result = r
    <2>. SUFFICES ASSUME NEW r, Finish(h, r)
                  PROVE  /\ \A g \in Hardware : g # h => machine'[g] = machine[g]
                         /\ machine'[h].runs = machine[h].runs
                         /\ machine'[h].ip = machine[h].ip
                         /\ machine'[h].action.type = machine[h].action.type
                         /\ machine'[h].action.target = machine[h].action.target
                         /\ machine'[h].action.result = r
      OBVIOUS
    <2>. DEFINE a == [machine[h].action EXCEPT !.result = r]
                m == [machine[h] EXCEPT !.action = a]
    <2>1. /\ a.type = machine[h].action.type /\ a.target = machine[h].action.target
          /\ a.result = r
      BY <1>1 DEF Action
    <2>2. machine' = [machine EXCEPT ![h] = m]
      BY DEF Finish, TypeOK
    <2>. HIDE DEF a
    <2>3. m.runs = machine[h].runs /\ m.ip = machine[h].ip /\ m.action = a
      BY <1>1 DEF Machine
    <2>. HIDE DEF m
    <2>. QED
      BY <2>1, <2>2, <2>3 DEF TypeOK
  <1>3. CASE Boot(h)
    <2>1. PICK m : /\ machine' = [machine EXCEPT ![h] = m]
                   /\ m.action = NoAction
                   /\ m.runs = "agent" => m.ip \in Lease[h]
      <3>1. CASE ItsInstance(h, {"Running"})
        <4>. DEFINE m == [Off EXCEPT !.runs = "os"]
        <4>1. machine' = [machine EXCEPT ![h] = m]
          BY <1>3, <3>1 DEF Boot
        <4>2. m.action = NoAction /\ m.runs = "os"
          BY DEF Off
        <4>. HIDE DEF m
        <4>. QED
          BY <4>1, <4>2
      <3>2. CASE ~ItsInstance(h, {"Running"})
        <4>1. PICK ip \in Lease[h] :
                machine' = [machine EXCEPT ![h] = [Off EXCEPT !.runs = "agent", !.ip = ip]]
          BY <1>3, <3>2 DEF Boot
        <4>. DEFINE m == [Off EXCEPT !.runs = "agent", !.ip = ip]
        <4>2. m.action = NoAction /\ m.ip = ip
          BY DEF Off
        <4>3. machine' = [machine EXCEPT ![h] = m]
          BY <4>1
        <4>. HIDE DEF m
        <4>. QED
          BY <4>2, <4>3
      <3>. QED
        BY <3>1, <3>2
    <2>2. /\ machine'[h] = m /\ \A g \in Hardware : g # h => machine'[g] = machine[g]
          /\ UNCHANGED <<bmis, bmhs, call, disk>>
      BY <1>3, <2>1 DEF Boot, TypeOK
    <2>3. machine'[h].action.type = "none"
      <3>1. NoAction.type = "none"
        BY DEF NoAction
      <3>. QED
        BY <2>1, <2>2, <3>1
    <2>4. ~Working(h, "image")'
      BY <2>3 DEF Working
    <2>. QED
      BY <2>1, <2>2, <2>3, <2>4, OnlyMachineChanges
  <1>4. CASE ImageBegins(h)
    <2>1. /\ disk'[h].data = machine[h].action.target
          /\ \A g \in Hardware : g # h => disk'[g] = disk[g]
          /\ UNCHANGED <<bmis, bmhs, call, machine>>
      BY <1>4 DEF ImageBegins, TypeOK
    <2>. QED
      BY <1>1, <1>4, <2>1, OnlyMachineChanges DEF ImageBegins, Working
  <1>5. CASE ImageSucceeds(h)
    <2>1. /\ disk'[h].data = disk[h].data
          /\ \A g \in Hardware : g # h => disk'[g] = disk[g]
          /\ UNCHANGED <<bmis, bmhs, call>>
      BY <1>1, <1>5 DEF ImageSucceeds, TypeOK, Disk
    <2>. QED
      BY <1>1, <1>2, <1>5, <2>1, OnlyMachineChanges DEF ImageSucceeds, Working
  <1>6. CASE CleanSucceeds(h)
    <2>1. /\ disk'[h].data = Nil
          /\ \A g \in Hardware : g # h => disk'[g] = disk[g]
          /\ UNCHANGED <<bmis, bmhs, call>>
      BY <1>6 DEF CleanSucceeds, TypeOK, Blank
    <2>. QED
      BY <1>1, <1>2, <1>6, <2>1, OnlyMachineChanges DEF CleanSucceeds, Working
  <1>7. CASE ActionFails(h)
    BY <1>1, <1>2, <1>7, OnlyMachineChanges DEF ActionFails, Working
  <1>. QED
    BY <1>3, <1>4, <1>5, <1>6, <1>7

\* Caches that move on by d and e versions, as watches and lists make them.
LEMMA CachesMove ==
    ASSUME TypeOK, TypeOK', AssignmentInv, UNCHANGED <<machine, disk>>,
           call' \in {call, NoCall},
           NEW d \in Nat, Len(bmis') + d = Len(bmis),
           \A l \in 1..Len(bmis') : bmis'[l] = bmis[l + d],
           NEW e \in Nat, Len(bmhs') + e = Len(bmhs),
           \A k \in 1..Len(bmhs') : bmhs'[k] = bmhs[k + e]
    PROVE  HandoverKept
  <1>1. /\ Len(bmis) \in Nat \ {0} /\ Len(bmhs) \in Nat \ {0}
        /\ Len(bmis') \in Nat \ {0} /\ Len(bmhs') \in Nat \ {0}
        /\ \A i : Bmi(i) = bmis[1][i] /\ StoredBmi(i) = bmis[Len(bmis)][i]
    BY Versions, StreamVersions DEF TypeOK
  <1>2. /\ \A i : Bmi(i)' = bmis'[1][i] /\ StoredBmi(i)' = bmis'[Len(bmis')][i]
    BY DEF Bmi, StoredBmi, Cached, Stored
  <1>3. \A l \in 1..Len(bmis') : l + d \in 1..Len(bmis) /\ \A k \in 1..l : k + d \in 1..(l + d)
    BY <1>1
  <1>4. \A l \in 1..Len(bmhs') : l + e \in 1..Len(bmhs) /\ \A k \in 1..l : k + e \in 1..(l + e)
    BY <1>1
  <1>5. \A i : StoredBmi(i)' = StoredBmi(i)
    <2>1. Len(bmis') \in 1..Len(bmis')
      BY <1>1
    <2>2. bmis'[Len(bmis')] = bmis[Len(bmis)]
      BY <2>1
    <2>. QED
      BY <1>1, <1>2, <2>2
  <1>6. \A i \in Instances : Follows(Bmi(i)', Bmi(i))
    <2>1. 1 \in 1..Len(bmis') /\ 1 \in 1..(1 + d) /\ 1 + d \in 1..Len(bmis)
      BY <1>1
    <2>. QED
      BY <1>1, <1>2, <2>1 DEF AssignmentInv, Aging
  <1>7. Aging'
    <2>. SUFFICES ASSUME NEW i \in Instances, NEW l \in 1..Len(bmis')
                  PROVE  /\ \A k \in 1..l : Follows(bmis'[l][i], bmis'[k][i])
                         /\ bmis'[l][i].exists = "unborn" => bmis'[l][i] = Unborn
      BY DEF Aging
    <2>1. l + d \in 1..Len(bmis) /\ bmis'[l] = bmis[l + d]
      BY <1>3
    <2>2. \A k \in 1..l : k + d \in 1..(l + d) /\ bmis'[k] = bmis[k + d]
      BY <1>1, <1>3
    <2>. QED
      BY <2>1, <2>2 DEF AssignmentInv, Aging
  <1>8. AgentAddresses'
    BY <1>3 DEF AssignmentInv, AgentAddresses
  <1>9. Untouched'
    BY <1>5, <1>6 DEF AssignmentInv, Untouched, Follows
  <1>10. References'
    <2>. SUFFICES ASSUME NEW h \in Hardware, NEW k \in 1..Len(bmhs'),
                         NEW i, i = bmhs'[k][h].instanceRef, i # Nil
                  PROVE  /\ bmhs'[k][h].exists = "live"
                         /\ Bmi(i)'.exists # "unborn"
                         /\ Over(StoredBmi(i)') \/ On(StoredBmi(i)', h)
      BY DEF References
    <2>1. k + e \in 1..Len(bmhs) /\ bmhs'[k] = bmhs[k + e]
      BY <1>4
    <2>2. /\ bmhs'[k][h].exists = "live" /\ Bmi(i).exists # "unborn"
          /\ Over(StoredBmi(i)) \/ On(StoredBmi(i), h)
      BY <2>1 DEF AssignmentInv, References
    <2>3. i \in Instances
      BY <2>1, Versions DEF HardwareObject
    <2>. QED
      BY <2>2, <2>3, <1>5, <1>6 DEF Follows
  <1>11. Handover'
    <2>. SUFFICES ASSUME NEW h \in Hardware, NEW l \in 1..Len(bmhs'), NEW k \in 1..l,
                         NEW i, i = bmhs'[k][h].instanceRef, i # Nil,
                         bmhs'[l][h].instanceRef # i
                  PROVE  Departing(Bmi(i)')
      BY DEF Handover
    <2>1. /\ l + e \in 1..Len(bmhs) /\ bmhs'[l] = bmhs[l + e]
          /\ k + e \in 1..(l + e) /\ bmhs'[k] = bmhs[k + e]
          /\ k + e \in 1..Len(bmhs)
      BY <1>1, <1>4
    <2>2. Departing(Bmi(i))
      BY <2>1 DEF AssignmentInv, Handover
    <2>3. i \in Instances
      <3>1. bmhs[k + e][h] \in HardwareObject /\ i = bmhs[k + e][h].instanceRef
        BY <2>1, Versions
      <3>. QED
        BY <3>1 DEF HardwareObject
    <2>. QED
      BY <2>2, <2>3, <1>6 DEF Follows
  <1>12. \A h \in Hardware, i \in Instances : Hosts(h, i) => Hosts(h, i)'
    BY <1>4, <1>5 DEF Hosts
  <1>13. Listening' /\ (Machines => Machines')
    BY <1>12, MachinesKept DEF AssignmentInv
  <1>14. CallIsSound' /\ (AnswerIsGood => AnswerIsGood')
    <2>1. CASE call' = call
      <3>1. (call.stage # "none" /\ ~call.bmi.deleting)
              => StoredBmi(call.inst)'.cleaned = "None"
        BY <2>1, <1>5 DEF AssignmentInv, CallIsSound
      <3>. QED
        BY <2>1, <3>1, <1>6, <1>12, CallKept, AnswerKept, WorkKept DEF AssignmentInv, Follows
    <2>. QED
      BY <2>1, NoCallIsSound
  <1>. QED
    BY <1>7, <1>8, <1>9, <1>10, <1>11, <1>13, <1>14
       DEF AssignmentInv, HandoverKept, DisksKept, DisksInv

\* The watches deliver, and the manager restarts.
LEMMA WatchHandover ==
    ASSUME TypeOK, TypeOK', AssignmentInv, WatchBmis \/ WatchBmhs \/ RestartManager
    PROVE  HandoverKept
  <1>1. Len(bmis) \in Nat \ {0} /\ Len(bmhs) \in Nat \ {0}
    BY Versions
  <1>2. CASE WatchBmis
    <2>1. /\ Len(bmis') + 1 = Len(bmis)
          /\ \A l \in 1..Len(bmis') : bmis'[l] = bmis[l + 1]
          /\ UNCHANGED <<bmhs, call, machine, disk>>
      BY <1>1, <1>2, DeliverVersions DEF WatchBmis, TypeOK
    <2>2. Len(bmhs') + 0 = Len(bmhs) /\ \A k \in 1..Len(bmhs') : bmhs'[k] = bmhs[k + 0]
      BY <1>1, <2>1
    <2>. QED
      BY <2>1, <2>2, CachesMove
  <1>3. CASE WatchBmhs
    <2>1. /\ Len(bmhs') + 1 = Len(bmhs)
          /\ \A k \in 1..Len(bmhs') : bmhs'[k] = bmhs[k + 1]
          /\ UNCHANGED <<bmis, call, machine, disk>>
      BY <1>1, <1>3, DeliverVersions DEF WatchBmhs, TypeOK
    <2>2. Len(bmis') + 0 = Len(bmis) /\ \A l \in 1..Len(bmis') : bmis'[l] = bmis[l + 0]
      BY <1>1, <2>1
    <2>. QED
      BY <2>1, <2>2, CachesMove
  <1>4. CASE RestartManager
    <2>1. /\ Len(bmis') = 1 /\ bmis'[1] = bmis[Len(bmis)]
          /\ Len(bmhs') = 1 /\ bmhs'[1] = bmhs[Len(bmhs)]
          /\ call' = NoCall /\ UNCHANGED <<machine, disk>>
      BY <1>4, RelistedVersions DEF RestartManager, Stored, TypeOK
    <2>. DEFINE d == Len(bmis) - 1
                e == Len(bmhs) - 1
    <2>2. d \in Nat /\ e \in Nat
      BY <1>1
    <2>3. /\ Len(bmis') + d = Len(bmis)
          /\ \A l \in 1..Len(bmis') : bmis'[l] = bmis[l + d]
      BY <1>1, <2>1
    <2>4. /\ Len(bmhs') + e = Len(bmhs)
          /\ \A k \in 1..Len(bmhs') : bmhs'[k] = bmhs[k + e]
      BY <1>1, <2>1
    <2>. HIDE DEF d, e
    <2>. QED
      BY <2>1, <2>2, <2>3, <2>4, CachesMove
  <1>. QED
    BY <1>2, <1>3, <1>4

-----------------------------------------------------------------------------
\* The invariant holds at the beginning.
LEMMA HandoverStarts == Init => HandoverInv
  <1>. SUFFICES ASSUME Init PROVE HandoverInv
    OBVIOUS
  <1>1. /\ Len(bmis) = 1 /\ bmis[1] = [i \in Instances |-> Unborn]
        /\ Len(bmhs) = 1
        /\ \A h \in Hardware : bmhs[1][h].instanceRef = Nil
    BY DEF Init, NewHardware
  <1>2. \A i \in Instances : Bmi(i) = Unborn /\ StoredBmi(i) = Unborn
    BY <1>1 DEF Bmi, StoredBmi, Cached, Stored
  <1>3. /\ Unborn.exists = "unborn" /\ ~Departing(Unborn) /\ ~Over(Unborn)
        /\ Unborn.cleaned = "None" /\ Unborn.agentInfo = Nil
    BY DEF Unborn, Departing, Over
  <1>4. Aging /\ AgentAddresses /\ Untouched
    <2>1. Follows(Unborn, Unborn)
      BY InitialTypes, FollowsSame
    <2>2. \A l \in 1..Len(bmis) : l = 1 /\ \A k \in 1..l : k = 1
      BY <1>1
    <2>3. \A l \in 1..Len(bmis), i \in Instances :
            bmis[l][i] = Unborn /\ \A k \in 1..l : bmis[k][i] = Unborn
      BY <1>1, <2>2
    <2>. QED
      BY <1>2, <1>3, <2>1, <2>3 DEF Aging, AgentAddresses, Untouched
  <1>5. References /\ Handover
    BY <1>1 DEF References, Handover
  <1>6. Listening /\ Machines
    BY DEF Init, Listening, Machines, Working, Off, Blank, NoAction
  <1>7. CallIsSound /\ AnswerIsGood
    BY DEF Init, CallIsSound, AnswerIsGood, Answered, NoCall
  <1>. QED
    BY <1>4, <1>5, <1>6, <1>7 DEF HandoverInv, AssignmentInv, DisksInv

\* Every step keeps the assignments, and with the right agent the disks.
LEMMA StepHandover ==
    ASSUME TypeOK, TypeOK', AssignmentInv, [Next]_vars
    PROVE  HandoverKept
  <1>1. CASE Next
    BY <1>1, UserHandover, InstanceHandover, ProvisionerHandover, HardwareStepHandover,
       MachineHandover, WatchHandover DEF Next
  <1>2. CASE UNCHANGED vars
    <2>1. UNCHANGED <<bmis, bmhs, call, machine, disk>>
      BY <1>2 DEF vars
    <2>2. (call.stage # "none" /\ ~call.bmi.deleting)
            => StoredBmi(call.inst)'.cleaned = "None"
      BY <2>1, ObjectsUnchanged DEF AssignmentInv, CallIsSound
    <2>3. CallIsSound' /\ (AnswerIsGood => AnswerIsGood')
      BY <2>1, <2>2, ObjectsUnchanged, WorkKept, CallKept, AnswerKept DEF AssignmentInv
    <2>. QED
      BY <2>1, <2>3, OnlyCallChanges DEF DisksInv
  <1>. QED
    BY <1>1, <1>2

\* In every reachable state the controllers' conclusions from what they read, caches
\* and answers however old, stay true until they are acted on or the write is
\* refused; even if a call reaches the agent of another machine, which changes disks
\* and nothing of this (provisioner.go:115-268, 273-323,
\* baremetalhardware_controller.go:94-139, 244-272).
THEOREM AssignmentsHold == Spec => []AssignmentInv
  <1>1. Init => AssignmentInv
    BY HandoverStarts DEF HandoverInv
  <1>2. TypeOK /\ TypeOK' /\ AssignmentInv /\ [Next]_vars => AssignmentInv'
    BY StepHandover DEF HandoverKept
  <1>. QED
    BY <1>1, <1>2, TypesHold, PTL DEF Spec

\* As long as the provisioner reaches the agents it means, what they do suits the
\* assignments: HandoverInv in every reachable state (provisioner.go:236-268,
\* 486-538).
THEOREM HandoverHolds == Spec /\ []RightAgent => []HandoverInv
  <1>1. Init => HandoverInv
    BY HandoverStarts
  <1>2. /\ TypeOK /\ TypeOK' /\ AssignmentInv /\ AssignmentInv' /\ HandoverInv
        /\ RightAgent /\ [Next]_vars
        => HandoverInv'
    BY StepHandover DEF HandoverKept, DisksKept, HandoverInv
  <1>. QED
    BY <1>1, <1>2, TypesHold, AssignmentsHold, PTL DEF Spec

\* A DHCP server that gives every machine addresses of its own is enough.
THEOREM OwnAddressesSuffice ==
    ASSUME LeasesApart
    PROVE  Spec => []RightAgent
  <1>1. AssignmentInv => RightAgent
    BY DEF LeasesApart, AssignmentInv, Listening, CallIsSound, RightAgent, Reached
  <1>. QED
    BY <1>1, AssignmentsHold, PTL

\* What the invariant is for.
LEMMA HandoverImplies ==
    ASSUME TypeOK, HandoverInv
    PROVE  FreeHardwareIsClean /\ ImagesForHolder
  <1>1. \A h \in Hardware : \A i : Hosts(h, i) =>
          /\ StoredBmh(h).instanceRef = i
          /\ StoredBmi(i).exists = "live" /\ StoredBmi(i).hardwareName = h
    BY Versions DEF Hosts, On, Placed
  <1>. QED
    BY <1>1 DEF HandoverInv, DisksInv, Machines, FreeHardwareIsClean, ImagesForHolder

\* With the right agents, no machine is handed on with anything of an instance on
\* its disk (provisioner.go:257-268).
THEOREM FreeHardwareIsAlwaysClean == Spec /\ []RightAgent => []FreeHardwareIsClean
  <1>1. TypeOK /\ HandoverInv => FreeHardwareIsClean
    BY HandoverImplies
  <1>. QED
    BY <1>1, TypesHold, HandoverHolds, PTL

\* Whatever an agent writes is written for the holder of its machine
\* (provisioner.go:486-660).
THEOREM ImagesAreForHolders == Spec /\ []RightAgent => []ImagesForHolder
  <1>1. TypeOK /\ HandoverInv => ImagesForHolder
    BY HandoverImplies
  <1>. QED
    BY <1>1, TypesHold, HandoverHolds, PTL
=============================================================================
