-------------------------- MODULE ImageKeptProofs --------------------------
(***************************************************************************)
(* ImageInv is inductive under HandoverInv: a running instance runs on its *)
(* own image, a machine boots no system but its holder's, and nobody's     *)
(* data is erased who is not being deleted.                                *)
(***************************************************************************)
EXTENDS ImageKept, CustodyProofs

\* An instance that hosts on two machines, or two that host on one, are the same.
LEMMA HostsOne ==
    ASSUME TypeOK, NEW h \in Hardware, NEW i \in Instances, Hosts(h, i)
    PROVE  /\ StoredBmh(h).instanceRef = i
           /\ StoredBmi(i).exists = "live" /\ StoredBmi(i).hardwareName = h
           /\ ~Over(StoredBmi(i))
           /\ \A j : Hosts(h, j) => j = i
  BY Versions DEF Hosts, On, Placed

\* What is on a disk is of an instance that the machine hosts.
LEMMA ContentIsHosted ==
    ASSUME TypeOK, HandoverInv, NEW h \in Hardware, disk[h].data # Nil
    PROVE  disk[h].data \in Instances /\ Hosts(h, disk[h].data)
  BY DEF TypeOK, Disk, HandoverInv, DisksInv, Machines

-----------------------------------------------------------------------------
(***************************************************************************)
(* Writes of instances.                                                    *)
(***************************************************************************)
\* What instance i may be stored as without harm to its image.
Timely(i, v) ==
    /\ v \in Instance
    /\ Leaving(StoredBmi(i)) => Leaving(v)
    /\ v.imaged = "True" => v.phase \notin {"", "Pending"}
    /\ v.phase = "Running" => v.imaged = "True" /\ v.exists = "live"
    /\ ~Leaving(Bmi(i)) =>
         /\ v.cleaned # "Error"
         /\ v.imaged = "True" => /\ v.hardwareName \in Hardware
                                 /\ disk[v.hardwareName].data = i

\* The machines do what they did.
DoAsBefore ==
    \A h \in Hardware : /\ machine'[h].action = machine[h].action
                        /\ machine'[h].runs = machine[h].runs

\* Nothing is working that did not before.
LEMMA WorkingAsBefore ==
    ASSUME DoAsBefore, NEW h \in Hardware, NEW type
    PROVE  Working(h, type)' = Working(h, type)
  BY DEF DoAsBefore, Working

\* A write of an instance that is timely keeps what is said of the objects alone.
LEMMA TimelyProgress ==
    ASSUME TypeOK, ImageInv, NEW i \in Instances, NEW v,
           Timely(i, v), StoreBmi(i, v), UNCHANGED bmhs
    PROVE  LeavingIsFinal' /\ HandedOnOnce' /\ Progress'
  <1>. v \in Instance
    BY DEF Timely
  <1>1. /\ \A j : Bmi(j)' = Bmi(j)
        /\ \A j \in Instances : StoredBmi(j)' = IF j = i THEN v ELSE StoredBmi(j)
        /\ Len(bmis') >= Len(bmis)
        /\ \A l \in 1..Len(bmis') :
             \/ l \in 1..Len(bmis) /\ bmis'[l] = bmis[l]
             \/ l = Len(bmis') /\ \A j : bmis'[l][j] = StoredBmi(j)'
    BY StoredBmiVersions
  <1>2. Len(bmis) \in Nat \ {0} /\ \A j : StoredBmi(j) = bmis[Len(bmis)][j]
    BY Versions
  <1>3. LeavingIsFinal'
    <2>. SUFFICES ASSUME NEW j \in Instances, NEW l \in 1..Len(bmis'), NEW k \in 1..l,
                         Leaving(bmis'[k][j])
                  PROVE  Leaving(bmis'[l][j])
      BY DEF LeavingIsFinal
    <2>1. CASE l \in 1..Len(bmis) /\ bmis'[l] = bmis[l]
      <3>1. (k \in 1..Len(bmis) /\ k # Len(bmis')) \/ k = l
        BY <2>1, <1>1, <1>2
      <3>2. bmis'[k] = bmis[k] \/ k = l
        BY <3>1, <1>1, <2>1
      <3>. QED
        BY <2>1, <3>2 DEF ImageInv, LeavingIsFinal
    <2>2. CASE l = Len(bmis') /\ \A p : bmis'[l][p] = StoredBmi(p)'
      <3>1. CASE k \in 1..Len(bmis) /\ bmis'[k] = bmis[k]
        <4>1. Leaving(StoredBmi(j))
          BY <3>1, <1>2 DEF ImageInv, LeavingIsFinal
        <4>. QED
          BY <2>2, <4>1, <1>1 DEF Timely
      <3>2. CASE k = Len(bmis')
        BY <2>2, <3>2
      <3>. QED
        BY <3>1, <3>2, <1>1, <2>2
    <2>. QED
      BY <2>1, <2>2, <1>1
  <1>4. HandedOnOnce'
    BY DEF ImageInv, HandedOnOnce
  <1>5. Progress'
    <2>. SUFFICES ASSUME NEW j \in Instances, NEW l \in 1..Len(bmis')
                  PROVE  /\ bmis'[l][j].imaged = "True" => bmis'[l][j].phase \notin {"", "Pending"}
                         /\ bmis'[l][j].phase = "Running" =>
                              bmis'[l][j].imaged = "True" /\ bmis'[l][j].exists = "live"
      BY DEF Progress
    <2>1. \/ \E k \in 1..Len(bmis) : bmis'[l][j] = bmis[k][j]
          \/ j = i /\ bmis'[l][j] = v
      BY <1>1, <1>2
    <2>. QED
      BY <2>1 DEF ImageInv, Progress, Timely
  <1>. QED
    BY <1>3, <1>4, <1>5

\* A write of an instance that is timely keeps the invariant.
LEMMA TimelyWrite ==
    ASSUME TypeOK, HandoverInv, ImageInv, NEW i \in Instances, NEW v,
           Timely(i, v), StoreBmi(i, v), UNCHANGED <<bmhs, disk>>, DoAsBefore,
           call' \in {call, NoCall}
    PROVE  ImageInv'
  <1>. v \in Instance
    BY DEF Timely
  <1>1. /\ \A j : Bmi(j)' = Bmi(j)
        /\ \A j \in Instances : StoredBmi(j)' = IF j = i THEN v ELSE StoredBmi(j)
        /\ Len(bmis') >= Len(bmis)
        /\ \A l \in 1..Len(bmis') :
             \/ l \in 1..Len(bmis) /\ bmis'[l] = bmis[l]
             \/ l = Len(bmis') /\ \A j : bmis'[l][j] = StoredBmi(j)'
    BY StoredBmiVersions
  <1>2. Len(bmis) \in Nat \ {0} /\ \A j : StoredBmi(j) = bmis[Len(bmis)][j]
    BY Versions
  <1>3. LeavingIsFinal' /\ HandedOnOnce' /\ Progress'
    BY TimelyProgress
  <1>4. ImageIsThere'
    <2>. SUFFICES ASSUME NEW j \in Instances, ~Leaving(Bmi(j)')
                  PROVE  /\ StoredBmi(j)'.cleaned # "Error"
                         /\ \A l \in 1..Len(bmis') : bmis'[l][j].imaged = "True" =>
                              /\ bmis'[l][j].hardwareName \in Hardware
                              /\ disk[bmis'[l][j].hardwareName].data = j
      BY DEF ImageIsThere
    <2>1. \A l \in 1..Len(bmis') :
            \/ \E k \in 1..Len(bmis) : bmis'[l][j] = bmis[k][j]
            \/ j = i /\ bmis'[l][j] = v
      BY <1>1, <1>2
    <2>2. ~Leaving(Bmi(j))
      BY <1>1
    <2>3. /\ StoredBmi(j).cleaned # "Error"
          /\ \A l \in 1..Len(bmis) : bmis[l][j].imaged = "True" =>
               /\ bmis[l][j].hardwareName \in Hardware
               /\ disk[bmis[l][j].hardwareName].data = j
      BY <2>2 DEF ImageInv, ImageIsThere
    <2>. QED
      BY <2>1, <2>2, <2>3, <1>1 DEF Timely
  <1>5. \A h, type : h \in Hardware => Working(h, type)' = Working(h, type)
    BY WorkingAsBefore
  <1>6. Doings'
    BY <1>1, <1>5 DEF ImageInv, Doings, DoAsBefore
  <1>7. CallIsTimely'
    <2>1. CASE call' = call
      <3>1. /\ \A h : StoredBmh(h)' = StoredBmh(h)
            /\ Answered("image", "ok")' = Answered("image", "ok")
        BY <2>1 DEF StoredBmh, Answered
      <3>2. call.stage # "none" => call.bmi.hardwareName \in Hardware
        BY DEF HandoverInv, AssignmentInv, CallIsSound
      <3>. QED
        BY <2>1, <3>1, <3>2, <1>1, <1>5 DEF ImageInv, CallIsTimely
    <2>2. CASE call' = NoCall
      BY <2>2 DEF CallIsTimely, NoCall
    <2>. QED
      BY <2>1, <2>2
  <1>. QED
    BY <1>3, <1>4, <1>6, <1>7 DEF ImageInv

-----------------------------------------------------------------------------
(***************************************************************************)
(* Writes of hardware.                                                     *)
(***************************************************************************)
\* Hardware h keeps its reference, gives it back, or is claimed when no version
\* on its way to the cache has one.
PassesOn(h, w) ==
    /\ w \in HardwareObject
    /\ \/ w.instanceRef \in {Nil, StoredBmh(h).instanceRef}
       \/ call.stage = "none" /\ \A k \in 1..Len(bmhs) : bmhs[k][h].instanceRef = Nil

\* A write of hardware that passes it on so keeps the invariant.
LEMMA HardwarePassedOn ==
    ASSUME TypeOK, HandoverInv, ImageInv, NEW h \in Hardware, NEW w, PassesOn(h, w),
           StoreBmh(h, w), UNCHANGED <<bmis, machine, disk>>,
           call' \in {call, NoCall}
    PROVE  ImageInv'
  <1>. w \in HardwareObject
    BY DEF PassesOn
  <1>1. /\ \A g \in Hardware : StoredBmh(g)' = IF g = h THEN w ELSE StoredBmh(g)
        /\ Len(bmhs') >= Len(bmhs)
        /\ \A k \in 1..Len(bmhs') :
             \/ k \in 1..Len(bmhs) /\ bmhs'[k] = bmhs[k]
             \/ k = Len(bmhs') /\ \A g : bmhs'[k][g] = StoredBmh(g)'
    BY StoredBmhVersions
  <1>2. Len(bmhs) \in Nat \ {0} /\ \A g : StoredBmh(g) = bmhs[Len(bmhs)][g]
    BY Versions
  <1>3. \A j : Bmi(j)' = Bmi(j) /\ StoredBmi(j)' = StoredBmi(j)
    BY DEF Bmi, StoredBmi
  <1>4. LeavingIsFinal' /\ Progress' /\ ImageIsThere' /\ Doings'
    <2>1. \A g, type : Working(g, type)' = Working(g, type)
      BY DEF Working
    <2>. QED
      BY <1>3, <2>1 DEF ImageInv, LeavingIsFinal, Progress, ImageIsThere, Doings
  <1>5. HandedOnOnce'
    <2>. SUFFICES ASSUME NEW g \in Hardware, NEW l \in 1..Len(bmhs'), NEW k \in 1..l,
                         bmhs'[k][g].instanceRef # Nil
                  PROVE  bmhs'[l][g].instanceRef \in {bmhs'[k][g].instanceRef, Nil}
      BY DEF HandedOnOnce
    <2>1. CASE l \in 1..Len(bmhs) /\ bmhs'[l] = bmhs[l]
      <3>1. (k \in 1..Len(bmhs) /\ k # Len(bmhs')) \/ k = l
        BY <2>1, <1>1, <1>2
      <3>2. bmhs'[k] = bmhs[k] \/ k = l
        BY <3>1, <1>1, <2>1
      <3>. QED
        BY <2>1, <3>2 DEF ImageInv, HandedOnOnce
    <2>2. CASE l = Len(bmhs') /\ \A p : bmhs'[l][p] = StoredBmh(p)'
      <3>1. CASE k \in 1..Len(bmhs) /\ bmhs'[k] = bmhs[k]
        <4>1. StoredBmh(g).instanceRef \in {bmhs[k][g].instanceRef, Nil}
          BY <3>1, <1>2 DEF ImageInv, HandedOnOnce
        <4>. QED
          BY <2>2, <3>1, <4>1, <1>1 DEF PassesOn
      <3>2. CASE k = Len(bmhs')
        BY <2>2, <3>2
      <3>. QED
        BY <3>1, <3>2, <1>1, <2>2
    <2>. QED
      BY <2>1, <2>2, <1>1
  <1>6. CallIsTimely'
    <2>1. CASE call' = call /\ call.stage # "none"
      <3>1. \A type : Working(call.bmi.hardwareName, type)' = Working(call.bmi.hardwareName, type)
        BY <2>1 DEF Working
      <3>2. Answered("image", "ok")' = Answered("image", "ok")
        BY <2>1 DEF Answered
      <3>3. call.bmi.deleting => StoredBmh(call.bmi.hardwareName)'.instanceRef \in {call.inst, Nil}
        <4>1. call.bmi.hardwareName \in Hardware
          BY <2>1 DEF HandoverInv, AssignmentInv, CallIsSound
        <4>. QED
          BY <2>1, <4>1, <1>1 DEF ImageInv, CallIsTimely, PassesOn
      <3>. QED
        BY <2>1, <3>1, <3>2, <3>3, <1>3 DEF ImageInv, CallIsTimely
    <2>2. CASE call'.stage = "none"
      BY <2>2 DEF CallIsTimely
    <2>. QED
      BY <2>1, <2>2 DEF NoCall
  <1>. QED
    BY <1>4, <1>5, <1>6 DEF ImageInv

-----------------------------------------------------------------------------
(***************************************************************************)
(* Steps that write no object.                                             *)
(***************************************************************************)
\* What is said of the objects, as long as images are wiped only of instances
\* that leave.
LEMMA ObjectsAsBefore ==
    ASSUME ImageInv, UNCHANGED <<bmis, bmhs>>,
           \A h \in Hardware : \/ disk'[h].data = disk[h].data
                               \/ disk[h].data = Nil
                               \/ Leaving(Bmi(disk[h].data)),
           Nil \notin Instances
    PROVE  /\ LeavingIsFinal' /\ HandedOnOnce' /\ Progress' /\ ImageIsThere'
           /\ \A i : Bmi(i)' = Bmi(i) /\ StoredBmi(i)' = StoredBmi(i)
           /\ \A h : StoredBmh(h)' = StoredBmh(h)
  <1>1. /\ \A i : Bmi(i)' = Bmi(i) /\ StoredBmi(i)' = StoredBmi(i)
        /\ \A h : StoredBmh(h)' = StoredBmh(h)
    BY DEF Bmi, StoredBmi, StoredBmh
  <1>2. LeavingIsFinal' /\ HandedOnOnce' /\ Progress'
    BY DEF ImageInv, LeavingIsFinal, HandedOnOnce, Progress
  <1>3. ImageIsThere'
    BY <1>1 DEF ImageInv, ImageIsThere
  <1>. QED
    BY <1>1, <1>2, <1>3

\* A step that changes nothing but the call.
LEMMA OnlyCall ==
    ASSUME ImageInv, UNCHANGED <<bmis, bmhs, machine, disk>>, CallIsTimely'
    PROVE  ImageInv'
  <1>1. \A h, type : Working(h, type)' = Working(h, type)
    BY DEF Working
  <1>2. Doings'
    BY <1>1, ObjectsAsBefore, ConstantsAssumption DEF ImageInv, Doings
  <1>. QED
    BY <1>2, ObjectsAsBefore, ConstantsAssumption DEF ImageInv

\* A step of one machine.
LEMMA OneMachine ==
    ASSUME TypeOK, HandoverInv, ImageInv, UNCHANGED <<bmis, bmhs, call>>,
           NEW h \in Hardware,
           \A g \in Hardware : g # h => machine'[g] = machine[g] /\ disk'[g] = disk[g],
           \/ disk'[h].data = disk[h].data
           \/ Working(h, "image") /\ disk'[h].data = machine[h].action.target
           \/ Working(h, "clean") /\ disk'[h].data = Nil,
           Working(h, "clean")' => Working(h, "clean") /\ disk'[h].data = disk[h].data,
           machine'[h].runs # "agent" => machine'[h].action.type = "none",
           machine'[h].runs = "os" => disk'[h].data # Nil,
           (machine'[h].action.type = "image" /\ machine'[h].action.result = "ok")
             => disk'[h].data # Nil
    PROVE  ImageInv'
  <1>1. \A g \in Hardware :
          \/ disk'[g].data = disk[g].data
          \/ disk[g].data = Nil
          \/ Leaving(Bmi(disk[g].data)) /\ Working(h, "clean") /\ g = h
    <2>1. Working(h, "image") /\ disk[h].data # Nil => machine[h].action.target = disk[h].data
      BY ContentIsHosted, HostsOne DEF HandoverInv, DisksInv, Machines
    <2>. QED
      BY <2>1 DEF ImageInv, Doings
  <1>2. /\ LeavingIsFinal' /\ HandedOnOnce' /\ Progress' /\ ImageIsThere'
        /\ \A i : Bmi(i)' = Bmi(i) /\ StoredBmi(i)' = StoredBmi(i)
        /\ \A g : StoredBmh(g)' = StoredBmh(g)
    BY <1>1, ObjectsAsBefore, ConstantsAssumption
  <1>3. \A g \in Hardware : Working(g, "clean")' =>
          Working(g, "clean") /\ disk'[g].data = disk[g].data
    BY DEF Working
  <1>4. Doings'
    BY <1>2, <1>3 DEF ImageInv, Doings
  <1>5. CallIsTimely'
    <2>. SUFFICES ASSUME call.stage # "none" PROVE CallIsTimely'
      BY DEF CallIsTimely
    <2>1. PICK g \in Hardware : g = call.bmi.hardwareName
      BY DEF HandoverInv, AssignmentInv, CallIsSound
    <2>2. call.bmi.deleting =>
            Leaving(Bmi(call.inst)') /\ StoredBmh(g)'.instanceRef \in {call.inst, Nil}
      BY <1>2, <2>1 DEF ImageInv, CallIsTimely
    <2>3. ASSUME ~call.bmi.deleting
          PROVE  /\ call.bmi.phase = "Provisioning"
                 /\ Working(g, "clean")' => disk'[g].data = Nil
                 /\ Answered("image", "ok")' => disk'[g].data = call.inst
      <3>1. /\ call.bmi.phase = "Provisioning"
            /\ Working(g, "clean") => disk[g].data = Nil
            /\ Answered("image", "ok") => disk[g].data = call.inst
        BY <2>1, <2>3 DEF ImageInv, CallIsTimely
      <3>2. call.inst # Nil
        BY ConstantsAssumption DEF HandoverInv, AssignmentInv, CallIsSound
      <3>3. Answered("image", "ok")' = Answered("image", "ok")
        BY DEF Answered
      <3>. QED
        BY <1>1, <1>3, <3>1, <3>2, <3>3
    <2>. QED
      BY <2>1, <2>2, <2>3 DEF CallIsTimely
  <1>. QED
    BY <1>2, <1>4, <1>5 DEF ImageInv

\* Caches that move on by d and e versions, as watches and lists make them.
LEMMA CachesMoveOn ==
    ASSUME TypeOK, TypeOK', HandoverInv, ImageInv, UNCHANGED <<machine, disk>>,
           call' \in {call, NoCall},
           NEW d \in Nat, Len(bmis') + d = Len(bmis),
           \A l \in 1..Len(bmis') : bmis'[l] = bmis[l + d],
           NEW e \in Nat, Len(bmhs') + e = Len(bmhs),
           \A k \in 1..Len(bmhs') : bmhs'[k] = bmhs[k + e]
    PROVE  ImageInv'
  <1>1. /\ Len(bmis) \in Nat \ {0} /\ Len(bmhs) \in Nat \ {0}
        /\ Len(bmis') \in Nat \ {0} /\ Len(bmhs') \in Nat \ {0}
        /\ \A i : Bmi(i) = bmis[1][i] /\ StoredBmi(i) = bmis[Len(bmis)][i]
        /\ \A h : StoredBmh(h) = bmhs[Len(bmhs)][h]
    BY Versions, StreamVersions DEF TypeOK
  <1>2. /\ \A i : Bmi(i)' = bmis'[1][i] /\ StoredBmi(i)' = bmis'[Len(bmis')][i]
        /\ \A h : StoredBmh(h)' = bmhs'[Len(bmhs')][h]
    BY DEF Bmi, StoredBmi, StoredBmh, Cached, Stored
  <1>3. \A l \in 1..Len(bmis') : l + d \in 1..Len(bmis) /\ \A k \in 1..l : k + d \in 1..(l + d)
    BY <1>1
  <1>4. \A l \in 1..Len(bmhs') : l + e \in 1..Len(bmhs) /\ \A k \in 1..l : k + e \in 1..(l + e)
    BY <1>1
  <1>5. /\ \A i : StoredBmi(i)' = StoredBmi(i)
        /\ \A h : StoredBmh(h)' = StoredBmh(h)
    <2>1. Len(bmis') \in 1..Len(bmis') /\ Len(bmhs') \in 1..Len(bmhs')
      BY <1>1
    <2>2. bmis'[Len(bmis')] = bmis[Len(bmis)] /\ bmhs'[Len(bmhs')] = bmhs[Len(bmhs)]
      BY <2>1
    <2>. QED
      BY <1>1, <1>2, <2>2
  <1>6. \A i \in Instances : Leaving(Bmi(i)) => Leaving(Bmi(i)')
    <2>1. 1 \in 1..Len(bmis') /\ 1 \in 1..(1 + d) /\ 1 + d \in 1..Len(bmis)
      BY <1>1
    <2>. QED
      BY <1>1, <1>2, <2>1 DEF ImageInv, LeavingIsFinal
  <1>7. LeavingIsFinal'
    <2>. SUFFICES ASSUME NEW i \in Instances, NEW l \in 1..Len(bmis'), NEW k \in 1..l,
                         Leaving(bmis'[k][i])
                  PROVE  Leaving(bmis'[l][i])
      BY DEF LeavingIsFinal
    <2>1. /\ l + d \in 1..Len(bmis) /\ bmis'[l] = bmis[l + d]
          /\ k + d \in 1..(l + d) /\ bmis'[k] = bmis[k + d]
      BY <1>1, <1>3
    <2>. QED
      BY <2>1 DEF ImageInv, LeavingIsFinal
  <1>8. HandedOnOnce'
    <2>. SUFFICES ASSUME NEW h \in Hardware, NEW l \in 1..Len(bmhs'), NEW k \in 1..l,
                         bmhs'[k][h].instanceRef # Nil
                  PROVE  bmhs'[l][h].instanceRef \in {bmhs'[k][h].instanceRef, Nil}
      BY DEF HandedOnOnce
    <2>1. /\ l + e \in 1..Len(bmhs) /\ bmhs'[l] = bmhs[l + e]
          /\ k + e \in 1..(l + e) /\ bmhs'[k] = bmhs[k + e]
      BY <1>1, <1>4
    <2>. QED
      BY <2>1 DEF ImageInv, HandedOnOnce
  <1>9. Progress'
    <2>. SUFFICES ASSUME NEW i \in Instances, NEW l \in 1..Len(bmis'), NEW b, b = bmis'[l][i]
                  PROVE  /\ b.imaged = "True" => b.phase \notin {"", "Pending"}
                         /\ b.phase = "Running" => b.imaged = "True" /\ b.exists = "live"
      BY DEF Progress
    <2>1. l + d \in 1..Len(bmis) /\ b = bmis[l + d][i]
      BY <1>1, <1>3
    <2>. QED
      BY <2>1 DEF ImageInv, Progress
  <1>10. ImageIsThere'
    BY <1>3, <1>5, <1>6 DEF ImageInv, ImageIsThere
  <1>11. Doings'
    <2>1. \A h, type : Working(h, type)' = Working(h, type)
      BY DEF Working
    <2>2. \A h \in Hardware : disk[h].data \in Instances \cup {Nil}
      BY DEF TypeOK, Disk
    <2>. QED
      BY <1>6, <2>1, <2>2 DEF ImageInv, Doings
  <1>12. CallIsTimely'
    <2>1. CASE call' = call
      <3>1. \A h, type : Working(h, type)' = Working(h, type)
        BY DEF Working
      <3>2. Answered("image", "ok")' = Answered("image", "ok")
        BY <2>1 DEF Answered
      <3>3. call.stage # "none" => call.inst \in Instances
        BY DEF HandoverInv, AssignmentInv, CallIsSound
      <3>. QED
        BY <2>1, <3>1, <3>2, <3>3, <1>5, <1>6 DEF ImageInv, CallIsTimely
    <2>2. CASE call' = NoCall
      BY <2>2 DEF CallIsTimely, NoCall
    <2>. QED
      BY <2>1, <2>2
  <1>. QED
    BY <1>7, <1>8, <1>9, <1>10, <1>11, <1>12 DEF ImageInv

-----------------------------------------------------------------------------
(***************************************************************************)
(* The kinds of writes of instances.                                       *)
(***************************************************************************)
\* Phases an instance may go to from another without leaving.
Forward(b, phase) ==
    \/ phase = b.phase
    \/ b.phase = "" /\ phase = "Pending"
    \/ b.phase = "Pending" /\ phase = "Provisioning"
    \/ b.phase = "Provisioning" /\ phase = "Running" /\ b.imaged = "True"

\* A write that leaves it open where the image is.
Carries(i, v) ==
    LET b == StoredBmi(i) IN
    /\ v \in Instance
    /\ b.exists = "live" /\ v.exists = "live"
    /\ b.deleting => v.deleting
    /\ Forward(b, v.phase) \/ v.phase \in {"Cleaning", "Terminating", "Terminated"}
    /\ v.imaged = b.imaged \/ (v.imaged # "True" /\ v.phase # "Running")
    /\ v.hardwareName = b.hardwareName \/ v.imaged # "True" \/ Leaving(Bmi(i))
    /\ v.cleaned = b.cleaned \/ v.cleaned # "Error" \/ Leaving(Bmi(i))

\* Such a write is timely.
LEMMA CarryingIsTimely ==
    ASSUME TypeOK, ImageInv, NEW i \in Instances, NEW v, Carries(i, v)
    PROVE  Timely(i, v)
  <1>. DEFINE b == StoredBmi(i)
  <1>1. b = bmis[Len(bmis)][i] /\ Len(bmis) \in 1..Len(bmis)
    BY Versions
  <1>2. /\ b.imaged = "True" => b.phase \notin {"", "Pending"}
        /\ b.phase = "Running" => b.imaged = "True"
    BY <1>1 DEF ImageInv, Progress
  <1>3. ~Leaving(Bmi(i)) => /\ b.cleaned # "Error"
                            /\ b.imaged = "True" => /\ b.hardwareName \in Hardware
                                                    /\ disk[b.hardwareName].data = i
    BY <1>1 DEF ImageInv, ImageIsThere
  <1>4. Leaving(b) => Leaving(v)
    BY DEF Carries, Leaving, Forward
  <1>. QED
    BY <1>2, <1>3, <1>4 DEF Carries, Timely, Forward

\* Reconciles that update the instance they read.
LEMMA TimelyUpdate ==
    ASSUME TypeOK, HandoverInv, ImageInv, NEW i \in Instances, NEW v,
           UpdateBmi(i, v), Carries(i, v) \/ Timely(i, v)
    PROVE  ImageInv'
  BY CarryingIsTimely, TimelyWrite DEF UpdateBmi, DoAsBefore

\* An instance that is gone has no image.
LEMMA GoneIsTimely ==
    ASSUME NEW i
    PROVE  Timely(i, Gone)
  <1>. Gone \in Instance /\ Leaving(Gone) /\ Gone.phase = "" /\ Gone.imaged = "None"
       /\ Gone.cleaned = "None"
    BY InitialTypes DEF Gone, Unborn, Leaving
  <1>. QED
    BY DEF Timely

-----------------------------------------------------------------------------
(***************************************************************************)
(* Every kind of step keeps the invariant.                                 *)
(***************************************************************************)
\* Steps of the instance controller and the scheduler.
LEMMA InstanceKeepsImage ==
    ASSUME TypeOK, HandoverInv, ImageInv, InstanceStep
    PROVE  ImageInv'
  <1>. SUFFICES ASSUME NEW i \in Instances,
                       \/ SetPending(i)
                       \/ RemoveFinalizer(i)
                       \/ TerminateUnscheduled(i)
                       \/ Unschedule(i)
                       \/ InitScheduled(i)
                       \/ StartProvisioning(i)
                       \/ MarkScheduled(i)
                       \/ Schedule(i)
                PROVE  ImageInv'
    BY DEF InstanceStep
  <1>. PICK b : b = Bmi(i)
    OBVIOUS
  <1>1. b \in Instance
    BY ReadTypes
  <1>2. CASE RemoveFinalizer(i)
    BY <1>2, GoneIsTimely, TimelyUpdate DEF RemoveFinalizer
  <1>3. ASSUME NEW v, UpdateBmi(i, v), b.exists = "live",
               \/ b.phase = "" /\ v = [b EXCEPT !.phase = "Pending"]
               \/ b.phase = "Pending" /\ v = [b EXCEPT !.phase = "Provisioning"]
               \/ v = [b EXCEPT !.phase = "Terminated"]
               \/ \E p \in Statuses : v = [b EXCEPT !.scheduled = p]
               \/ Leaving(b) /\ v = [b EXCEPT !.scheduled = "False", !.hardwareName = Nil]
               \/ b.phase = "Pending" /\ \E h \in Hardware : v = [b EXCEPT !.hardwareName = h]
        PROVE  ImageInv'
    <2>1. b = StoredBmi(i)
      BY <1>3, FreshBmi DEF UpdateBmi
    <2>2. b.phase = "Pending" => b.imaged # "True"
      <3>1. b = bmis[Len(bmis)][i] /\ Len(bmis) \in 1..Len(bmis)
        BY <2>1, Versions
      <3>. QED
        BY <3>1 DEF ImageInv, Progress
    <2>3. /\ v \in Instance /\ v.exists = "live" /\ v.deleting = b.deleting
          /\ v.imaged = b.imaged /\ v.cleaned = b.cleaned
          /\ Forward(b, v.phase) \/ v.phase = "Terminated"
          /\ v.hardwareName = b.hardwareName \/ Leaving(b) \/ b.phase = "Pending"
      <3>1. CASE \/ b.phase = "" /\ v = [b EXCEPT !.phase = "Pending"]
                 \/ b.phase = "Pending" /\ v = [b EXCEPT !.phase = "Provisioning"]
                 \/ v = [b EXCEPT !.phase = "Terminated"]
        BY <1>1, <1>3, <3>1 DEF Instance, Phases, Forward
      <3>2. CASE \E p \in Statuses : v = [b EXCEPT !.scheduled = p]
        BY <1>1, <1>3, <3>2 DEF Instance, Forward
      <3>3. CASE Leaving(b) /\ v = [b EXCEPT !.scheduled = "False", !.hardwareName = Nil]
        BY <1>1, <1>3, <3>3 DEF Instance, Statuses, Forward
      <3>4. CASE b.phase = "Pending" /\ \E h \in Hardware : v = [b EXCEPT !.hardwareName = h]
        BY <1>1, <1>3, <3>4 DEF Instance, Forward
      <3>. QED
        BY <1>3, <3>1, <3>2, <3>3, <3>4
    <2>4. Carries(i, v)
      BY <1>3, <2>1, <2>2, <2>3 DEF Carries
    <2>. QED
      BY <1>3, <2>4, TimelyUpdate
  <1>4. Unschedule(i) => Leaving(b)
    BY DEF Unschedule, Deleting, Leaving
  <1>5. Chosen(i) \subseteq Hardware /\ {"True", "False"} \subseteq Statuses
    BY DEF Chosen, Listed, Statuses
  <1>. QED
    BY <1>2, <1>3, <1>4, <1>5
       DEF SetPending, TerminateUnscheduled, Unschedule, InitScheduled, Live, Deleting,
           StartProvisioning, MarkScheduled, Schedule, Pending

\* Steps of the provisioner that update an instance.
LEMMA ProvisionerUpdatesKeepImage ==
    ASSUME TypeOK, HandoverInv, ImageInv, NEW i \in Instances,
           \/ InitCleaned(i)
           \/ TerminateCleaned(i)
           \/ StartCleaning(i)
           \/ TerminateUncleaned(i)
           \/ MarkCleaned(i)
           \/ InitNetworked(i)
           \/ MarkNetworked(i)
           \/ InitImaged(i)
           \/ Run(i)
    PROVE  ImageInv'
  <1>. PICK b : b = Bmi(i)
    OBVIOUS
  <1>1. b \in Instance
    BY ReadTypes
  <1>2. PICK v : /\ UpdateBmi(i, v) /\ b.exists = "live"
                 /\ \/ \E p \in {"True", "False"} : \/ v = [b EXCEPT !.cleaned = p]
                                                    \/ v = [b EXCEPT !.networked = p]
                    \/ v = [b EXCEPT !.phase = "Terminating", !.agentInfo = Nil]
                    \/ \E p \in {"Cleaning", "Terminating"} : v = [b EXCEPT !.phase = p]
                    \/ b.phase = "Provisioning" /\ v = [b EXCEPT !.imaged = "False"]
                    \/ /\ b.phase = "Provisioning" /\ b.imaged = "True"
                       /\ v = [b EXCEPT !.phase = "Running", !.agentInfo = Nil]
    BY DEF InitCleaned, TerminateCleaned, StartCleaning, TerminateUncleaned, MarkCleaned,
           InitNetworked, MarkNetworked, InitImaged, Run, Releasing, Cleaning, Installing,
           Provisioning, Live, Deleting
  <1>3. b = StoredBmi(i)
    BY <1>2, FreshBmi DEF UpdateBmi
  <1>4. /\ v \in Instance /\ v.exists = "live" /\ v.deleting = b.deleting
        /\ v.hardwareName = b.hardwareName
        /\ v.imaged = b.imaged \/ (v.imaged # "True" /\ v.phase # "Running")
        /\ v.cleaned = b.cleaned \/ v.cleaned # "Error"
        /\ Forward(b, v.phase) \/ v.phase \in {"Cleaning", "Terminating"}
    <2>1. CASE \E p \in {"True", "False"} : v = [b EXCEPT !.cleaned = p]
      BY <1>1, <1>2, <2>1 DEF Instance, Statuses, Forward
    <2>2. CASE \E p \in {"True", "False"} : v = [b EXCEPT !.networked = p]
      BY <1>1, <1>2, <2>2 DEF Instance, Statuses, Forward
    <2>3. CASE v = [b EXCEPT !.phase = "Terminating", !.agentInfo = Nil]
      BY <1>1, <1>2, <2>3 DEF Instance, Phases
    <2>6. CASE \E p \in {"Cleaning", "Terminating"} : v = [b EXCEPT !.phase = p]
      BY <1>1, <1>2, <2>6 DEF Instance, Phases
    <2>4. CASE b.phase = "Provisioning" /\ v = [b EXCEPT !.imaged = "False"]
      BY <1>1, <1>2, <2>4 DEF Instance, Statuses, Forward
    <2>5. CASE /\ b.phase = "Provisioning" /\ b.imaged = "True"
               /\ v = [b EXCEPT !.phase = "Running", !.agentInfo = Nil]
      BY <1>1, <1>2, <2>5 DEF Instance, Phases, Forward
    <2>. QED
      BY <1>2, <2>1, <2>2, <2>3, <2>4, <2>5, <2>6
  <1>5. Carries(i, v)
    BY <1>2, <1>3, <1>4 DEF Carries
  <1>. QED
    BY <1>2, <1>5, TimelyUpdate

\* Hardware is claimed when every version on its way to the cache is free.
LEMMA ClaimKeepsImage ==
    ASSUME TypeOK, HandoverInv, ImageInv, NEW i \in Instances, Claim(i)
    PROVE  ImageInv'
  <1>. PICK h : h = Bmi(i).hardwareName
    OBVIOUS
  <1>. PICK w : w = [Bmh(h) EXCEPT !.instanceRef = i]
    OBVIOUS
  <1>1. /\ h \in Hardware /\ Bmh(h).instanceRef = Nil /\ call.stage = "none"
        /\ UpdateBmh(h, w)
    BY DEF Claim, Provisioning, HasHardware, Listed, Its
  <1>2. w \in HardwareObject
    BY <1>1, ReadTypes DEF HardwareObject
  <1>3. \A k \in 1..Len(bmhs) : bmhs[k][h].instanceRef = Nil
    BY <1>1, FreshBmh DEF UpdateBmh
  <1>. QED
    BY <1>1, <1>2, <1>3, HardwarePassedOn DEF PassesOn, UpdateBmh

\* The provisioner asks the agent, for an instance its cache shows to leave or to
\* be provisioned.
LEMMA AskKeepsImage ==
    ASSUME TypeOK, HandoverInv, ImageInv, NEW i \in Instances, AskAgent(i)
    PROVE  ImageInv'
  <1>. PICK h : h = Bmi(i).hardwareName
    OBVIOUS
  <1>1. /\ UNCHANGED <<bmis, bmhs, machine, disk>>
        /\ call'.stage = "asked" /\ call'.inst = i /\ call'.bmi = Bmi(i)
    BY DEF AskAgent
  <1>2. /\ h \in Hardware /\ Bmh(h).instanceRef = i /\ Bmi(i).exists = "live"
        /\ Bmi(i).deleting => Bmi(i).phase = "Cleaning"
        /\ ~Bmi(i).deleting => Bmi(i).phase = "Provisioning"
    BY DEF AskAgent, Imaging, Installing, Provisioning, Cleaning, Releasing, HasHardware,
           Listed, Its, Live, Deleting
  <1>3. /\ Bmi(i)' = Bmi(i) /\ StoredBmh(h)' = StoredBmh(h)
        /\ Working(h, "clean")' = Working(h, "clean")
        /\ Hosts(h, i)' = Hosts(h, i)
    BY <1>1 DEF Bmi, StoredBmh, Working, Hosts, StoredBmi
  <1>4. Bmi(i).deleting =>
          Leaving(Bmi(i)) /\ StoredBmh(h).instanceRef \in {i, Nil}
    <2>1. /\ Bmh(h) = bmhs[1][h] /\ StoredBmh(h) = bmhs[Len(bmhs)][h]
          /\ Len(bmhs) \in 1..Len(bmhs) /\ 1 \in 1..Len(bmhs)
      BY Versions
    <2>2. StoredBmh(h).instanceRef \in {i, Nil}
      BY <1>2, <2>1, ConstantsAssumption DEF ImageInv, HandedOnOnce
    <2>. QED
      BY <1>2, <2>2 DEF Leaving
  <1>5. ~Bmi(i).deleting => (Working(h, "clean") => disk[h].data = Nil)
    <2>. SUFFICES ASSUME ~Bmi(i).deleting, Working(h, "clean"), disk[h].data # Nil
                  PROVE  FALSE
      OBVIOUS
    <2>1. Hosts(h, i)
      <3>1. AssignmentInv'
        BY AskHandover DEF HandoverInv, HandoverKept
      <3>. QED
        BY <1>1, <1>3, <3>1 DEF AssignmentInv, CallIsSound
    <2>2. disk[h].data = i
      BY <1>2, <2>1, ContentIsHosted, HostsOne
    <2>3. Leaving(Bmi(i))
      BY <1>2, <2>2 DEF ImageInv, Doings
    <2>. QED
      BY <1>2, <2>3 DEF Leaving
  <1>6. CallIsTimely'
    <2>1. ~Answered("image", "ok")'
      BY <1>1 DEF Answered
    <2>. QED
      BY <1>1, <1>2, <1>3, <1>4, <1>5, <2>1 DEF CallIsTimely
  <1>. QED
    BY <1>1, <1>6, OnlyCall

\* An agent that has imaged answers of the instance that is asked about.
LEMMA AnswerKeepsImage ==
    ASSUME RightAgent, TypeOK, HandoverInv, ImageInv, NEW h \in Hardware, AgentAnswers(h)
    PROVE  ImageInv'
  <1>1. /\ UNCHANGED <<bmis, bmhs, machine, disk>>
        /\ call.stage # "none" /\ h = call.bmi.hardwareName
    BY DEF AgentAnswers, RightAgent
  <1>2. /\ call'.inst = call.inst /\ call'.bmi = call.bmi
        /\ call'.answer = machine[h].action
    BY DEF AgentAnswers, TypeOK, Call
  <1>3. /\ Bmi(call.inst)' = Bmi(call.inst) /\ StoredBmh(h)' = StoredBmh(h)
        /\ Working(h, "clean")' = Working(h, "clean")
    BY <1>1, <1>2 DEF Bmi, StoredBmh, Working
  <1>4. (~call.bmi.deleting /\ Answered("image", "ok")') => disk[h].data = call.inst
    <2>. SUFFICES ASSUME ~call.bmi.deleting, Answered("image", "ok")'
                  PROVE  disk[h].data = call.inst
      OBVIOUS
    <2>1. disk[h].data # Nil
      BY <1>2 DEF Answered, ImageInv, Doings
    <2>2. call.inst \in Instances /\ Hosts(h, call.inst)
      BY <1>1 DEF HandoverInv, AssignmentInv, CallIsSound
    <2>. QED
      BY <2>1, <2>2, ContentIsHosted, HostsOne
  <1>5. CallIsTimely'
    BY <1>1, <1>2, <1>3, <1>4 DEF ImageInv, CallIsTimely
  <1>. QED
    BY <1>1, <1>5, OnlyCall

\* An agent is told to clean for the instance whose data is on the disk.
LEMMA TellKeepsImage ==
    ASSUME RightAgent, TypeOK, HandoverInv, ImageInv, NEW h \in Hardware, TellAgent(h)
    PROVE  ImageInv'
  <1>1. /\ UNCHANGED <<bmis, bmhs, disk>> /\ call' = NoCall
        /\ call.stage # "none" /\ machine[h].runs = "agent"
    BY DEF TellAgent, Answered, Reached
  <1>2. h = call.bmi.hardwareName
    BY <1>1 DEF TellAgent, RightAgent
  <1>3. PICK a : /\ a.result = "working"
                 /\ a.type = "clean" => call.bmi.deleting
                 /\ machine' = [machine EXCEPT ![h].action = a]
    <2>. WITNESS [type |-> IF call.bmi.deleting THEN "clean" ELSE "image",
                  result |-> "working", target |-> call.inst]
    <2>. QED
      BY DEF TellAgent
  <1>4. \A g \in Hardware :
          /\ machine'[g].runs = machine[g].runs
          /\ machine'[g].action = IF g = h THEN a ELSE machine[g].action
    BY <1>3 DEF TypeOK, Machine
  <1>5. (call.bmi.deleting /\ disk[h].data # Nil) => Leaving(Bmi(disk[h].data))
    <2>. SUFFICES ASSUME call.bmi.deleting, disk[h].data # Nil
                  PROVE  Leaving(Bmi(disk[h].data))
      OBVIOUS
    <2>1. StoredBmh(h).instanceRef = disk[h].data
      BY ContentIsHosted, HostsOne
    <2>. QED
      BY <1>1, <1>2, <2>1 DEF ImageInv, CallIsTimely
  <1>6. Doings'
    <2>1. \A g \in Hardware : Working(g, "clean")' =>
            Working(g, "clean") \/ (g = h /\ call.bmi.deleting)
      BY <1>3, <1>4 DEF Working
    <2>2. \A j : Bmi(j)' = Bmi(j)
      BY <1>1 DEF Bmi
    <2>. QED
      BY <1>1, <1>3, <1>4, <1>5, <2>1, <2>2 DEF ImageInv, Doings
  <1>7. CallIsTimely'
    BY <1>1 DEF CallIsTimely, NoCall
  <1>. QED
    BY <1>1, <1>6, <1>7, ObjectsAsBefore, ConstantsAssumption DEF ImageInv

\* What the agent answered is recorded.
LEMMA RecordKeepsImage ==
    ASSUME TypeOK, HandoverInv, ImageInv,
           RecordImagingFailed \/ RecordImaged \/ RecordCleaningFailed
    PROVE  ImageInv'
  <1>. PICK i : i = call.inst
    OBVIOUS
  <1>. PICK b : b = call.bmi
    OBVIOUS
  <1>1. PICK v : /\ WriteBmi(v)
                 /\ \/ ~b.deleting /\ v = [b EXCEPT !.imaged = "Error"]
                    \/ /\ ~b.deleting /\ v = [b EXCEPT !.imaged = "True"]
                       /\ Answered("image", "ok")
                    \/ b.deleting /\ v = [b EXCEPT !.cleaned = "Error"]
    BY DEF RecordImagingFailed, RecordImaged, RecordCleaningFailed
  <1>2. /\ b = StoredBmi(i) /\ StoreBmi(i, v) /\ call' = NoCall
        /\ UNCHANGED <<bmhs, machine, disk>>
    BY <1>1 DEF WriteBmi
  <1>3. call.stage # "none" /\ b \in Instance
    BY DEF TypeOK, Call, Answered, RecordImagingFailed, RecordImaged, RecordCleaningFailed
  <1>4. /\ i \in Instances /\ b.exists = "live" /\ b.hardwareName \in Hardware
        /\ b.deleting => Leaving(Bmi(i))
        /\ ~b.deleting => b.phase = "Provisioning"
        /\ (~b.deleting /\ Answered("image", "ok")) => disk[b.hardwareName].data = i
    BY <1>3 DEF HandoverInv, AssignmentInv, CallIsSound, ImageInv, CallIsTimely
  <1>5. /\ v \in Instance /\ v.exists = "live" /\ v.deleting = b.deleting
        /\ v.phase = b.phase /\ v.hardwareName = b.hardwareName
    BY <1>1, <1>3, <1>4 DEF Instance, Statuses
  <1>6. CASE v = [b EXCEPT !.cleaned = "Error"] /\ b.deleting
    <2>1. v.imaged = b.imaged
      BY <1>3, <1>6 DEF Instance
    <2>2. Carries(i, v)
      BY <1>2, <1>4, <1>5, <1>6, <2>1 DEF Carries, Forward
    <2>. QED
      BY <1>2, <1>4, <2>2, CarryingIsTimely, TimelyWrite DEF DoAsBefore
  <1>7. CASE v = [b EXCEPT !.imaged = "Error"] /\ ~b.deleting
    <2>1. v.imaged = "Error" /\ v.cleaned = b.cleaned /\ v.phase = "Provisioning"
      BY <1>3, <1>4, <1>5, <1>7 DEF Instance
    <2>2. Carries(i, v)
      BY <1>2, <1>4, <1>5, <2>1 DEF Carries, Forward
    <2>. QED
      BY <1>2, <1>4, <2>2, CarryingIsTimely, TimelyWrite DEF DoAsBefore
  <1>8. CASE v = [b EXCEPT !.imaged = "True"] /\ ~b.deleting /\ Answered("image", "ok")
    <2>1. v.imaged = "True" /\ v.cleaned = b.cleaned /\ v.phase = "Provisioning"
      BY <1>3, <1>4, <1>5, <1>8 DEF Instance
    <2>2. ~Leaving(Bmi(i)) => v.cleaned # "Error"
      BY <1>2, <1>4, <2>1 DEF ImageInv, ImageIsThere
    <2>3. ~Leaving(b)
      BY <1>4, <1>8 DEF Leaving
    <2>4. Timely(i, v)
      BY <1>2, <1>4, <1>5, <1>8, <2>1, <2>2, <2>3 DEF Timely
    <2>. QED
      BY <1>2, <1>4, <2>4, TimelyWrite DEF DoAsBefore
  <1>. QED
    BY <1>1, <1>6, <1>7, <1>8

\* Every step of the provisioner.
LEMMA ProvisionerKeepsImage ==
    ASSUME RightAgent, TypeOK, HandoverInv, ImageInv, ProvisionerStep
    PROVE  ImageInv'
  <1>1. CASE EndCall
    <2>1. CallIsTimely'
      BY <1>1 DEF EndCall, CallIsTimely, NoCall
    <2>. QED
      BY <1>1, <2>1, OnlyCall DEF EndCall
  <1>2. CASE ReleaseHardware
    <2>. PICK h : h = call.bmi.hardwareName
      OBVIOUS
    <2>. PICK w : w = [call.bmh EXCEPT !.instanceRef = Nil]
      OBVIOUS
    <2>1. /\ StoreBmh(h, w) /\ call' = NoCall /\ UNCHANGED <<bmis, machine, disk>>
          /\ h \in Hardware
      BY <1>2 DEF ReleaseHardware, ReleaseAs, HandoverInv, AssignmentInv, CallIsSound,
                  DisksInv, AnswerIsGood, Answered
    <2>2. PassesOn(h, w)
      BY DEF TypeOK, Call, HardwareObject, PassesOn
    <2>. QED
      BY <2>1, <2>2, HardwarePassedOn
  <1>. QED
    BY <1>1, <1>2, ProvisionerUpdatesKeepImage, ClaimKeepsImage, AskKeepsImage,
       AnswerKeepsImage, TellKeepsImage, RecordKeepsImage
       DEF ProvisionerStep

\* An instance is deleted, by a user or with its hardware.
LEMMA DeleteKeepsImage ==
    ASSUME TypeOK, HandoverInv, ImageInv, NEW i \in Instances, DeleteInstance(i)
    PROVE  ImageInv'
  <1>. PICK b : b = StoredBmi(i)
    OBVIOUS
  <1>. PICK v : v = [b EXCEPT !.deleting = TRUE]
    OBVIOUS
  <1>1. /\ b \in Instance /\ b.exists = "live" /\ StoreBmi(i, v)
        /\ UNCHANGED <<bmhs, call, machine, disk>>
    BY ReadTypes DEF DeleteInstance
  <1>2. /\ v \in Instance /\ v.exists = "live" /\ v.deleting
        /\ v.phase = b.phase /\ v.imaged = b.imaged /\ v.cleaned = b.cleaned
        /\ v.hardwareName = b.hardwareName
    BY <1>1 DEF Instance
  <1>3. Carries(i, v)
    BY <1>1, <1>2 DEF Carries, Forward
  <1>. QED
    BY <1>1, <1>3, CarryingIsTimely, TimelyWrite DEF DoAsBefore

\* A user wipes the machines of an instance whose cleaning failed, which the cache
\* shows to leave, and removes it.
LEMMA CleanByHandKeepsImage ==
    ASSUME TypeOK, HandoverInv, ImageInv, NEW i \in Instances, CleanByHandAndForceDelete(i)
    PROVE  ImageInv'
  <1>. DEFINE its == {h \in Hardware : StoredBmh(h).instanceRef = i}
  <1>1. /\ StoredBmi(i).cleaned = "Error"
        /\ StoreBmi(i, Gone) /\ UNCHANGED <<bmhs, call>>
        /\ machine' = [h \in Hardware |-> IF h \in its THEN Off ELSE machine[h]]
        /\ disk' = [h \in Hardware |-> IF h \in its THEN Blank ELSE disk[h]]
    BY DEF CleanByHandAndForceDelete
  <1>2. Off.runs = "off" /\ Off.action.type = "none" /\ Blank.data = Nil
    BY DEF Off, NoAction, Blank
  <1>3. Leaving(Bmi(i))
    BY <1>1 DEF ImageInv, ImageIsThere
  <1>4. \A h \in its : disk[h].data \in {i, Nil}
    BY ContentIsHosted, HostsOne
  <1>5. \A h \in Hardware : \A type \in {"image", "clean"} :
          (Working(h, type)' <=> h \notin its /\ Working(h, type))
    BY <1>1, <1>2 DEF Working
  <1>6. /\ \A j \in Instances : ~Leaving(Bmi(j)) => \A h \in Hardware :
             disk[h].data = j => disk'[h].data = j
        /\ \A h \in Hardware : disk'[h].data \in {disk[h].data, Nil}
        /\ \A h \in Hardware : disk'[h].data # disk[h].data => h \in its
    BY <1>1, <1>2, <1>3, <1>4
  <1>7. /\ \A j : Bmi(j)' = Bmi(j)
        /\ \A j \in Instances : StoredBmi(j)' = IF j = i THEN Gone ELSE StoredBmi(j)
        /\ Len(bmis') >= Len(bmis)
        /\ \A l \in 1..Len(bmis') :
             \/ l \in 1..Len(bmis) /\ bmis'[l] = bmis[l]
             \/ l = Len(bmis') /\ \A j : bmis'[l][j] = StoredBmi(j)'
    BY <1>1, InitialTypes, StoredBmiVersions
  <1>8. ImageIsThere'
    <2>. SUFFICES ASSUME NEW j \in Instances, ~Leaving(Bmi(j)')
                  PROVE  /\ StoredBmi(j)'.cleaned # "Error"
                         /\ \A l \in 1..Len(bmis') : bmis'[l][j].imaged = "True" =>
                              /\ bmis'[l][j].hardwareName \in Hardware
                              /\ disk'[bmis'[l][j].hardwareName].data = j
      BY DEF ImageIsThere
    <2>1. j # i /\ ~Leaving(Bmi(j))
      BY <1>3, <1>7
    <2>2. \A l \in 1..Len(bmis') : \E k \in 1..Len(bmis) : bmis'[l][j] = bmis[k][j]
      BY <2>1, <1>7, Versions
    <2>. QED
      BY <2>1, <2>2, <1>6, <1>7 DEF ImageInv, ImageIsThere
  <1>9. Doings'
    BY <1>1, <1>2, <1>5, <1>6, <1>7 DEF ImageInv, Doings
  <1>10. CallIsTimely'
    <2>. SUFFICES ASSUME call.stage # "none" PROVE CallIsTimely'
      BY <1>1 DEF CallIsTimely
    <2>1. PICK h \in Hardware : h = call.bmi.hardwareName
      BY DEF HandoverInv, AssignmentInv, CallIsSound
    <2>2. StoredBmh(h)' = StoredBmh(h) /\ Bmi(call.inst)' = Bmi(call.inst)
      BY <1>1, <1>7 DEF StoredBmh
    <2>3. ~call.bmi.deleting => h \notin its
      <3>1. ~call.bmi.deleting =>
              /\ call.inst \in Instances /\ Hosts(h, call.inst)
              /\ StoredBmi(call.inst).cleaned = "None"
        BY <2>1 DEF HandoverInv, AssignmentInv, CallIsSound
      <3>. QED
        BY <1>1, <3>1, HostsOne
    <2>4. h \notin its => disk'[h] = disk[h] /\ (Working(h, "clean")' <=> Working(h, "clean"))
      BY <1>1, <1>5
    <2>5. Answered("image", "ok")' = Answered("image", "ok")
      BY <1>1 DEF Answered
    <2>. HIDE DEF its
    <2>. QED
      BY <1>1, <2>1, <2>2, <2>3, <2>4, <2>5 DEF ImageInv, CallIsTimely
  <1>11. LeavingIsFinal' /\ HandedOnOnce' /\ Progress'
    <2>1. Timely(i, Gone)
      BY GoneIsTimely
    <2>. QED
      BY <1>1, <2>1, TimelyProgress
  <1>. QED
    BY <1>8, <1>9, <1>10, <1>11 DEF ImageInv

\* Steps of the users.
LEMMA UserKeepsImage ==
    ASSUME TypeOK, HandoverInv, ImageInv, UserStep
    PROVE  ImageInv'
  <1>1. ASSUME NEW i \in Instances, CreateInstance(i)
        PROVE  ImageInv'
    <2>1. /\ StoreBmi(i, Created) /\ UNCHANGED <<bmhs, call, machine, disk>>
          /\ StoredBmi(i).exists = "unborn"
      BY <1>1 DEF CreateInstance
    <2>2. ~Leaving(StoredBmi(i))
      <3>1. StoredBmi(i) = Unborn
        BY <2>1, Versions DEF HandoverInv, AssignmentInv, Aging
      <3>2. ~Leaving(Unborn)
        BY DEF Unborn, Leaving
      <3>. QED
        BY <3>1, <3>2
    <2>3. Timely(i, Created)
      BY <2>2, InitialTypes DEF Timely, Created, Unborn
    <2>. QED
      BY <2>1, <2>3, TimelyWrite DEF DoAsBefore
  <1>2. ASSUME NEW h \in Hardware, EditHardware(h)
        PROVE  ImageInv'
    <2>1. PICK w : /\ StoreBmh(h, w) /\ UNCHANGED <<bmis, call, machine, disk>>
                   /\ \/ w = [StoredBmh(h) EXCEPT !.canProvision = ~@]
                      \/ w = [StoredBmh(h) EXCEPT !.deleting = TRUE]
      BY <1>2 DEF EditHardware
    <2>2. PassesOn(h, w)
      BY <2>1, ReadTypes DEF HardwareObject, PassesOn
    <2>. QED
      BY <2>1, <2>2, HardwarePassedOn
  <1>. QED
    BY <1>1, <1>2, DeleteKeepsImage, CleanByHandKeepsImage DEF UserStep

\* Steps of the hardware controller.
LEMMA HardwareKeepsImage ==
    ASSUME TypeOK, HandoverInv, ImageInv, HardwareStep
    PROVE  ImageInv'
  <1>1. ASSUME NEW h \in Hardware,
               \/ SyncNoSchedule(h)
               \/ SyncNotReady(h)
               \/ SetConditions(h)
               \/ DropInstanceRef(h)
               \/ RemoveHardwareFinalizer(h)
        PROVE  ImageInv'
    <2>1. PICK w : /\ UpdateBmh(h, w)
                   /\ \/ \E e \in Taints : w = [Bmh(h) EXCEPT !.taints = Toggle(@, e)]
                      \/ \E r \in Verdicts : w = [Bmh(h) EXCEPT !.ready = r]
                      \/ w = [Bmh(h) EXCEPT !.instanceRef = Nil]
                      \/ w = RemovedHardware
      BY <1>1 DEF SyncNoSchedule, SyncNotReady, SetConditions, Taints, DropInstanceRef,
                  RemoveHardwareFinalizer
    <2>2. w \in HardwareObject /\ w.instanceRef \in {Nil, Bmh(h).instanceRef}
      <3>1. RemovedHardware \in HardwareObject /\ RemovedHardware.instanceRef = Nil
        BY InitialTypes DEF RemovedHardware, NewHardware
      <3>. QED
        BY <2>1, <3>1, ReadTypes, ConstantsAssumption DEF HardwareObject, Toggle
    <2>3. PassesOn(h, w)
      BY <2>1, <2>2, FreshBmh DEF PassesOn, UpdateBmh
    <2>. QED
      BY <2>1, <2>3, HardwarePassedOn DEF UpdateBmh
  <1>2. ASSUME NEW h \in Hardware, DeleteItsInstance(h)
        PROVE  ImageInv'
    BY <1>2, DeleteKeepsImage DEF DeleteItsInstance
  <1>. QED
    BY <1>1, <1>2 DEF HardwareStep

\* A machine boots a system only on the image of its holder, although both caches
\* it is decided from may be behind.
LEMMA BootsOwnImage ==
    ASSUME TypeOK, HandoverInv, ImageInv, NEW h \in Hardware, ItsInstance(h, {"Running"})
    PROVE  disk[h].data # Nil
  <1>. PICK i : i = Bmh(h).instanceRef
    OBVIOUS
  <1>1. i # Nil /\ i \in Instances /\ Bmi(i).exists = "live" /\ Bmi(i).phase = "Running"
    BY DEF ItsInstance, RefFound
  <1>2. /\ Bmi(i) = bmis[1][i] /\ 1 \in 1..Len(bmis)
        /\ Bmh(h) = bmhs[1][h] /\ 1 \in 1..Len(bmhs)
    BY Versions
  <1>. PICK g : g = Bmi(i).hardwareName
    OBVIOUS
  <1>3. g \in Hardware /\ disk[g].data = i
    <2>1. ~Leaving(Bmi(i)) /\ Bmi(i).imaged = "True"
      BY <1>1, <1>2 DEF Leaving, ImageInv, Progress
    <2>. QED
      BY <1>1, <1>2, <2>1 DEF ImageInv, ImageIsThere
  <1>4. Hosts(g, i)
    BY <1>1, <1>3, ContentIsHosted
  <1>5. On(StoredBmi(i), h)
    <2>1. Over(StoredBmi(i)) \/ On(StoredBmi(i), h)
      BY <1>1, <1>2 DEF HandoverInv, AssignmentInv, References
    <2>. QED
      BY <1>1, <1>3, <1>4, <2>1, HostsOne
  <1>. QED
    BY <1>1, <1>3, <1>4, <1>5, HostsOne DEF On

\* Steps of the machines and their agents.
LEMMA MachineKeepsImage ==
    ASSUME TypeOK, HandoverInv, ImageInv, MachineStep
    PROVE  ImageInv'
  <1>. SUFFICES ASSUME NEW h \in Hardware,
                       \/ Boot(h)
                       \/ AgentReady(h)
                       \/ ImageBegins(h)
                       \/ ImageSucceeds(h)
                       \/ CleanSucceeds(h)
                       \/ ActionFails(h)
                PROVE  ImageInv'
    BY DEF MachineStep
  <1>1. /\ machine \in [Hardware -> Machine] /\ disk \in [Hardware -> Disk]
        /\ machine[h].action \in Action
    BY DEF TypeOK, Machine
  <1>2. /\ machine[h].runs # "agent" => machine[h].action.type = "none"
        /\ machine[h].runs = "os" => disk[h].data # Nil
        /\ Working(h, "image") => machine[h].action.target # Nil
    BY ConstantsAssumption DEF ImageInv, Doings, HandoverInv, DisksInv, Machines
  <1>3. CASE Boot(h)
    <2>1. PICK m : /\ machine' = [machine EXCEPT ![h] = m]
                   /\ \/ ItsInstance(h, {"Running"}) /\ m = [Off EXCEPT !.runs = "os"]
                      \/ \E ip : m = [Off EXCEPT !.runs = "agent", !.ip = ip]
      BY <1>3 DEF Boot
    <2>2. m.action.type = "none" /\ (m.runs = "os" => ItsInstance(h, {"Running"}))
      <3>1. CASE ItsInstance(h, {"Running"}) /\ m = [Off EXCEPT !.runs = "os"]
        BY <3>1 DEF Off, NoAction
      <3>2. ASSUME NEW ip, m = [Off EXCEPT !.runs = "agent", !.ip = ip]
            PROVE  m.action.type = "none" /\ m.runs # "os"
        BY <3>2 DEF Off, NoAction
      <3>. QED
        BY <2>1, <3>1, <3>2
    <2>3. ~Working(h, "clean")'
      BY <1>1, <2>1, <2>2 DEF Working
    <2>. QED
      BY <1>1, <1>3, <2>1, <2>2, <2>3, BootsOwnImage, OneMachine DEF Boot
  <1>4. CASE AgentReady(h)
    <2>. PICK i : i = Bmh(h).instanceRef
      OBVIOUS
    <2>. PICK b : b = Bmi(i)
      OBVIOUS
    <2>. PICK v : v = [b EXCEPT !.agentInfo = machine[h].ip]
      OBVIOUS
    <2>1. /\ i \in Instances /\ b.exists = "live" /\ b \in Instance
          /\ Fresh(bmis, i) /\ StoreBmi(i, v) /\ UNCHANGED <<bmhs, call, disk>>
          /\ DoAsBefore
      BY <1>4, <1>1, ReadTypes DEF AgentReady, ItsInstance, RefFound, DoAsBefore, Machine
    <2>2. b = StoredBmi(i) /\ machine[h] \in Machine
      BY <1>1, <2>1, FreshBmi
    <2>3. Carries(i, v)
      BY <2>1, <2>2 DEF Carries, Forward, Instance, Machine
    <2>. QED
      BY <2>1, <2>3, CarryingIsTimely, TimelyWrite
  <1>5. CASE ImageBegins(h)
    <2>1. /\ UNCHANGED <<bmis, bmhs, call, machine>> /\ Working(h, "image")
          /\ \A g \in Hardware : g # h => disk'[g] = disk[g]
          /\ disk'[h].data = machine[h].action.target
      BY <1>1, <1>5 DEF ImageBegins
    <2>2. machine[h].runs = "agent" /\ ~Working(h, "clean")'
          /\ machine[h].action.result # "ok"
      BY <1>2, <2>1 DEF Working
    <2>. QED
      BY <1>2, <2>1, <2>2, OneMachine
  <1>6. ASSUME NEW r \in {"ok", "error"}, Finish(h, r)
        PROVE  /\ \A g \in Hardware : g # h => machine'[g] = machine[g]
               /\ machine'[h].runs = machine[h].runs
               /\ machine'[h].action.type = machine[h].action.type
               /\ machine'[h].action.result = r
               /\ ~Working(h, "clean")'
    BY <1>1, <1>6 DEF Finish, Machine, Action, Working
  <1>7. CASE ImageSucceeds(h)
    <2>1. /\ UNCHANGED <<bmis, bmhs, call>> /\ Working(h, "image") /\ Finish(h, "ok")
          /\ \A g \in Hardware : g # h => disk'[g] = disk[g]
          /\ disk'[h].data = disk[h].data /\ disk[h].data = machine[h].action.target
      BY <1>1, <1>7 DEF ImageSucceeds, Disk
    <2>. QED
      BY <1>2, <1>6, <2>1, OneMachine
  <1>8. CASE CleanSucceeds(h)
    <2>1. /\ UNCHANGED <<bmis, bmhs, call>> /\ Working(h, "clean") /\ Finish(h, "ok")
          /\ \A g \in Hardware : g # h => disk'[g] = disk[g]
          /\ disk'[h].data = Nil
      BY <1>1, <1>8 DEF CleanSucceeds, Blank
    <2>2. machine[h].runs = "agent" /\ machine[h].action.type = "clean"
      BY <1>1, <1>2, <2>1 DEF Machine, Working
    <2>. QED
      BY <1>6, <2>1, <2>2, OneMachine
  <1>9. CASE ActionFails(h)
    <2>1. UNCHANGED <<bmis, bmhs, call, disk>> /\ Finish(h, "error")
      BY <1>9 DEF ActionFails
    <2>. QED
      BY <1>2, <1>6, <2>1, OneMachine
  <1>. QED
    BY <1>3, <1>4, <1>5, <1>7, <1>8, <1>9

\* The watches deliver, and the manager restarts.
LEMMA WatchKeepsImage ==
    ASSUME TypeOK, TypeOK', HandoverInv, ImageInv, WatchBmis \/ WatchBmhs \/ RestartManager
    PROVE  ImageInv'
  <1>1. Len(bmis) \in Nat \ {0} /\ Len(bmhs) \in Nat \ {0}
    BY Versions
  <1>2. CASE WatchBmis
    <2>1. /\ Len(bmis') + 1 = Len(bmis)
          /\ \A l \in 1..Len(bmis') : bmis'[l] = bmis[l + 1]
          /\ UNCHANGED <<bmhs, call, machine, disk>>
      BY <1>1, <1>2, DeliverVersions DEF WatchBmis, TypeOK
    <2>2. Len(bmhs') + 0 = Len(bmhs) /\ \A k \in 1..Len(bmhs') : bmhs'[k] = bmhs[k + 0]
      BY <1>1, <2>1
    <2>. QED
      BY <2>1, <2>2, CachesMoveOn
  <1>3. CASE WatchBmhs
    <2>1. /\ Len(bmhs') + 1 = Len(bmhs)
          /\ \A k \in 1..Len(bmhs') : bmhs'[k] = bmhs[k + 1]
          /\ UNCHANGED <<bmis, call, machine, disk>>
      BY <1>1, <1>3, DeliverVersions DEF WatchBmhs, TypeOK
    <2>2. Len(bmis') + 0 = Len(bmis) /\ \A l \in 1..Len(bmis') : bmis'[l] = bmis[l + 0]
      BY <1>1, <2>1
    <2>. QED
      BY <2>1, <2>2, CachesMoveOn
  <1>4. CASE RestartManager
    <2>1. /\ Len(bmis') = 1 /\ bmis'[1] = bmis[Len(bmis)]
          /\ Len(bmhs') = 1 /\ bmhs'[1] = bmhs[Len(bmhs)]
          /\ call' = NoCall /\ UNCHANGED <<machine, disk>>
      BY <1>4, RelistedVersions DEF RestartManager, Stored, TypeOK
    <2>. DEFINE d == Len(bmis) - 1
                e == Len(bmhs) - 1
    <2>2. d \in Nat /\ e \in Nat
      BY <1>1
    <2>3. /\ Len(bmis') + d = Len(bmis)
          /\ \A l \in 1..Len(bmis') : bmis'[l] = bmis[l + d]
      BY <1>1, <2>1
    <2>4. /\ Len(bmhs') + e = Len(bmhs)
          /\ \A k \in 1..Len(bmhs') : bmhs'[k] = bmhs[k + e]
      BY <1>1, <2>1
    <2>. HIDE DEF d, e
    <2>. QED
      BY <2>1, <2>2, <2>3, <2>4, CachesMoveOn
  <1>. QED
    BY <1>2, <1>3, <1>4

\* Nothing is imaged, called or working when the history begins.
LEMMA ImageStarts == Init => ImageInv
  <1>. SUFFICES ASSUME Init PROVE ImageInv
    OBVIOUS
  <1>1. /\ Len(bmis) = 1 /\ bmis[1] = [i \in Instances |-> Unborn]
        /\ Len(bmhs) = 1
        /\ \A h \in Hardware : bmhs[1][h].instanceRef = Nil
    BY DEF Init, NewHardware
  <1>2. \A i \in Instances : Bmi(i) = Unborn /\ StoredBmi(i) = Unborn
    BY <1>1 DEF Bmi, StoredBmi, Cached, Stored
  <1>3. /\ ~Leaving(Unborn) /\ Unborn.imaged = "None" /\ Unborn.phase = ""
        /\ Unborn.cleaned = "None"
    BY DEF Unborn, Leaving
  <1>4. \A l \in 1..Len(bmis), i \in Instances :
          bmis[l][i] = Unborn /\ \A k \in 1..l : bmis[k][i] = Unborn
    <2>1. \A l \in 1..Len(bmis) : l = 1 /\ \A k \in 1..l : k = 1
      BY <1>1
    <2>. QED
      BY <1>1, <2>1
  <1>5. LeavingIsFinal /\ Progress /\ ImageIsThere
    BY <1>2, <1>3, <1>4 DEF LeavingIsFinal, Progress, ImageIsThere
  <1>6. HandedOnOnce
    <2>1. \A l \in 1..Len(bmhs) : \A k \in 1..l : k = 1
      BY <1>1
    <2>. QED
      BY <1>1, <2>1 DEF HandedOnOnce
  <1>7. Doings
    BY DEF Init, Doings, Working, Off, NoAction
  <1>8. CallIsTimely
    BY DEF Init, CallIsTimely, NoCall
  <1>. QED
    BY <1>5, <1>6, <1>7, <1>8 DEF ImageInv

\* As long as the provisioner reaches the agents it means, ImageInv holds: from when
\* an image is recorded until the cache shows that its instance leaves, nothing
\* touches it, although the discovery server and the provisioner act on caches and
\* late answers (server.go:129-203, provisioner.go:195-268, 466-486).
THEOREM ImagesAreKept == Spec /\ []RightAgent => []ImageInv
  <1>1. TypeOK /\ TypeOK' /\ HandoverInv /\ RightAgent /\ ImageInv /\ [Next]_vars
          => ImageInv'
    <2>1. TypeOK /\ TypeOK' /\ HandoverInv /\ RightAgent /\ ImageInv /\ Next => ImageInv'
      BY UserKeepsImage, InstanceKeepsImage, ProvisionerKeepsImage, HardwareKeepsImage,
         MachineKeepsImage, WatchKeepsImage DEF Next
    <2>2. ImageInv /\ UNCHANGED vars => ImageInv'
      <3>. SUFFICES ASSUME ImageInv, UNCHANGED vars PROVE ImageInv'
        OBVIOUS
      <3>1. UNCHANGED <<bmis, bmhs, call, machine, disk>>
        BY DEF vars
      <3>2. /\ \A h, type : Working(h, type)' = Working(h, type)
            /\ Answered("image", "ok")' = Answered("image", "ok")
            /\ \A i : Bmi(i)' = Bmi(i)
            /\ \A h : StoredBmh(h)' = StoredBmh(h)
        BY <3>1 DEF Working, Answered, Bmi, StoredBmh
      <3>3. CallIsTimely'
        BY <3>1, <3>2 DEF ImageInv, CallIsTimely
      <3>. QED
        BY <3>1, <3>3, OnlyCall
    <2>. QED
      BY <2>1, <2>2
  <1>. QED
    BY <1>1, ImageStarts, TypesHold, HandoverHolds, PTL DEF Spec

\* The image of a running instance is on its hardware.
LEMMA RunningHasImage ==
    ASSUME TypeOK, ImageInv, NEW i \in Instances, StoredBmi(i).phase = "Running"
    PROVE  StoredBmi(i).hardwareName \in Hardware /\ disk[StoredBmi(i).hardwareName].data = i
  <1>1. /\ StoredBmi(i) = bmis[Len(bmis)][i] /\ Bmi(i) = bmis[1][i]
        /\ Len(bmis) \in 1..Len(bmis) /\ 1 \in 1..Len(bmis)
    BY Versions
  <1>2. StoredBmi(i).imaged = "True" /\ ~Leaving(StoredBmi(i))
    BY <1>1 DEF ImageInv, Progress, Leaving
  <1>3. ~Leaving(Bmi(i))
    BY <1>1, <1>2 DEF ImageInv, LeavingIsFinal
  <1>. QED
    BY <1>1, <1>2, <1>3 DEF ImageInv, ImageIsThere

\* A running instance's own image is on the disk of its hardware, from when the
\* provisioner says that it runs until it is cleaned (provisioner.go:466-486).
THEOREM RunningIsOnOwnImage == Spec /\ []RightAgent => []RunningOnOwnImage
  <1>1. TypeOK /\ ImageInv => RunningOnOwnImage
    BY RunningHasImage DEF RunningOnOwnImage
  <1>. QED
    BY <1>1, TypesHold, ImagesAreKept, PTL

\* A machine that runs a system runs that of its holder, whatever the caches were
\* behind when the discovery server let it boot (server.go:129-203).
THEOREM SystemsAreHolders == Spec /\ []RightAgent => []SystemIsHolders
  <1>1. TypeOK /\ HandoverInv /\ ImageInv => SystemIsHolders
    BY ContentIsHolders DEF ImageInv, Doings, SystemIsHolders
  <1>. QED
    BY <1>1, TypesHold, HandoverHolds, ImagesAreKept, PTL

-----------------------------------------------------------------------------
\* The steps that write disks: wiping by hand, and the agent's work.
LEMMA WhoErases ==
    ASSUME Next
    PROVE  \/ \E i \in Instances : CleanByHandAndForceDelete(i)
           \/ \E h \in Hardware : ImageBegins(h) \/ ImageSucceeds(h) \/ CleanSucceeds(h)
           \/ UNCHANGED disk
  <1>1. CASE UserStep
    BY <1>1 DEF UserStep, CreateInstance, DeleteInstance, EditHardware
  <1>2. CASE InstanceStep
    BY <1>2
       DEF InstanceStep, SetPending, RemoveFinalizer, TerminateUnscheduled, Unschedule,
           InitScheduled, StartProvisioning, MarkScheduled, Schedule, UpdateBmi
  <1>3. CASE ProvisionerStep
    BY <1>3
       DEF ProvisionerStep, InitCleaned, TerminateCleaned, StartCleaning,
           TerminateUncleaned, MarkCleaned, Claim, InitNetworked, MarkNetworked,
           InitImaged, Run, AskAgent, UpdateBmi, UpdateBmh, AgentAnswers, TellAgent,
           EndCall, RecordImagingFailed, RecordImaged, RecordCleaningFailed, WriteBmi,
           ReleaseHardware, ReleaseAs
  <1>4. CASE HardwareStep
    BY <1>4
       DEF HardwareStep, SyncNoSchedule, SyncNotReady, DropInstanceRef,
           DeleteItsInstance, DeleteInstance, RemoveHardwareFinalizer, SetConditions,
           UpdateBmh
  <1>5. CASE MachineStep
    BY <1>5 DEF MachineStep, Boot, AgentReady, ActionFails
  <1>6. CASE WatchBmis \/ WatchBmhs \/ RestartManager
    BY <1>6 DEF WatchBmis, WatchBmhs, RestartManager
  <1>. QED
    BY <1>1, <1>2, <1>3, <1>4, <1>5, <1>6 DEF Next

\* An instance that has data on a disk and leaves in the cache is being deleted in
\* the stored version: it cannot be gone before its disk is clean.
LEMMA LeavingIsDeleted ==
    ASSUME TypeOK, HandoverInv, ImageInv, NEW h \in Hardware, disk[h].data # Nil,
           Leaving(Bmi(disk[h].data))
    PROVE  StoredBmi(disk[h].data).deleting
  <1>. PICK i : i = disk[h].data
    OBVIOUS
  <1>1. i \in Instances /\ StoredBmi(i).exists = "live"
    BY ContentIsHosted, HostsOne
  <1>2. /\ StoredBmi(i) = bmis[Len(bmis)][i] /\ Bmi(i) = bmis[1][i]
        /\ Len(bmis) \in 1..Len(bmis) /\ 1 \in 1..Len(bmis)
    BY Versions
  <1>3. Leaving(StoredBmi(i))
    BY <1>1, <1>2 DEF ImageInv, LeavingIsFinal
  <1>. QED
    BY <1>1, <1>3 DEF Leaving

\* No step takes the data of an instance that is not being deleted off its disk:
\* not a late clean, not another instance's image (provisioner.go:195-268,
\* manager.go:93-152).
THEOREM OnlyDeletedInstancesAreErased == Spec /\ []RightAgent => OnlyDeletedAreErased
  <1>. DEFINE Erased == \A h \in Hardware :
                LET i == disk[h].data IN
                (i # Nil /\ disk'[h].data # i) => StoredBmi(i).deleting
  <1>1. TypeOK /\ HandoverInv /\ ImageInv /\ Next => Erased
    <2>. SUFFICES ASSUME TypeOK, HandoverInv, ImageInv, Next, NEW h \in Hardware,
                         disk[h].data # Nil, disk'[h].data # disk[h].data
                  PROVE  StoredBmi(disk[h].data).deleting
      OBVIOUS
    <2>1. CASE \E i \in Instances : CleanByHandAndForceDelete(i)
      <3>1. PICK i \in Instances : CleanByHandAndForceDelete(i)
        BY <2>1
      <3>2. StoredBmi(i).deleting /\ StoredBmh(h).instanceRef = i
        BY <3>1 DEF CleanByHandAndForceDelete
      <3>. QED
        BY <3>2, ContentIsHolders
    <2>2. CASE \E g \in Hardware : ImageBegins(g) \/ ImageSucceeds(g)
      <3>1. PICK g \in Hardware : ImageBegins(g) \/ ImageSucceeds(g)
        BY <2>2
      <3>2. g = h /\ ImageBegins(h) /\ disk'[h].data = machine[h].action.target
        BY <3>1 DEF ImageBegins, ImageSucceeds, TypeOK, Disk
      <3>3. Hosts(h, machine[h].action.target)
        BY <3>2 DEF ImageBegins, HandoverInv, DisksInv, Machines
      <3>. QED
        BY <3>2, <3>3, ContentIsHosted, HostsOne
    <2>3. CASE \E g \in Hardware : CleanSucceeds(g)
      <3>1. Working(h, "clean")
        BY <2>3 DEF CleanSucceeds, TypeOK
      <3>2. Leaving(Bmi(disk[h].data))
        BY <3>1 DEF ImageInv, Doings
      <3>. QED
        BY <3>2, LeavingIsDeleted
    <2>. QED
      BY <2>1, <2>2, <2>3, WhoErases
  <1>2. UNCHANGED vars => Erased
    BY DEF vars
  <1>. QED
    BY <1>1, <1>2, TypesHold, HandoverHolds, ImagesAreKept, PTL
       DEF Spec, OnlyDeletedAreErased

-----------------------------------------------------------------------------
(***************************************************************************)
(* The lifecycle implements Tenancy: the kinds of steps that it sees.      *)
(***************************************************************************)
TenancyStep == [Tenants!TenancyNext]_Tenants!tenancyVars

\* Steps that store nothing and write no disk.
LEMMA NothingMoves ==
    ASSUME UNCHANGED <<Stored(bmis), Stored(bmhs)>>,
           \A h \in Hardware : disk'[h].data = disk[h].data
    PROVE  TenancyStep
  <1>1. /\ \A i \in Instances : Stage(StoredBmi(i))' = Stage(StoredBmi(i))
        /\ \A h \in Hardware : StoredBmh(h).instanceRef' = StoredBmh(h).instanceRef
    BY DEF StoredBmi, StoredBmh, Stage, Over
  <1>. QED
    BY <1>1 DEF TenancyStep, Tenants!tenancyVars

\* An instance is as far as its phase and its deletion say.
LEMMA SameStage ==
    ASSUME NEW b, NEW v, v.exists = b.exists, v.deleting = b.deleting, v.phase = b.phase
    PROVE  Stage(v) = Stage(b)
  BY DEF Stage, Over

LEMMA DepartingStage ==
    ASSUME TypeOK, HandoverInv, NEW i \in Instances, Departing(StoredBmi(i))
    PROVE  Stage(StoredBmi(i)) \in {"leaving", "over"}
  <1>1. StoredBmi(i).exists # "unborn"
    <2>1. StoredBmi(i) = bmis[Len(bmis)][i] /\ Len(bmis) \in 1..Len(bmis)
      BY Versions
    <2>2. StoredBmi(i).exists = "unborn" => StoredBmi(i) = Unborn
      BY <2>1 DEF HandoverInv, AssignmentInv, Aging
    <2>3. ~Departing(Unborn)
      BY DEF Departing, Unborn
    <2>. QED
      BY <2>2, <2>3
  <1>. QED
    BY <1>1 DEF Departing, Stage, Over

\* Running instances have their image on their machine, and what is on a machine is
\* of its holder, which is neither unborn nor over.
Placements ==
    /\ \A i \in Instances : StoredBmi(i).phase = "Running" =>
         \E h \in Hardware : StoredBmh(h).instanceRef = i /\ disk[h].data = i
    /\ \A h \in Hardware : disk[h].data # Nil =>
         /\ disk[h].data \in Instances
         /\ StoredBmh(h).instanceRef = disk[h].data
         /\ Stage(StoredBmi(disk[h].data)) \notin {"unborn", "over"}

LEMMA PlacementsHold ==
    ASSUME TypeOK, HandoverInv, ImageInv
    PROVE  Placements
  <1>1. ASSUME NEW i \in Instances, StoredBmi(i).phase = "Running"
        PROVE  \E h \in Hardware : StoredBmh(h).instanceRef = i /\ disk[h].data = i
    <2>. PICK h : h = StoredBmi(i).hardwareName
      OBVIOUS
    <2>1. h \in Hardware /\ disk[h].data = i
      BY <1>1, RunningHasImage
    <2>2. i # Nil
      BY ConstantsAssumption
    <2>. QED
      BY <2>1, <2>2, ContentIsHolders
  <1>2. ASSUME NEW h \in Hardware, disk[h].data # Nil
        PROVE  /\ disk[h].data \in Instances
               /\ StoredBmh(h).instanceRef = disk[h].data
               /\ Stage(StoredBmi(disk[h].data)) \notin {"unborn", "over"}
    <2>1. /\ disk[h].data \in Instances /\ StoredBmh(h).instanceRef = disk[h].data
          /\ StoredBmi(disk[h].data).exists = "live" /\ ~Over(StoredBmi(disk[h].data))
      BY <1>2, ContentIsHosted, HostsOne
    <2>. QED
      BY <2>1 DEF Stage
  <1>. QED
    BY <1>1, <1>2 DEF Placements

\* From which stage to which instances go.
Advances(s, t) ==
    \/ s = t
    \/ s = "unborn" /\ t = "waiting"
    \/ s = "waiting" /\ t = "running"
    \/ s \in {"waiting", "running"} /\ t = "leaving"
    \/ s = "leaving" /\ t = "over"

\* One instance is stored, and wiped by hand if it ends thereby.
LEMMA InstanceMoves ==
    ASSUME TypeOK, Placements', NEW i \in Instances, NEW v \in Instance,
           StoreBmi(i, v), UNCHANGED bmhs, Advances(Stage(StoredBmi(i)), Stage(v)),
           \A h \in Hardware :
              \/ disk'[h].data = disk[h].data
              \/ /\ Stage(StoredBmi(i)) = "leaving" /\ Stage(v) = "over"
                 /\ disk[h].data = i /\ disk'[h].data = Nil
    PROVE  TenancyStep
  <1>. DEFINE stage == [j \in Instances |-> Stage(StoredBmi(j))]
              holder == [h \in Hardware |-> StoredBmh(h).instanceRef]
              content == [h \in Hardware |-> disk[h].data]
  <1>1. \A j \in Instances : StoredBmi(j)' = IF j = i THEN v ELSE StoredBmi(j)
    BY StoredBmiVersions
  <1>2. \A j \in Instances :
          Stage(StoredBmi(j))' = IF j = i THEN Stage(v) ELSE Stage(StoredBmi(j))
    BY <1>1 DEF Stage, Over
  <1>3. stage' = [stage EXCEPT ![i] = Stage(v)]
    BY <1>2
  <1>4. \A h : StoredBmh(h)' = StoredBmh(h)
    BY DEF StoredBmh
  <1>5. holder' = holder
    BY <1>4
  <1>6. ASSUME Stage(v) # "over" \/ Stage(StoredBmi(i)) # "leaving"
        PROVE  content' = content
    BY <1>6
  <1>7. CASE Stage(v) = Stage(StoredBmi(i))
    BY <1>2, <1>5, <1>6, <1>7 DEF TenancyStep, Tenants!tenancyVars
  <1>8. CASE Stage(StoredBmi(i)) = "unborn" /\ Stage(v) = "waiting"
    <2>1. Tenants!Create(i)
      BY <1>3, <1>5, <1>6, <1>8 DEF Tenants!Create, Tenants!Move
    <2>. QED
      BY <2>1 DEF TenancyStep, Tenants!TenancyNext
  <1>9. CASE Stage(StoredBmi(i)) = "waiting" /\ Stage(v) = "running"
    <2>1. StoredBmi(i)'.phase = "Running"
      BY <1>1, <1>9 DEF Stage
    <2>2. \E h \in Hardware : StoredBmh(h).instanceRef = i /\ disk[h].data = i
      BY <1>4, <1>9, <2>1 DEF Placements
    <2>3. Tenants!Run(i)
      BY <1>3, <1>5, <1>6, <1>9, <2>2 DEF Tenants!Run, Tenants!Move
    <2>. QED
      BY <2>3 DEF TenancyStep, Tenants!TenancyNext
  <1>10. CASE Stage(StoredBmi(i)) \in {"waiting", "running"} /\ Stage(v) = "leaving"
    <2>1. Tenants!Leave(i)
      BY <1>3, <1>5, <1>6, <1>10 DEF Tenants!Leave, Tenants!Move
    <2>. QED
      BY <2>1 DEF TenancyStep, Tenants!TenancyNext
  <1>11. CASE Stage(StoredBmi(i)) = "leaving" /\ Stage(v) = "over"
    <2>1. \A h \in Hardware : disk'[h].data # i
      BY <1>2, <1>11, ConstantsAssumption DEF Placements
    <2>2. content' = [h \in Hardware |-> IF content[h] = i THEN Nil ELSE content[h]]
      BY <2>1
    <2>3. Tenants!End(i)
      BY <1>3, <1>5, <1>11, <2>2 DEF Tenants!End, Tenants!Move
    <2>. QED
      BY <2>3 DEF TenancyStep, Tenants!TenancyNext
  <1>. QED
    BY <1>7, <1>8, <1>9, <1>10, <1>11 DEF Advances

\* One hardware is stored: kept, taken, or given back.
LEMMA HolderMoves ==
    ASSUME TypeOK, NEW h \in Hardware, NEW w \in HardwareObject,
           StoreBmh(h, w), UNCHANGED <<bmis, disk>>,
           \/ w.instanceRef = StoredBmh(h).instanceRef
           \/ /\ w.instanceRef = Nil /\ disk[h].data = Nil
              /\ StoredBmh(h).instanceRef \in Instances
              /\ Stage(StoredBmi(StoredBmh(h).instanceRef)) \in {"leaving", "over"}
           \/ /\ w.instanceRef \in Instances
              /\ StoredBmh(h).instanceRef = Nil /\ disk[h].data = Nil
              /\ \A g \in Hardware : StoredBmh(g).instanceRef # w.instanceRef
              /\ Stage(StoredBmi(w.instanceRef)) \in {"waiting", "leaving"}
    PROVE  TenancyStep
  <1>. DEFINE stage == [j \in Instances |-> Stage(StoredBmi(j))]
              holder == [g \in Hardware |-> StoredBmh(g).instanceRef]
              content == [g \in Hardware |-> disk[g].data]
  <1>1. \A g \in Hardware :
          StoredBmh(g).instanceRef' = IF g = h THEN w.instanceRef ELSE StoredBmh(g).instanceRef
    BY StoredBmhVersions
  <1>2. holder' = [holder EXCEPT ![h] = w.instanceRef]
    BY <1>1
  <1>3. stage' = stage /\ content' = content
    <2>1. \A j : StoredBmi(j)' = StoredBmi(j)
      BY DEF StoredBmi
    <2>2. \A j \in Instances : Stage(StoredBmi(j))' = Stage(StoredBmi(j))
      BY <2>1 DEF Stage, Over
    <2>. QED
      BY <2>2
  <1>4. CASE w.instanceRef = StoredBmh(h).instanceRef
    BY <1>1, <1>3, <1>4 DEF TenancyStep, Tenants!tenancyVars
  <1>5. CASE /\ w.instanceRef = Nil /\ disk[h].data = Nil
             /\ StoredBmh(h).instanceRef \in Instances
             /\ Stage(StoredBmi(StoredBmh(h).instanceRef)) \in {"leaving", "over"}
    <2>1. Tenants!Release(h)
      BY <1>2, <1>3, <1>5, ConstantsAssumption DEF Tenants!Release
    <2>. QED
      BY <2>1 DEF TenancyStep, Tenants!TenancyNext
  <1>6. CASE /\ w.instanceRef \in Instances
             /\ StoredBmh(h).instanceRef = Nil /\ disk[h].data = Nil
             /\ \A g \in Hardware : StoredBmh(g).instanceRef # w.instanceRef
             /\ Stage(StoredBmi(w.instanceRef)) \in {"waiting", "leaving"}
    <2>1. Tenants!Take(h, w.instanceRef)
      BY <1>2, <1>3, <1>6 DEF Tenants!Take
    <2>. QED
      BY <1>6, <2>1 DEF TenancyStep, Tenants!TenancyNext
  <1>. QED
    BY <1>4, <1>5, <1>6

\* One disk is written: filled by its holder, wiped of one that leaves, or neither.
LEMMA ContentMoves ==
    ASSUME UNCHANGED <<bmis, bmhs>>, NEW h \in Hardware,
           \A g \in Hardware : g # h => disk'[g].data = disk[g].data,
           \/ disk'[h].data = disk[h].data
           \/ /\ disk'[h].data = Nil /\ disk[h].data \in Instances
              /\ Stage(StoredBmi(disk[h].data)) = "leaving"
           \/ /\ disk[h].data = Nil
              /\ disk'[h].data = StoredBmh(h).instanceRef
              /\ StoredBmh(h).instanceRef \in Instances
              /\ Stage(StoredBmi(StoredBmh(h).instanceRef)) \in {"waiting", "leaving"}
    PROVE  TenancyStep
  <1>. DEFINE stage == [j \in Instances |-> Stage(StoredBmi(j))]
              holder == [g \in Hardware |-> StoredBmh(g).instanceRef]
              content == [g \in Hardware |-> disk[g].data]
  <1>1. stage' = stage /\ holder' = holder
    <2>1. /\ \A j : StoredBmi(j)' = StoredBmi(j)
          /\ \A g : StoredBmh(g)' = StoredBmh(g)
      BY DEF StoredBmi, StoredBmh
    <2>2. \A j \in Instances : Stage(StoredBmi(j))' = Stage(StoredBmi(j))
      BY <2>1 DEF Stage, Over
    <2>. QED
      BY <2>1, <2>2
  <1>2. content' = [content EXCEPT ![h] = disk'[h].data]
    OBVIOUS
  <1>3. CASE disk'[h].data = disk[h].data
    <2>1. content' = content
      BY <1>3
    <2>. QED
      BY <1>1, <2>1 DEF TenancyStep, Tenants!tenancyVars
  <1>4. CASE /\ disk'[h].data = Nil /\ disk[h].data \in Instances
             /\ Stage(StoredBmi(disk[h].data)) = "leaving"
    <2>1. Tenants!Wipe(h)
      BY <1>1, <1>2, <1>4, ConstantsAssumption DEF Tenants!Wipe
    <2>. QED
      BY <2>1 DEF TenancyStep, Tenants!TenancyNext
  <1>5. CASE /\ disk[h].data = Nil
             /\ disk'[h].data = StoredBmh(h).instanceRef
             /\ StoredBmh(h).instanceRef \in Instances
             /\ Stage(StoredBmi(StoredBmh(h).instanceRef)) \in {"waiting", "leaving"}
    <2>1. Tenants!Fill(h)
      BY <1>1, <1>2, <1>5, ConstantsAssumption DEF Tenants!Fill
    <2>. QED
      BY <2>1 DEF TenancyStep, Tenants!TenancyNext
  <1>. QED
    BY <1>3, <1>4, <1>5

-----------------------------------------------------------------------------
(***************************************************************************)
(* Every step of the lifecycle is of one of these kinds.                   *)
(***************************************************************************)
\* An instance that is stored with another value of its own stage, disks left alone.
LEMMA UpdateMoves ==
    ASSUME TypeOK, Placements', NEW i \in Instances, NEW v \in Instance,
           UpdateBmi(i, v), Advances(Stage(Bmi(i)), Stage(v))
    PROVE  TenancyStep
  <1>1. Bmi(i) = StoredBmi(i)
    BY FreshBmi DEF UpdateBmi
  <1>. QED
    BY <1>1, InstanceMoves DEF UpdateBmi

\* Users create and delete instances, wipe machines by hand, and edit hardware.
LEMMA UserTenancy ==
    ASSUME TypeOK, HandoverInv, Placements', UserStep
    PROVE  TenancyStep
  <1>1. ASSUME NEW i \in Instances, CreateInstance(i)
        PROVE  TenancyStep
    <2>1. Stage(StoredBmi(i)) = "unborn" /\ Stage(Created) = "waiting"
      BY <1>1 DEF CreateInstance, Stage, Over, Created, Unborn
    <2>. QED
      BY <1>1, <2>1, InitialTypes, InstanceMoves DEF CreateInstance, Advances
  <1>2. ASSUME NEW i \in Instances, DeleteInstance(i)
        PROVE  TenancyStep
    <2>. PICK v : v = [StoredBmi(i) EXCEPT !.deleting = TRUE]
      OBVIOUS
    <2>1. /\ v \in Instance /\ v.exists = "live" /\ v.deleting
          /\ v.phase = StoredBmi(i).phase /\ StoredBmi(i).exists = "live"
      BY <1>2, ReadTypes DEF DeleteInstance, Instance
    <2>2. Advances(Stage(StoredBmi(i)), Stage(v))
      BY <2>1 DEF Advances, Stage, Over
    <2>. QED
      BY <1>2, <2>1, <2>2, InstanceMoves DEF DeleteInstance
  <1>3. ASSUME NEW i \in Instances, CleanByHandAndForceDelete(i)
        PROVE  TenancyStep
    <2>1. /\ StoreBmi(i, Gone) /\ UNCHANGED bmhs
          /\ StoredBmi(i).exists = "live" /\ StoredBmi(i).deleting
          /\ disk' = [h \in Hardware |-> IF StoredBmh(h).instanceRef = i
                                         THEN Blank ELSE disk[h]]
      BY <1>3 DEF CleanByHandAndForceDelete
    <2>2. /\ Stage(StoredBmi(i)) = IF Over(StoredBmi(i)) THEN "over" ELSE "leaving"
          /\ Stage(Gone) = "over"
      BY <2>1 DEF Stage, Over, Gone, Unborn
    <2>3. ASSUME NEW h \in Hardware, disk'[h].data # disk[h].data
          PROVE  /\ disk[h].data = i /\ disk'[h].data = Nil
                 /\ Stage(StoredBmi(i)) = "leaving"
      <3>1. StoredBmh(h).instanceRef = i /\ disk'[h].data = Nil /\ disk[h].data # Nil
        BY <2>1, <2>3 DEF Blank
      <3>2. disk[h].data = i /\ ~Over(StoredBmi(i))
        BY <3>1, ContentIsHosted, HostsOne
      <3>. QED
        BY <2>2, <3>1, <3>2
    <2>. QED
      BY <2>1, <2>2, <2>3, InitialTypes, InstanceMoves DEF Advances
  <1>4. ASSUME NEW h \in Hardware, EditHardware(h)
        PROVE  TenancyStep
    <2>1. PICK w : /\ StoreBmh(h, w) /\ UNCHANGED <<bmis, disk>>
                   /\ \/ w = [StoredBmh(h) EXCEPT !.canProvision = ~@]
                      \/ w = [StoredBmh(h) EXCEPT !.deleting = TRUE]
      BY <1>4 DEF EditHardware
    <2>2. w \in HardwareObject /\ w.instanceRef = StoredBmh(h).instanceRef
      BY <2>1, ReadTypes DEF HardwareObject
    <2>. QED
      BY <2>1, <2>2, HolderMoves
  <1>. QED
    BY <1>1, <1>2, <1>3, <1>4 DEF UserStep

\* The instance controller and the scheduler: an instance waits, or is over.
LEMMA InstanceTenancy ==
    ASSUME TypeOK, Placements', InstanceStep
    PROVE  TenancyStep
  <1>. SUFFICES ASSUME NEW i \in Instances,
                       \/ SetPending(i)
                       \/ RemoveFinalizer(i)
                       \/ TerminateUnscheduled(i)
                       \/ Unschedule(i)
                       \/ InitScheduled(i)
                       \/ StartProvisioning(i)
                       \/ MarkScheduled(i)
                       \/ Schedule(i)
                PROVE  TenancyStep
    BY DEF InstanceStep
  <1>. PICK b : b = Bmi(i)
    OBVIOUS
  <1>1. b \in Instance
    BY ReadTypes
  <1>2. CASE SetPending(i) \/ StartProvisioning(i) \/ TerminateUnscheduled(i)
    <2>1. PICK v : /\ UpdateBmi(i, v) /\ b.exists = "live"
                   /\ \/ \E p \in {"Pending", "Provisioning"} :
                           /\ v = [b EXCEPT !.phase = p]
                           /\ ~b.deleting /\ b.phase \in {"", "Pending"}
                      \/ v = [b EXCEPT !.phase = "Terminated"] /\ b.deleting
      BY <1>2 DEF SetPending, StartProvisioning, TerminateUnscheduled, Pending, Live, Deleting
    <2>2. /\ v \in Instance /\ v.exists = "live" /\ v.deleting = b.deleting
          /\ \/ /\ ~b.deleting /\ b.phase \in {"", "Pending"}
                /\ v.phase \in {"Pending", "Provisioning"}
             \/ b.deleting /\ v.phase = "Terminated"
      BY <1>1, <2>1 DEF Instance, Phases
    <2>3. Advances(Stage(b), Stage(v))
      BY <2>1, <2>2 DEF Advances, Stage, Over
    <2>. QED
      BY <2>1, <2>2, <2>3, UpdateMoves
  <1>3. CASE Unschedule(i) \/ InitScheduled(i) \/ MarkScheduled(i) \/ Schedule(i)
    <2>1. PICK v : /\ UpdateBmi(i, v)
                   /\ \/ v = [b EXCEPT !.scheduled = "False", !.hardwareName = Nil]
                      \/ \E c \in {"True", "False"} : v = [b EXCEPT !.scheduled = c]
                      \/ \E h \in Hardware : v = [b EXCEPT !.hardwareName = h]
      BY <1>3 DEF Unschedule, InitScheduled, MarkScheduled, Schedule, Chosen, Listed
    <2>2. /\ v \in Instance /\ v.exists = b.exists /\ v.deleting = b.deleting
          /\ v.phase = b.phase
      BY <1>1, <2>1 DEF Instance, Statuses
    <2>. QED
      BY <2>1, <2>2, SameStage, UpdateMoves DEF Advances
  <1>4. CASE RemoveFinalizer(i)
    <2>1. UpdateBmi(i, Gone) /\ b.exists = "live" /\ b.phase = "Terminated"
      BY <1>4 DEF RemoveFinalizer, Deleting
    <2>2. Stage(b) = "over" /\ Stage(Gone) = "over"
      BY <2>1 DEF Stage, Over, Gone, Unborn
    <2>. QED
      BY <2>1, <2>2, InitialTypes, UpdateMoves DEF Advances
  <1>. QED
    BY <1>2, <1>3, <1>4

\* The instance a claim is made for is on that hardware, has no other, and does not
\* run yet, even if more has happened to it than the cache shows.
LEMMA ClaimTakes ==
    ASSUME TypeOK, HandoverInv, ImageInv, NEW i \in Instances, Claim(i)
    PROVE  TenancyStep
  <1>. PICK h : h = Bmi(i).hardwareName
    OBVIOUS
  <1>. PICK w : w = [Bmh(h) EXCEPT !.instanceRef = i]
    OBVIOUS
  <1>. PICK s : s = StoredBmi(i)
    OBVIOUS
  <1>1. /\ h \in Hardware /\ Bmh(h).instanceRef = Nil /\ UpdateBmh(h, w)
        /\ On(Bmi(i), h) /\ ~Departing(Bmi(i)) /\ Bmi(i).phase = "Provisioning"
    BY DEF Claim, Provisioning, HasHardware, Listed, Its, Live, On, Placed, Over, Departing
  <1>2. w \in HardwareObject /\ w.instanceRef = i
    BY <1>1, ReadTypes DEF HardwareObject
  <1>3. StoredBmh(h).instanceRef = Nil
    BY <1>1, FreshBmh DEF UpdateBmh
  <1>4. disk[h].data = Nil
    BY <1>1, <1>3, ContentIsHolders
  <1>5. ~Over(s) /\ On(s, h)
    <2>1. ~Over(s)
      BY <1>1 DEF HandoverInv, AssignmentInv, Untouched
    <2>. QED
      BY <1>1, <2>1, StoredFollowsCached DEF HandoverInv, AssignmentInv, Follows, On
  <1>6. ASSUME NEW g \in Hardware, StoredBmh(g).instanceRef = i
        PROVE  FALSE
    <2>1. On(s, g)
      <3>1. StoredBmh(g) = bmhs[Len(bmhs)][g] /\ Len(bmhs) \in 1..Len(bmhs) /\ i # Nil
        BY Versions, ConstantsAssumption
      <3>. QED
        BY <1>5, <1>6, <3>1 DEF HandoverInv, AssignmentInv, References
    <2>. QED
      BY <1>3, <1>5, <1>6, <2>1, ConstantsAssumption DEF On
  <1>7. Stage(s) \in {"waiting", "leaving"}
    <2>1. s.phase # "Running"
      BY <1>4, <1>5, RunningHasImage, ConstantsAssumption DEF On
    <2>. QED
      BY <1>5, <2>1 DEF Stage, On, Placed
  <1>. QED
    BY <1>1, <1>2, <1>3, <1>4, <1>6, <1>7, HolderMoves DEF UpdateBmh

\* The provisioner: an instance runs when its image is there, and is over when
\* nothing of it is left; a machine is given back by an instance that leaves.
LEMMA ProvisionerTenancy ==
    ASSUME TypeOK, HandoverInv, ImageInv, Placements', ProvisionerStep
    PROVE  TenancyStep
  <1>1. ASSUME NEW i \in Instances,
               \/ InitCleaned(i)
               \/ TerminateCleaned(i)
               \/ StartCleaning(i)
               \/ TerminateUncleaned(i)
               \/ MarkCleaned(i)
               \/ InitNetworked(i)
               \/ MarkNetworked(i)
               \/ InitImaged(i)
               \/ Run(i)
        PROVE  TenancyStep
    <2>. PICK b : b = Bmi(i)
      OBVIOUS
    <2>1. b \in Instance
      BY ReadTypes
    <2>2. PICK v : /\ UpdateBmi(i, v)
                   /\ \/ \E c \in {"True", "False"} : \/ v = [b EXCEPT !.cleaned = c]
                                                      \/ v = [b EXCEPT !.networked = c]
                      \/ v = [b EXCEPT !.imaged = "False"]
                      \/ /\ b.exists = "live" /\ b.deleting /\ ~Over(b)
                         /\ \/ v = [b EXCEPT !.phase = "Terminating", !.agentInfo = Nil]
                            \/ \E p \in {"Cleaning", "Terminating"} :
                                 v = [b EXCEPT !.phase = p]
                      \/ /\ b.exists = "live" /\ ~b.deleting /\ b.phase = "Provisioning"
                         /\ v = [b EXCEPT !.phase = "Running", !.agentInfo = Nil]
      BY <1>1
         DEF InitCleaned, TerminateCleaned, StartCleaning, TerminateUncleaned, MarkCleaned,
             InitNetworked, MarkNetworked, InitImaged, Run, Releasing, Cleaning, Installing,
             Provisioning, Live, Deleting, Over
    <2>3. CASE \/ \E c \in {"True", "False"} : \/ v = [b EXCEPT !.cleaned = c]
                                               \/ v = [b EXCEPT !.networked = c]
               \/ v = [b EXCEPT !.imaged = "False"]
      <3>1. /\ v \in Instance /\ v.exists = b.exists /\ v.deleting = b.deleting
            /\ v.phase = b.phase
        BY <2>1, <2>3 DEF Instance, Statuses
      <3>. QED
        BY <2>2, <3>1, SameStage, UpdateMoves DEF Advances
    <2>4. CASE /\ b.exists = "live" /\ b.deleting /\ ~Over(b)
               /\ \/ v = [b EXCEPT !.phase = "Terminating", !.agentInfo = Nil]
                  \/ \E p \in {"Cleaning", "Terminating"} : v = [b EXCEPT !.phase = p]
      <3>1. /\ v \in Instance /\ v.exists = "live" /\ v.deleting
            /\ v.phase \in {"Cleaning", "Terminating"}
        BY <2>1, <2>4 DEF Instance, Phases
      <3>2. Stage(b) = "leaving" /\ Stage(v) \in {"leaving", "over"}
        BY <2>4, <3>1 DEF Stage, Over
      <3>. QED
        BY <2>2, <3>1, <3>2, UpdateMoves DEF Advances
    <2>5. CASE /\ b.exists = "live" /\ ~b.deleting /\ b.phase = "Provisioning"
               /\ v = [b EXCEPT !.phase = "Running", !.agentInfo = Nil]
      <3>1. v \in Instance /\ v.exists = "live" /\ ~v.deleting /\ v.phase = "Running"
        BY <2>1, <2>5 DEF Instance, Phases
      <3>2. Stage(b) = "waiting" /\ Stage(v) = "running"
        BY <2>5, <3>1 DEF Stage, Over
      <3>. QED
        BY <2>2, <3>1, <3>2, UpdateMoves DEF Advances
    <2>. QED
      BY <2>2, <2>3, <2>4, <2>5
  <1>2. ASSUME \/ \E i \in Instances : AskAgent(i)
               \/ \E h \in Hardware : AgentAnswers(h) \/ TellAgent(h)
               \/ EndCall
        PROVE  TenancyStep
    BY <1>2, NothingMoves DEF AskAgent, AgentAnswers, TellAgent, EndCall
  <1>3. ASSUME RecordImagingFailed \/ RecordImaged \/ RecordCleaningFailed
        PROVE  TenancyStep
    <2>. PICK i : i = call.inst
      OBVIOUS
    <2>. PICK b : b = call.bmi
      OBVIOUS
    <2>1. /\ i \in Instances /\ b \in Instance /\ b = StoredBmi(i)
          /\ UNCHANGED <<bmhs, disk>>
      BY <1>3
         DEF RecordImagingFailed, RecordImaged, RecordCleaningFailed, WriteBmi, Answered,
             HandoverInv, AssignmentInv, CallIsSound, TypeOK, Call
    <2>2. PICK v : /\ StoreBmi(i, v)
                   /\ \/ \E c \in {"True", "Error"} : v = [b EXCEPT !.imaged = c]
                      \/ v = [b EXCEPT !.cleaned = "Error"]
      BY <1>3 DEF RecordImagingFailed, RecordImaged, RecordCleaningFailed, WriteBmi
    <2>3. /\ v \in Instance /\ v.exists = b.exists /\ v.deleting = b.deleting
          /\ v.phase = b.phase
      BY <2>1, <2>2 DEF Instance, Statuses
    <2>. QED
      BY <2>1, <2>2, <2>3, SameStage, InstanceMoves DEF Advances
  <1>4. CASE ReleaseHardware
    <2>. PICK h : h = call.bmi.hardwareName
      OBVIOUS
    <2>. PICK w : w = [call.bmh EXCEPT !.instanceRef = Nil]
      OBVIOUS
    <2>1. /\ StoreBmh(h, w) /\ UNCHANGED <<bmis, disk>> /\ call.bmh = StoredBmh(h)
      BY <1>4 DEF ReleaseHardware, ReleaseAs
    <2>2. /\ h \in Hardware /\ disk[h].data = Nil /\ call.inst \in Instances
          /\ call.bmh.instanceRef = call.inst /\ Departing(Bmi(call.inst))
      BY <1>4 DEF ReleaseHardware, ReleaseAs, HandoverInv, AssignmentInv, CallIsSound,
                  DisksInv, AnswerIsGood, Answered
    <2>3. w \in HardwareObject /\ w.instanceRef = Nil
      BY DEF TypeOK, Call, HardwareObject
    <2>4. Departing(StoredBmi(call.inst))
      BY <2>2, StoredFollowsCached DEF HandoverInv, AssignmentInv, Follows
    <2>. QED
      BY <2>1, <2>2, <2>3, <2>4, DepartingStage, HolderMoves
  <1>. QED
    BY <1>1, <1>2, <1>3, <1>4, ClaimTakes DEF ProvisionerStep

\* The hardware controller drops the reference to an instance that is gone.
LEMMA HardwareTenancy ==
    ASSUME TypeOK, HandoverInv, Placements', HardwareStep
    PROVE  TenancyStep
  <1>1. ASSUME NEW h \in Hardware,
               \/ SyncNoSchedule(h)
               \/ SyncNotReady(h)
               \/ SetConditions(h)
               \/ RemoveHardwareFinalizer(h)
        PROVE  TenancyStep
    <2>1. PICK w : /\ UpdateBmh(h, w)
                   /\ \/ \E e \in Taints : w = [Bmh(h) EXCEPT !.taints = Toggle(@, e)]
                      \/ \E r \in Verdicts : w = [Bmh(h) EXCEPT !.ready = r]
                      \/ w = RemovedHardware /\ Bmh(h).instanceRef = Nil
      BY <1>1 DEF SyncNoSchedule, SyncNotReady, SetConditions, RemoveHardwareFinalizer, Taints
    <2>2. w \in HardwareObject /\ w.instanceRef = Bmh(h).instanceRef
      <3>1. RemovedHardware \in HardwareObject /\ RemovedHardware.instanceRef = Nil
        BY InitialTypes DEF RemovedHardware, NewHardware
      <3>2. CASE \E e \in Taints : w = [Bmh(h) EXCEPT !.taints = Toggle(@, e)]
        BY <3>2, ReadTypes DEF HardwareObject, Toggle
      <3>3. CASE \E r \in Verdicts : w = [Bmh(h) EXCEPT !.ready = r]
        BY <3>3, ReadTypes, ConstantsAssumption DEF HardwareObject
      <3>. QED
        BY <2>1, <3>1, <3>2, <3>3
    <2>3. Bmh(h) = StoredBmh(h)
      BY <2>1, FreshBmh DEF UpdateBmh
    <2>. QED
      BY <2>1, <2>2, <2>3, HolderMoves DEF UpdateBmh
  <1>2. ASSUME NEW h \in Hardware, DropInstanceRef(h)
        PROVE  TenancyStep
    <2>. PICK w : w = [Bmh(h) EXCEPT !.instanceRef = Nil]
      OBVIOUS
    <2>1. UpdateBmh(h, w) /\ w \in HardwareObject /\ w.instanceRef = Nil
      BY <1>2, ReadTypes DEF DropInstanceRef, HardwareObject
    <2>2. disk[h].data = Nil
      BY <1>2, DroppedIsGone, ContentIsHolders DEF HandoverInv
    <2>3. /\ StoredBmh(h).instanceRef \in Instances
          /\ Stage(StoredBmi(StoredBmh(h).instanceRef)) = "over"
      BY <1>2, DroppedIsGone DEF HandoverInv, Stage, Over
    <2>. QED
      BY <2>1, <2>2, <2>3, HolderMoves DEF UpdateBmh
  <1>3. ASSUME NEW h \in Hardware, DeleteItsInstance(h)
        PROVE  TenancyStep
    BY <1>3, UserTenancy DEF DeleteItsInstance, UserStep
  <1>. QED
    BY <1>1, <1>2, <1>3 DEF HardwareStep

\* Agents fill the machine of their holder before it runs, and wipe who leaves.
LEMMA MachineTenancy ==
    ASSUME TypeOK, HandoverInv, ImageInv, Placements', MachineStep
    PROVE  TenancyStep
  <1>1. ASSUME NEW h \in Hardware, Boot(h) \/ ActionFails(h)
        PROVE  TenancyStep
    BY <1>1, NothingMoves DEF Boot, ActionFails
  <1>2. ASSUME NEW h \in Hardware, AgentReady(h)
        PROVE  TenancyStep
    <2>. PICK i : i = Bmh(h).instanceRef
      OBVIOUS
    <2>. PICK v : v = [Bmi(i) EXCEPT !.agentInfo = machine[h].ip]
      OBVIOUS
    <2>1. /\ i \in Instances /\ Bmi(i) = StoredBmi(i) /\ StoreBmi(i, v)
          /\ UNCHANGED <<bmhs, disk>>
      BY <1>2, FreshBmi DEF AgentReady, ItsInstance, RefFound
    <2>2. Bmi(i) \in Instance /\ machine[h].ip \in Addresses \cup {Nil}
      BY <2>1, ReadTypes DEF TypeOK, Machine
    <2>3. /\ v \in Instance /\ v.exists = Bmi(i).exists
          /\ v.deleting = Bmi(i).deleting /\ v.phase = Bmi(i).phase
      BY <2>2 DEF Instance
    <2>. QED
      BY <2>1, <2>3, SameStage, InstanceMoves DEF Advances
  <1>3. ASSUME NEW h \in Hardware, ImageBegins(h)
        PROVE  TenancyStep
    <2>. PICK i : i = machine[h].action.target
      OBVIOUS
    <2>1. /\ UNCHANGED <<bmis, bmhs>>
          /\ \A g \in Hardware : disk'[g].data = IF g = h THEN i ELSE disk[g].data
      BY <1>3 DEF ImageBegins, TypeOK
    <2>2. i \in Instances /\ Hosts(h, i)
      BY <1>3 DEF ImageBegins, HandoverInv, DisksInv, Machines
    <2>3. StoredBmh(h).instanceRef = i /\ disk[h].data \in {Nil, i}
      BY <2>2, HostsOne, ContentIsHosted
    <2>4. disk[h].data = Nil => Stage(StoredBmi(i)) \in {"waiting", "leaving"}
      <3>1. disk[h].data = Nil => StoredBmi(i).phase # "Running"
        BY <2>2, HostsOne, RunningHasImage, ConstantsAssumption
      <3>. QED
        BY <2>2, <3>1, HostsOne DEF Stage
    <2>. QED
      BY <2>1, <2>2, <2>3, <2>4, ContentMoves
  <1>4. ASSUME NEW h \in Hardware, ImageSucceeds(h)
        PROVE  TenancyStep
    <2>1. UNCHANGED <<bmis, bmhs>> /\ \A g \in Hardware : disk'[g].data = disk[g].data
      BY <1>4 DEF ImageSucceeds, TypeOK, Disk
    <2>. QED
      BY <2>1, NothingMoves
  <1>5. ASSUME NEW h \in Hardware, CleanSucceeds(h)
        PROVE  TenancyStep
    <2>1. /\ UNCHANGED <<bmis, bmhs>> /\ disk'[h].data = Nil /\ Working(h, "clean")
          /\ \A g \in Hardware : g # h => disk'[g].data = disk[g].data
      BY <1>5 DEF CleanSucceeds, TypeOK, Blank
    <2>2. disk[h].data # Nil =>
            disk[h].data \in Instances /\ Stage(StoredBmi(disk[h].data)) = "leaving"
      <3>. SUFFICES ASSUME disk[h].data # Nil
                    PROVE  /\ disk[h].data \in Instances
                           /\ Stage(StoredBmi(disk[h].data)) = "leaving"
        OBVIOUS
      <3>1. StoredBmi(disk[h].data).deleting
        BY <2>1, LeavingIsDeleted DEF ImageInv, Doings
      <3>2. /\ disk[h].data \in Instances
            /\ StoredBmi(disk[h].data).exists = "live" /\ ~Over(StoredBmi(disk[h].data))
        BY ContentIsHosted, HostsOne
      <3>. QED
        BY <3>1, <3>2 DEF Stage
    <2>. QED
      BY <2>1, <2>2, ContentMoves
  <1>. QED
    BY <1>1, <1>2, <1>3, <1>4, <1>5 DEF MachineStep

LEMMA WatchTenancy ==
    ASSUME TypeOK, WatchBmis \/ WatchBmhs \/ RestartManager
    PROVE  TenancyStep
  <1>1. UNCHANGED <<Stored(bmis), Stored(bmhs), disk>>
    BY DeliverVersions, RelistedVersions
       DEF TypeOK, WatchBmis, WatchBmhs, RestartManager
  <1>. QED
    BY <1>1, NothingMoves

\* As long as the provisioner reaches the agents it means, the lifecycle implements
\* Tenancy: an instance takes one machine at most, runs only on its own image, is erased only
\* when it leaves and leaves nothing behind (provisioner.go:115-323, 466-486,
\* scheduler.go:82-150, baremetalhardware_controller.go:94-139, 244-272).
THEOREM LifecycleKeepsTenancy == Spec /\ []RightAgent => TenancyIsKept
  <1>1. Init => Tenants!TenancyInit
    <2>. SUFFICES ASSUME Init PROVE Tenants!TenancyInit
      OBVIOUS
    <2>1. /\ \A i \in Instances : StoredBmi(i) = Unborn
          /\ \A h \in Hardware : StoredBmh(h).instanceRef = Nil /\ disk[h].data = Nil
      BY DEF Init, StoredBmi, StoredBmh, Stored, NewHardware, Blank
    <2>2. Stage(Unborn) = "unborn"
      BY DEF Stage, Unborn
    <2>. QED
      BY <2>1, <2>2 DEF Tenants!TenancyInit
  <1>2. TypeOK /\ HandoverInv /\ ImageInv => Placements
    BY PlacementsHold
  <1>3. TypeOK /\ HandoverInv /\ ImageInv /\ Placements' /\ [Next]_vars => TenancyStep
    BY UserTenancy, InstanceTenancy, ProvisionerTenancy, HardwareTenancy,
       MachineTenancy, WatchTenancy, NothingMoves DEF Next, vars
  <1>. QED
    BY <1>1, <1>2, <1>3, TypesHold, HandoverHolds, ImagesAreKept, PTL
       DEF Spec, TenancyIsKept, Tenants!TenancySpec, TenancyStep

-----------------------------------------------------------------------------
(***************************************************************************)
(* What follows from the steps of Tenancy, whichever actions take them.    *)
(***************************************************************************)
LEMMA TenancyKeepsInv ==
    ASSUME TypeOK, TypeOK', Tenants!TenancyInv, TenancyStep
    PROVE  Tenants!TenancyInv'
  <1>. DEFINE stage(i) == Stage(StoredBmi(i))
              holder(h) == StoredBmh(h).instanceRef
              content(h) == disk[h].data
              Held == \A h \in Hardware : content(h) # Nil =>
                        /\ holder(h) = content(h)
                        /\ stage(content(h)) \in {"waiting", "running", "leaving"}
              Apart == \A g, h \in Hardware :
                         holder(g) # Nil /\ holder(g) = holder(h) => g = h
              OnImage == \A i \in Instances : stage(i) = "running" =>
                           \E h \in Hardware : holder(h) = i /\ content(h) = i
              Kept(i) == stage(i)' = stage(i)
              SameHolder(h) == holder(h)' = holder(h)
              SameContent(h) == content(h)' = content(h)
              stages == [i \in Instances |-> stage(i)]
              holders == [h \in Hardware |-> holder(h)]
              contents == [h \in Hardware |-> content(h)]
  <1>1. \A h \in Hardware : content(h) \in Instances \cup {Nil} /\ content(h)' \in Instances \cup {Nil}
    BY ReadTypes DEF TypeOK, HardwareObject, Disk
  <1>2. Held /\ Apart /\ OnImage
    BY <1>1 DEF Tenants!TenancyInv
  <1>3. Held' /\ Apart' /\ OnImage' => Tenants!TenancyInv'
    BY <1>1 DEF Tenants!TenancyInv
  <1>4. ASSUME stages' = stages
        PROVE  \A i \in Instances : Kept(i)
    BY <1>4
  <1>5. ASSUME holders' = holders
        PROVE  \A h \in Hardware : SameHolder(h)
    BY <1>5
  <1>6. ASSUME contents' = contents
        PROVE  \A h \in Hardware : SameContent(h)
    BY <1>6
  <1>7. ASSUME NEW i \in Instances, NEW from, NEW to, Tenants!Move(i, from, to)
        PROVE  /\ stage(i) \in from /\ stage(i)' = to
               /\ \A j \in Instances \ {i} : Kept(j)
    <2>1. stages' = [stages EXCEPT ![i] = to] /\ stages[i] \in from
      BY <1>7 DEF Tenants!Move
    <2>. HIDE DEF stage
    <2>. QED
      BY <2>1
  <1>8. ASSUME NEW h \in Hardware, NEW i \in Instances, Tenants!Take(h, i)
        PROVE  /\ \A g \in Hardware : holder(g) # i
               /\ holder(h) = Nil /\ content(h) = Nil /\ holder(h)' = i
               /\ \A g \in Hardware \ {h} : SameHolder(g)
    <2>1. /\ holders' = [holders EXCEPT ![h] = i]
          /\ \A g \in Hardware : holders[g] # i
          /\ holders[h] = Nil /\ contents[h] = Nil
      BY <1>8 DEF Tenants!Take
    <2>. HIDE DEF holder, content
    <2>. QED
      BY <2>1
  <1>9. ASSUME NEW h \in Hardware, Tenants!Release(h)
        PROVE  /\ content(h) = Nil /\ holder(h)' = Nil
               /\ \A g \in Hardware \ {h} : SameHolder(g)
    <2>1. holders' = [holders EXCEPT ![h] = Nil] /\ contents[h] = Nil
      BY <1>9 DEF Tenants!Release
    <2>. HIDE DEF holder, content
    <2>. QED
      BY <2>1
  <1>10. ASSUME NEW h \in Hardware, Tenants!Fill(h)
         PROVE  /\ holder(h) # Nil /\ stages[holder(h)] \in {"waiting", "leaving"}
                /\ content(h) = Nil /\ content(h)' = holder(h)
                /\ \A g \in Hardware \ {h} : SameContent(g)
    <2>1. /\ contents' = [contents EXCEPT ![h] = holders[h]] /\ contents[h] = Nil
          /\ holders[h] # Nil /\ stages[holders[h]] \in {"waiting", "leaving"}
      BY <1>10 DEF Tenants!Fill
    <2>. HIDE DEF holder, content, stage
    <2>. QED
      BY <2>1
  <1>11. ASSUME NEW h \in Hardware, Tenants!Wipe(h)
         PROVE  /\ content(h) # Nil /\ stages[content(h)] = "leaving" /\ content(h)' = Nil
                /\ \A g \in Hardware \ {h} : SameContent(g)
    <2>1. /\ contents' = [contents EXCEPT ![h] = Nil] /\ contents[h] # Nil
          /\ stages[contents[h]] = "leaving"
      BY <1>11 DEF Tenants!Wipe
    <2>. HIDE DEF content, stage
    <2>. QED
      BY <2>1
  <1>12. ASSUME NEW i \in Instances, Tenants!End(i)
         PROVE  \A h \in Hardware : content(h)' = IF content(h) = i THEN Nil ELSE content(h)
    <2>1. contents' = [h \in Hardware |-> IF contents[h] = i THEN Nil ELSE contents[h]]
      BY <1>12 DEF Tenants!End
    <2>. HIDE DEF content
    <2>. QED
      BY <2>1
  <1>13. \A h \in Hardware : holder(h) \in Instances \cup {Nil}
    BY ReadTypes DEF HardwareObject
  <1>14. ASSUME NEW i \in Instances, Tenants!Create(i) \/ Tenants!Run(i) \/ Tenants!Leave(i)
         PROVE  Held' /\ Apart' /\ OnImage'
    <2>1. /\ \A h \in Hardware : SameHolder(h) /\ SameContent(h)
          /\ \A j \in Instances \ {i} : Kept(j)
      BY <1>5, <1>6, <1>7, <1>14 DEF Tenants!Create, Tenants!Run, Tenants!Leave
    <2>2. \/ stage(i) = "unborn" /\ stage(i)' = "waiting"
          \/ stage(i) = "waiting" /\ stage(i)' = "running"
          \/ stage(i)' = "leaving"
      BY <1>7, <1>14 DEF Tenants!Create, Tenants!Run, Tenants!Leave
    <2>3. stage(i)' = "running" => \E h \in Hardware : holder(h) = i /\ content(h) = i
      <3>1. CASE Tenants!Run(i)
        BY <3>1 DEF Tenants!Run
      <3>2. CASE Tenants!Create(i) \/ Tenants!Leave(i)
        BY <3>2, <1>7 DEF Tenants!Create, Tenants!Leave
      <3>. QED
        BY <3>1, <3>2, <1>14
    <2>. HIDE DEF stage, holder, content
    <2>. QED
      BY <1>1, <1>2, <2>1, <2>2, <2>3
  <1>15. ASSUME NEW i \in Instances, Tenants!End(i)
         PROVE  Held' /\ Apart' /\ OnImage'
    <2>1. /\ \A h \in Hardware : SameHolder(h)
          /\ \A j \in Instances \ {i} : Kept(j)
          /\ stage(i)' = "over"
      BY <1>5, <1>7, <1>15 DEF Tenants!End
    <2>2. \A h \in Hardware : content(h)' = IF content(h) = i THEN Nil ELSE content(h)
      BY <1>12, <1>15
    <2>. HIDE DEF stage, holder, content
    <2>. QED
      BY <1>1, <1>2, <2>1, <2>2
  <1>16. ASSUME NEW h \in Hardware, NEW i \in Instances, Tenants!Take(h, i)
         PROVE  Held' /\ Apart' /\ OnImage'
    <2>1. /\ \A g \in Hardware : SameContent(g)
          /\ \A j \in Instances : Kept(j)
      BY <1>4, <1>6, <1>16 DEF Tenants!Take
    <2>2. /\ \A g \in Hardware : holder(g) # i
          /\ holder(h) = Nil /\ content(h) = Nil /\ holder(h)' = i
          /\ \A g \in Hardware \ {h} : SameHolder(g)
      BY <1>8, <1>16
    <2>. HIDE DEF stage, holder, content
    <2>3. Held'
      BY <1>1, <1>2, <2>1, <2>2
    <2>4. Apart'
      BY <1>2, <2>2
    <2>5. OnImage'
      <3>1. ASSUME NEW j \in Instances, NEW g \in Hardware, holder(g) = j, content(g) = j
            PROVE  holder(g)' = j /\ content(g)' = j
        BY <3>1, <2>1, <2>2, ConstantsAssumption
      <3>. QED
        BY <3>1, <1>2, <2>1
    <2>. QED
      BY <2>3, <2>4, <2>5
  <1>17. ASSUME NEW h \in Hardware, Tenants!Fill(h)
         PROVE  Held' /\ Apart' /\ OnImage'
    <2>1. /\ \A g \in Hardware : SameHolder(g)
          /\ \A j \in Instances : Kept(j)
      BY <1>4, <1>5, <1>17 DEF Tenants!Fill
    <2>2. /\ holder(h) # Nil /\ stages[holder(h)] \in {"waiting", "leaving"}
          /\ content(h) = Nil /\ content(h)' = holder(h)
          /\ \A g \in Hardware \ {h} : SameContent(g)
      BY <1>10, <1>17
    <2>. HIDE DEF stage, holder, content
    <2>. QED
      BY <1>1, <1>2, <1>13, <2>1, <2>2
  <1>18. ASSUME NEW h \in Hardware, Tenants!Wipe(h)
         PROVE  Held' /\ Apart' /\ OnImage'
    <2>1. /\ \A g \in Hardware : SameHolder(g)
          /\ \A j \in Instances : Kept(j)
      BY <1>4, <1>5, <1>18 DEF Tenants!Wipe
    <2>2. /\ content(h) # Nil /\ stages[content(h)] = "leaving" /\ content(h)' = Nil
          /\ \A g \in Hardware \ {h} : SameContent(g)
      BY <1>11, <1>18
    <2>. HIDE DEF stage, holder, content
    <2>. QED
      BY <1>1, <1>2, <2>1, <2>2
  <1>19. ASSUME NEW h \in Hardware, Tenants!Release(h)
         PROVE  Held' /\ Apart' /\ OnImage'
    <2>1. /\ \A g \in Hardware : SameContent(g)
          /\ \A j \in Instances : Kept(j)
      BY <1>4, <1>6, <1>19 DEF Tenants!Release
    <2>2. /\ content(h) = Nil /\ holder(h)' = Nil
          /\ \A g \in Hardware \ {h} : SameHolder(g)
      BY <1>9, <1>19
    <2>. HIDE DEF stage, holder, content
    <2>. QED
      BY <1>1, <1>2, <2>1, <2>2
  <1>20. ASSUME UNCHANGED Tenants!tenancyVars
         PROVE  Held' /\ Apart' /\ OnImage'
    <2>1. /\ \A g \in Hardware : SameContent(g) /\ SameHolder(g)
          /\ \A j \in Instances : Kept(j)
      BY <1>4, <1>5, <1>6, <1>20 DEF Tenants!tenancyVars
    <2>. HIDE DEF stage, holder, content
    <2>. QED
      BY <1>1, <1>2, <2>1
  <1>. QED
    BY <1>3, <1>14, <1>15, <1>16, <1>17, <1>18, <1>19, <1>20
       DEF TenancyStep, Tenants!TenancyNext

\* As long as the provisioner reaches the agents it means, nobody's data but the
\* holder's is on a machine or outlives its instance, no instance ever has two machines, and who runs
\* has its image, all of it because the lifecycle implements Tenancy
\* (provisioner.go:115-323, 466-486, baremetalhardware_controller.go:94-139).
THEOREM TenantsAreApart == Spec /\ []RightAgent => []Tenants!TenancyInv
  <1>1. Tenants!TenancyInit => Tenants!TenancyInv
    BY DEF Tenants!TenancyInit, Tenants!TenancyInv
  <1>2. TypeOK /\ TypeOK' /\ Tenants!TenancyInv /\ TenancyStep => Tenants!TenancyInv'
    BY TenancyKeepsInv
  <1>. QED
    BY <1>1, <1>2, TypesHold, LifecycleKeepsTenancy, PTL
       DEF TenancyIsKept, Tenants!TenancySpec, TenancyStep
=============================================================================
