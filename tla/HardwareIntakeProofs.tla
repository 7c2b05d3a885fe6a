------------------------ MODULE HardwareIntakeProofs ------------------------
(***************************************************************************)
(* Hardware that is ready to be provisioned is discovered hardware, and    *)
(* what is discovered stays what it is: for any machines, hardware,        *)
(* requests and reports, and caches any number of changes behind.          *)
(***************************************************************************)
EXTENDS HardwareIntake, WatchStreamProofs

\* What every version of an object satisfies, cached, stored or on its way: hardware
\* is known before the condition says so, and the taint is held until both.
Sound(o) ==
    o # Nil =>
      /\ o.hardwareSet = "Valid" => o.hardware # Nil
      /\ (~o.notReady /\ o.hardwareSet # "unset") => o.hardware # Nil
      /\ (o.hardware # Nil /\ ~o.hardware.valid) => o.notReady

\* A request that is served is about a machine.
Served == \A r \in Requests :
    request[r].at # "free" => request[r].machine \in Machines /\ request[r].hardware \in Reports

IntakeInv ==
    /\ IntakeTypeOK
    /\ Served
    /\ \A k \in 1..Len(bmhs), h \in Hardware : Sound(bmhs[k][h])

\* An object that has its hardware keeps it while it is there.
Keeps(o, v) == (o # Nil /\ o.hardware # Nil) => v = Nil \/ v.hardware = o.hardware

HardwareVersion == [Hardware -> HardwareObject \cup {Nil}]

DiscoveryVersion == [Machines -> Discovery \cup {Nil}]

-----------------------------------------------------------------------------
\* Streams begin and remain of their types, and are never empty.
LEMMA Streams ==
    ASSUME IntakeTypeOK
    PROVE  /\ bmhs \in Seq(HardwareVersion) /\ bmhs # <<>>
           /\ bmds \in Seq(DiscoveryVersion) /\ bmds # <<>>
           /\ \A h \in Hardware :
                /\ Bmh(h) \in HardwareObject \cup {Nil}
                /\ StoredBmh(h) \in HardwareObject \cup {Nil}
           /\ \A m \in Machines :
                /\ Bmd(m) \in Discovery \cup {Nil}
                /\ StoredBmd(m) \in Discovery \cup {Nil}
  <1>1. bmhs \in Seq(HardwareVersion) /\ bmds \in Seq(DiscoveryVersion)
    BY DEF IntakeTypeOK, HardwareVersion, DiscoveryVersion
  <1>2. bmhs # <<>> /\ bmds # <<>>
    BY IntakeAssumption DEF IntakeTypeOK
  <1>3. /\ Cached(bmhs) \in HardwareVersion /\ Stored(bmhs) \in HardwareVersion
        /\ Cached(bmds) \in DiscoveryVersion /\ Stored(bmds) \in DiscoveryVersion
    BY <1>1, <1>2, StreamVersions
  <1>. QED
    BY <1>1, <1>2, <1>3 DEF Bmh, StoredBmh, Bmd, StoredBmd, HardwareVersion, DiscoveryVersion

\* What is read is a version.
LEMMA ReadsAreSound ==
    ASSUME IntakeInv, NEW h \in Hardware
    PROVE  Sound(Bmh(h)) /\ Sound(StoredBmh(h))
  <1>1. 1 \in 1..Len(bmhs) /\ Len(bmhs) \in 1..Len(bmhs)
    BY Streams, StreamVersions DEF IntakeInv
  <1>. QED
    BY <1>1 DEF IntakeInv, Bmh, StoredBmh, Cached, Stored

\* Storing hardware keeps the invariant, if the object does.
LEMMA StoreHardware ==
    ASSUME IntakeInv, NEW h \in Hardware, NEW v \in HardwareObject \cup {Nil}, Sound(v),
           StoreBmh(h, v), bmds' = bmds, request' = request, queue' \in SUBSET Hardware
    PROVE  /\ IntakeInv'
           /\ \A g \in Hardware : StoredBmh(g)' = IF g = h THEN v ELSE StoredBmh(g)
  <1>. DEFINE V == HardwareVersion
  <1>1. /\ bmhs \in Seq(V) /\ bmhs # <<>>
        /\ bmhs' = Put(bmhs, h, v)
        /\ Len(bmhs) \in 1..Lag /\ Len(bmhs) \in 1..(Lag + 1) /\ Lag \in Nat
    BY Streams, IntakeAssumption DEF IntakeInv, IntakeTypeOK, StoreBmh
  <1>2. Stored(bmhs) \in V /\ Changed(bmhs, h, v) \in V /\ DOMAIN Stored(bmhs) = Hardware
    <2>1. Stored(bmhs) \in [Hardware -> HardwareObject \cup {Nil}]
      BY <1>1, StreamVersions DEF HardwareVersion
    <2>. QED
      BY <2>1 DEF Changed, HardwareVersion
  <1>. HIDE DEF V
  <1>3. /\ bmhs' \in Seq(V) /\ bmhs' # <<>>
        /\ \A k \in 1..Len(bmhs') :
             \/ k \in 1..Len(bmhs) /\ bmhs'[k] = bmhs[k]
             \/ k = Len(bmhs') /\ bmhs'[k] = Stored(bmhs')
    BY <1>1, <1>2, PutVersions
  <1>4. Len(bmhs') \in 1..(Lag + 1)
    BY <1>1, PutLength
  <1>5. \A g \in Hardware : Stored(bmhs')[g] = IF g = h THEN v ELSE Stored(bmhs)[g]
    BY <1>1, <1>2, PutStored
  <1>6. \A g \in Hardware : Sound(Stored(bmhs')[g])
    BY <1>5, ReadsAreSound DEF StoredBmh
  <1>7. \A k \in 1..Len(bmhs'), g \in Hardware : Sound(bmhs'[k][g])
    BY <1>3, <1>6 DEF IntakeInv
  <1>8. IntakeTypeOK'
    BY <1>3, <1>4 DEF IntakeInv, IntakeTypeOK, V, HardwareVersion
  <1>. QED
    BY <1>5, <1>7, <1>8 DEF IntakeInv, Served, StoredBmh

\* Storing a discovery keeps the types.
LEMMA StoreDiscovery ==
    ASSUME IntakeInv, NEW m \in Machines, NEW v \in Discovery \cup {Nil}, StoreBmd(m, v)
    PROVE  /\ bmds' \in Seq([Machines -> Discovery \cup {Nil}])
           /\ Len(bmds') \in 1..(Lag + 1)
           /\ \A n \in Machines : StoredBmd(n)' = IF n = m THEN v ELSE StoredBmd(n)
  <1>. DEFINE V == DiscoveryVersion
  <1>1. /\ bmds \in Seq(V) /\ bmds # <<>>
        /\ bmds' = Put(bmds, m, v)
        /\ Len(bmds) \in 1..Lag /\ Lag \in Nat
    BY Streams, IntakeAssumption DEF IntakeInv, IntakeTypeOK, StoreBmd
  <1>2. Changed(bmds, m, v) \in V /\ DOMAIN Stored(bmds) = Machines
    <2>1. Stored(bmds) \in [Machines -> Discovery \cup {Nil}]
      BY <1>1, StreamVersions DEF DiscoveryVersion
    <2>. QED
      BY <2>1 DEF Changed, DiscoveryVersion
  <1>. HIDE DEF V
  <1>3. bmds' \in Seq(V)
    BY <1>1, <1>2, PutVersions
  <1>4. Len(bmds') \in 1..(Lag + 1)
    BY <1>1, PutLength
  <1>5. \A n \in Machines : Stored(bmds')[n] = IF n = m THEN v ELSE Stored(bmds)[n]
    BY <1>1, <1>2, PutStored
  <1>. QED
    BY <1>3, <1>4, <1>5 DEF StoredBmd, V, DiscoveryVersion

-----------------------------------------------------------------------------
(***************************************************************************)
(* What is written of hardware.                                            *)
(***************************************************************************)
\* One object is stored, sound, and with the hardware it had; nothing else changes.
WritesHardware ==
    \E h \in Hardware, v \in HardwareObject \cup {Nil} :
        /\ Sound(v)
        /\ Keeps(StoredBmh(h), v)
        /\ StoreBmh(h, v)
        /\ UNCHANGED <<bmds, request>>
        /\ queue' \in SUBSET Hardware

\* Users change what they ask for, not what was found.
LEMMA UsersWriteHardware ==
    ASSUME IntakeInv, NEW h \in Hardware, NEW s \in Specs,
           CreateHardware(h, s) \/ EditHardware(h, s) \/ DeleteHardware(h)
    PROVE  WritesHardware
  <1>. /\ StoredBmh(h) \in HardwareObject \cup {Nil}
       /\ Sound(StoredBmh(h))
       /\ queue \in SUBSET Hardware
    BY Streams, ReadsAreSound DEF IntakeInv, IntakeTypeOK
  <1>1. CASE CreateHardware(h, s)
    <2>1. NewHardware(s) \in HardwareObject /\ Sound(NewHardware(s))
      BY DEF NewHardware, HardwareObject, Reasons, Sound
    <2>. QED
      BY <1>1, <2>1 DEF CreateHardware, WritesHardware, Keeps
  <1>2. CASE EditHardware(h, s)
    <2>. DEFINE v == [StoredBmh(h) EXCEPT !.spec = s]
    <2>1. StoredBmh(h) \in HardwareObject /\ StoredBmh(h) # Nil
      BY <1>2 DEF EditHardware
    <2>2. v \in HardwareObject /\ Sound(v) /\ v.hardware = StoredBmh(h).hardware
      BY <2>1 DEF HardwareObject, Sound
    <2>. HIDE DEF v
    <2>3. StoreBmh(h, v) /\ UNCHANGED <<bmds, request, queue>>
      BY <1>2 DEF EditHardware, v
    <2>. QED
      BY <2>2, <2>3 DEF WritesHardware, Keeps
  <1>3. CASE DeleteHardware(h)
    <2>. DEFINE v == [StoredBmh(h) EXCEPT !.deleting = TRUE]
    <2>1. StoredBmh(h) \in HardwareObject /\ StoredBmh(h) # Nil
      BY <1>3 DEF DeleteHardware
    <2>2. v \in HardwareObject /\ Sound(v) /\ v.hardware = StoredBmh(h).hardware
      BY <2>1 DEF HardwareObject, Sound
    <2>. HIDE DEF v
    <2>3. StoreBmh(h, v) /\ UNCHANGED <<bmds, request, queue>>
      BY <1>3 DEF DeleteHardware, v
    <2>. QED
      BY <2>2, <2>3 DEF WritesHardware, Keeps
  <1>. QED
    BY <1>1, <1>2, <1>3

\* An update of the controller is of the stored object, or is refused.
LEMMA UpdatesWriteHardware ==
    ASSUME IntakeInv, NEW h \in Hardware, NEW v \in HardwareObject \cup {Nil},
           Sound(v), Keeps(Bmh(h), v), UpdateBmh(h, v)
    PROVE  WritesHardware
  <1>1. Bmh(h) = StoredBmh(h)
    <2>1. 1 \in 1..Len(bmhs)
      BY Streams, StreamVersions DEF IntakeInv
    <2>. QED
      BY <2>1 DEF UpdateBmh, Fresh, Bmh, StoredBmh, Cached, Stored
  <1>. QED
    BY <1>1 DEF UpdateBmh, WritesHardware, IntakeInv, IntakeTypeOK

\* The taint goes when the conditions are met, the last of which are set with the
\* hardware known; it comes before the condition that says that it is not.
LEMMA ControllerWritesHardware ==
    ASSUME IntakeInv, NEW h \in Hardware, HardwareStep(h)
    PROVE  WritesHardware
  <1>. DEFINE o == Bmh(h)
  <1>1. Sound(o) /\ o \in HardwareObject \cup {Nil}
    BY ReadsAreSound, Streams DEF IntakeInv
  <1>2. CASE RemoveFinalizer(h)
    <2>1. UpdateBmh(h, Nil)
      BY <1>2 DEF RemoveFinalizer
    <2>. QED
      BY <2>1, UpdatesWriteHardware DEF Sound, Keeps
  <1>3. CASE SyncNotReady(h)
    <2>. DEFINE v == [o EXCEPT !.notReady = ~ConditionsMet(o)]
    <2>1. o # Nil /\ o \in HardwareObject /\ UpdateAdmitted(o)
      BY <1>1, <1>3 DEF SyncNotReady, Alive
    <2>2. v \in HardwareObject
      BY <2>1 DEF HardwareObject, ConditionsMet
    <2>3. Sound(v) /\ v.hardware = o.hardware
      BY <1>1, <2>1 DEF HardwareObject, Sound, UpdateAdmitted, ConditionsMet
    <2>4. UpdateBmh(h, v)
      BY <1>3 DEF SyncNotReady
    <2>. HIDE DEF v, o
    <2>5. Keeps(Bmh(h), v)
      BY <2>3 DEF Keeps, o
    <2>. QED
      BY <2>2, <2>3, <2>4, <2>5, UpdatesWriteHardware
  <1>4. CASE SetHardwareSet(h)
    <2>. DEFINE reason == IF o.hardware = Nil THEN "NotSet" ELSE "Valid"
                v == [o EXCEPT !.hardwareSet = reason]
    <2>1. o # Nil /\ o \in HardwareObject /\ TaintSynced(o)
      BY <1>1, <1>4 DEF SetHardwareSet, Examined, Alive
    <2>2. v \in HardwareObject
      BY <2>1 DEF HardwareObject, Reasons
    <2>3. Sound(v) /\ v.hardware = o.hardware
      BY <1>1, <2>1 DEF HardwareObject, Sound, TaintSynced, ConditionsMet
    <2>4. UpdateBmh(h, v)
      BY <1>4 DEF SetHardwareSet
    <2>. HIDE DEF v, o
    <2>5. Keeps(Bmh(h), v)
      BY <2>3 DEF Keeps, o
    <2>. QED
      BY <2>2, <2>3, <2>4, <2>5, UpdatesWriteHardware
  <1>5. CASE SetNicsValid(h)
    <2>. DEFINE v == [o EXCEPT !.nicsValid = NicsReason(o)]
    <2>1. o # Nil /\ o \in HardwareObject
      BY <1>1, <1>5 DEF SetNicsValid, Examined, Alive
    <2>2. v \in HardwareObject
      BY <2>1 DEF HardwareObject, Reasons, NicsReason
    <2>3. Sound(v) /\ v.hardware = o.hardware
      BY <1>1, <2>1 DEF HardwareObject, Sound
    <2>4. UpdateBmh(h, v)
      BY <1>5 DEF SetNicsValid
    <2>. HIDE DEF v, o
    <2>5. Keeps(Bmh(h), v)
      BY <2>3 DEF Keeps, o
    <2>. QED
      BY <2>2, <2>3, <2>4, <2>5, UpdatesWriteHardware
  <1>6. CASE SetImageDriveValid(h)
    <2>. DEFINE v == [o EXCEPT !.imageDriveValid = ImageDriveReason(o)]
    <2>1. o # Nil /\ o \in HardwareObject
      BY <1>1, <1>6 DEF SetImageDriveValid, Examined, Alive
    <2>2. v \in HardwareObject
      BY <2>1 DEF HardwareObject, Reasons, ImageDriveReason
    <2>3. Sound(v) /\ v.hardware = o.hardware
      BY <1>1, <2>1 DEF HardwareObject, Sound
    <2>4. UpdateBmh(h, v)
      BY <1>6 DEF SetImageDriveValid
    <2>. HIDE DEF v, o
    <2>5. Keeps(Bmh(h), v)
      BY <2>3 DEF Keeps, o
    <2>. QED
      BY <2>2, <2>3, <2>4, <2>5, UpdatesWriteHardware
  <1>7. CASE CopyHardware(h)
    <2>. DEFINE found == Bmd(MachineOf[h]).hardware
                v == [o EXCEPT !.hardware = found]
    <2>1. /\ o # Nil /\ o \in HardwareObject /\ TaintSynced(o)
          /\ o.hardware = Nil /\ o.hardwareSet = "NotSet"
      BY <1>1, <1>7 DEF CopyHardware, Examined, Alive
    <2>2. found \in Reports /\ found # Nil
      <3>1. MachineOf[h] \in Machines
        BY IntakeAssumption
      <3>2. Bmd(MachineOf[h]) \in Discovery
        BY <1>7, <3>1, Streams DEF CopyHardware, IntakeInv
      <3>. QED
        BY <1>7, <3>2 DEF CopyHardware, Discovery
    <2>. HIDE DEF found
    <2>3. v \in HardwareObject
      BY <2>1, <2>2 DEF HardwareObject
    <2>4. Sound(v)
      BY <2>1, <2>2 DEF HardwareObject, Sound, TaintSynced, ConditionsMet
    <2>5. UpdateBmh(h, v)
      BY <1>7 DEF CopyHardware, found
    <2>6. Keeps(Bmh(h), v)
      BY <2>1 DEF Keeps
    <2>. HIDE DEF v, o
    <2>. QED
      BY <2>3, <2>4, <2>5, <2>6, UpdatesWriteHardware
  <1>. QED
    BY <1>2, <1>3, <1>4, <1>5, <1>6, <1>7 DEF HardwareStep

\* So the invariant is kept, and the hardware too.
LEMMA HardwareWritesKeepIntakeInv ==
    ASSUME IntakeInv, WritesHardware
    PROVE  /\ IntakeInv'
           /\ \A h \in Hardware : Keeps(StoredBmh(h), StoredBmh(h)')
           /\ UNCHANGED Stored(bmds)
  <1>1. PICK h \in Hardware, v \in HardwareObject \cup {Nil} :
             /\ Sound(v)
             /\ Keeps(StoredBmh(h), v)
             /\ StoreBmh(h, v)
             /\ UNCHANGED <<bmds, request>>
             /\ queue' \in SUBSET Hardware
    BY DEF WritesHardware
  <1>2. /\ IntakeInv'
        /\ \A g \in Hardware : StoredBmh(g)' = IF g = h THEN v ELSE StoredBmh(g)
    BY <1>1, StoreHardware
  <1>3. \A g \in Hardware : Keeps(StoredBmh(g), StoredBmh(g))
    BY DEF Keeps
  <1>. QED
    BY <1>1, <1>2, <1>3 DEF Stored

-----------------------------------------------------------------------------
(***************************************************************************)
(* What is written of discoveries, and the watches.                        *)
(***************************************************************************)
\* A discovery is filled in by the request that created it.
FilledByItsOwn(o, v) ==
    (o # Nil /\ v # Nil) => v = o \/ (o.hardware = Nil /\ v.by = o.by)

\* The server and users change discoveries only.
LEMMA DiscoveryStepsKeepIntakeInv ==
    ASSUME IntakeInv,
           \/ \E r \in Requests : Serve(r)
           \/ \E m \in Machines : Report(m) \/ DeleteDiscovery(m)
    PROVE  /\ IntakeInv'
           /\ \A m \in Machines : FilledByItsOwn(StoredBmd(m), StoredBmd(m)')
           /\ bmhs' = bmhs
  <1>1. /\ bmhs' = bmhs /\ queue' = queue
        /\ request' \in [Requests -> Request]
        /\ Served'
    <2>. /\ request \in [Requests -> Request] /\ Free \in Request /\ Free.at = "free"
         /\ Served
      BY DEF IntakeInv, IntakeTypeOK, Free, Request
    <2>1. ASSUME NEW m \in Machines, Report(m)
          PROVE  request' \in [Requests -> Request] /\ UNCHANGED <<bmhs, queue>> /\ Served'
      BY <2>1 DEF Report, ReceiveReport, Request, Served
    <2>2. ASSUME NEW r \in Requests, Serve(r)
          PROVE  request' \in [Requests -> Request] /\ UNCHANGED <<bmhs, queue>> /\ Served'
      <3>. DEFINE v == [request[r] EXCEPT !.at = "fill"]
      <3>1. /\ v \in Request
            /\ v.machine = request[r].machine /\ v.hardware = request[r].hardware
        BY DEF Request
      <3>2. CASE CreateDiscovery(r)
        BY <3>1, <3>2 DEF CreateDiscovery, Served
      <3>3. CASE RefuseReport(r) \/ FillDiscovery(r)
        BY <3>3 DEF RefuseReport, FillDiscovery, Served
      <3>. QED
        BY <2>2, <3>2, <3>3 DEF Serve
    <2>3. ASSUME NEW m \in Machines, DeleteDiscovery(m)
          PROVE  request' \in [Requests -> Request] /\ UNCHANGED <<bmhs, queue>> /\ Served'
      BY <2>3 DEF DeleteDiscovery, Served
    <2>. QED
      BY <2>1, <2>2, <2>3
  <1>2. \/ bmds' = bmds
        \/ \E m \in Machines, v \in Discovery \cup {Nil} :
             StoreBmd(m, v) /\ FilledByItsOwn(StoredBmd(m), v)
    <2>1. ASSUME NEW r \in Requests, CreateDiscovery(r)
          PROVE  \E m \in Machines, v \in Discovery \cup {Nil} :
                   StoreBmd(m, v) /\ FilledByItsOwn(StoredBmd(m), v)
      <3>. DEFINE m == request[r].machine
                  v == [by |-> r, hardware |-> Nil]
      <3>1. m \in Machines /\ v \in Discovery
        BY <2>1 DEF CreateDiscovery, IntakeInv, Served, Discovery
      <3>2. StoreBmd(m, v) /\ StoredBmd(m) = Nil
        BY <2>1 DEF CreateDiscovery, Admitted
      <3>. QED
        BY <3>1, <3>2 DEF FilledByItsOwn
    <2>2. ASSUME NEW r \in Requests, FillDiscovery(r)
          PROVE  \/ bmds' = bmds
                 \/ \E m \in Machines, v \in Discovery \cup {Nil} :
                      StoreBmd(m, v) /\ FilledByItsOwn(StoredBmd(m), v)
      <3>. DEFINE m == request[r].machine
                  v == [by |-> r, hardware |-> request[r].hardware]
      <3>1. m \in Machines /\ v \in Discovery
        BY <2>2 DEF FillDiscovery, IntakeInv, Served, Discovery
      <3>2. CASE StoredBmd(m) = [by |-> r, hardware |-> Nil]
        <4>1. StoreBmd(m, v)
          BY <2>2, <3>2 DEF FillDiscovery
        <4>2. FilledByItsOwn(StoredBmd(m), v)
          BY <3>2 DEF FilledByItsOwn
        <4>. QED
          BY <3>1, <4>1, <4>2
      <3>3. CASE StoredBmd(m) # [by |-> r, hardware |-> Nil]
        BY <2>2, <3>3 DEF FillDiscovery
      <3>. QED
        BY <3>2, <3>3
    <2>3. ASSUME NEW m \in Machines, DeleteDiscovery(m)
          PROVE  \E n \in Machines, v \in Discovery \cup {Nil} :
                   StoreBmd(n, v) /\ FilledByItsOwn(StoredBmd(n), v)
      BY <2>3 DEF DeleteDiscovery, FilledByItsOwn
    <2>. QED
      BY <2>1, <2>2, <2>3 DEF Serve, Report, ReceiveReport, RefuseReport
  <1>3. CASE bmds' = bmds
    <2>1. IntakeInv'
      BY <1>1, <1>3 DEF IntakeInv, IntakeTypeOK
    <2>. QED
      BY <1>1, <1>3, <2>1 DEF StoredBmd, FilledByItsOwn
  <1>4. ASSUME NEW m \in Machines, NEW v \in Discovery \cup {Nil},
               StoreBmd(m, v), FilledByItsOwn(StoredBmd(m), v)
        PROVE  IntakeInv' /\ \A n \in Machines : FilledByItsOwn(StoredBmd(n), StoredBmd(n)')
    <2>1. /\ bmds' \in Seq([Machines -> Discovery \cup {Nil}])
          /\ Len(bmds') \in 1..(Lag + 1)
          /\ \A n \in Machines : StoredBmd(n)' = IF n = m THEN v ELSE StoredBmd(n)
      BY <1>4, StoreDiscovery
    <2>2. \A n \in Machines : FilledByItsOwn(StoredBmd(n), StoredBmd(n))
      BY DEF FilledByItsOwn
    <2>. QED
      BY <1>1, <1>4, <2>1, <2>2 DEF IntakeInv, IntakeTypeOK
  <1>. QED
    BY <1>1, <1>2, <1>3, <1>4

\* The watches and a restart store nothing.
LEMMA WatchesKeepIntakeInv ==
    ASSUME IntakeInv, WatchBmhs \/ WatchBmds \/ RestartManager
    PROVE  /\ IntakeInv'
           /\ UNCHANGED <<Stored(bmhs), Stored(bmds)>>
  <1>1. /\ bmhs \in Seq(HardwareVersion) /\ bmhs # <<>>
        /\ bmds \in Seq(DiscoveryVersion) /\ bmds # <<>>
        /\ Len(bmhs) \in 1..(Lag + 1) /\ Len(bmds) \in 1..(Lag + 1)
        /\ Lag \in Nat /\ queue \in SUBSET Hardware
        /\ request \in [Requests -> Request] /\ Served
        /\ \A k \in 1..Len(bmhs), h \in Hardware : Sound(bmhs[k][h])
    BY Streams, IntakeAssumption DEF IntakeInv, IntakeTypeOK
  <1>2. CASE WatchBmhs
    <2>1. /\ bmhs' \in Seq(HardwareVersion)
          /\ Stored(bmhs') = Stored(bmhs)
          /\ Len(bmhs') = Len(bmhs) - 1
          /\ \A k \in 1..Len(bmhs') : k + 1 \in 1..Len(bmhs) /\ bmhs'[k] = bmhs[k + 1]
      BY <1>1, <1>2, DeliverVersions DEF WatchBmhs
    <2>2. Len(bmhs) > 1
      BY <1>2 DEF WatchBmhs, CanDeliver
    <2>3. Len(bmhs') \in 1..(Lag + 1)
      BY <1>1, <2>1, <2>2
    <2>4. \A k \in 1..Len(bmhs'), h \in Hardware : Sound(bmhs'[k][h])
      BY <1>1, <2>1
    <2>5. UNCHANGED <<bmds, request>> /\ queue' \in SUBSET Hardware
      BY <1>2 DEF WatchBmhs
    <2>. QED
      BY <1>1, <2>1, <2>3, <2>4, <2>5
         DEF IntakeInv, IntakeTypeOK, Served, HardwareVersion, DiscoveryVersion, Stored
  <1>3. CASE WatchBmds
    <2>1. /\ bmds' \in Seq(DiscoveryVersion)
          /\ Stored(bmds') = Stored(bmds)
          /\ Len(bmds') = Len(bmds) - 1
      BY <1>1, <1>3, DeliverVersions DEF WatchBmds
    <2>2. Len(bmds) > 1
      BY <1>3 DEF WatchBmds, CanDeliver
    <2>3. Len(bmds') \in 1..(Lag + 1)
      BY <1>1, <2>1, <2>2
    <2>4. UNCHANGED <<bmhs, request, queue>>
      BY <1>3 DEF WatchBmds
    <2>. QED
      BY <1>1, <2>1, <2>3, <2>4
         DEF IntakeInv, IntakeTypeOK, Served, HardwareVersion, DiscoveryVersion, Stored
  <1>4. CASE RestartManager
    <2>1. /\ bmhs' \in Seq(HardwareVersion)
          /\ Stored(bmhs') = Stored(bmhs)
          /\ Len(bmhs') = 1 /\ bmhs'[1] = Stored(bmhs)
      BY <1>1, <1>4, RelistedVersions DEF RestartManager
    <2>2. /\ bmds' \in Seq(DiscoveryVersion)
          /\ Stored(bmds') = Stored(bmds)
          /\ Len(bmds') = 1
      BY <1>1, <1>4, RelistedVersions DEF RestartManager
    <2>3. \A k \in 1..Len(bmhs'), h \in Hardware : Sound(bmhs'[k][h])
      BY <2>1, ReadsAreSound DEF StoredBmh
    <2>4. Len(bmhs') \in 1..(Lag + 1) /\ Len(bmds') \in 1..(Lag + 1)
      BY <1>1, <2>1, <2>2
    <2>5. /\ queue' \in SUBSET Hardware
          /\ request' \in [Requests -> Request]
          /\ Served'
      BY <1>4 DEF RestartManager, Served, Free, Request
    <2>. QED
      BY <2>1, <2>2, <2>3, <2>4, <2>5
         DEF IntakeInv, IntakeTypeOK, HardwareVersion, DiscoveryVersion
  <1>. QED
    BY <1>2, <1>3, <1>4

-----------------------------------------------------------------------------
(***************************************************************************)
(* Work is not forgotten.                                                  *)
(***************************************************************************)
\* Hardware there is something to do for is queued, or its watch has yet to bring a
\* version of it.
Awaited == \A h \in Hardware : ~Settled(Bmh(h)) => h \in queue \/ ~Fresh(bmhs, h)

\* What is settled has all its conditions, and the taint follows them.
LEMMA AwaitedIsDone ==
    ASSUME Awaited
    PROVE  IdleIsDone
  <1>. SUFFICES ASSUME NEW h \in Hardware, Bmh(h) # Nil, Settled(Bmh(h))
                PROVE  /\ ~Bmh(h).deleting
                       /\ Bmh(h).hardware # Nil
                       /\ Bmh(h).notReady = ~(/\ NicsReason(Bmh(h)) = "Valid"
                                              /\ ImageDriveReason(Bmh(h)) = "Valid")
    BY DEF Awaited, IdleIsDone
  <1>. QED
    BY DEF Settled, TaintSynced, ConditionsSynced, ConditionsMet

\* Storing hardware, which leaves the queue only when it is changed.
LEMMA HardwareWritesAreAwaited ==
    ASSUME IntakeInv, Awaited, NEW h \in Hardware, NEW v \in HardwareObject \cup {Nil},
           StoreBmh(h, v),
           \/ UNCHANGED queue
           \/ queue' = queue \ {h} /\ v # StoredBmh(h)
    PROVE  Awaited'
  <1>. DEFINE V == HardwareVersion
  <1>1. bmhs \in Seq(V) /\ bmhs # <<>> /\ bmhs' = Put(bmhs, h, v)
    BY Streams DEF IntakeInv, StoreBmh
  <1>2. Changed(bmhs, h, v) \in V /\ DOMAIN Stored(bmhs) = Hardware
    <2>1. Stored(bmhs) \in [Hardware -> HardwareObject \cup {Nil}]
      BY <1>1, StreamVersions DEF HardwareVersion
    <2>. QED
      BY <2>1 DEF Changed, HardwareVersion
  <1>. HIDE DEF V
  <1>3. Cached(bmhs') = Cached(bmhs)
    BY <1>1, <1>2, PutVersions
  <1>4. /\ v # StoredBmh(h) => ~Fresh(bmhs', h)
        /\ \A g \in Hardware : ~Fresh(bmhs, g) => ~Fresh(bmhs', g)
    BY <1>1, <1>2, PutAwaits DEF StoredBmh
  <1>5. \A g \in Hardware : Bmh(g)' = Bmh(g)
    BY <1>3 DEF Bmh
  <1>. SUFFICES ASSUME NEW g \in Hardware, ~Settled(Bmh(g)')
                PROVE  g \in queue' \/ ~Fresh(bmhs', g)
    BY <1>5 DEF Awaited
  <1>. QED
    BY <1>4, <1>5 DEF Awaited

\* Users take nothing out of the queue.
LEMMA UsersAreAwaited ==
    ASSUME IntakeInv, Awaited, NEW h \in Hardware, NEW s \in Specs,
           CreateHardware(h, s) \/ EditHardware(h, s) \/ DeleteHardware(h)
    PROVE  Awaited'
  <1>. DEFINE o == StoredBmh(h)
  <1>1. o # Nil => o \in HardwareObject
    BY Streams DEF IntakeInv
  <1>2. /\ NewHardware(s) \in HardwareObject
        /\ o # Nil => /\ [o EXCEPT !.spec = s] \in HardwareObject
                      /\ [o EXCEPT !.deleting = TRUE] \in HardwareObject
    BY <1>1 DEF NewHardware, HardwareObject, Reasons
  <1>. QED
    BY <1>2, HardwareWritesAreAwaited DEF CreateHardware, EditHardware, DeleteHardware

\* What the controller writes is never what it read.
LEMMA ControllerIsAwaited ==
    ASSUME IntakeInv, Awaited, NEW h \in Hardware, HardwareStep(h)
    PROVE  Awaited'
  <1>. DEFINE o == Bmh(h)
  <1>1. o \in HardwareObject /\ o # Nil
    <2>1. o \in HardwareObject \cup {Nil}
      BY Streams DEF IntakeInv
    <2>2. o # Nil
      BY DEF HardwareStep, RemoveFinalizer, SyncNotReady, SetHardwareSet, SetNicsValid,
             SetImageDriveValid, CopyHardware, Examined, Alive
    <2>. QED
      BY <2>1, <2>2
  <1>2. ASSUME NEW v \in HardwareObject \cup {Nil}, UpdateBmh(h, v), v # o
        PROVE  Awaited'
    <2>1. o = StoredBmh(h)
      <3>1. 1 \in 1..Len(bmhs)
        BY Streams, StreamVersions DEF IntakeInv
      <3>. QED
        BY <1>2, <3>1 DEF UpdateBmh, Fresh, Bmh, StoredBmh, Cached, Stored
    <2>. QED
      BY <1>2, <2>1, HardwareWritesAreAwaited DEF UpdateBmh
  <1>3. CASE RemoveFinalizer(h)
    BY <1>1, <1>2, <1>3 DEF RemoveFinalizer
  <1>4. CASE SyncNotReady(h)
    <2>. DEFINE v == [o EXCEPT !.notReady = ~ConditionsMet(o)]
    <2>1. v \in HardwareObject /\ v.notReady = ~ConditionsMet(o)
      BY <1>1 DEF HardwareObject, ConditionsMet
    <2>. HIDE DEF v
    <2>. QED
      BY <1>2, <1>4, <2>1 DEF SyncNotReady, TaintSynced, v
  <1>5. CASE SetHardwareSet(h)
    <2>. DEFINE reason == IF o.hardware = Nil THEN "NotSet" ELSE "Valid"
                v == [o EXCEPT !.hardwareSet = reason]
    <2>1. v \in HardwareObject /\ v.hardwareSet = reason
      BY <1>1 DEF HardwareObject, Reasons
    <2>2. UpdateBmh(h, v) /\ o.hardwareSet # reason
      BY <1>5 DEF SetHardwareSet
    <2>. HIDE DEF v, reason
    <2>. QED
      BY <1>2, <2>1, <2>2
  <1>6. CASE SetNicsValid(h)
    <2>. DEFINE v == [o EXCEPT !.nicsValid = NicsReason(o)]
    <2>1. v \in HardwareObject /\ v.nicsValid = NicsReason(o)
      BY <1>1 DEF HardwareObject, Reasons, NicsReason
    <2>. HIDE DEF v
    <2>. QED
      BY <1>2, <1>6, <2>1 DEF SetNicsValid, v
  <1>7. CASE SetImageDriveValid(h)
    <2>. DEFINE v == [o EXCEPT !.imageDriveValid = ImageDriveReason(o)]
    <2>1. v \in HardwareObject /\ v.imageDriveValid = ImageDriveReason(o)
      BY <1>1 DEF HardwareObject, Reasons, ImageDriveReason
    <2>. HIDE DEF v
    <2>. QED
      BY <1>2, <1>7, <2>1 DEF SetImageDriveValid, v
  <1>8. CASE CopyHardware(h)
    <2>. DEFINE found == Bmd(MachineOf[h]).hardware
                v == [o EXCEPT !.hardware = found]
    <2>1. found \in Reports /\ found # Nil
      <3>1. MachineOf[h] \in Machines
        BY IntakeAssumption
      <3>2. Bmd(MachineOf[h]) \in Discovery
        BY <1>8, <3>1, Streams DEF CopyHardware, IntakeInv
      <3>. QED
        BY <1>8, <3>2 DEF CopyHardware, Discovery
    <2>. HIDE DEF found
    <2>2. v \in HardwareObject /\ v.hardware = found
      BY <1>1, <2>1 DEF HardwareObject
    <2>. HIDE DEF v
    <2>. QED
      BY <1>2, <1>8, <2>1, <2>2 DEF CopyHardware, v, found
  <1>. QED
    BY <1>3, <1>4, <1>5, <1>6, <1>7, <1>8 DEF HardwareStep

\* The watch queues what it changes, a restart what it lists.
LEMMA WatchesAreAwaited ==
    ASSUME IntakeInv, Awaited, WatchBmhs \/ RestartManager
    PROVE  Awaited'
  <1>0. bmhs \in Seq(HardwareVersion) /\ bmhs # <<>>
    BY Streams DEF IntakeInv
  <1>1. CASE WatchBmhs
    <2>1. /\ CanDeliver(bmhs) /\ bmhs' = Deliver(bmhs)
          /\ Cached(bmhs') = bmhs[2]
      BY <1>0, <1>1, DeliverVersions DEF WatchBmhs
    <2>2. \A h \in Hardware : Bmh(h) = bmhs[1][h] /\ Bmh(h)' = bmhs[2][h]
      BY <2>1 DEF Bmh, Cached
    <2>3. \A h \in Hardware :
            bmhs[1][h] = bmhs[2][h] => (~Fresh(bmhs, h) => ~Fresh(bmhs', h))
      BY <1>0, <2>1, DeliverAwaits
    <2>. SUFFICES ASSUME NEW h \in Hardware, ~Settled(bmhs[2][h])
                  PROVE  h \in queue' \/ ~Fresh(bmhs', h)
      BY <2>2 DEF Awaited
    <2>. QED
      BY <1>1, <2>2, <2>3 DEF WatchBmhs, Awaited
  <1>2. CASE RestartManager
    <2>1. \A h \in Hardware : Bmh(h)' = StoredBmh(h)
      BY <1>0, <1>2, RelistedVersions DEF RestartManager, Bmh, StoredBmh
    <2>. SUFFICES ASSUME NEW h \in Hardware, ~Settled(StoredBmh(h))
                  PROVE  h \in queue'
      BY <2>1 DEF Awaited
    <2>. QED
      BY <1>2 DEF RestartManager
  <1>. QED
    BY <1>1, <1>2

\* Nothing is there at the beginning.
LEMMA AwaitedInit == Init => Awaited
  BY DEF Init, Awaited, Bmh, Cached, Settled

-----------------------------------------------------------------------------
(***************************************************************************)
(* The theorems.                                                           *)
(***************************************************************************)
\* Nothing is there at the beginning.
LEMMA IntakeInvInit == Init => IntakeInv
  <1>. SUFFICES ASSUME Init PROVE IntakeInv
    OBVIOUS
  <1>. DEFINE first == [h \in Hardware |-> Nil]
              second == [m \in Machines |-> Nil]
  <1>1. /\ first \in HardwareVersion /\ \A h \in Hardware : first[h] = Nil
        /\ second \in DiscoveryVersion
        /\ bmhs = <<first>> /\ bmds = <<second>>
    BY DEF Init, HardwareVersion, DiscoveryVersion
  <1>. HIDE DEF first, second
  <1>2. /\ bmhs \in Seq(HardwareVersion) /\ Len(bmhs) = 1 /\ bmhs[1] = first
        /\ bmds \in Seq(DiscoveryVersion) /\ Len(bmds) = 1
    BY <1>1
  <1>3. request \in [Requests -> Request] /\ Served /\ queue \in SUBSET Hardware
    BY DEF Init, Served, Free, Request
  <1>4. \A k \in 1..Len(bmhs), h \in Hardware : Sound(bmhs[k][h])
    BY <1>1, <1>2 DEF Sound
  <1>5. 1 \in 1..(Lag + 1)
    BY IntakeAssumption
  <1>. QED
    BY <1>2, <1>3, <1>4, <1>5 DEF IntakeInv, IntakeTypeOK, HardwareVersion, DiscoveryVersion

\* What every step does to hardware and discoveries.
LEMMA EveryIntakeStep ==
    ASSUME IntakeInv, [Next]_vars
    PROVE  /\ IntakeInv'
           /\ \A h \in Hardware : Keeps(StoredBmh(h), StoredBmh(h)')
           /\ \A m \in Machines : FilledByItsOwn(StoredBmd(m), StoredBmd(m)')
  <1>. /\ UNCHANGED Stored(bmhs) => \A h \in Hardware : Keeps(StoredBmh(h), StoredBmh(h)')
       /\ UNCHANGED Stored(bmds)
            => \A m \in Machines : FilledByItsOwn(StoredBmd(m), StoredBmd(m)')
    BY DEF Keeps, FilledByItsOwn, StoredBmh, StoredBmd
  <1>1. CASE \E h \in Hardware : HardwareStep(h)
    BY <1>1, ControllerWritesHardware, HardwareWritesKeepIntakeInv
  <1>2. CASE \/ \E r \in Requests : Serve(r)
             \/ \E m \in Machines : Report(m) \/ DeleteDiscovery(m)
    BY <1>2, DiscoveryStepsKeepIntakeInv DEF Stored
  <1>3. CASE UserStep
    <2>1. CASE \E m \in Machines : DeleteDiscovery(m)
      BY <1>2, <2>1
    <2>2. CASE \E h \in Hardware, s \in Specs : CreateHardware(h, s) \/ EditHardware(h, s)
      BY <2>2, UsersWriteHardware, HardwareWritesKeepIntakeInv
    <2>3. ASSUME NEW h \in Hardware, DeleteHardware(h)
          PROVE  WritesHardware
      <3>1. StoredBmh(h) \in HardwareObject
        BY <2>3, Streams DEF DeleteHardware, IntakeInv
      <3>2. StoredBmh(h).spec \in Specs
        BY <3>1 DEF HardwareObject
      <3>. QED
        BY <2>3, <3>2, UsersWriteHardware
    <2>. QED
      BY <1>3, <2>1, <2>2, <2>3, HardwareWritesKeepIntakeInv DEF UserStep
  <1>4. CASE WatchBmhs \/ WatchBmds \/ RestartManager
    BY <1>4, WatchesKeepIntakeInv
  <1>5. CASE UNCHANGED vars
    BY <1>5 DEF vars, IntakeInv, IntakeTypeOK, Served, Stored
  <1>. QED
    BY <1>1, <1>2, <1>3, <1>4, <1>5 DEF Next

\* So the invariant holds throughout.
LEMMA IntakeInvHolds == Spec => []IntakeInv
  <1>1. IntakeInv /\ [Next]_vars => IntakeInv'
    BY EveryIntakeStep
  <1>. QED
    BY <1>1, IntakeInvInit, PTL DEF Spec

\* And work is not forgotten.
LEMMA AwaitedHolds == Spec => []Awaited
  <1>1. ASSUME IntakeInv, Awaited, [Next]_vars
        PROVE  Awaited'
    <2>1. CASE UNCHANGED <<bmhs, queue>>
      <3>1. \A h \in Hardware : Bmh(h)' = Bmh(h)
        BY <2>1 DEF Bmh
      <3>. SUFFICES ASSUME NEW h \in Hardware, ~Settled(Bmh(h)')
                    PROVE  h \in queue' \/ ~Fresh(bmhs', h)
        BY <3>1 DEF Awaited
      <3>. QED
        BY <1>1, <2>1, <3>1 DEF Awaited
    <2>2. CASE \/ \E r \in Requests : Serve(r)
               \/ \E m \in Machines : Report(m) \/ DeleteDiscovery(m)
               \/ WatchBmds
               \/ UNCHANGED vars
      <3>1. UNCHANGED <<bmhs, queue>>
        BY <2>2 DEF Serve, CreateDiscovery, RefuseReport, FillDiscovery, Report, ReceiveReport,
                    DeleteDiscovery, WatchBmds, vars
      <3>. QED
        BY <2>1, <3>1
    <2>3. ASSUME NEW h \in Hardware, DeleteHardware(h)
          PROVE  Awaited'
      <3>1. StoredBmh(h).spec \in Specs
        <4>1. StoredBmh(h) \in HardwareObject
          BY <1>1, <2>3, Streams DEF DeleteHardware, IntakeInv
        <4>. QED
          BY <4>1 DEF HardwareObject
      <3>. QED
        BY <1>1, <2>3, <3>1, UsersAreAwaited
    <2>4. CASE UserStep
      BY <1>1, <2>2, <2>3, <2>4, UsersAreAwaited DEF UserStep
    <2>. QED
      BY <1>1, <2>2, <2>4, ControllerIsAwaited, WatchesAreAwaited DEF Next
  <1>2. IntakeInv /\ Awaited /\ [Next]_vars => Awaited'
    BY <1>1
  <1>. QED
    BY <1>2, AwaitedInit, IntakeInvHolds, PTL DEF Spec

\* Hardware, discoveries and requests are of their types, and a cache is never
\* further behind than is allowed for.
THEOREM IntakeTypes == Spec => []IntakeTypeOK
  <1>1. IntakeInv => IntakeTypeOK
    BY DEF IntakeInv
  <1>. QED
    BY <1>1, IntakeInvHolds, PTL

\* What the provisioner takes for granted (provisioner.go:399) is so however far
\* behind the caches are: hardware that was looked at and is not tainted is known.
THEOREM ReadyHardwareIsDiscovered == Spec => []ReadyIsDiscovered
  <1>1. IntakeInv => ReadyIsDiscovered
    BY ReadsAreSound DEF ReadyIsDiscovered, Sound
  <1>. QED
    BY <1>1, IntakeInvHolds, PTL

\* Hardware the webhooks would have refused never gets rid of its taint
\* (baremetalhardware_controller.go:194-242).
THEOREM RefusedHardwareIsNeverReady == Spec => []RefusedIsNeverReady
  <1>1. IntakeInv => RefusedIsNeverReady
    BY ReadsAreSound DEF RefusedIsNeverReady, Sound
  <1>. QED
    BY <1>1, IntakeInvHolds, PTL

\* What was discovered of a machine stays with its hardware, although the controller
\* writes the whole object from a copy: a stale one is refused.
THEOREM DiscoveredHardwareIsKept == Spec => HardwareIsKept
  <1>1. IntakeInv /\ [Next]_vars
          => [\A h \in Hardware :
                (StoredBmh(h) # Nil /\ StoredBmh(h).hardware # Nil)
                  => \/ StoredBmh(h)' = Nil
                     \/ StoredBmh(h)'.hardware = StoredBmh(h).hardware]_vars
    BY EveryIntakeStep DEF Keeps
  <1>. QED
    BY <1>1, IntakeInvHolds, PTL DEF Spec, HardwareIsKept

\* A discovery is filled in by the report it was created for, however many are
\* served at a time (server.go:441-516).
THEOREM DiscoveriesAreKept == Spec => DiscoveryIsKept
  <1>1. IntakeInv /\ [Next]_vars
          => [\A m \in Machines :
                (StoredBmd(m) # Nil /\ StoredBmd(m)' # Nil)
                  => \/ StoredBmd(m)' = StoredBmd(m)
                     \/ StoredBmd(m).hardware = Nil
                          /\ StoredBmd(m)'.by = StoredBmd(m).by]_vars
    BY EveryIntakeStep DEF FilledByItsOwn
  <1>. QED
    BY <1>1, IntakeInvHolds, PTL DEF Spec, DiscoveryIsKept

\* No wakeup is lost: hardware that is not queued, and that no watch will bring, is
\* discovered, and has the taint that it deserves
\* (baremetalhardware_controller.go:141-242, 505-517).
THEOREM IdleHardwareIsDone == Spec => []IdleIsDone
  <1>1. Awaited => IdleIsDone
    BY AwaitedIsDone
  <1>. QED
    BY <1>1, AwaitedHolds, PTL
=============================================================================
