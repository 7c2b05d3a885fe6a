----------------------------- MODULE ImageKept -----------------------------
(***************************************************************************)
(* Why an instance keeps its image, and why a machine that runs a system   *)
(* runs that of its holder: the invariant behind RunningOnOwnImage,        *)
(* SystemIsHolders and OnlyDeletedAreErased.  The discovery server boots   *)
(* from caches, so it has to hold as long as the cache shows an instance   *)
(* that is not being cleaned, whatever is stored by then.                  *)
(***************************************************************************)
EXTENDS HardwareHandover

\* An instance leaves its machine from when it is cleaned for its deletion.
Leaving(b) ==
    \/ b.exists = "gone"
    \/ b.deleting /\ b.phase \in {"Cleaning", "Terminating", "Terminated"}

-----------------------------------------------------------------------------
\* An instance that leaves does not come back.
LeavingIsFinal ==
    \A i \in Instances : \A l \in 1..Len(bmis) : \A k \in 1..l :
        Leaving(bmis[k][i]) => Leaving(bmis[l][i])

\* While a cache is behind, hardware changes hands no further than to none.
HandedOnOnce ==
    \A h \in Hardware : \A l \in 1..Len(bmhs) : \A k \in 1..l :
        LET i == bmhs[k][h].instanceRef IN
        i # Nil => bmhs[l][h].instanceRef \in {i, Nil}

\* Only what was provisioned is imaged, and only what is imaged runs.
Progress ==
    \A i \in Instances : \A l \in 1..Len(bmis) :
        LET b == bmis[l][i] IN
        /\ b.imaged = "True" => b.phase \notin {"", "Pending"}
        /\ b.phase = "Running" => b.imaged = "True" /\ b.exists = "live"

\* Until the cache shows that an instance leaves, cleaning it has not failed and
\* its image is where any version says that it was put.
ImageIsThere ==
    \A i \in Instances : ~Leaving(Bmi(i)) =>
        /\ StoredBmi(i).cleaned # "Error"
        /\ \A l \in 1..Len(bmis) :
             bmis[l][i].imaged = "True" => /\ bmis[l][i].hardwareName \in Hardware
                                           /\ disk[bmis[l][i].hardwareName].data = i

\* What machines do, from the outside of their instance.
Doings ==
    \A h \in Hardware :
        /\ machine[h].runs # "agent" => machine[h].action.type = "none"
        /\ machine[h].runs = "os" => disk[h].data # Nil
        /\ (machine[h].action.type = "image" /\ machine[h].action.result = "ok")
             => disk[h].data # Nil
        /\ (Working(h, "clean") /\ disk[h].data # Nil) => Leaving(Bmi(disk[h].data))

\* The provisioner's call cleans for an instance that leaves, and images for one
\* that is being provisioned and whose machine is not being cleaned.
CallIsTimely ==
    call.stage # "none" =>
        LET h == call.bmi.hardwareName IN
        /\ call.bmi.deleting =>
             /\ Leaving(Bmi(call.inst))
             /\ StoredBmh(h).instanceRef \in {call.inst, Nil}
        /\ ~call.bmi.deleting =>
             /\ call.bmi.phase = "Provisioning"
             /\ Working(h, "clean") => disk[h].data = Nil
             /\ Answered("image", "ok") => disk[h].data = call.inst

\* All of it: an image stays from when it is recorded until the agent cleans for
\* a deletion that the cache, and with it the discovery server, knows of
\* (server.go:129-203, provisioner.go:195-268, 466-486).
ImageInv ==
    /\ LeavingIsFinal
    /\ HandedOnOnce
    /\ Progress
    /\ ImageIsThere
    /\ Doings
    /\ CallIsTimely

-----------------------------------------------------------------------------
\* How far an instance is, as its users see it.
Stage(b) ==
    IF b.exists = "unborn" THEN "unborn"
    ELSE IF Over(b) THEN "over"
    ELSE IF b.deleting THEN "leaving"
    ELSE IF b.phase = "Running" THEN "running"
    ELSE "waiting"

\* Whatever the controllers do with their caches and late answers, instances get,
\* use and leave their machines as Tenancy says (scheduler.go:82-150,
\* provisioner.go:115-323, 466-486, baremetalhardware_controller.go:94-139, 244-272).
Tenants == INSTANCE Tenancy WITH
    stage <- [i \in Instances |-> Stage(StoredBmi(i))],
    holder <- [h \in Hardware |-> StoredBmh(h).instanceRef],
    content <- [h \in Hardware |-> disk[h].data]
TenancyIsKept == Tenants!TenancySpec
=============================================================================
