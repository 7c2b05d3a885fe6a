-------------------------- MODULE HardwareHandover --------------------------
(***************************************************************************)
(* Why a machine is handed over clean: the invariant behind                *)
(* FreeHardwareIsClean and ImagesForHolder.  The controllers act on        *)
(* caches, so most of it says what the versions a cache has yet to see may *)
(* differ in.  AssignmentInv, what objects, caches and calls say of each   *)
(* other, is inductive as it is; DisksInv, what that means for the         *)
(* machines, as long as the provisioner reaches the agent it means.        *)
(***************************************************************************)
EXTENDS InstanceLifecycle

\* An agent is known by its address alone: what the DHCP server owes the
\* provisioner is that, during a call, no other machine has the address
\* (provisioner.go:640-654, 733-760).
RightAgent ==
    \A h \in Hardware :
        (call.stage # "none" /\ Reached(h)) => h = call.bmi.hardwareName

\* It owes no more than machines that never share an address.
LeasesApart == \A g, h \in Hardware : g # h => Lease[g] \cap Lease[h] = {}

\* An instance departs when it is deleted, and is over when its finalizer is all
\* that is left to remove.
Departing(b) == b.exists = "gone" \/ b.deleting
Over(b) == b.exists = "gone" \/ b.phase \in {"Terminating", "Terminated"}

\* An instance keeps the hardware it was placed on until it is over.
Placed(b) == b.exists = "live" /\ b.scheduled = "True" /\ ~Over(b)
On(b, h) == Placed(b) /\ b.hardwareName = h

\* What later versions v of an instance may be after version b.
Follows(v, b) ==
    /\ b.exists # "unborn" => v.exists # "unborn"
    /\ b.exists = "gone" => v.exists = "gone"
    /\ Departing(b) => Departing(v)
    /\ Over(b) => Over(v)
    /\ Placed(b) => Over(v) \/ On(v, b.hardwareName)

\* The machine of instance i: no version of the hardware still to be seen by the
\* cache says otherwise.
Hosts(h, i) ==
    /\ On(StoredBmi(i), h)
    /\ StoredBmi(i).cleaned # "True"
    /\ \A k \in 1..Len(bmhs) : bmhs[k][h].instanceRef = i

-----------------------------------------------------------------------------
Aging ==
    \A i \in Instances : \A l \in 1..Len(bmis) :
        /\ \A k \in 1..l : Follows(bmis[l][i], bmis[k][i])
        /\ bmis[l][i].exists = "unborn" => bmis[l][i] = Unborn

\* Only the agent of its own machine reports for an instance.
AgentAddresses ==
    \A i \in Instances : \A l \in 1..Len(bmis) :
        LET b == bmis[l][i] IN
        (b.agentInfo # Nil /\ ~Over(b)) =>
            b.hardwareName \in Hardware /\ b.agentInfo \in Lease[b.hardwareName]

\* Nothing is cleaned or over before the cache shows that it departs.
Untouched ==
    \A i \in Instances :
        ~Departing(Bmi(i)) => ~Over(StoredBmi(i)) /\ StoredBmi(i).cleaned = "None"

\* A reference names an instance that is on the hardware or over.
References ==
    \A h \in Hardware : \A k \in 1..Len(bmhs) :
        LET i == bmhs[k][h].instanceRef IN
        i # Nil =>
            /\ bmhs[k][h].exists = "live"
            /\ Bmi(i).exists # "unborn"
            /\ Over(StoredBmi(i)) \/ On(StoredBmi(i), h)

\* A reference is taken back from none but a departing instance.
Handover ==
    \A h \in Hardware : \A l \in 1..Len(bmhs) : \A k \in 1..l :
        LET i == bmhs[k][h].instanceRef IN
        (i # Nil /\ bmhs[l][h].instanceRef # i) => Departing(Bmi(i))

\* Agents listen where the DHCP server let them.
Listening ==
    \A h \in Hardware : machine[h].runs = "agent" => machine[h].ip \in Lease[h]

\* What the provisioner read before it asked the agent is still good for what it
\* does with the answer.
CallIsSound ==
    call.stage # "none" =>
        LET h == call.bmi.hardwareName IN
        /\ call.inst \in Instances
        /\ h \in Hardware
        /\ call.bmi.exists = "live"
        /\ call.bmi.agentInfo \in Lease[h]
        /\ ~call.bmi.deleting =>
             Hosts(h, call.inst) /\ StoredBmi(call.inst).cleaned = "None"
        /\ call.bmi.deleting =>
             /\ Departing(Bmi(call.inst))
             /\ call.bmh.instanceRef = call.inst

\* Whatever the caches are behind and whatever the agents answer late, a machine
\* belongs to one instance, and nobody who still acts on older knowledge can act
\* on it any more (provisioner.go:115-268, 273-323,
\* baremetalhardware_controller.go:94-139, 244-272).
AssignmentInv ==
    /\ Aging
    /\ AgentAddresses
    /\ Untouched
    /\ References
    /\ Handover
    /\ Listening
    /\ CallIsSound

-----------------------------------------------------------------------------
\* What is on a disk or is being written is of the instance the machine hosts.
Machines ==
    \A h \in Hardware :
        /\ disk[h].data # Nil => Hosts(h, disk[h].data)
        /\ Working(h, "image") => machine[h].action.target \in Instances
                                  /\ Hosts(h, machine[h].action.target)
        /\ (machine[h].action.type = "clean" /\ machine[h].action.result = "ok")
             => disk[h].data = Nil

\* A machine that is answered to be clean still is.
AnswerIsGood ==
    (Answered("clean", "ok") /\ call.bmi.deleting) =>
        LET h == call.bmi.hardwareName IN
        disk[h].data = Nil /\ ~Working(h, "image")

\* What the agents do suits the assignments (provisioner.go:236-268, 486-538).
DisksInv == Machines /\ AnswerIsGood

\* All of it.
HandoverInv == AssignmentInv /\ DisksInv
=============================================================================
