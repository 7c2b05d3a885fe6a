------------------------------- MODULE Tenancy -------------------------------
(***************************************************************************)
(* What users are promised of instances and machines together, without     *)
(* controllers, caches or agents: an instance waits for a machine, holds   *)
(* one at most in its life, runs only on its own image, is erased only     *)
(* when it leaves, and leaves nothing behind.  HardwareCustody is what is  *)
(* left of it without the instances.                                       *)
(***************************************************************************)
CONSTANTS Instances, Hardware, Nil

VARIABLES
    stage,    \* stage[i]: how far instance i is, as users see it
    holder,   \* holder[h]: the instance that has machine h
    content   \* content[h]: the instance whose data is on its disk

tenancyVars == <<stage, holder, content>>

Stages == {"unborn", "waiting", "running", "leaving", "over"}

TenancyInit ==
    /\ stage = [i \in Instances |-> "unborn"]
    /\ holder = [h \in Hardware |-> Nil]
    /\ content = [h \in Hardware |-> Nil]

Move(i, from, to) ==
    /\ stage[i] \in from
    /\ stage' = [stage EXCEPT ![i] = to]

Create(i) == Move(i, {"unborn"}, "waiting") /\ UNCHANGED <<holder, content>>

\* The first and only machine of instance i, free and empty; that i is being
\* deleted may not be known yet.
Take(h, i) ==
    /\ stage[i] \in {"waiting", "leaving"}
    /\ \A g \in Hardware : holder[g] # i
    /\ holder[h] = Nil
    /\ content[h] = Nil
    /\ holder' = [holder EXCEPT ![h] = i]
    /\ UNCHANGED <<stage, content>>

\* The image is put on the disk before the instance runs.
Fill(h) ==
    /\ holder[h] # Nil
    /\ stage[holder[h]] \in {"waiting", "leaving"}
    /\ content[h] = Nil
    /\ content' = [content EXCEPT ![h] = holder[h]]
    /\ UNCHANGED <<stage, holder>>

Run(i) ==
    /\ Move(i, {"waiting"}, "running")
    /\ \E h \in Hardware : holder[h] = i /\ content[h] = i
    /\ UNCHANGED <<holder, content>>

Leave(i) == Move(i, {"waiting", "running"}, "leaving") /\ UNCHANGED <<holder, content>>

\* Nobody is erased but who leaves.
Wipe(h) ==
    /\ content[h] # Nil
    /\ stage[content[h]] = "leaving"
    /\ content' = [content EXCEPT ![h] = Nil]
    /\ UNCHANGED <<stage, holder>>

Release(h) ==
    /\ holder[h] # Nil
    /\ stage[holder[h]] \in {"leaving", "over"}
    /\ content[h] = Nil
    /\ holder' = [holder EXCEPT ![h] = Nil]
    /\ UNCHANGED <<stage, content>>

\* What is left of an instance when it ends was wiped before, or is now, by hand.
End(i) ==
    /\ Move(i, {"leaving"}, "over")
    /\ content' = [h \in Hardware |-> IF content[h] = i THEN Nil ELSE content[h]]
    /\ UNCHANGED holder

TenancyNext ==
    \/ \E i \in Instances : Create(i) \/ Run(i) \/ Leave(i) \/ End(i)
    \/ \E h \in Hardware :
         \/ \E i \in Instances : Take(h, i)
         \/ Fill(h)
         \/ Wipe(h)
         \/ Release(h)

TenancySpec == TenancyInit /\ [][TenancyNext]_tenancyVars

-----------------------------------------------------------------------------
\* What follows from the promise: nobody's data but the holder's is on a machine
\* or outlives its instance, an instance has one machine at most, and one that
\* runs has its image.
TenancyInv ==
    /\ \A h \in Hardware : content[h] # Nil =>
         /\ holder[h] = content[h]
         /\ stage[content[h]] \in {"waiting", "running", "leaving"}
    /\ \A g, h \in Hardware : holder[g] # Nil /\ holder[g] = holder[h] => g = h
    /\ \A i \in Instances : stage[i] = "running" =>
         \E h \in Hardware : holder[h] = i /\ content[h] = i
=============================================================================
