-------------------------- MODULE HardwareCustody --------------------------
(***************************************************************************)
(* What the operator promises about every machine, without controllers,    *)
(* caches or agents: a machine belongs to at most one instance at a time;  *)
(* only the instance that holds it has data on its disk; and it is given   *)
(* back only when nothing of that instance is left on the disk.            *)
(***************************************************************************)
CONSTANTS Instances, Hardware, Nil

VARIABLES
    holder,   \* holder[h]: the instance BareMetalHardware.Status.InstanceRef names
    content   \* content[h]: the instance whose data is on the disk

custodyVars == <<holder, content>>

CustodyInit ==
    /\ holder = [h \in Hardware |-> Nil]
    /\ content = [h \in Hardware |-> Nil]

\* A free machine, hence an empty one, is handed to instance i.
Take(h, i) ==
    /\ holder[h] = Nil
    /\ content[h] = Nil
    /\ holder' = [holder EXCEPT ![h] = i]
    /\ UNCHANGED content

\* The holder's image is written.
Fill(h) ==
    /\ holder[h] # Nil
    /\ content[h] = Nil
    /\ content' = [content EXCEPT ![h] = holder[h]]
    /\ UNCHANGED holder

\* The disk is wiped.
Wipe(h) ==
    /\ content' = [content EXCEPT ![h] = Nil]
    /\ UNCHANGED holder

\* An empty machine is given back.
Release(h) ==
    /\ content[h] = Nil
    /\ holder' = [holder EXCEPT ![h] = Nil]
    /\ UNCHANGED content

CustodyNext ==
    \E h \in Hardware :
        \/ \E i \in Instances : Take(h, i)
        \/ Fill(h)
        \/ Wipe(h)
        \/ Release(h)

CustodySpec == CustodyInit /\ [][CustodyNext]_custodyVars
=============================================================================
