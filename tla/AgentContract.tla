---------------------------- MODULE AgentContract ----------------------------
(***************************************************************************)
(* What the operator takes the agent of a booted machine to be: it does    *)
(* one action per boot, touches drives only while at work, reports success *)
(* only of what is achieved, and what it answers was so at one moment of   *)
(* the request.  There are no goroutines, channels or fields here.         *)
(***************************************************************************)
CONSTANTS
    Nil,           \* no action, no answer
    Drives,        \* the drives the agent discovered
    ImageDrive,    \* the one that is imaged
    Images,        \* what imaging that succeeds may leave there
    Callers        \* who asks: the provisioner, and requests of one that ended

VARIABLES
    doing,         \* the action of this boot
    outcome,       \* how it goes
    content,       \* what is on each drive
    told           \* what each caller was answered last

vars == <<doing, outcome, content, told>>

Contents == {"data", "part", "blank", "image", "wrong"}

Achieved(a) ==
    IF a = "Cleaning"
    THEN \A d \in Drives : content[d] = "blank"
    ELSE content[ImageDrive] \in Images

Init ==
    /\ doing = Nil
    /\ outcome = "none"
    /\ content \in [Drives -> Contents]
    /\ told = [c \in Callers |-> Nil]

\* Asked by a caller that was told that nothing is done.
Start(c, a) ==
    /\ doing = Nil
    /\ told[c] = [doing |-> Nil, outcome |-> "none"]
    /\ doing' = a
    /\ outcome' = "working"
    /\ told' = [told EXCEPT ![c] = Nil]
    /\ UNCHANGED content

\* Cleaning touches every drive, imaging one.
Work ==
    /\ outcome = "working"
    /\ \E d \in Drives, x \in Contents :
         /\ doing = "Imaging" => d = ImageDrive
         /\ content' = [content EXCEPT ![d] = x]
    /\ UNCHANGED <<doing, outcome, told>>

Finish ==
    /\ outcome = "working"
    /\ \/ outcome' = "ok" /\ Achieved(doing)
       \/ outcome' = "failed"
    /\ UNCHANGED <<doing, content, told>>

Tell(c) ==
    /\ told' = [told EXCEPT ![c] = [doing |-> doing, outcome |-> outcome]]
    /\ UNCHANGED <<doing, outcome, content>>

\* An answer is lost, or acted on.
Forget(c) ==
    /\ told' = [told EXCEPT ![c] = Nil]
    /\ UNCHANGED <<doing, outcome, content>>

\* The machine is power cycled.  Answers of another boot are not this agent's.
Reset ==
    /\ doing' = Nil
    /\ outcome' = "none"
    /\ told' = [c \in Callers |-> Nil]
    /\ UNCHANGED content

Next ==
    \/ \E c \in Callers, a \in {"Imaging", "Cleaning"} : Start(c, a)
    \/ Work
    \/ Finish
    \/ \E c \in Callers : Tell(c) \/ Forget(c)
    \/ Reset

Spec == Init /\ [][Next]_vars
=============================================================================
