---------------------------- MODULE AgentActions ----------------------------
(***************************************************************************)
(* The agent of a booted machine: its start, the one action it does, with  *)
(* a goroutine per drive when it cleans, and the status that its HTTP      *)
(* server writes out field by field while the action still changes it.     *)
(*                                                                         *)
(* Callers are the provisioner and requests it no longer waits for, which  *)
(* a restarted manager leaves behind.  CurrentStatus and DoAction hold the *)
(* lock and are one step each; the fields of the status they hand out are  *)
(* read and written without it.                                            *)
(***************************************************************************)
EXTENDS Naturals, Sequences, FiniteSets

CONSTANTS
    Nil,           \* no action
    Drives,        \* the drives the agent discovered
    Trims,         \* those that support trim
    ImageDrive,    \* the one that is imaged
    Formats,       \* of images: the reader of a checked one finds a body that is not whole
    Tables,        \* the partition tables a drive may have once that is written
    Callers        \* the requests of provisioners at a time

ASSUME AgentAssumption ==
    /\ IsFiniteSet(Drives)
    /\ ImageDrive \in Drives
    /\ Formats \subseteq {"checked", "raw"}
    /\ Tables \subseteq {"gpt", "full gpt", "mbr", "full mbr"}
    /\ Nil \notin {"Imaging", "Cleaning"}
    /\ Nil \notin [type : {"Imaging", "Cleaning"}, done : BOOLEAN, error : BOOLEAN]

VARIABLES
    agent,         \* how far the process is
    action,        \* Manager.currentAction, by its status
    step,          \* where the goroutine of Do is
    cleaner,       \* the goroutine of each drive
    errors,        \* errorChan
    content,       \* what is on each drive
    reply          \* the answer to each caller's GET /status

vars == <<agent, action, step, cleaner, errors, content, reply>>

Types == {"Imaging", "Cleaning"}

Status == [type : Types, done : BOOLEAN, error : BOOLEAN]

Steps == {"none", "wait", "download", "write", "table", "files", "error", "done", "end"}

\* A wrong drive has a body over its beginning that is not the image: an error page, or
\* an image that broke off.
Contents == {"data", "part", "blank", "image", "wrong"}

\* Without trim: wipefs, dd at the start, dd at the end, sgdisk.
Commands(d) == IF d \in Trims THEN 1 ELSE 4

\* type is Nil when the answer is that there is no action.
Reply ==
    [at : {"none", "done", "error", "answered"}, type : Types \cup {Nil},
     done : BOOLEAN, error : BOOLEAN]

AgentTypeOK ==
    /\ agent \in {"starting", "serving", "dead"}
    /\ action \in Status \cup {Nil}
    /\ step \in Steps
    /\ DOMAIN cleaner = Drives
    /\ \A d \in Drives :
         cleaner[d] \in [at : {"none", "cleaning", "sending", "gone"},
                         left : 0..Commands(d), failed : BOOLEAN]
    /\ errors \in Seq(BOOLEAN)
    /\ content \in [Drives -> Contents]
    /\ reply \in [Callers -> Reply]

NoReply == [at |-> "none", type |-> Nil, done |-> FALSE, error |-> FALSE]

NoCleaner == [at |-> "none", left |-> 0, failed |-> FALSE]

Init ==
    /\ agent = "starting"
    /\ action = Nil
    /\ step = "none"
    /\ cleaner = [d \in Drives |-> NoCleaner]
    /\ errors = <<>>
    /\ content = [d \in Drives |-> "data"]
    /\ reply = [c \in Callers |-> NoReply]

-----------------------------------------------------------------------------
(***************************************************************************)
(* The process.                                                            *)
(***************************************************************************)
\* It listens, reports ready until that is taken, and then serves; requests wait.
SendReady ==
    /\ agent = "starting"
    /\ agent' = "serving"
    /\ UNCHANGED <<action, step, cleaner, errors, content, reply>>

\* Power cycled; what was being written stays as it is.
Reboot ==
    /\ agent' = "starting"
    /\ action' = Nil
    /\ step' = "none"
    /\ cleaner' = [d \in Drives |-> NoCleaner]
    /\ errors' = <<>>
    /\ reply' = [c \in Callers |-> NoReply]
    /\ UNCHANGED content

(***************************************************************************)
(* The requests.                                                           *)
(***************************************************************************)
\* POST /image and /clean, by a caller that was told there is no action; any other
\* action makes it a conflict.
DoAction(c, type) ==
    /\ agent = "serving"
    /\ reply[c].at = "answered"
    /\ reply[c].type = Nil
    /\ reply' = [reply EXCEPT ![c] = NoReply]
    /\ IF action = Nil
       THEN /\ action' = [type |-> type, done |-> FALSE, error |-> FALSE]
            /\ step' = IF type = "Cleaning" THEN "wait" ELSE "download"
            /\ cleaner' = IF type = "Imaging" THEN cleaner
                          ELSE [d \in Drives |-> [at |-> "cleaning", left |-> Commands(d),
                                                  failed |-> FALSE]]
       ELSE UNCHANGED <<action, step, cleaner>>
    /\ UNCHANGED <<agent, errors, content>>

\* GET /status: nothing is being done, or the status is handed out by reference.
CurrentStatus(c) ==
    /\ agent = "serving"
    /\ reply[c].at = "none"
    /\ reply' = [reply EXCEPT ![c] =
         IF action = Nil THEN [NoReply EXCEPT !.at = "answered"]
                         ELSE [NoReply EXCEPT !.at = "done", !.type = action.type]]
    /\ UNCHANGED <<agent, action, step, cleaner, errors, content>>

\* The encoder reads the fields in the order of their declaration.
ReadDone(c) ==
    /\ agent = "serving"
    /\ reply[c].at = "done"
    /\ reply' = [reply EXCEPT ![c].at = "error", ![c].done = action.done]
    /\ UNCHANGED <<agent, action, step, cleaner, errors, content>>

ReadError(c) ==
    /\ agent = "serving"
    /\ reply[c].at = "error"
    /\ reply' = [reply EXCEPT ![c].at = "answered", ![c].error = action.error]
    /\ UNCHANGED <<agent, action, step, cleaner, errors, content>>

\* The error is read while its two words are being written: the handler fails.
ReadTornError(c) ==
    /\ agent = "serving"
    /\ reply[c].at = "error"
    /\ step = "error"
    /\ reply' = [reply EXCEPT ![c] = NoReply]
    /\ UNCHANGED <<agent, action, step, cleaner, errors, content>>

\* The caller acts on the answer, or is gone.
EndRequest(c) ==
    /\ reply[c].at # "none"
    /\ reply' = [reply EXCEPT ![c] = NoReply]
    /\ UNCHANGED <<agent, action, step, cleaner, errors, content>>

(***************************************************************************)
(* The clean action.                                                       *)
(***************************************************************************)
\* Mutant: the commands are not counted.
RunCommandAgain(d) ==
    /\ cleaner[d].at = "cleaning"
    /\ cleaner' = [cleaner EXCEPT ![d].left = @ - 1]
    /\ content' = [content EXCEPT ![d] = IF cleaner[d].left = 1 THEN "blank" ELSE "part"]
    /\ UNCHANGED <<agent, action, step, errors, reply>>

RunCommand(d) ==
    /\ cleaner[d].at = "cleaning"
    /\ cleaner[d].left > 0
    /\ cleaner' = [cleaner EXCEPT ![d].left = @ - 1]
    /\ content' = [content EXCEPT ![d] = IF cleaner[d].left = 1 THEN "blank" ELSE "part"]
    /\ UNCHANGED <<agent, action, step, errors, reply>>

\* Whatever the command did of its work.
CommandFails(d) ==
    /\ cleaner[d].at = "cleaning"
    /\ cleaner[d].left > 0
    /\ cleaner' = [cleaner EXCEPT ![d].at = "sending", ![d].failed = TRUE]
    /\ content' = [content EXCEPT ![d] = "part"]
    /\ UNCHANGED <<agent, action, step, errors, reply>>

DriveCleaned(d) ==
    /\ cleaner[d].at = "cleaning"
    /\ cleaner[d].left = 0
    /\ cleaner' = [cleaner EXCEPT ![d].at = "sending"]
    /\ UNCHANGED <<agent, action, step, errors, content, reply>>

\* Mutant: a channel without room for every drive.
SendUnbuffered(d) ==
    /\ cleaner[d].at = "sending"
    /\ step # "wait"
    /\ errors' = Append(errors, cleaner[d].failed)
    /\ cleaner' = [cleaner EXCEPT ![d].at = "gone"]
    /\ UNCHANGED <<agent, action, step, content, reply>>

\* Then the drive is done for the wait group.
Send(d) ==
    /\ cleaner[d].at = "sending"
    /\ Len(errors) < Cardinality(Drives)
    /\ errors' = Append(errors, cleaner[d].failed)
    /\ cleaner' = [cleaner EXCEPT ![d].at = "gone"]
    /\ UNCHANGED <<agent, action, step, content, reply>>

\* Mutant: the first drive to finish ends the action.
WaitForOne ==
    /\ step = "wait"
    /\ \E d \in Drives : cleaner[d].at = "gone"
    /\ step' = IF \E k \in DOMAIN errors : errors[k] THEN "error" ELSE "done"
    /\ UNCHANGED <<agent, action, cleaner, errors, content, reply>>

\* waitGroup.Wait, and the errors of all drives.
Wait ==
    /\ step = "wait"
    /\ \A d \in Drives : cleaner[d].at = "gone"
    /\ step' = IF \E k \in DOMAIN errors : errors[k] THEN "error" ELSE "done"
    /\ UNCHANGED <<agent, action, cleaner, errors, content, reply>>

(***************************************************************************)
(* The image action.                                                       *)
(***************************************************************************)
ImageFails ==
    /\ step \in {"download", "write", "table", "files"}
    /\ step' = "error"
    /\ UNCHANGED <<agent, action, cleaner, errors, content, reply>>

\* What arrives is written as it comes, whatever the status of the response is.  Raw
\* content is copied until it ends; the reader of any other format refuses a body
\* that is not a whole one.
Download ==
    /\ step = "download"
    /\ step' = "write"
    /\ \E format \in Formats, body \in {"part", "wrong"} :
         /\ body = "wrong" => format = "raw"
         /\ content' = [content EXCEPT ![ImageDrive] = body]
    /\ UNCHANGED <<agent, action, cleaner, errors, reply>>

WriteImage ==
    /\ step = "write"
    /\ step' = "table"
    /\ UNCHANGED <<agent, action, cleaner, errors, content, reply>>

\* The table is what the drive has now: the image's, or the one it had before where
\* the body was too short to reach it.  Without one it fails.  A full mbr table is an
\* error.  A full gpt table passes the test for room and is written past its end: the
\* goroutine panics, and the process with it.
AddPartition ==
    /\ step = "table"
    /\ \E table \in Tables :
         IF table = "full gpt"
         THEN agent' = "dead" /\ step' = "none"
         ELSE agent' = agent /\ step' = IF table = "full mbr" THEN "error" ELSE "files"
    /\ UNCHANGED <<action, cleaner, errors, content, reply>>

\* Nothing here tells the image from another body.
WriteFiles ==
    /\ step = "files"
    /\ step' = "done"
    /\ content' = [content EXCEPT ![ImageDrive] = IF @ = "wrong" THEN "wrong" ELSE "image"]
    /\ UNCHANGED <<agent, action, cleaner, errors, reply>>

(***************************************************************************)
(* The end of Do.                                                          *)
(***************************************************************************)
WriteError ==
    /\ step = "error"
    /\ step' = "done"
    /\ action' = [action EXCEPT !.error = TRUE]
    /\ UNCHANGED <<agent, cleaner, errors, content, reply>>

\* Mutant: the action is done before its error is noted.
WriteDoneFirst ==
    \/ /\ step = "error"
       /\ action' = [action EXCEPT !.done = TRUE]
       /\ UNCHANGED <<agent, step, cleaner, errors, content, reply>>
    \/ /\ step = "done"
       /\ step' = "end"
       /\ action' = [action EXCEPT !.done = TRUE]
       /\ UNCHANGED <<agent, cleaner, errors, content, reply>>

WriteDone ==
    /\ step = "done"
    /\ step' = "end"
    /\ action' = [action EXCEPT !.done = TRUE]
    /\ UNCHANGED <<agent, cleaner, errors, content, reply>>

-----------------------------------------------------------------------------
Cleaner(d) == RunCommand(d) \/ CommandFails(d) \/ DriveCleaned(d) \/ Send(d)

Do ==
    \/ Wait
    \/ ImageFails
    \/ Download
    \/ WriteImage
    \/ AddPartition
    \/ WriteFiles
    \/ WriteError
    \/ WriteDone

Serve(c) == ReadDone(c) \/ ReadError(c) \/ ReadTornError(c)

Call(c) ==
    \/ CurrentStatus(c)
    \/ \E type \in Types : DoAction(c, type)
    \/ EndRequest(c)

Next ==
    \/ \E d \in Drives : Cleaner(d)
    \/ Do
    \/ \E c \in Callers : Serve(c) \/ Call(c)
    \/ SendReady
    \/ Reboot

\* Goroutines run, and the commands they start end.
Fairness ==
    /\ \A d \in Drives : WF_vars(Cleaner(d))
    /\ WF_vars(Do)

Spec == Init /\ [][Next]_vars /\ Fairness

-----------------------------------------------------------------------------
(***************************************************************************)
(* Properties.                                                             *)
(***************************************************************************)
\* As the contract has it, the action's outcome appears when Done is written, and
\* an answer is given when Done is read: the error that is read later was written
\* before, or does not matter.
Outcome(done, error) ==
    IF ~done THEN "working" ELSE IF error THEN "failed" ELSE "ok"

Told(c) ==
    LET r == reply[c] IN
    IF r.at = "answered" /\ r.type = Nil THEN [doing |-> Nil, outcome |-> "none"]
    ELSE IF r.at = "answered" THEN [doing |-> r.type, outcome |-> Outcome(r.done, r.error)]
    ELSE IF r.at = "error" THEN [doing |-> r.type, outcome |-> Outcome(r.done, action.error)]
    ELSE Nil

\* What imaging that succeeds leaves: only of a checked format surely the image.
Imaged == {"image"} \cup (IF "raw" \in Formats THEN {"wrong"} ELSE {})

Contract == INSTANCE AgentContract WITH
    Images <- Imaged,
    doing <- IF action = Nil THEN Nil ELSE action.type,
    outcome <- IF action = Nil THEN "none" ELSE Outcome(action.done, action.error),
    told <- [c \in Callers |-> Told(c)]

\* The agent is what InstanceLifecycle takes it to be.
ContractIsKept == Contract!Spec

\* Who is told of success can rely on it, although the status is read while it is
\* written: after a clean every drive is blank; after imaging the drive has the whole
\* of what was downloaded, which is the image if its format is checked (manager.go:102,
\* clean.go:42-46, image.go:66-71, 135-153).
ReportsAreTrue ==
    \A c \in Callers :
        (reply[c].at = "answered" /\ reply[c].done /\ ~reply[c].error)
          => IF reply[c].type = "Cleaning"
             THEN \A d \in Drives : content[d] = "blank"
             ELSE content[ImageDrive] \in Imaged

\* Imaging that is told to have succeeded has left the image: so it is where no image
\* is raw, as the operator's is not (image.go:98-131, provisioner.go:627).
ImagesAreWhole ==
    \A c \in Callers :
        (/\ reply[c].at = "answered" /\ reply[c].type = "Imaging"
         /\ reply[c].done /\ ~reply[c].error)
          => content[ImageDrive] = "image"

\* An action that was accepted ends, unless the machine is power cycled or the
\* process dies: the drives do not wait for one that takes their errors, which
\* happens only when all are done (clean.go:53-64).
ActionsFinish ==
    (action # Nil) ~> (action = Nil \/ action.done \/ agent = "dead")
=============================================================================
