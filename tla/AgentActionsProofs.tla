------------------------- MODULE AgentActionsProofs -------------------------
(***************************************************************************)
(* The agent keeps the contract of AgentContract, for any drives, tables   *)
(* and callers: its reports are true although the status is read while it  *)
(* is being written.                                                       *)
(***************************************************************************)
EXTENDS AgentActions, SequenceTheorems, TLAPS

\* Where the goroutine of Do is, against the status it writes.
StepInv ==
    /\ agent = "starting" => action = Nil
    /\ action = Nil => step = "none"
    /\ action # Nil =>
         /\ action.done <=> step = "end"
         /\ action.error => step \in {"done", "end"}
         /\ action.type = "Cleaning" =>
              step \in {"wait", "error", "done", "end"}
         /\ action.type = "Imaging" => step # "wait"

\* The goroutines of the drives work only while the clean waits for them.
CleanerInv ==
    \A d \in Drives :
        /\ cleaner[d].at \in {"cleaning", "sending"} => step = "wait"
        /\ step = "wait" => cleaner[d].at # "none"
        /\ cleaner[d].at = "cleaning" => ~cleaner[d].failed
        /\ (cleaner[d].at = "cleaning" /\ cleaner[d].left = 0) => content[d] = "blank"
        /\ (cleaner[d].at = "sending" /\ ~cleaner[d].failed) => content[d] = "blank"

\* A drive that is not blank when its goroutine is done has left an error.
ErrorsInv ==
    \A d \in Drives :
        (step = "wait" /\ cleaner[d].at = "gone" /\ content[d] # "blank")
          => \E k \in 1..Len(errors) : errors[k]

\* What the action is about to report, or reports, is achieved; a body that is not the
\* image gets onto the drive only if the image may be raw.
Achieved ==
    /\ step \in {"write", "table", "files"} => content[ImageDrive] \in {"part"} \cup Imaged
    /\ (action # Nil /\ step \in {"done", "end"} /\ ~action.error) =>
         IF action.type = "Cleaning"
         THEN \A d \in Drives : content[d] = "blank"
         ELSE content[ImageDrive] \in Imaged

\* An answer is about the action of this boot, and what it says is final once it
\* says that the action is done.
ReplyInv ==
    \A c \in Callers :
        /\ reply[c].at = "none" => reply[c] = NoReply
        /\ reply[c].at \in {"done", "error"} => reply[c].type # Nil
        /\ reply[c].at = "done" => ~reply[c].done
        /\ reply[c].type # Nil => action # Nil /\ reply[c].type = action.type
        /\ reply[c].done => reply[c].type # Nil /\ action.done
        /\ (reply[c].at = "answered" /\ reply[c].done) => reply[c].error = action.error

IInv == AgentTypeOK /\ StepInv /\ CleanerInv /\ ErrorsInv /\ Achieved /\ ReplyInv

\* The type invariant in parts.
Goroutine(d) ==
    [at : {"none", "cleaning", "sending", "gone"}, left : 0..Commands(d), failed : BOOLEAN]

LEMMA GoroutineType ==
    ASSUME NEW d \in Drives
    PROVE  Commands(d) \in Nat \ {0} /\ NoCleaner \in Goroutine(d)
  BY DEF Commands, Goroutine, NoCleaner

\* The agent begins idle.
LEMMA IInvInit == Init => IInv
  <1>. SUFFICES ASSUME Init PROVE IInv
    OBVIOUS
  <1>. USE AgentAssumption DEF Init
  <1>1. AgentTypeOK
    <2>1. \A d \in Drives : cleaner[d] \in Goroutine(d)
      BY GoroutineType
    <2>2. reply \in [Callers -> Reply]
      BY DEF Reply, NoReply
    <2>3. content \in [Drives -> Contents]
      BY DEF Contents
    <2>4. DOMAIN cleaner = Drives
      OBVIOUS
    <2>5. errors \in Seq(BOOLEAN)
      BY EmptySeq
    <2>. QED
      BY <2>1, <2>2, <2>3, <2>4, <2>5 DEF AgentTypeOK, Goroutine, Steps
  <1>2. StepInv /\ Achieved /\ ErrorsInv
    BY DEF StepInv, Achieved, ErrorsInv
  <1>3. CleanerInv
    BY DEF CleanerInv, NoCleaner
  <1>4. ReplyInv
    BY DEF ReplyInv, NoReply
  <1>. QED
    BY <1>1, <1>2, <1>3, <1>4 DEF IInv

\* What requests do is to the answers only.
LEMMA RequestsKeepIInv ==
    ASSUME IInv, NEW c \in Callers,
           CurrentStatus(c) \/ ReadDone(c) \/ ReadError(c) \/ ReadTornError(c) \/ EndRequest(c)
    PROVE  IInv'
  <1>. USE DEF IInv
  <1>1. /\ UNCHANGED <<agent, action, step, cleaner, errors, content>>
        /\ \E r : reply' = [reply EXCEPT ![c] = r]
    <2>1. CASE CurrentStatus(c)
      BY <2>1 DEF CurrentStatus
    <2>2. CASE ReadDone(c)
      BY <2>2 DEF ReadDone
    <2>3. CASE ReadError(c)
      BY <2>3 DEF ReadError
    <2>4. CASE ReadTornError(c)
      BY <2>4 DEF ReadTornError
    <2>5. CASE EndRequest(c)
      BY <2>5 DEF EndRequest
    <2>. QED
      BY <2>1, <2>2, <2>3, <2>4, <2>5
  <1>2. StepInv' /\ CleanerInv' /\ ErrorsInv' /\ Achieved'
    BY <1>1 DEF StepInv, CleanerInv, ErrorsInv, Achieved
  <1>3. /\ reply \in [Callers -> Reply]
        /\ action # Nil => action \in Status
    BY DEF AgentTypeOK
  <1>4. reply[c] \in Reply
    BY <1>3
  <1>5. reply'[c] \in Reply /\ ReplyInv'
    <2>. DEFINE o == reply[c]
                Fits(r) == /\ r.at = "none" => r = NoReply
                           /\ r.at \in {"done", "error"} => r.type # Nil
                           /\ r.at = "done" => ~r.done
                           /\ r.type # Nil => action # Nil /\ r.type = action.type
                           /\ r.done => r.type # Nil /\ action.done
                           /\ (r.at = "answered" /\ r.done) => r.error = action.error
    <2>1. \A d \in Callers : Fits(reply[d])
      BY DEF ReplyInv
    <2>2. ASSUME NEW r \in Reply, Fits(r), reply' = [reply EXCEPT ![c] = r]
          PROVE  reply'[c] \in Reply /\ ReplyInv'
      <3>. HIDE DEF Fits
      <3>1. reply'[c] = r /\ \A d \in Callers : Fits(reply'[d])
        BY <1>3, <2>1, <2>2
      <3>. USE DEF Fits
      <3>. QED
        BY <3>1, <1>1 DEF ReplyInv
    <2>3. NoReply \in Reply /\ Fits(NoReply)
      BY DEF NoReply, Reply
    <2>4. CASE CurrentStatus(c) /\ action = Nil
      <3>. DEFINE r == [NoReply EXCEPT !.at = "answered"]
      <3>1. r.at = "answered" /\ r.type = Nil /\ ~r.done /\ ~r.error
        BY DEF NoReply
      <3>2. r \in Reply
        BY <2>3 DEF Reply
      <3>3. Fits(r)
        BY <3>1
      <3>. HIDE DEF r, Fits
      <3>4. reply' = [reply EXCEPT ![c] = r]
        BY <2>4 DEF CurrentStatus, r
      <3>. QED
        BY <2>2, <3>2, <3>3, <3>4
    <2>5. CASE CurrentStatus(c) /\ action # Nil
      <3>. DEFINE r == [NoReply EXCEPT !.at = "done", !.type = action.type]
      <3>1. r.at = "done" /\ r.type = action.type /\ ~r.done /\ ~r.error
        BY DEF NoReply
      <3>2. action.type \in Types /\ action.type # Nil
        BY <2>5, <1>3, AgentAssumption DEF Status, Types
      <3>3. r \in Reply
        BY <2>3, <3>2 DEF Reply
      <3>4. Fits(r)
        BY <3>1, <3>2, <2>5
      <3>. HIDE DEF r, Fits
      <3>5. reply' = [reply EXCEPT ![c] = r]
        BY <2>5 DEF CurrentStatus, r
      <3>. QED
        BY <2>2, <3>3, <3>4, <3>5
    <2>6. CASE ReadDone(c)
      <3>. DEFINE r == [o EXCEPT !.at = "error", !.done = action.done]
      <3>1. /\ r.at = "error" /\ r.done = action.done /\ r.type = o.type
            /\ r.error = o.error /\ o.type # Nil /\ o.type = action.type /\ action # Nil
        BY <1>4, <2>1, <2>6 DEF Reply, ReadDone
      <3>2. r \in Reply
        BY <1>3, <1>4, <3>1 DEF Reply, Status
      <3>3. Fits(r)
        BY <3>1
      <3>. HIDE DEF r, Fits
      <3>4. reply' = [reply EXCEPT ![c] = r]
        BY <2>6 DEF ReadDone, r
      <3>. QED
        BY <2>2, <3>2, <3>3, <3>4
    <2>7. CASE ReadError(c)
      <3>. DEFINE r == [o EXCEPT !.at = "answered", !.error = action.error]
      <3>1. /\ r.at = "answered" /\ r.error = action.error /\ r.type = o.type
            /\ r.done = o.done /\ o.type # Nil /\ o.type = action.type /\ action # Nil
            /\ o.done => action.done
        BY <1>4, <2>1, <2>7 DEF Reply, ReadError
      <3>2. r \in Reply
        BY <1>3, <1>4, <3>1 DEF Reply, Status
      <3>3. Fits(r)
        BY <3>1
      <3>. HIDE DEF r, Fits
      <3>4. reply' = [reply EXCEPT ![c] = r]
        BY <2>7 DEF ReadError, r
      <3>. QED
        BY <2>2, <3>2, <3>3, <3>4
    <2>8. CASE ReadTornError(c) \/ EndRequest(c)
      <3>1. reply' = [reply EXCEPT ![c] = NoReply]
        BY <2>8 DEF ReadTornError, EndRequest
      <3>. HIDE DEF Fits
      <3>. QED
        BY <2>2, <2>3, <3>1
    <2>. QED
      BY <2>4, <2>5, <2>6, <2>7, <2>8
  <1>6. AgentTypeOK'
    BY <1>1, <1>3, <1>5 DEF AgentTypeOK, Commands, Goroutine
  <1>. QED
    BY <1>2, <1>5, <1>6

\* An accepted action begins when there is none.
LEMMA DoActionKeepsIInv ==
    ASSUME IInv, NEW c \in Callers, NEW type \in Types, DoAction(c, type)
    PROVE  IInv'
  <1>. USE DEF IInv
  <1>1. /\ reply \in [Callers -> Reply]
        /\ UNCHANGED <<agent, errors, content>>
        /\ agent = "serving"
        /\ reply' = [reply EXCEPT ![c] = NoReply]
        /\ NoReply \in Reply
    BY DEF AgentTypeOK, DoAction, NoReply, Reply
  <1>2. reply' \in [Callers -> Reply]
    BY <1>1
  <1>3. CASE action # Nil
    <2>1. UNCHANGED <<action, step, cleaner>>
      BY <1>3 DEF DoAction
    <2>2. StepInv' /\ CleanerInv' /\ ErrorsInv' /\ Achieved'
      BY <1>1, <2>1 DEF StepInv, CleanerInv, ErrorsInv, Achieved
    <2>3. ReplyInv'
      BY <1>1, <2>1 DEF ReplyInv, NoReply
    <2>4. AgentTypeOK'
      BY <1>1, <1>2, <2>1 DEF AgentTypeOK, Commands
    <2>. QED
      BY <2>2, <2>3, <2>4
  <1>4. CASE action = Nil
    <2>1. /\ action' \in Status
          /\ action' # Nil
          /\ action'.type = type /\ ~action'.done /\ ~action'.error
      <3>1. action' = [type |-> type, done |-> FALSE, error |-> FALSE]
        BY <1>4 DEF DoAction
      <3>2. action' \in [type : {"Imaging", "Cleaning"}, done : BOOLEAN, error : BOOLEAN]
        BY <3>1 DEF Types
      <3>3. action'.type = type /\ ~action'.done /\ ~action'.error
        BY <3>1
      <3>. QED
        BY <3>2, <3>3, AgentAssumption DEF Status, Types
    <2>2. /\ step = "none"
          /\ step' = IF type = "Cleaning" THEN "wait" ELSE "download"
          /\ \A d \in Drives : cleaner[d].at \in {"none", "gone"}
      BY <1>4 DEF DoAction, StepInv, CleanerInv, AgentTypeOK
    <2>3. CASE type = "Imaging"
      <3>1. cleaner' = cleaner /\ step' = "download"
        BY <1>4, <2>2, <2>3 DEF DoAction
      <3>2. StepInv' /\ CleanerInv' /\ ErrorsInv' /\ Achieved'
        BY <1>1, <2>1, <2>2, <2>3, <3>1 DEF StepInv, CleanerInv, ErrorsInv, Achieved
      <3>3. AgentTypeOK'
        BY <1>1, <1>2, <2>1, <3>1 DEF AgentTypeOK, Commands, Steps
      <3>. QED
        BY <3>2, <3>3, <1>1, <1>4, <2>1 DEF ReplyInv, NoReply
    <2>4. CASE type = "Cleaning"
      <3>. DEFINE New(d) == [at |-> "cleaning", left |-> Commands(d), failed |-> FALSE]
      <3>1. cleaner' = [d \in Drives |-> New(d)] /\ step' = "wait"
        BY <1>4, <2>2, <2>4 DEF DoAction
      <3>2. \A d \in Drives :
              /\ cleaner'[d] \in Goroutine(d)
              /\ cleaner'[d].at = "cleaning" /\ ~cleaner'[d].failed /\ cleaner'[d].left # 0
        BY <3>1, GoroutineType DEF Goroutine
      <3>3. StepInv' /\ CleanerInv' /\ ErrorsInv' /\ Achieved'
        BY <1>1, <2>1, <2>2, <2>4, <3>1, <3>2 DEF StepInv, CleanerInv, ErrorsInv, Achieved
      <3>4. DOMAIN cleaner' = Drives
        BY <3>1
      <3>5. AgentTypeOK'
        <4>1. \A d \in Drives : cleaner'[d] \in [at : {"none", "cleaning", "sending", "gone"},
                                                 left : 0..Commands(d), failed : BOOLEAN]
          BY <3>2 DEF Goroutine
        <4>. QED
          BY <1>1, <1>2, <2>1, <3>1, <3>4, <4>1 DEF AgentTypeOK, Commands, Steps
      <3>. QED
        BY <3>3, <3>5, <1>1, <1>4, <2>1 DEF ReplyInv, NoReply
    <2>. QED
      BY <2>3, <2>4 DEF Types
  <1>. QED
    BY <1>3, <1>4

\* Starting to serve, and a new boot.
LEMMA ProcessKeepsIInv ==
    ASSUME IInv, SendReady \/ Reboot
    PROVE  IInv'
  <1>. USE DEF IInv
  <1>1. CASE SendReady
    <2>. USE <1>1 DEF SendReady
    <2>1. AgentTypeOK'
      BY DEF AgentTypeOK, Commands
    <2>2. StepInv' /\ CleanerInv' /\ ErrorsInv' /\ Achieved' /\ ReplyInv'
      BY DEF StepInv, CleanerInv, ErrorsInv, Achieved, ReplyInv
    <2>. QED
      BY <2>1, <2>2
  <1>2. CASE Reboot
    <2>. USE <1>2 DEF Reboot
    <2>1. /\ DOMAIN cleaner' = Drives
          /\ \A d \in Drives : cleaner'[d] = NoCleaner /\ cleaner'[d] \in Goroutine(d)
      BY GoroutineType
    <2>2. reply' \in [Callers -> Reply]
      BY DEF Reply, NoReply
    <2>3. errors' \in Seq(BOOLEAN)
      BY EmptySeq
    <2>4. AgentTypeOK'
      BY <2>1, <2>2, <2>3 DEF AgentTypeOK, Goroutine, Steps, Commands
    <2>5. StepInv' /\ CleanerInv' /\ ErrorsInv' /\ Achieved' /\ ReplyInv'
      BY <2>1 DEF StepInv, CleanerInv, ErrorsInv, Achieved, ReplyInv, NoCleaner, NoReply
    <2>. QED
      BY <2>4, <2>5
  <1>. QED
    BY <1>1, <1>2

\* While the goroutine of Do is neither done nor at its end, no report is final.
LEMMA WorkingKeepsReplies ==
    ASSUME IInv, UNCHANGED <<action, reply>>
    PROVE  ReplyInv'
  BY DEF IInv, ReplyInv

\* The goroutines of the drives.
LEMMA CleanersKeepIInv ==
    ASSUME IInv, NEW d \in Drives, Cleaner(d)
    PROVE  IInv'
  <1>. USE DEF IInv
  <1>1. /\ UNCHANGED <<agent, action, step, reply>>
        /\ step = "wait"
        /\ cleaner[d] \in Goroutine(d)
        /\ DOMAIN cleaner = Drives
    BY DEF Cleaner, RunCommand, CommandFails, DriveCleaned, Send, CleanerInv, AgentTypeOK,
           Goroutine
  <1>2. StepInv' /\ Achieved' /\ ReplyInv'
    BY <1>1, WorkingKeepsReplies DEF StepInv, Achieved
  <1>3. SUFFICES ASSUME NEW v \in Goroutine(d), NEW x \in Contents,
                        NEW more \in {<<>>, <<FALSE>>, <<TRUE>>},
                        v.at # "none",
                        cleaner' = [cleaner EXCEPT ![d] = v],
                        content' = [content EXCEPT ![d] = x],
                        errors' = errors \o more,
                        v.at = "cleaning" => ~v.failed,
                        (v.at = "cleaning" /\ v.left = 0) => x = "blank",
                        (v.at = "sending" /\ ~v.failed) => x = "blank",
                        (v.at = "gone" /\ x # "blank") => more = <<TRUE>>
                 PROVE  IInv'
    <2>0. content \in [Drives -> Contents] /\ "blank" \in Contents /\ "part" \in Contents
      BY DEF AgentTypeOK, Contents
    <2>1. /\ content[d] \in Contents
          /\ content = [content EXCEPT ![d] = content[d]]
      BY <2>0
    <2>6. /\ errors \in Seq(BOOLEAN)
          /\ errors = errors \o <<>>
          /\ \A b : Append(errors, b) = errors \o <<b>>
          /\ cleaner[d].left \in 0..Commands(d)
          /\ cleaner[d].failed \in BOOLEAN
          /\ Commands(d) \in Nat
      BY <1>1, GoroutineType DEF AgentTypeOK, Goroutine
    <2>2. CASE RunCommand(d)
      <3>. DEFINE v == [cleaner[d] EXCEPT !.left = @ - 1]
                  x == IF cleaner[d].left = 1 THEN "blank" ELSE "part"
      <3>3. cleaner[d].at = "cleaning" /\ ~cleaner[d].failed /\ cleaner[d].left > 0
        BY <1>1, <2>2 DEF RunCommand, CleanerInv
      <3>4. cleaner[d].left - 1 \in 0..Commands(d)
        BY <2>6, <3>3
      <3>5. v.left = cleaner[d].left - 1 /\ v.at = "cleaning" /\ ~v.failed
        BY <1>1, <3>3 DEF Goroutine
      <3>6. v \in Goroutine(d)
        BY <1>1, <3>4 DEF Goroutine
      <3>1. v \in Goroutine(d) /\ v.at = "cleaning" /\ ~v.failed /\ (v.left = 0 => x = "blank")
        BY <2>1, <2>6, <3>5, <3>6
      <3>2. /\ cleaner' = [cleaner EXCEPT ![d] = v]
            /\ content' = [content EXCEPT ![d] = x]
            /\ errors' = errors \o <<>>
        BY <2>1, <2>6, <2>2 DEF RunCommand
      <3>. QED
        BY <1>3, <2>0, <3>1, <3>2
    <2>3. CASE CommandFails(d)
      <3>. DEFINE v == [cleaner[d] EXCEPT !.at = "sending", !.failed = TRUE]
      <3>1. v \in Goroutine(d) /\ v.at = "sending" /\ v.failed
        BY <1>1 DEF Goroutine
      <3>2. /\ cleaner' = [cleaner EXCEPT ![d] = v]
            /\ content' = [content EXCEPT ![d] = "part"]
            /\ errors' = errors \o <<>>
        BY <2>1, <2>6, <2>3 DEF CommandFails
      <3>. QED
        BY <1>3, <2>0, <3>1, <3>2
    <2>4. CASE DriveCleaned(d)
      <3>. DEFINE v == [cleaner[d] EXCEPT !.at = "sending"]
      <3>1. v \in Goroutine(d) /\ v.at = "sending" /\ content[d] = "blank"
        BY <1>1, <2>4 DEF Goroutine, DriveCleaned, CleanerInv
      <3>2. /\ cleaner' = [cleaner EXCEPT ![d] = v]
            /\ content' = [content EXCEPT ![d] = content[d]]
            /\ errors' = errors \o <<>>
        BY <2>1, <2>6, <2>4 DEF DriveCleaned
      <3>. QED
        BY <1>3, <2>1, <2>6, <3>1, <3>2
    <2>5. CASE Send(d)
      <3>. DEFINE v == [cleaner[d] EXCEPT !.at = "gone"]
      <3>1. v \in Goroutine(d) /\ v.at = "gone"
        BY <1>1 DEF Goroutine
      <3>2. /\ cleaner' = [cleaner EXCEPT ![d] = v]
            /\ content' = [content EXCEPT ![d] = content[d]]
            /\ errors' = errors \o <<cleaner[d].failed>>
        BY <2>1, <2>6, <2>5 DEF Send
      <3>3. content[d] # "blank" => cleaner[d].failed
        BY <2>5 DEF Send, CleanerInv
      <3>. QED
        BY <1>3, <2>1, <2>6, <3>1, <3>2, <3>3
    <2>. QED
      BY <2>2, <2>3, <2>4, <2>5 DEF Cleaner
  <1>4. /\ \A e \in Drives : cleaner'[e] = IF e = d THEN v ELSE cleaner[e]
        /\ \A e \in Drives : content'[e] = IF e = d THEN x ELSE content[e]
        /\ DOMAIN cleaner' = Drives
        /\ content' \in [Drives -> Contents]
    BY <1>1, <1>3 DEF AgentTypeOK
  <1>5. /\ errors' \in Seq(BOOLEAN)
        /\ (\E k \in 1..Len(errors) : errors[k]) => \E k \in 1..Len(errors') : errors'[k]
        /\ more = <<TRUE>> => \E k \in 1..Len(errors') : errors'[k]
    <2>1. errors \in Seq(BOOLEAN) /\ more \in Seq(BOOLEAN)
      <3>1. <<>> \in Seq(BOOLEAN) /\ <<FALSE>> \in Seq(BOOLEAN) /\ <<TRUE>> \in Seq(BOOLEAN)
        BY EmptySeq
      <3>. QED
        BY <1>3, <3>1 DEF AgentTypeOK
    <2>2. /\ errors' \in Seq(BOOLEAN)
          /\ Len(errors') = Len(errors) + Len(more)
          /\ \A k \in 1..Len(errors) : errors'[k] = errors[k]
          /\ \A k \in 1..Len(more) : errors'[Len(errors) + k] = more[k]
      BY <1>3, <2>1, ConcatProperties
    <2>3. more = <<TRUE>> => Len(more) = 1 /\ more[1] = TRUE
      OBVIOUS
    <2>4. Len(errors) \in Nat /\ Len(more) \in Nat
      BY <2>1, LenProperties
    <2>5. \A k \in 1..Len(errors) : k \in 1..Len(errors')
      BY <2>2, <2>4
    <2>6. ASSUME more = <<TRUE>>
          PROVE  Len(errors) + 1 \in 1..Len(errors') /\ errors'[Len(errors) + 1]
      <3>1. 1 \in 1..Len(more) /\ more[1] = TRUE /\ Len(more) = 1
        BY <2>3, <2>6
      <3>2. errors'[Len(errors) + 1] = TRUE
        BY <2>2, <3>1, Zenon
      <3>. QED
        BY <2>2, <2>4, <3>1, <3>2
    <2>. QED
      BY <2>2, <2>5, <2>6
  <1>6. AgentTypeOK'
    BY <1>1, <1>3, <1>4, <1>5 DEF AgentTypeOK, Goroutine, Commands
  <1>7. CleanerInv'
    BY <1>1, <1>3, <1>4 DEF CleanerInv
  <1>8. ErrorsInv'
    BY <1>1, <1>3, <1>4, <1>5 DEF ErrorsInv
  <1>. QED
    BY <1>2, <1>6, <1>7, <1>8

\* The goroutine of Do.
LEMMA DoKeepsIInv ==
    ASSUME IInv, Do
    PROVE  IInv'
  <1>. USE DEF IInv
  <1>1. /\ UNCHANGED <<cleaner, errors, reply>>
        /\ agent' # "starting" \/ agent' = agent
        /\ agent' \in {"starting", "serving", "dead"}
        /\ step \notin {"none", "end"}
        /\ action # Nil /\ action \in Status /\ ~action.done
    BY DEF Do, Wait, ImageFails, Download, WriteImage, AddPartition, WriteFiles, WriteError,
           WriteDone, AgentTypeOK, StepInv
  <1>2. CASE Wait
    <2>. USE <1>2 DEF Wait
    <2>1. step' \in {"error", "done"} /\ action' = action /\ content' = content
          /\ step = "wait" /\ agent' = agent
      OBVIOUS
    <2>2. /\ action.type \in Types
          /\ action.type = "Cleaning"
          /\ ~action.error
      BY <1>1, <2>1 DEF StepInv, Status, Types
    <2>3. step' = "done" => \A d \in Drives : content[d] = "blank"
      <3>1. errors \in Seq(BOOLEAN)
        BY DEF AgentTypeOK
      <3>2. DOMAIN errors = 1..Len(errors)
        BY <3>1
      <3>3. step' = "done" => ~ \E k \in 1..Len(errors) : errors[k]
        BY <3>2
      <3>. QED
        BY <3>3, <2>1 DEF ErrorsInv
    <2>4. AgentTypeOK'
      BY <1>1, <2>1 DEF AgentTypeOK, Commands, Steps
    <2>5. StepInv'
      BY <1>1, <2>1, <2>2 DEF StepInv
    <2>6. CleanerInv' /\ ErrorsInv'
      BY <1>1, <2>1 DEF CleanerInv, ErrorsInv
    <2>7. Achieved' /\ ReplyInv'
      BY <1>1, <2>1, <2>2, <2>3 DEF Achieved, ReplyInv
    <2>. QED
      BY <2>4, <2>5, <2>6, <2>7
  <1>3. CASE ImageFails \/ Download \/ WriteImage \/ AddPartition \/ WriteFiles
    <2>1. /\ step \in {"download", "write", "table", "files"}
          /\ action' = action
          /\ step' \in {"none", "write", "table", "files", "error", "done"}
          /\ step = "download" => step' \in {"write", "error"}
      BY <1>3 DEF ImageFails, Download, WriteImage, AddPartition, WriteFiles
    <2>2. action.type = "Imaging"
      BY <1>1, <2>1 DEF StepInv, Status, Types
    <2>3. /\ content' \in [Drives -> Contents]
          /\ step' \in {"write", "table", "files"} => content'[ImageDrive] \in {"part"} \cup Imaged
          /\ step' = "done" => content'[ImageDrive] \in Imaged
      <3>1. content \in [Drives -> Contents] /\ ImageDrive \in Drives
        BY AgentAssumption DEF AgentTypeOK
      <3>2. CASE Download
        <4>1. PICK body \in {"part", "wrong"} :
                   /\ body = "wrong" => "raw" \in Formats
                   /\ content' = [content EXCEPT ![ImageDrive] = body]
          BY <3>2 DEF Download
        <4>2. step' = "write"
          BY <3>2 DEF Download
        <4>. QED
          BY <3>1, <4>1, <4>2 DEF Contents, Imaged
      <3>3. CASE WriteFiles
        <4>. DEFINE x == IF content[ImageDrive] = "wrong" THEN "wrong" ELSE "image"
        <4>1. content' = [content EXCEPT ![ImageDrive] = x] /\ step' = "done" /\ step = "files"
          BY <3>3 DEF WriteFiles
        <4>2. x \in Imaged /\ x \in Contents
          BY <4>1 DEF Achieved, Imaged, Contents
        <4>. QED
          BY <3>1, <4>1, <4>2
      <3>4. CASE ImageFails \/ WriteImage \/ AddPartition
        <4>1. content' = content
          BY <3>4 DEF ImageFails, WriteImage, AddPartition
        <4>2. step' \in {"write", "table", "files"} => step \in {"write", "table", "files"}
          BY <3>4 DEF ImageFails, WriteImage, AddPartition
        <4>3. step' # "done"
          BY <3>4 DEF ImageFails, WriteImage, AddPartition
        <4>. QED
          BY <3>1, <4>1, <4>2, <4>3 DEF Achieved
      <3>. QED
        BY <1>3, <3>2, <3>3, <3>4
    <2>4. AgentTypeOK'
      BY <1>1, <2>1, <2>3 DEF AgentTypeOK, Commands, Steps
    <2>5. StepInv'
      BY <1>1, <2>1, <2>2 DEF StepInv
    <2>6. CleanerInv' /\ ErrorsInv'
      BY <1>1, <2>1 DEF CleanerInv, ErrorsInv
    <2>7. Achieved' /\ ReplyInv'
      BY <1>1, <2>1, <2>2, <2>3 DEF Achieved, ReplyInv
    <2>. QED
      BY <2>4, <2>5, <2>6, <2>7
  <1>4. CASE WriteError \/ WriteDone
    <2>1. /\ step \in {"error", "done"} /\ step' \in {"done", "end"}
          /\ content' = content /\ agent' = agent
          /\ step = "error" <=> step' = "done"
          /\ action' \in Status
          /\ action'.type = action.type
          /\ step = "error" => action'.error /\ action'.done = action.done
          /\ step = "done" => action'.error = action.error /\ action'.done
      BY <1>1, <1>4 DEF WriteError, WriteDone, Status
    <2>2. action' # Nil
      BY <2>1, AgentAssumption DEF Status, Types
    <2>3. AgentTypeOK'
      BY <1>1, <2>1 DEF AgentTypeOK, Commands, Steps
    <2>4. StepInv'
      BY <1>1, <2>1, <2>2 DEF StepInv, Status, Types
    <2>5. CleanerInv' /\ ErrorsInv'
      BY <1>1, <2>1 DEF CleanerInv, ErrorsInv
    <2>6. Achieved' /\ ReplyInv'
      BY <1>1, <2>1, <2>2 DEF Achieved, ReplyInv
    <2>. QED
      BY <2>3, <2>4, <2>5, <2>6
  <1>. QED
    BY <1>2, <1>3, <1>4 DEF Do

\* Every step of the agent.
LEMMA IInvStep == IInv /\ [Next]_vars => IInv'
  <1>. SUFFICES ASSUME IInv, [Next]_vars PROVE IInv'
    OBVIOUS
  <1>1. ASSUME NEW d \in Drives, Cleaner(d) PROVE IInv'
    BY <1>1, CleanersKeepIInv
  <1>2. CASE Do
    BY <1>2, DoKeepsIInv
  <1>3. ASSUME NEW c \in Callers, Serve(c) PROVE IInv'
    BY <1>3, RequestsKeepIInv DEF Serve
  <1>4. ASSUME NEW c \in Callers, Call(c) PROVE IInv'
    BY <1>4, RequestsKeepIInv, DoActionKeepsIInv DEF Call
  <1>5. CASE SendReady \/ Reboot
    BY <1>5, ProcessKeepsIInv
  <1>6. CASE UNCHANGED vars
    BY <1>6 DEF vars, IInv, AgentTypeOK, StepInv, CleanerInv, ErrorsInv, Achieved, ReplyInv,
                Commands
  <1>. QED
    BY <1>1, <1>2, <1>3, <1>4, <1>5, <1>6 DEF Next

\* So it holds throughout.
LEMMA IInvHolds == Spec => []IInv
  <1>1. Init /\ [][Next]_vars => []IInv
    BY IInvInit, IInvStep, PTL
  <1>. QED
    BY <1>1, PTL DEF Spec

\* The agent's status, goroutines, channel and answers are what the type invariant
\* says for any number of drives and callers.
THEOREM AgentTypes == Spec => []AgentTypeOK
  <1>1. IInv => AgentTypeOK
    BY DEF IInv
  <1>. QED
    BY <1>1, IInvHolds, PTL

\* Success is reported only of what is achieved, blank drives or a whole body on the
\* image drive: Done is written after Error, and read before it (manager.go:110,
\* clean.go:42-46, image.go:66-71).
THEOREM ReportsAreAlwaysTrue == Spec => []ReportsAreTrue
  <1>1. IInv => ReportsAreTrue
    <2>. SUFFICES ASSUME IInv, NEW c \in Callers,
                         reply[c].at = "answered", reply[c].done, ~reply[c].error
                  PROVE  IF reply[c].type = "Cleaning"
                         THEN \A d \in Drives : content[d] = "blank"
                         ELSE content[ImageDrive] \in Imaged
      BY DEF ReportsAreTrue
    <2>1. action # Nil /\ reply[c].type = action.type /\ action.done /\ ~action.error
      BY DEF IInv, ReplyInv
    <2>. QED
      BY <2>1 DEF IInv, StepInv, Achieved
  <1>. QED
    BY <1>1, IInvHolds, PTL

\* An image of a checked format is on the drive when its imaging is reported as a
\* success; an error page is taken only for a raw one (image.go:98-153).
THEOREM CheckedImagesAreWhole ==
    ASSUME "raw" \notin Formats
    PROVE  Spec => []ImagesAreWhole
  <1>1. ReportsAreTrue => ImagesAreWhole
    BY DEF ReportsAreTrue, ImagesAreWhole, Imaged
  <1>. QED
    BY <1>1, ReportsAreAlwaysTrue, PTL

-----------------------------------------------------------------------------
(***************************************************************************)
(* The contract.                                                           *)
(***************************************************************************)
Doing == IF action = Nil THEN Nil ELSE action.type

Result == IF action = Nil THEN "none" ELSE Outcome(action.done, action.error)

Answers == [c \in Callers |-> Told(c)]

ContractStep == [Contract!Next]_(Contract!vars)

\* A step that leaves the action, the drives and the answers is none of the contract.
LEMMA NoContractStep ==
    ASSUME UNCHANGED <<Doing, Result, content, Answers>>
    PROVE  ContractStep
  BY DEF ContractStep, Contract!vars, Doing, Result, Answers

\* An answer depends on the action only while its error is yet to be read.
LEMMA AnswersStay ==
    ASSUME UNCHANGED <<action, reply>>
    PROVE  UNCHANGED <<Doing, Result, Answers>>
  BY DEF Doing, Result, Answers, Told, Outcome

\* What requests do is answer, or forget an answer.
LEMMA RequestsKeepContract ==
    ASSUME IInv, NEW c \in Callers,
           CurrentStatus(c) \/ ReadDone(c) \/ ReadError(c) \/ ReadTornError(c) \/ EndRequest(c)
    PROVE  ContractStep
  <1>1. /\ UNCHANGED <<action, content>>
        /\ reply \in [Callers -> Reply]
        /\ \E r : reply' = [reply EXCEPT ![c] = r]
    BY DEF IInv, AgentTypeOK, CurrentStatus, ReadDone, ReadError, ReadTornError, EndRequest
  <1>2. UNCHANGED <<Doing, Result>>
    BY <1>1 DEF Doing, Result, Outcome
  <1>3. Answers' = [Answers EXCEPT ![c] = Told(c)']
    BY <1>1 DEF Answers, Told
  <1>4. CASE Told(c)' = Told(c)
    <2>1. Answers' = Answers
      BY <1>3, <1>4 DEF Answers
    <2>. QED
      BY <1>1, <1>2, <2>1, NoContractStep
  <1>5. CASE Told(c)' = Nil
    <2>1. Contract!Forget(c)
      BY <1>1, <1>2, <1>3, <1>5 DEF Contract!Forget, Answers, Doing, Result
    <2>. QED
      BY <2>1 DEF ContractStep, Contract!Next
  <1>6. CASE Told(c)' = [doing |-> Doing, outcome |-> Result]
    <2>1. Contract!Tell(c)
      BY <1>1, <1>2, <1>3, <1>6 DEF Contract!Tell, Answers, Doing, Result
    <2>. QED
      BY <2>1 DEF ContractStep, Contract!Next
  <1>7. Told(c)' \in {Told(c), Nil, [doing |-> Doing, outcome |-> Result]}
    <2>. USE DEF Told, NoReply, Outcome, Doing, Result
    <2>0. reply[c] \in Reply
      BY <1>1
    <2>1. CASE CurrentStatus(c)
      BY <1>1, <2>0, <2>1 DEF CurrentStatus, Reply
    <2>2. CASE ReadDone(c)
      BY <1>1, <2>0, <2>2 DEF ReadDone, IInv, ReplyInv, Reply
    <2>3. CASE ReadError(c)
      BY <1>1, <2>0, <2>3 DEF ReadError, IInv, ReplyInv, Reply
    <2>4. CASE ReadTornError(c)
      BY <1>1, <2>0, <2>4 DEF ReadTornError, Reply
    <2>5. CASE EndRequest(c)
      BY <1>1, <2>0, <2>5 DEF EndRequest, Reply
    <2>. QED
      BY <2>1, <2>2, <2>3, <2>4, <2>5
  <1>. QED
    BY <1>4, <1>5, <1>6, <1>7

\* An action starts at the request of a caller that was told of none; a request that
\* comes second is answered without one.
LEMMA DoActionKeepsContract ==
    ASSUME IInv, NEW c \in Callers, NEW type \in Types, DoAction(c, type)
    PROVE  ContractStep
  <1>1. /\ UNCHANGED content
        /\ reply \in [Callers -> Reply]
        /\ reply' = [reply EXCEPT ![c] = NoReply]
        /\ reply[c].at = "answered" /\ reply[c].type = Nil
    BY DEF IInv, AgentTypeOK, DoAction
  <1>2. Told(c) = [doing |-> Nil, outcome |-> "none"]
    BY <1>1 DEF Told
  <1>3. Told(c)' = Nil
    BY <1>1 DEF Told, NoReply
  <1>4. CASE action # Nil
    <2>1. action' = action
      BY <1>4 DEF DoAction
    <2>2. UNCHANGED <<Doing, Result>>
      BY <2>1 DEF Doing, Result, Outcome
    <2>3. Answers' = [Answers EXCEPT ![c] = Nil]
      BY <1>1, <1>3, <2>1 DEF Answers, Told
    <2>4. Contract!Forget(c)
      BY <1>1, <2>2, <2>3 DEF Contract!Forget, Answers, Doing, Result
    <2>. QED
      BY <2>4 DEF ContractStep, Contract!Next
  <1>5. CASE action = Nil
    <2>1. action' = [type |-> type, done |-> FALSE, error |-> FALSE]
      BY <1>5 DEF DoAction
    <2>2. action' # Nil
      <3>1. action' \in [type : {"Imaging", "Cleaning"}, done : BOOLEAN, error : BOOLEAN]
        BY <2>1 DEF Types
      <3>. QED
        BY <3>1, AgentAssumption
    <2>3. Doing = Nil /\ Doing' = type /\ Result' = "working"
      BY <1>5, <2>1, <2>2 DEF Doing, Result, Outcome
    <2>4. \A b \in Callers \ {c} : reply[b].at \notin {"done", "error"} /\ reply'[b] = reply[b]
      BY <1>1, <1>5 DEF IInv, ReplyInv
    <2>5. \A b \in Callers \ {c} : Told(b)' = Told(b)
      BY <2>4 DEF Told
    <2>6. Answers' = [Answers EXCEPT ![c] = Nil]
      BY <1>3, <2>5 DEF Answers
    <2>7. Contract!Start(c, type)
      BY <1>1, <1>2, <2>3, <2>6 DEF Contract!Start, Answers, Doing, Result
    <2>. QED
      BY <2>7 DEF ContractStep, Contract!Next, Types
  <1>. QED
    BY <1>4, <1>5

\* Commands and writes touch the drives of an action at work.
LEMMA WorkKeepsContract ==
    ASSUME IInv, UNCHANGED <<action, reply>>, action # Nil, ~action.done,
           NEW d \in Drives, NEW x \in Contents,
           action.type = "Imaging" => d = ImageDrive,
           content' = [content EXCEPT ![d] = x]
    PROVE  ContractStep
  <1>1. UNCHANGED <<Doing, Result, Answers>>
    BY AnswersStay
  <1>2. Result = "working" /\ Doing = action.type
    BY DEF Result, Doing, Outcome
  <1>3. Contract!Work
    BY <1>1, <1>2 DEF Contract!Work, Contract!Contents, Contents, Answers, Doing, Result
  <1>. QED
    BY <1>3 DEF ContractStep, Contract!Next

\* The goroutines of the drives.
LEMMA CleanersKeepContract ==
    ASSUME IInv, NEW d \in Drives, Cleaner(d)
    PROVE  ContractStep
  <1>1. UNCHANGED <<action, reply>>
    BY DEF Cleaner, RunCommand, CommandFails, DriveCleaned, Send
  <1>2. step = "wait"
    BY DEF Cleaner, RunCommand, CommandFails, DriveCleaned, Send, IInv, CleanerInv
  <1>3. action # Nil /\ ~action.done /\ action.type # "Imaging"
    BY <1>2 DEF IInv, StepInv
  <1>4. CASE DriveCleaned(d) \/ Send(d)
    <2>1. UNCHANGED content
      BY <1>4 DEF DriveCleaned, Send
    <2>. QED
      BY <1>1, <2>1, AnswersStay, NoContractStep
  <1>5. CASE RunCommand(d) \/ CommandFails(d)
    <2>1. \E x \in Contents : content' = [content EXCEPT ![d] = x]
      BY <1>5 DEF RunCommand, CommandFails, Contents
    <2>. QED
      BY <1>1, <1>3, <2>1, WorkKeepsContract
  <1>. QED
    BY <1>4, <1>5 DEF Cleaner

\* The goroutine of Do.
LEMMA DoKeepsContract ==
    ASSUME IInv, Do
    PROVE  ContractStep
  <1>1. action # Nil /\ action \in Status /\ ~action.done
    BY DEF Do, Wait, ImageFails, Download, WriteImage, AddPartition, WriteFiles, WriteError,
           WriteDone, IInv, StepInv, AgentTypeOK
  <1>2. CASE Wait \/ ImageFails \/ WriteImage \/ AddPartition
    <2>1. UNCHANGED <<action, reply, content>>
      BY <1>2 DEF Wait, ImageFails, WriteImage, AddPartition
    <2>. QED
      BY <2>1, AnswersStay, NoContractStep
  <1>3. CASE Download \/ WriteFiles
    <2>1. /\ UNCHANGED <<action, reply>>
          /\ \E x \in Contents :
               content' = [content EXCEPT ![ImageDrive] = x]
      BY <1>3 DEF Download, WriteFiles, Contents
    <2>. QED
      BY <1>1, <2>1, AgentAssumption, WorkKeepsContract
  <1>4. CASE WriteError
    <2>1. /\ UNCHANGED <<reply, content>>
          /\ action' \in Status
          /\ action'.type = action.type /\ ~action'.done
      BY <1>1, <1>4 DEF WriteError, Status
    <2>2. action' # Nil
      BY <2>1, AgentAssumption DEF Status, Types
    <2>3. UNCHANGED <<Doing, Result>>
      BY <1>1, <2>1, <2>2 DEF Doing, Result, Outcome
    <2>4. \A c \in Callers : ~reply[c].done
      BY <1>1 DEF IInv, ReplyInv
    <2>5. \A c \in Callers : Told(c)' = Told(c)
      BY <2>1, <2>4 DEF Told, Outcome
    <2>6. UNCHANGED Answers
      BY <2>5 DEF Answers
    <2>. QED
      BY <2>1, <2>3, <2>6, NoContractStep
  <1>5. CASE WriteDone
    <2>1. /\ UNCHANGED <<reply, content>>
          /\ step = "done"
          /\ action' \in Status
          /\ action'.type = action.type /\ action'.done /\ action'.error = action.error
      BY <1>1, <1>5 DEF WriteDone, Status
    <2>2. action' # Nil
      BY <2>1, AgentAssumption DEF Status, Types
    <2>3. /\ Result = "working" /\ Doing = action.type
          /\ Doing' = Doing
          /\ Result' = IF action.error THEN "failed" ELSE "ok"
      BY <1>1, <2>1, <2>2 DEF Doing, Result, Outcome
    <2>4. \A c \in Callers : Told(c)' = Told(c)
      BY <2>1 DEF Told
    <2>5. UNCHANGED Answers
      BY <2>4 DEF Answers
    <2>6. ~action.error => Contract!Achieved(action.type)
      BY <1>1, <2>1 DEF IInv, Achieved, Contract!Achieved
    <2>7. Contract!Finish
      BY <2>1, <2>3, <2>5, <2>6 DEF Contract!Finish, Answers, Doing, Result
    <2>. QED
      BY <2>7 DEF ContractStep, Contract!Next
  <1>. QED
    BY <1>2, <1>3, <1>4, <1>5 DEF Do

\* Every step is one of the contract, or none.
LEMMA EveryStepKeepsContract == IInv /\ [Next]_vars => ContractStep
  <1>. SUFFICES ASSUME IInv, [Next]_vars PROVE ContractStep
    OBVIOUS
  <1>1. ASSUME NEW d \in Drives, Cleaner(d) PROVE ContractStep
    BY <1>1, CleanersKeepContract
  <1>2. CASE Do
    BY <1>2, DoKeepsContract
  <1>3. ASSUME NEW c \in Callers, Serve(c) PROVE ContractStep
    BY <1>3, RequestsKeepContract DEF Serve
  <1>4. ASSUME NEW c \in Callers, Call(c) PROVE ContractStep
    BY <1>4, RequestsKeepContract, DoActionKeepsContract DEF Call
  <1>5. CASE SendReady
    <2>1. UNCHANGED <<action, reply, content>>
      BY <1>5 DEF SendReady
    <2>. QED
      BY <2>1, AnswersStay, NoContractStep
  <1>6. CASE Reboot
    <2>1. Doing' = Nil /\ Result' = "none" /\ content' = content
      BY <1>6 DEF Reboot, Doing, Result
    <2>2. Answers' = [c \in Callers |-> Nil]
      BY <1>6 DEF Reboot, Answers, Told, NoReply
    <2>3. Contract!Reset
      BY <2>1, <2>2 DEF Contract!Reset, Answers, Doing, Result
    <2>. QED
      BY <2>3 DEF ContractStep, Contract!Next
  <1>7. CASE UNCHANGED vars
    <2>1. UNCHANGED <<action, reply, content>>
      BY <1>7 DEF vars
    <2>. QED
      BY <2>1, AnswersStay, NoContractStep
  <1>. QED
    BY <1>1, <1>2, <1>3, <1>4, <1>5, <1>6, <1>7 DEF Next

\* The agent keeps the contract for any drives, tables, formats and callers
\* (manager.go:53-111, server.go:100-185); what imaging leaves is the image if no image
\* may be raw, and else whatever was downloaded (image.go:98-153).
THEOREM AgentKeepsContract == Spec => ContractIsKept
  <1>1. Init => Contract!Init
    <2>. SUFFICES ASSUME Init PROVE Contract!Init
      OBVIOUS
    <2>1. action = Nil /\ content \in [Drives -> Contents]
      BY DEF Init, Contents
    <2>2. [c \in Callers |-> Told(c)] = [c \in Callers |-> Nil]
      BY DEF Init, Told, NoReply
    <2>. QED
      BY <2>1, <2>2 DEF Contract!Init, Contract!Contents, Contents
  <1>. QED
    BY <1>1, IInvHolds, EveryStepKeepsContract, PTL
       DEF Spec, ContractIsKept, Contract!Spec, ContractStep
=============================================================================
