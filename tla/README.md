# kube-baremetal in TLA+

kube-baremetal is a Kubernetes operator that installs operating systems on physical machines.
A user creates a `BareMetalInstance` (BMI); the operator finds a `BareMetalHardware` (BMH) for
it, boots the machine into an agent over the network, has the agent write the image, and lets
the machine boot it. When the instance is deleted, the agent cleans the drives and the machine
is free for the next instance.

The specifications here say how that is meant to work and check that it does: TLC explores
small instances, TLAPS proves the central results for all of them.

## Inventory

| Component | Code | State it keeps | Operations |
| --- | --- | --- | --- |
| Instance controller | `controllers/baremetalinstance/controller.go` | BMI phase, finalizer | set Pending; remove the finalizer when Terminated |
| Scheduler | `.../scheduler.go` | BMI `Scheduled`, `hardwareName`; a mutex | pick hardware; mark scheduled; start provisioning; unschedule |
| Provisioner | `.../provisioner.go` | BMI phase and conditions, BMH `instanceRef` (claim, release), BMEs (create) | claim, network, image, run; clean, release, terminate; HTTP client of the agent |
| Hardware controller | `controllers/baremetalhardware_controller.go` | BMH taints, conditions, `instanceRef`, finalizer | taint; drop a reference whose instance is gone; delete the instance of hardware being deleted; copy discovered hardware |
| Discovery server | `pkg/discovery/server.go` | none; writes BMI `agentInfo` and BareMetalDiscoveries | choose what a machine boots; take ready reports; take discovered hardware |
| Agent | `cmd/agent`, `pkg/agent` | `Manager.currentAction`, in memory until the machine reboots | report ready, answer `/status`, accept `/image` and `/clean` |
| Actions | `pkg/agent/action` | the drives | write image and cloud-init partition; wipe or trim |
| Endpoint controller | `controllers/baremetalendpoint*` | BME phase and address; a mutex | allocate an address from its network's range |
| Network controller | `controllers/baremetalnetwork_controller.go` | finalizer | let a deleted network go |
| Discovery controller | `controllers/baremetaldiscovery_controller.go` | none | nothing |
| Webhooks | `webhooks` | none | default and validate single objects, uniqueness by cached lists |
| Conditions, helpers | `apis/condition`, `api/helpers.go` | none | lookup and update of conditions and finalizers |

How they interact: every controller reads **informer caches** that lag behind the API server and
writes with the resource version it read, so a stale write is refused with a conflict. There are
no locks between controllers; the scheduler's and the endpoint controller's mutexes cover code
that reads the same caches. The provisioner and the agent talk HTTP without a timeout. The agent
knows nothing but the action it was told, the operator knows an agent by an IP address only, and
a machine may be power cycled at any moment.

What is hard, then, and what the properties are about:

* several controllers write one object (`instanceRef` is written by the provisioner and by the
  hardware controller) from caches that differ from each other and from what is stored;
* the provisioner acts on an agent's answer with objects it read before it asked;
* deletion of an instance, of its hardware, or of both overtakes any of the above;
* crashes: the manager restarts, the machine reboots in the middle of writing;
* locks that cover less than they seem to.

What makes each component correct: the *scheduler* gives an instance hardware that is acceptable,
and hardware to one instance; the *provisioner* works only on the hardware its instance holds,
and reports imaging and cleaning that did happen; the *hardware controller* takes a reference
back from no instance that may still use it, and holds the not-ready taint until what the spec
names was found; the *discovery server* boots a system only on the machine of its owner, and fills
in a discovery once; the *agent* writes and cleans for the holder, and reports only what it
achieved (`AgentContract`); the *endpoint controllers* give each endpoint an address of its own,
keep it until the endpoint goes, and leave no endpoint behind. Together: **machines change hands
clean** (`HardwareCustody`), and **an instance has one machine in its life, runs only on its own
image and is erased only when it leaves** (`Tenancy`). Not all of it is so; see what the violated runs show.

`PROJECT.json` lists each hazard at its line with the properties that cover it.

## Modules

| Module | What it is |
| --- | --- |
| `WatchStream` | one type of objects as the API server and the informer cache see it |
| `HardwareCustody` | the promise: who holds a machine, what is on its disk; no controllers |
| `Tenancy` | the promise to users: instances and machines together, from creation to the end |
| `InstanceLifecycle` | the instance, scheduler, provisioner and hardware controllers, boot and ready of the discovery server, agents, users; the properties |
| `HardwareHandover` | the inductive invariant behind the handover |
| `ImageKept` | the inductive invariant behind images and running systems, and the mapping to `Tenancy` |
| `EndpointNetwork` | endpoints of instances: the provisioner that creates them, the two controllers that share them, addresses, networks, the work queues |
| `HardwareIntake` | how a machine becomes hardware: `/discover`, the copy into the BareMetalHardware, the conditions and the not-ready taint |
| `AgentContract` | the promise: what the operator takes an agent to be; one action, no goroutines |
| `AgentActions` | the agent: start-up, the action with a goroutine per drive, the status that is read while it is written |
| `MCInstanceLifecycle`, `MCEndpointNetwork`, `MCHardwareIntake`, `MCAgentActions` | values of the constants for TLC |
| `WatchStreamProofs`, `InstanceLifecycleProofs`, `HardwareHandoverProofs`, `CustodyProofs`, `ImageKeptProofs`, `EndpointNetworkProofs`, `HardwareIntakeProofs`, `AgentActionsProofs` | proofs |

`WatchStream` is under the three modules of controllers. `InstanceLifecycle` takes three things as
given that a module of their own looks into: `MarkNetworked` (`EndpointNetwork`), the verdict on
the hardware (`HardwareIntake`) and the agent (`AgentActions`, by way of `AgentContract`). They
are not composed into one state machine: the product is out of TLC's reach, and what crosses each
border is one field, said below.

### `WatchStream`

A stream is the sequence of versions of a type from the one the cache holds to the one that is
stored. `Put` appends a version, unless the write changes nothing (the API server then keeps the
resource version). `Deliver` drops the oldest: a watch is ordered and loses nothing. `Relisted`
is a restarted manager. `Fresh` is the conflict check: no version yet to be delivered changes the
object. The check compares values where Kubernetes compares versions; the two differ only for an
object that was changed and changed back, where `Fresh` looks at every version on the way and
so refuses. The same holds of the write the provisioner does after an agent's answer, except that
it compares two points in time (`WriteBmi`, `ReleaseAs`): a write the API server would refuse
because the object was changed and changed back is possible in the model. That only adds
behaviours.

### `InstanceLifecycle`

State: `bmis` and `bmhs` are streams; `call` is the provisioner's conversation with an agent
together with the objects it read; `machine` is what each machine runs and its agent's
`currentAction`; `disk` is what is on the image drive.

One reconcile writes at most once and returns, so one action is one reconcile, with the guards in
the order of the code's early returns:

| Actions | Code |
| --- | --- |
| `SetPending`, `RemoveFinalizer` | `controller.go` |
| `TerminateUnscheduled`, `Unschedule`, `InitScheduled`, `StartProvisioning`, `MarkScheduled`, `Schedule` | `scheduler.go` |
| `InitCleaned` … `MarkCleaned` | `provisioner.go`, deleting instances |
| `Claim`, `InitNetworked` … `Run` | `provisioner.go`, live instances |
| `AskAgent`, `AgentAnswers`, `TellAgent`, `EndCall`, `Record…`, `ReleaseHardware` | `provisioner.go` with `getAgentStatus`; `agent/server.go`, `manager.go` |
| `SyncNoSchedule`, `SyncNotReady`, `DropInstanceRef`, `DeleteItsInstance`, `RemoveHardwareFinalizer`, `SetConditions` | `baremetalhardware_controller.go` |
| `Boot`, `AgentReady` | `discovery/server.go` (`ipxeBoot`, `ready`), `SendReady` |
| `ImageBegins`, `ImageSucceeds`, `CleanSucceeds`, `ActionFails` | `agent/action` |
| `CreateInstance`, `DeleteInstance`, `EditHardware`, `CleanByHandAndForceDelete` | users, as the webhooks let them |
| `WatchBmis`, `WatchBmhs`, `RestartManager` | the informers and `main.go` |

Only the conversation with the agent is split, because the code reads the cache, waits on HTTP,
and writes with what it read. Each controller runs one worker (the default of controller-runtime,
which nothing in `src/` changes), so there is one call at a time.

Abstractions, and why they do not hide the interesting part:

* Selectors and tolerations are constant relations, labels do not change. All objects are in one
  namespace.
* `MarkNetworked` stands for creating the endpoints and waiting for their addresses; it may come
  at any time. `EndpointNetwork` models what happens meanwhile; the `networked` condition is all
  that crosses.
* The three hardware conditions are one verdict, which may change at any time (`Verdicts`),
  because users change the spec. `HardwareIntake` models how they come about; the taint is all
  that the scheduler and the provisioner see of them.
* An agent's action is one step at a time and its status is read at once. That this is what the
  operator sees of an agent with goroutines is `ContractIsKept`. The contract is taken as given:
  here and in the properties, an instance's *own image* is what its machine's agent wrote for it
  and called a success. What that can be is said with `AgentActions`. The callers of `AgentActions`
  lose their answers when the machine reboots; here a call keeps its answer, which allows more.
* Of a machine's drives the image drive is followed. *Blank* is what the clean action leaves: on
  drives without trim it erases partition tables and file system metadata, not every block.
* A machine asks what to boot and boots it in one step. An agent begins to listen before it
  reports ready and answers only afterwards, a lost answer to the report being a report that
  is made again (`AgentReady`). A request that waits in the listener's backlog across the end of
  the call is not modelled.
* A user who follows the event of a failed clean removes the finalizer after cleaning the machine
  by hand, if it still names the instance. What users do otherwise is theirs.
* `acceptableBMH = append(…, &bmh)` takes the address of the loop's one variable (`go 1.13` in
  `go.mod`), so `Chosen` is any listed hardware once one is acceptable.

### `EndpointNetwork`

State: `bmes`, `bmis` and `bmns` are the streams of endpoints, instances (by how far they are:
claimed, networked, deleting, gone) and networks; `queue` has the work queues of the two
controllers of endpoints and of the provisioner. The provisioner's reconcile takes several steps:
`loop` is the NIC it is at, `requests` the calls of `Create` that were sent and are not stored, each
with whether the reconcile still waits for it, `late` the instances with a status update that
nobody waits for. One that can only be refused any more is dropped from `late`.

| Actions | Code |
| --- | --- |
| `SetPending`, `RemoveFinalizer` | `baremetalendpoint/controller.go` |
| `SetDeleted`, `SetDeleting`, `ReleaseAddress`, `SetAddressed`, `StartAddressing`, `Allocate` | `baremetalendpoint/network.go` |
| `BeginNetworking` | `provisioner.go:343-346`, of an instance whose networked condition is False |
| `PassNIC`, `WaitForAddress`, `StopOnDuplicates`, `CreateEndpoint` | `provisioner.go:346-445`, what follows from the list of one NIC |
| `StoreEndpoint`, `FailCreate` | the API server and `r.Create` (422): stored and answered, lost, or left on its way by a call that failed |
| `MarkNetworked`, `MarkRefused`, `MarkUnanswered`, `MarkNetworkedLate` | `provisioner.go:446-462`: the status stored, refused, left on its way, then stored late or lost |
| `RemoveNetworkFinalizer` | `baremetalnetwork_controller.go` |
| `DeleteEndpoint`, `CreateNetwork`, `DeleteNetwork`, `DeleteInstance`, `InstanceEnds` | users, as the webhooks let them; `InstanceEnds` is the rest of `InstanceLifecycle` |
| `CollectGarbage` | Kubernetes, from the owner reference the provisioner sets |
| `WatchBmes`, `WatchBmis`, `WatchBmns`, `RestartManager` | the informers, with the watches each controller asks for; what the old manager sent may still arrive |

What is one step and what is not follows from what ties a write to what was read. The two
controllers of endpoints write the object they read and nothing else, and the API server refuses
the write when the object changed, so reading and writing is one step; what they read of *other*
objects for it, the network and the list of addresses, is the cache's at that step. A `Create`
has a generated name and no resource version. Nothing ties it to the list it was decided on, so
it is a step of its own, and the cache moves on while it is under way. The lists of the NICs are
read one after the other, and the status is sent after the last. The status update has the
instance's resource version; `claimed` is a state that an instance leaves once, so it is enough to
compare that.

So a networked instance may have several endpoints of a NIC, although `provisioner.go:434-437` says of
them that "this shouldn't happen". A reconcile that does not see the first endpoint sends a second
`Create`; while that is on its way the first is delivered, addressed and delivered again; the
second is then stored, and before it is delivered the next reconcile sees one endpoint, addressed,
and marks the instance networked. Later the second gets an address too, and what is composed for
cloud-init lists both. The code stops at several endpoints only as long as the instance is not
networked. What does hold is `PassedOnOneEndpoint` (of several endpoints only one has a phase when
the provisioner takes the NIC for addressed) and `NetworkedHasAddresses` (that one keeps its
address until it is deleted, so the status is right whenever it is stored).

The work queues are what liveness needs: a reconcile that returns without a requeue runs again only
when a watch event names its object. A reconcile that ends in an error, a conflict or `Requeue`
changes nothing and keeps the item in the queue, so it is not a step; an item that a controller
would at once return from is dropped when it is delivered (`NeedsController`, `NeedsNetwork`,
`NeedsProvisioner`), which saves the states in which it waits. A write that finds the stream full (`EndpointLag`,
`ObjectLag`) waits for a delivery, which is fair. `IdleIsDone` is the safety half of that: an object
that no queue holds and no watch will bring again is done. It has two exceptions, and they are the
code's: an endpoint deleted before its phase was set (`stuck_endpoint`), and an instance whose
provisioner stopped at more than one endpoint of a NIC.

An address is a number and the walk with `inc` from start to end is the least usable one; network
address, gateway, broadcast address and nameservers are the `reserved` ones. A range that ends at
the largest address, where `inc` starts anew, is excluded by `NetworkAssumption`. An instance has
its hardware already, and the NICs are those of its spec.

### `HardwareIntake`

State: `bmhs` and `bmds` are the streams of BareMetalHardware (spec, taint, discovered hardware, the
three conditions by their reason) and of BareMetalDiscoveries; `request` is each `/discover` request
between its two writes; `queue` is the hardware controller's.

| Actions | Code |
| --- | --- |
| `ReceiveReport`, `CreateDiscovery`, `RefuseReport`, `FillDiscovery` | `discovery/server.go` (`discover`) with the discovery webhook |
| `SyncNotReady`, `SetHardwareSet`, `SetNicsValid`, `SetImageDriveValid`, `CopyHardware`, `RemoveFinalizer` | `baremetalhardware_controller.go` |
| `CreateHardware`, `EditHardware`, `DeleteHardware`, `DeleteDiscovery` | users, with the hardware webhook |
| `WatchBmhs`, `WatchBmds`, `RestartManager` | the informers and `main.go`, which also ends the requests |

What matters of a NIC is the set of interface names it needs, of a drive its name, and of a report
whether the webhooks would accept it: the copy is a status update, which they do not see, but every
later update of the object is refused for it (`UpdateAdmitted`). Left out: the no-schedule taint and
`instanceRef`, which are `InstanceLifecycle`'s; discoveries that users make by hand; users who
remove the operator's own taint.

`IdleIsDone` says here that hardware that is in no queue and that no watch will bring again has
its discovered hardware and a taint that follows its conditions, and is not waiting to be removed.

### `AgentActions` and `AgentContract`

State: `action` is the status that `Manager.currentAction` hands out *by reference*, `step` the
goroutine of `Do`, `cleaner` the goroutine of each drive, `errors` the buffered channel, `content`
the drives, `reply` what each caller's `GET /status` has read so far.

| Actions | Code |
| --- | --- |
| `SendReady`, `Reboot` | `agent/server.go`, `manager.go`; power |
| `DoAction`, `CurrentStatus` | `server.go`, `manager.go`, one step each under the lock |
| `ReadDone`, `ReadError`, `ReadTornError` | the JSON encoder, field by field without the lock |
| `RunCommand`, `CommandFails`, `DriveCleaned`, `Send`, `Wait` | `action/clean.go` |
| `Download`, `WriteImage`, `AddPartition`, `WriteFiles`, `ImageFails` | `action/image.go` |
| `WriteError`, `WriteDone` | the end of `Do` of both |

The error is a Go string of two words. Read between the writes of the two it makes the encoder fail
(`ReadTornError`); else it is read as it was before or after. Stores and loads keep their order,
as on the amd64 machines the agent is built for. A full GPT passes the image action's test for room
(`image.go`, `lastUsedParition >= len`) and is written past its end, so the process dies. Where on
the drive the cloud-init partition goes is left out, and so is what is in its files; it may lie over
the end of an image that reaches into the last 64 MB, which does not count as harm here.

`http.Get` fails for want of an answer, and nothing looks at the status of the answer (`image.go:135`).
So the body of a 404 is copied to the drive like an image. What becomes of it depends on the
format, which is the extension of the URL. A `raw` one is copied until it ends, so an error
page, or an image whose connection ended early, is taken for the whole; the later steps need
a partition table only, and find the one the drive had before where the body was too short to
reach it. Any other format (a `checked` one) has a reader that fails on a body that is not a whole
archive (snappy's, which may end between two blocks, counts as raw). `Formats` says which are in
use, and `content` is `"wrong"` once such a body is on the drive and stays so when imaging
succeeds. So success of imaging means that the whole of what was downloaded is written
(`ReportsAreTrue`), and that this is the image where no format is raw (`CheckedImagesAreWhole`). The
operator asks for one image, a `.raw.tar.gz` (`provisioner.go:627`), which is checked.

`AgentContract` has no goroutines: an action starts when there is none, touches only its drives,
ends in success only if it achieved it, and an answer was true at one moment of the request. What
imaging achieves is the constant `Images`, which `AgentActions` gives as `Imaged`: the image, and
with raw formats whatever came in its place.
`Contract` maps the action's outcome to the moment `Done` is written and an answer to the moment
`Done` is read. The error is read later and still fits, since it was written before `Done`.

### `HardwareCustody` and `HardwareHandover`

`HardwareCustody` knows a holder and a content for each machine and four steps: take an empty
free machine, fill it, wipe it, give it back empty. `Custody` in `InstanceLifecycle` maps `holder`
to the stored `instanceRef` and `content` to the data on the image drive; `CustodyIsKept` is its
specification.

`HardwareHandover` states why it holds. None of the properties is inductive, because everything
is decided from caches and from an older answer. The parts:

* `Aging`: what a later version of an instance may be. Being deleted, over, and placed on a
  hardware are only ever left in one direction, so whatever the cache shows is still true or the
  instance is over.
* `Untouched`: nothing is cleaned or over before *the cache* shows the deletion. It closes the
  case of a controller that believes an instance alive.
* `References`, `Handover`: in no version does hardware name an instance that is elsewhere, and a
  reference disappears only from an instance that the cache knows to depart.
* `Machines`: what is on a disk or being written belongs to an instance the machine `Hosts`: the
  stored instance is on the hardware, is not marked cleaned, and *no version of the hardware on its
  way to the cache* says otherwise. The last part is what makes a claim from a stale cache fail.
* `CallIsSound`: what the provisioner read before it asked still suffices for what it does with
  the answer. `AnswerIsGood`: a reported clean means the disk is blank now, not only when it was
  reported.
* `AgentAddresses`, `Listening`: an address that is recorded was given to the instance's machine, and
  agents listen where they were let.

`Machines` and `AnswerIsGood` are `DisksInv`, the others `AssignmentInv`.

### `Tenancy` and `ImageKept`

`HardwareCustody` knows no instances: it would allow an instance to take one machine after another,
to run without an image, or to be erased while it runs. `Tenancy` adds how far an instance is as
its users see it (unborn, waiting, running, leaving, over) and has eight steps, which relate that
to holders and disks: `Create`, `Take`, `Fill`, `Run`, `Leave`, `Wipe`, `Release`, `End`.
`Tenants` in `ImageKept` maps `stage` to the phase and deletion of the *stored* instance, `holder`
to the stored `instanceRef` and `content` to the data on the image drive; `TenancyIsKept` is its
specification. An instance that is being deleted may still take a machine and be imaged, since
the provisioner's cache need not show the deletion yet; it never runs then.

`ImageKept` states why it holds. The discovery server decides what a machine boots from two
caches, so it is not enough that a running instance has its image: it has to be there as long as
*the cache* shows an instance that is not leaving. The parts:

* `LeavingIsFinal`: an instance that is cleaned for its deletion, or is gone, stays so in every
  later version.
* `HandedOnOnce`: between the cached and the stored version, hardware that names an instance comes
  to name no other. Two stale caches therefore agree on whose machine it is, if they agree at all.
* `Progress`: what is imaged was provisioned, what runs is imaged.
* `ImageIsThere`: unless the cache shows that the instance leaves, its image is on the machine
  that *any* version with `imaged` names, and no clean of it has failed.
* `Doings`: what a machine runs and what its agent does, against its disk; an agent that is
  cleaning data cleans that of an instance the cache shows to leave.
* `CallIsTimely`: a call that cleans is for an instance that leaves and whose hardware went to
  nobody else; a call that images is for one that is being provisioned, on a machine that is not
  being cleaned under it, and an answer that says *imaged* means the image is there now.

## Runs

| Run | Instance | Shows |
| --- | --- | --- |
| `lifecycle` | 2 instances, 1 hardware, lag 2 and 1 | types, the handover invariant and its consequences, refinement of `HardwareCustody` and `Tenancy`, the image invariant, erasure only of the deleted |
| `hardware_edits` | 1 instance, 1 hardware, lag 1 and 1 | the same safety when the hardware is cordoned, deleted, not ready, or changes readiness, and the refinement of `Tenancy` again |
| `reimaged` | 1 and 1 | *violated*: a running instance has a whole image |
| `double_booking` | 2 and 1, lag 2 | *violated*: one instance per hardware after scheduling |
| `agent_info` | 1 and 1, hardware deleted | *violated*: `agentInfo` only in the phases the webhook accepts |
| `unacceptable` | 1 and 2, selector matches one | *violated*: instances are scheduled on acceptable hardware |
| `endpoints` | 1 instance with one NIC, 2 endpoints, 1 free address, lags 2 and 1 | types; an address stays and comes back; the NIC is passed with one endpoint in a phase; a networked instance has its address; nobody waits for ever that could be served or woken; no wakeup is lost |
| `duplicate_address` | 2 instances on one network, 2 endpoints, 2 free addresses | *violated*: one endpoint per address |
| `stuck_endpoint` | as `endpoints` | *violated*: every deleted endpoint goes |
| `intake` | 1 machine, 1 hardware, 3 specs, 2 reports, 2 requests, lag 2 | readiness is of discovered hardware and follows the spec; discoveries and copies are made once, and not missed; no wakeup is lost |
| `half_discovered` | the same, lag 1 | *violated*: a discovery is filled in or deleted |
| `agent` | 2 drives, one with trim, both kinds of formats, all partition tables, 2 callers | reports are true, the contract is kept, actions end |

Bounds of `InstanceLifecycle`. `InstanceLag` and `HardwareLag` bound how many versions the cache may be behind, in the
guards of `StoreBmi` and `StoreBmh`; there is no other counter. Two instances and one hardware are
what contention needs: one instance holds, the other waits with an older view. A lag of two
instance versions lets both write before either is seen. The second hardware matters for the
scheduler's choice (`unacceptable`) only, since addresses are not shared and nothing else relates
two machines. The instance UIDs are interchangeable in `lifecycle`, hence `SYMMETRY`; no liveness
is checked there. Deadlock checking is on and says little: machines may always be power cycled and
the manager restarted. What the bounds leave out, the proofs cover.

Bounds of the others. `EndpointLag`, `ObjectLag` and `Lag` bound the streams in the guards of the
`Store…` operators. The endpoints are numbered and finite, and each is asked for once. In `endpoints`
the one NIC may get a second endpoint, because the cache does not show the first yet, because a
creation is stored late, or because the first was deleted, and then none; what happens with
duplicates, with an address that is waited for and with one that comes free all occur, and so do
status updates that arrive late. The one address is needed for waiting. That an instance passes
its NICs at different times is in the proofs, for any number of them; with two NICs and two
addresses TLC finds no more, in a run that is left out. `duplicate_address` needs a
second instance, whose endpoint is created while the first's is being addressed. In `intake` the specs are one without NICs and with a drive the machine
lacks, one with a bond and a drive that are found, and one with a NIC it lacks and no drive; the
reports are a valid one and one the webhooks refuse; two requests are what a report that is sent again needs. In `agent`
two drives are needed for a goroutine that ends before another, two callers for a second action and
for an answer that is read across the action's end. Nothing is unbounded there. Deadlock checking is
on in all runs, and no state is without a step, as restarts and reboots are always possible.

### Fairness

`InstanceLifecycle` assumes none, since everything about it is safety. Its controllers return
without a requeue in places (`provisioner.go:288`), so weak fairness on a reconcile is *not* what
the code gives. The modules with liveness have the work queues as state and assume:

* the worker of each controller takes what is queued (`WF` on the steps of each object's reconcile;
  controller-runtime's queue is first come, first served, and retries with a bounded backoff);
* each watch delivers, and the garbage collector runs;
* in `EndpointNetwork`, a call of `Create` and a status update that were sent are served, or lost
  (`CreateStep`, `MarkNetworkedLate`);
* in `HardwareIntake`, requests that were begun are served, and machines boot and report again and
  again (an agent that fails exits, and the machine is booted into it anew);
* in `AgentActions`, goroutines run and the commands they start end (`wipefs`, `dd`, `sgdisk`,
  `blkdiscard`, the download). Requests need no fairness.

Nothing is assumed of users, restarts and reboots, and strong fairness is assumed of nothing. Where
users could keep a controller busy for ever by editing again and again, the property says so
(`[]<><<UserStep>>_vars` in `ReadinessSettles` and `DiscoveryIsCopied`). A reconcile of several steps
begins anew when the manager is restarted or a call fails, so `InstancesAreNetworked` excepts
restarts and failing calls without end.

### What the violated runs show

* `reimaged`. Imaging is recorded and the machine reboots, so that its new agent has no action. A
  reconcile that began from an older cache, where imaging was not recorded, reaches this agent (its
  request has no timeout and its connection attempt is retried) and tells it to image again. The
  next reconcile sets Running while the drive is being rewritten, which `provisioner.go:485` calls
  "done imaging". What is on the drive is always the instance's own (`RunningOnOwnImage` in
  `lifecycle`).
* `double_booking`. The mutex of `scheduler.go:152` covers listing, choosing and writing, but the
  lists are the cache's. Two instances can be given one hardware. It is not fatal: only one
  claims it (`LiveInstanceHoldsHardware`, `DoubleBookingIsHarmless`), the other waits.
* `agent_info`. `provisioner.go:146` terminates an instance whose hardware is gone without
  clearing `agentInfo`, as 90 does. The webhook (`baremetalinstance_webhook.go:150-157`) refuses
  every later update of such an object, including the removal of its finalizer.
* `unacceptable`. The loop variable's address, above.
* `duplicate_address`. The lock of `network.go:162` is held while the endpoints are listed and the
  address is written, but the list is the cache's. Two instances have each an endpoint on one network.
  Until the watch has delivered the first one's address, the reconcile of the other finds it free
  and gives it again. Each keeps it (`AddressIsKept`), so the two machines stay in conflict.
* `stuck_endpoint`. An endpoint that is deleted before its phase is set is left alone by both
  controllers: one waits for the phase `Deleted`, the other returns while there is no phase. The
  finalizer stays. With a phase, every deleted endpoint goes (`DeletedEndpointsGo`).
* `half_discovered`. A manager that ends between the two writes of `discover` leaves a discovery
  without hardware. Every later report of the machine fails to create it and never fills it in;
  only a user who deletes it helps.

Seen while modelling, without a run: the hardware controller deletes an instance by name, so a new
instance with a reused name is deleted in the place of the old one (`DeleteItsInstance`); hardware
can be claimed before its first taint (`NewHardware`); a networked instance may have two endpoints
of a NIC (above); success of imaging a raw image says nothing of what was downloaded (above); an
agent never forgets its action, so it cleans what it imaged only after a reboot, which is nobody's
task in the code; the discovery webhook looks for discoveries where its comment speaks of hardware
(`baremetaldiscovery_webhook.go:132`); and two machines that are given one address in turn would be
confused (`RightAgent`, below).

## Proofs

The constants of `InstanceLifecycle` are constrained by `ConstantsAssumption` (types only). One
thing is assumed of its behaviours, where stated: `RightAgent`, that while a call of the provisioner
is under way no machine but the instance's has the address it goes to. The provisioner knows an
agent by an address that was recorded before, perhaps several boots ago, and nothing in the code
tells it that the DHCP server has given it to another machine meanwhile. The DHCP server is not part
of the code, so something of the kind must be asked of it for the machines to be safe: with two
instances and two machines that may share an address, TLC finds the wrong machine imaged and
`FreeHardwareIsClean` violated (not among the runs, since the repository promises nothing of leases).
`OwnAddressesSuffice` shows that `LeasesApart` (no two machines ever
get one address) implies it, which is how the runs' constants are chosen. Theorems about what
objects say of each other need neither. `NetworkAssumption`, `IntakeAssumption` and
`AgentAssumption` say the types of the others' constants; the first also that a range of addresses
ends before the largest, and that `Nil` is neither an instance nor an address.

| Theorem | Statement |
| --- | --- |
| `TypesHold` | `Spec => []TypeOK` |
| `AssignmentsHold` | `Spec => []AssignmentInv` |
| `LiveInstancesHoldHardware` | `Spec => []LiveInstanceHoldsHardware` |
| `DoubleBookingIsHarmless` | `Spec => []AssignmentsApart`: no two live instances are past claiming one hardware, no two hardware name one instance that is not over |
| `OwnAddressesSuffice` | `LeasesApart` implies `Spec => []RightAgent` |
| `HandoverHolds` | `Spec /\ []RightAgent => []HandoverInv` |
| `FreeHardwareIsAlwaysClean` | `… => []FreeHardwareIsClean` |
| `ImagesAreForHolders` | `… => []ImagesForHolder` |
| `LifecycleKeepsCustody` | `… => CustodyIsKept`, the refinement |
| `ImagesAreKept` | `… => []ImageInv` |
| `RunningIsOnOwnImage`, `SystemsAreHolders` | `… => []RunningOnOwnImage`, `… => []SystemIsHolders` |
| `OnlyDeletedInstancesAreErased` | `… => OnlyDeletedAreErased` |
| `LifecycleKeepsTenancy` | `… => TenancyIsKept`, the refinement |
| `TenantsAreApart` | `… => []Tenants!TenancyInv`, from the refinement: nobody's data but the holder's is on a machine, nobody has two, who runs has its image |
| `NetworkTypes` | `Spec => []NetworkTypeOK` of `EndpointNetwork` |
| `AddressesAreKept` | `Spec => AddressIsKept` |
| `NICsArePassedOnOneEndpoint` | `Spec => PassedOnOneEndpoint` |
| `NetworkedInstancesHaveAddresses` | `Spec => []NetworkedHasAddresses` |
| `IdleEndpointsAreDone` | `Spec => []IdleIsDone` of `EndpointNetwork` |
| `IntakeTypes` | `Spec => []IntakeTypeOK` of `HardwareIntake` |
| `ReadyHardwareIsDiscovered`, `RefusedHardwareIsNeverReady` | `Spec => []ReadyIsDiscovered`, `Spec => []RefusedIsNeverReady` |
| `DiscoveredHardwareIsKept`, `DiscoveriesAreKept` | `Spec => HardwareIsKept`, `Spec => DiscoveryIsKept` |
| `IdleHardwareIsDone` | `Spec => []IdleIsDone` of `HardwareIntake` |
| `AgentTypes`, `ReportsAreAlwaysTrue` | `Spec => []AgentTypeOK`, `Spec => []ReportsAreTrue` of `AgentActions` |
| `CheckedImagesAreWhole` | `Spec => []ImagesAreWhole` if no format is raw |
| `AgentKeepsContract` | `Spec => ContractIsKept`, the refinement |

`WatchStreamProofs` has the facts about streams (what `Put`, `Deliver` and `Relisted` do to the
cached, the stored and the versions between). `HardwareHandoverProofs` reduces the writes of all
controllers to two kinds: `InstanceWritten` for an instance whose new value is `Allowed` and
`KeepsHost`, `HardwareWritten` for a hardware whose new reference is `RefAllowed`. Each action is
then shown to be such a write, the steps of machines and calls are treated by what they leave
alone, and delivery and restart are one lemma, `CachesMove`. `CustodyProofs` classifies every
step as a step of the promise, and shows `LiveInstanceHoldsHardware` inductive under
`AssignmentInv`, whichever agents are reached; from the two follows what a double booking can and
cannot do.

`HandoverInv` is in two parts, and the proof of a step shows `HandoverKept`: `AssignmentInv` after
it, and `DisksInv` after it if `DisksInv` and `RightAgent` held before. `AssignmentInv` needs nothing
of the disks because no controller reads one: what it reads is an agent's answer, and all that it
writes for an answer is the phase, the conditions and the reference of the instance and hardware
it read before, of which `CallIsSound` says that they are still each other's. Where the answer comes
from matters for `DisksInv` alone, at three places: the agent that is told to image or clean, and
`AnswerIsGood`, that a success that was answered is about the disk of this instance's machine.
The theorems on contents, images and tenancy then use `[]RightAgent` as a premise of the temporal
argument, one state at a time.

`ImageKeptProofs`. `ImageInv` is inductive under `TypeOK` and `HandoverInv`. Again the writes are
reduced to kinds: an instance that is written is `Timely` (most simply, it `Carries` what the
reconcile read), hardware that is written `PassesOn` its reference, and `OneMachine` and
`OnlyCall` are steps that write no object; delivery and restart are `CachesMoveOn`. The places
where the argument is not by kind are those where the code acts on something old: `BootsOwnImage`
(two caches), `TellKeepsImage` and `RecordKeepsImage` (a call). `OnlyDeletedAreErased` and the
refinement use the invariant on both sides of a step. For the refinement every step stores one
instance (`InstanceMoves`), one hardware (`HolderMoves`), or writes one disk (`ContentMoves`),
each of which is a step of `Tenancy` or a stutter, given that data on a disk is of the instance its
hardware names, which has not ended (`Placements`). `ClaimTakes` is the one that needs the most:
the instance that a claim is made for, from a cache, has no other machine and does not run, whatever
happened to it since. `TenancyKeepsInv` uses the steps of `Tenancy` and types, and none of the
lifecycle's actions.

`EndpointNetworkProofs`. Whether a NIC is addressed is decided from a cache that may not show all
endpoints, and creations arrive whenever they do, so nothing can be said of when an endpoint the
cache does not show was asked for. But an endpoint gets a phase only from a controller that sees it.
The invariant `StreamInv` relates any two versions of the stream, the earlier to the later
(`Follows`): an endpoint is stored once, keeps its NIC, is gone for good, and one that the earlier
version does not show has no phase in the later; an endpoint that is `Settled`, addressed and
with an address, stays so until it is deleted. Applied to the cached and the stored version this
is `PassedOnOneEndpoint` and `AddressIsKept`. `FlightInv` is about what is under way: an endpoint that
is asked for is not stored yet, and each NIC that a reconcile has passed, that a late status update
relies on, or that an instance is networked with, is `Served` by an endpoint that is settled,
deleted or gone. That is why a status that is stored any time later is still right
(`NetworkedHasAddresses`). Every write of an endpoint is one of three kinds (`Continues`, `Begins`,
`Ends`), each of which follows all versions on their way; delivery and restart drop versions. The
least free address exists by the well-foundedness of the naturals (`LeastAddress`).

`IdleIsDone` there and in `HardwareIntake` follows from `Awaited`: an object whose cached version
gives a controller something to do is in its queue, or has a version on its way that differs. What
makes it inductive: a controller takes an object from its queue only with a write, or when nothing
is left to do; the write is never what was read, so the watch brings it back (`PutAwaits`); and a
delivery queues what it changes, and is the only way for a version to stop being on its way
(`DeliverAwaits`). An instance waits for its endpoints, so its provisioner's view changes by other
objects than its own; the watch on endpoints queues their owners, and what the provisioner saw is
unchanged for an instance that it did not queue.

`HardwareIntakeProofs`. `Sound` is what every version of an object satisfies, cached, stored or
between: the condition is not Valid before the hardware is there, and the taint is held while it is
not there or is refused. The taint is added before the condition is set that says so, which is why
a reconcile that sees it may rely on it. All writes of hardware are one form (`WritesHardware`), as
are those of discoveries, which gives the two action properties.

`AgentActionsProofs`. The invariant has the places of the goroutine of `Do` against the status
(`StepInv`), what each drive's goroutine may still do and what it leaves (`CleanerInv`,
`ErrorsInv`: a drive that is not blank has left an error), what is achieved when `Done` is written
(`Achieved`: a body that is not the image is on the drive only if a format is raw), and that an
answer that says *done* is final (`ReplyInv`). The refinement classifies every step: answers are
`Tell` or `Forget`, commands and writes are `Work`, `WriteDone` is `Finish`, and the rest of the
goroutines' steps are none of the contract's.

Model-checked only is the liveness: `AddressesComeBack`, `DeletedEndpointsGo`, `EndpointsAreServed`,
`InstancesAreNetworked`, `ReadinessSettles`, `DiscoveryIsCopied`, `ActionsFinish`. Liveness under
fairness is out of the prover's reach, as are `ENABLED` and what a recursive definition computes for
every input; of the first, the two `IdleIsDone` are the part that is proved. The properties of the
violated runs have no theorem, being false.

## Plan

In this order; the modules above are the first of the plan.

1. `ProvisionerWakeup`: what wakes an instance whose hardware is missing or another's
   (`provisioner.go:288`), with the work queue as in `EndpointNetwork`; liveness of claiming and of
   deletion.
2. `CloudInitLayout`: where the image action puts its partition, with fields of 32 bits on an MBR;
   the last 64 MB of a drive that an image reaches into.
3. `IPRange`: `inc` over addresses of a fixed width, and a range that ends at the last one.

## Not modelled

* The discovery controller does nothing. Hardware discovery in the agent reads sysfs and `ethtool`
  and keeps no state. The routes of the discovery server that serve files, the admission plumbing,
  generated deep copies and manifests have no behaviour of this system in them.
* What the download server sends is any body; that a checked archive holds what its maker put in it is
  taken from its reader. Where the
  cloud-init partition lies on the drive is in the plan.
* The documents for cloud-init (`network_data.json` and the others) are composed from an instance's
  hardware and endpoints in one pass; what is read when is in the hazards, what is written is not
  modelled.
* What the webhooks say of the format of names, addresses and labels, and the rules by which users
  may not change a spec, hold by what users are let do.
* The DHCP server and power are not in the code: what is asked of leases is `RightAgent`, where
  stated, and a machine may be power cycled at any time.
* Transition times and messages of conditions, and events.
