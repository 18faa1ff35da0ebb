# Ocel: a verification project

TLA+ models of the parts of ocel that several processes change at once: what they do to shared records, in
which order, and what may happen between two steps. TLC checks the models on small instances; TLAPS proves
the properties that matter most for every value of the constants. Every definition of a model is translated
from the Go source; `PROJECT.json` ("map") says which lines each stands for.

Six parts are modelled:

| part | modules | what it answers |
| --- | --- | --- |
| the run engine (`pkg/runs`) | `RunRecord`, `RunEngine`, `RunLifecycle`, `RunEngineRefinement`, `RunEngineInvariant` | does a run belong to one attempt at a time, settle once, never start early, and settle at all? |
| the loops that receive a worker's messages (`pkg/runs/serve.go`, `slots.go`) | `ServeLoops` | does a process work as many messages as it may, no more and no fewer? |
| the lease on an environment (`pkg/stackrecords`, `providerserver/environmentleases.go`) | `EnvironmentLease`, `Reservation`, `NamedLease` | can two deploys ever work on one environment? |
| removing a project while deploys run (`providerserver/projectremoval.go`) | `ProjectRemoval`, `ProjectAccess` | does a removal ever work beside a deploy, what may it leave, and does that stay findable? |
| what an environment serves (`provider/ledger`, `providerserver/{promote,reclaim,promotions}.go`) | `Promotion`, `PromotionHistory` | do ledger and routers agree, and does what is named or served exist? |
| the switchboard of a box (`platform/vps/box/switchboard`, `release/rollout.go`) | `Switchboard` | is a request ever cut, or its container stopped, while it is routed? |

To run: `tlc -config TaskRuns.cfg MCTaskRuns.tla` (the table of runs below names the pairs), and
`tlapm RunEngine_proofs.tla` for each `*_proofs` module.

## 1. The system

Ocel deploys an application's apps, resources, tasks and topics to AWS, GCP or a VPS. A CLI drives a
provider process; the provider keeps everything it knows as records of one key-value store, in which
a write names the revision it replaces and is refused (`ErrStale`) if the record changed since it was read.
At run time the run engine delivers tasks and topic messages through a queue that delivers at least once.

| component | state | operations | with whom | what is hard |
| --- | --- | --- | --- | --- |
| Run engine, `pkg/runs` | one record per run: status, delivery, attempts, due and expiry times, lease | trigger, publish, cancel, reschedule, redrive, purge; deliver: receive, admit, claim, attempt, finish | store (compare and swap), queue (at least once), the app's own code | redelivery, duplicated receipts, leases that lapse, answers that come late, crashes between two calls |
| Run store and queue, `pkg/runs/{store,queue}.go`, `fake` | records with revisions; messages visible or hidden, with a receive count | read, write over a revision; send, receive, hide, acknowledge, release, dead-letter | the engine | a handle that names a receipt or a message; a call that fails after it landed |
| Records, `pkg/records` | key-value entries with revisions | read, write, forget, `RetryWhileStale` | everything below | contention, ambiguous failures |
| Environment and project leases, `pkg/stackrecords/environmentleases.go`, `providerserver/environmentleases.go` | one lease record per environment and per project; in each holder a renewal goroutine | take, watch, renew, keep, confirm, lose, release, abandon | deploys, removals, rollbacks, the CLI | clocks, renewals that land late, takers that overwrite, a deploy split in two calls |
| Project removal, `providerserver/projectremoval.go` | the project's record, its environments, its stacks | take every lease, destroy, forget | deploys | what was read before the leases were held; failing half way |
| Deploy run, `providerserver/deploy*.go`, `provisioninfra.go` | a stack per release and one per environment's resources | record, then provision, promote, reclaim | leases, ledger, cloud | records that must precede what they name |
| Promotion ledger, `pkg/provider/ledger` | pointer (active, history), staged records | stage, record, promote, roll back, unpromote, prune | promoters, prunes, routers | writes to several records and routers with no transaction |
| Promotion and reclaim, `providerserver/{promote,reclaim,promotions}.go` | routers' tables | move each router, restore, destroy what nothing names | ledger, routers | one router of several failing; reclaiming what still serves |
| Switchboard, `platform/vps/box/switchboard` | route table, connections in flight per upstream | load, forward, cut over, drain | requests | a table swapped while a request takes its upstream |
| Bootstrap parts, `pkg/stackrecords/bootstrapparts.go` | one record per shared part: claimed, ready, wanted by | claim, make, release, retire | deploys of several projects | a claim that lapses while the part is made |
| Variable store, `pkg/variablestore` | variables with provenance | claim, set, purge | deploys, CLI | two owners of one name |
| Live values, `pkg/runtime/live` | the generation an app reads | refresh, reread, apply | value source | answers applied out of order |
| Dev leader, `cli/internal/dev/leader` | lock file and link | claim, follow, take over | dev processes | a leader that dies |
| Runtime adapters (pgmq, SQS, box queues) | SQL and AWS calls | the store and queue contracts | the run engine | sweeps, schedules |
| CLI, dev server, build, providers, edge, SDKs | none shared but the above | — | — | sequential drivers, pure functions, translations to cloud calls |

What makes each correct:

- *Run engine.* One attempt owns a run at a time; a settled run stays settled; an attempt respects another's
  lease; nothing starts before it is due; the record moves only as the life of a run allows; an unsettled run
  keeps a message; every run settles; every message is acknowledged.
- *Leases.* Whoever works on an environment is the one its lease names; a deploy goes on only under the lease
  it provisioned under; a take ends.
- *Project removal.* It destroys alone; whatever exists is on record; when it succeeds nothing is left.
- *Ledger and promotion.* The active promotion is the newest kept; routers and ledger agree when a promotion
  ends; what a router serves exists; what can be rolled back to exists.
- *Switchboard.* No request is cut while its upstream is routed; a drain is reported quiet only when it is.
- *Bootstrap parts.* A part is made by one deploy at a time and never retired while wanted.
- *Variable store, live values, leader.* No silent change of owner; values never go back; one leader.

The hazards of the code, each at its line with the properties that watch it, are in `PROJECT.json`.

## 2. Plan

| order | module | composes | abstract specification | theorems |
| --- | --- | --- | --- | --- |
| 1, done | `RunEngine` over `RunRecord` | store, queue, deliverers, callers | `RunLifecycle` | invariance, single owner, settled for good, leases, due times, refinement |
| 2, done | `EnvironmentLease` | holders, CLI renewals, store | `Reservation`, `NamedLease` | exclusion, what a lost lease leaves to undo in, both refinements |
| 3, done | `ProjectRemoval` | deploys, removals, over `NamedLease` | `ProjectAccess` | exclusive removal, nothing orphaned, nothing left but what came amid it, refinement, each lease a `NamedLease` |
| 4, done | `Promotion`: deploys, rollbacks and prunes over pointer, staged records, routers and stacks; the reclaims | the lease, as what is left of it after it was lost | `PromotionHistory` | the newest standing promotion is active; what is kept is up; routers agree; what is served is up; refinement |
| 5, done | `Switchboard`: tables, requests, cutovers, rollouts | — | — | drains are over when told, cuts are late, what is routed runs |
| done | `ServeLoops` | loops, deliveries, deployments; `RunEngine` has the delivery itself | — | no slot lost, no limit exceeded |
| 6 | `Triggers`: idempotency keys, debounce records; `OrderedDelivery`: groups and batches; the slots that processes share (`takeSlots`) | `RunEngine`'s records | one run per key | at most one run per idempotency key |
| 7 | `BootstrapPart`, `VariableStore`, `LiveValues`, `DevLeader` | — | one maker, one leader | exclusion |
| 8 | `Backoff` as a recursive function against its definition | — | — | bounds |

Every module is written to be proved about: constants with named assumptions, an action per operation,
invariants as conjunctions of named parts, no RECURSIVE operator.

## 3. The run engine

**State.** `run` is the store, `queue` the messages by execution and delivery, `job[w]` what each goroutine
inside `Deliver` is at, `call[c]` what each client inside a `Tasks` or `Topics` call is at. A run is a record
of status, delivery, attempts, `due` ("ahead", within the 250 ms of "slack" that `dueSlack` allows, or "come"),
`expiry` and `leased`: the code compares times, and what the comparison gives is all a model of it needs. The
passing of time (`DueArrives`, `TtlPasses`, `LeaseLapses`) is actions of its own.

**Compare and swap.** A process that read a record holds a copy; all it can do with it is write over the
revision it read. Instead of revisions the model keeps the set `fresh` of the processes whose copy is still
current: a read adds to it, any write to that execution's record removes everyone else. `Write` is refused
unless the writer is fresh; the code then rereads and judges again, and so does `AdmitAgain`. A deliverer's
job keeps of its copy what numbers an attempt: the delivery it judged and how many attempts the copy counts. What it
writes (`Claimed`, `SettledAs`, `Judged`, `HeldBy`) it makes of that, `Copy(w)`, not of the record as it is by
then: two deliverers that judged one record would start the same attempt, were the second write not refused. The other
fields of a copy only date and settle a run.

**Messages.** A message in hand carries the count it was handed out with (`receives` of the job), which is what
`redeliverUnlessUndeliverable` looks at, whatever the queue has counted since. An acknowledged message stays as "acked", so
that `Duplicate`, a queue that delivers again what was acknowledged, can happen to it at any later time and to no
other. A run made on arrival expires a TTL after its message was due, which may be over by the time the message
arrives (`ExpiriesOnArrival`): `admit` then settles it as expired at once.

**Actions.** `Receive`, `Arrive` (the read and `readinessOf` in one: what is judged is what was read),
`CreateOnArrival` (a topic message or a trigger whose record is not there), `AdmitWrite` (hold, expire or
exhaust), `FailUndeliverable`, `SlotsTaken`/`SlotsRefused`, `Claim`, `RenewLease`, `AttemptCanceled`,
`Answered`, `Finish`, `Dispose`; `Trigger`, `Publish`, `SendMessage`, `SendFails`, `Undo`, `Cancel`,
`Reschedule`, `Redrive`, `Purge`. Faults: a deliverer or caller dies between any two of its steps, a store
call fails with or without having landed, a send fails with or without having enqueued, a queue hands a
message out again (`Overrun`, `Reappear`), duplicates it, or dead-letters it.

**Where the model allows more than the code.** `RetryWhileStale` gives up after ten stale writes, a caller of
the model may give up after one. A message held or released comes back whenever `Reappear` fires. Slots are
granted or refused freely. The reread after a refused create on arrival is part of that step.

**Folded together.** The status `interrupted` is `failed`, the answer `refused` is `aborted`: the code
treats each pair the same way in all that is modelled.

**Abstract specification.** `RunLifecycle` has one variable, the life of each run, and the changes a record
may make: created, started, put back for a retry, settled, moved, redriven, put back by a failed operation,
removed. `RunEngineRefinement` maps the store's records to it.

### Runs

| run | modules and bounds | what it shows |
| --- | --- | --- |
| `TaskRuns` | `MCTaskRuns`: one task run with a TTL, two deliverers, one caller that may fail, two attempts, one new delivery, two faults, renewals that may come late; 1,041,290 states | `TypeOK`, `OneOwner`, `SettledStays`, `LeaseRespected`, `NoEarlyStart`, `ImplementsLifecycle` |
| `TopicRuns` | `MCTopicRuns`: an ordered topic, created on arrival, two callers whose sends may fail, a TTL that may be over on arrival, dead-lettering after two receipts, two new deliveries, late renewals, no further fault; 134,750 states | `OneLetterInFlight`; `ImplementsLifecycle` for runs that messages create, redrive puts back and purge removes |
| `TaskSettles` | `MCTaskSettles`, fair: renewals in time, callers that do not die, one fault; 72,143 states | `MessageKept`, `Settles`, `QueueDrains` |
| `LastReceive` | a queue that dead-letters after two receipts | finding: `DeadLetteredRunsEnded` is violated |

Two deliverers are what two receipts of a message need; every property is about one run, and runs share
nothing but slots, so one execution is enough. Two attempts are the first and the last; one new delivery
(two in `TopicRuns`, so that a letter put back can fail and be put back again) puts an old message beside a new one. Two faults allow a crash and a duplicate, or a write
that landed and a crash after it. Symmetry is used for deliverers and callers in safety runs only.

`OneOwner` and `LeaseRespected` are two sides of the revision check on a claim. `OneOwner` fails when a write is
taken over any revision: the second of two deliverers that judged one record counts the attempt the first
counts. `LeaseRespected` names who acts: while a lease is ahead no deliverer goes from claiming to working, not even one
whose claim would leave the record as it is; and the record changes only in the very step in which its owner
records its own outcome (`OwnerJudges`), a caller cancels the run (`CallerCancels`), or time takes the lease.

**Fairness** (`Fairness`, used by `TaskSettles`). Weak fairness of each deliverer's and caller's steps (their
code does not block but on the calls the model lets fail), of `LeaseLapses`, `DueArrives` and `Reappear` (time
passes, a hidden message becomes visible); strong fairness of `SlotsTaken` (a run is refused only while others
hold the slots, and they finish) and of someone receiving (a queue's poll). Nothing is assumed of faults.
`LateRenewals = FALSE` is an assumption of this run: `keepLeases` renews every third of the lease, and the run
shows what holds while a renewal is never a whole lease late. With late renewals `MessageKept` does not hold: an
attempt that lost its claim acknowledges the message (`deliver.go:464`) though another attempt of the run is at
work, and where a handle names the message, as in pgmq, or the late attempt has the newest receipt, the run loses
its only message; if the other attempt then dies, nothing delivers the run again. That hazard is listed without a
property.

Deadlock is not checked in these runs: a system whose runs are settled and whose budget of faults is spent may stop.

### Proofs

`RunEngine_proofs` and `RunEngineRefinement_proofs`, for any executions, tasks, deliverers, callers, numbers of
attempts, deliveries and faults, under `RunEngineAssumption` and `RunRecordAssumption`.

`OneOwner` alone is not inductive: whether a claim stays alone depends on what other processes believe they
read. `IInv` (`RunEngineInvariant`) adds: a record's fields agree with its status (`RecordsOK`); a copy that is
`fresh` says of the record what its holder decided on (`CopiesOK`, `CallsKnow`), so a fresh write makes the
change that was judged; what a failed operation puts back is a record that was there (`CallsPutBack`); a
claim on a task run is one of the attempts its record counts, came by the delivery the record names, and is
no other deliverer's (`ClaimsOK`); messages name deliveries that were named (`MessagesOK`). Each action has a
lemma, which rests on what a step of one process leaves of what the others know (`OtherDelivererKnows`,
`OtherCallerKnows`, `DelivererStep`, `CallerMoves`). `SingleOwner` rests on the revision check: a copy that is fresh is
the record (`CopyIsRun`), so what a deliverer writes over it, it makes of the record (`ClaimOver`, `FinishOver` and
their like), and the attempt a claim starts is one nobody has.

`RunEngineRefinement_proofs` then shows once (`TheStep`) that every step is one of a few changes of one record,
and concludes `SettledForGood`, `LeaseHolds`, `StartsOnTime` and `Refinement` from it.

`RunEngineMessages_proofs` adds what the messages rest on. What a deliverer is about to write it judged by the
delivery in its hand (`DelivererKnows`), so it writes only a run that waits for that delivery, and past a lease only its
own. Two theorems follow.

- `OneLetter`: while a caller is about to send a letter that was put back, the record waits for exactly its
  delivery, which was never sent, is in nobody's hand and no other caller's (`LettersOK`). Two callers with the letter of
  one run would contradict each other.
- `MessagesKept`, under `Calm`: callers and their sends do not fail, leases are renewed in time, the queue
  dead-letters nothing. An attempt on an unsettled task run is its owner, lease and all (`WorkersHold`), so what is
  acknowledged is settled or stale (`AcksAreDue`), and the message a record waits for stays on the queue
  or with whoever is about to send it (`TasksDeliverable`). Every assumption of `Calm` is needed: without it the code
  does lose messages, as the two paragraphs on late renewals and on `LastReceive` say, and a failed `Send`
  puts back a record whose message may have been acknowledged as stale meanwhile (`trigger.go:293`).

Model-checked only: `Settles` and `QueueDrains` (liveness, out of the prover's reach).

### Finding

`LastReceive`: an attempt that fails on the last receipt a queue allows is put back to queued and hidden
  (`deliver.go:496`); the queue dead-letters the message and the run stays queued for ever.

### Not modelled here

Groups and batches (`deliverBatch`), the counting of slots across processes, idempotency and debounce records, lanes, task
messages published from outside, listing. A run has a TTL only where a topic or trigger sets one (`Expiry`).

## 4. The loops that receive

**State.** A process serves each consumer of a worker with a loop (`Engine.Serve`). Before it asks its queue for
messages a loop reserves slots in two pools, its consumer's and the worker's, which all loops of the worker share.
`limit` and `used` are the pools' two counters; `at`, `granted`, `n` and `groups` are what a loop is at and what
it has reserved; `running` and `leaving` count deliveries. `deployed` is the deployment in force.

**Actions.** A loop reads its limit (`Begin`), reserves in one pool, in the other, and gives back the difference
(`ReserveConsumer`, `ReserveWorker`, `GiveBackExcess`: each is its own critical section in the code), receives
(`Gather`, `GatherFails`), keeps what its deliveries need (`KeepOfConsumer`, `KeepOfWorker`), or waits. A delivery
releases in two steps. `Redeploy` changes limits at any time, `Stop` ends a loop.

**Where the model allows more than the code.** A wait may end at any time: the timer of two seconds may fire
between any two steps, so what the `changed` channels add is speed and they are left out. How a received set
falls into ordered groups is a free choice.

| run | bounds | what it shows |
| --- | --- | --- |
| `ServeLoops` | two loops, one in batches, one ordered; limits none and 1, two in flight, two messages a queue | `TypeOK`, `SlotsAccounted`, `NeverOverbooked`; no deadlock |
| `IdleLoopStarves` | two plain loops, a worker limit of 1, fair | finding: `Received` is violated |

Two loops are what contend; limits of none and 1 let a deployment lower a limit under what is reserved. `MaxLeaving`
bounds the deliveries between their two releases, which an unlimited worker would let grow without end.

**Fairness** (`FairSpec`). Weak fairness of each loop and of each delivery's end (goroutines run, attempts have timeouts);
strong fairness of `Takes`: a loop that keeps polling a queue with a visible message receives it some time.

**Finding** (`IdleLoopStarves`). A loop reserves all the room its worker has and holds it through a poll of up to
twenty seconds, gives it back without waking anybody and reserves again at once. With a concurrency set for the
worker, a consumer whose queue is empty can so keep another from its messages for ever, though none is being worked.

**Not modelled here.** A loop that `Dispatch` restarts, with a new pool of its own, while deliveries of the old
one end; a consumer that moves to another worker; the wait for a worker that is not deployed yet.

**Proofs** (`ServeLoops_proofs`), for any finite set of consumers and any limits under `ServeLoopsAssumption`. The
two counters of a pool are sums over consumers; the proof counts instead the slots themselves, a set of pairs of
a consumer and a number, so that each action adds or removes a set whose size is known (`SlotsFinite`), and
sums need no induction. `IInv` is `TypeOK`, what a loop's place says of what it has reserved (`LoopsInv`),
and `SlotsAccounted`; there is one lemma per action. `TypeCorrect`, `NoSlotLost` and `NeverBeyondLimit` are the three
properties of the run.

## 5. The lease on an environment

**State.** The store's lease (`lease`, the token it names); for each holder, where it is (`at`), how far its
work is (`phase`), how long it has been at that step (`clock`), and how long it has watched a revision or
how long ago its last good renewal began (`age`); `fresh`, the holders whose copy of the record is current, as
above; and `inflight`, those with a write they gave up on that may still land.
A deploy of `Deploys` provisions under one call and is `parked` while the CLI builds and renews for it
(`CliRenews`); `keep` then continues only under the lease its provisioning took.

**Time.** `Tick` ages everything by one unit and is not allowed to pass `Limit`, the time by which a holder's
timer fires or its call is cut off. `ExpiresAt` is left out: a reader compares it with its own clock, so that a
lease looks expired or not is a free choice (`Look`) and no property rests on clocks that agree. What the
code rests on, that clocks run at the same *rate*, the model assumes. `LandsLate` is a renewal that timed out and
still reaches the store, at any later time, unless the record has changed since. The renewals beside the loop,
`Confirm` before a promotion moves traffic and `CliRenews`, may fail and land late as well (`RenewsBeside`): one that fails
leaves the hold and its loop as they were. `Answer` bounds how long the store may take to answer a take or a keep; the
code sets no timeout there, and its periods (5 min TTL, 2 min renewal, 15 s retry, 1 min margin) leave 30 s.

**Giving up.** A holder that could not renew in time is `unwinding`: its work is canceled, and it undoes what it had begun under
a context of its own (`promote.go:107-109`, `inlinebindings.go:219`). `UnwindsAlone` says how long it has for that alone:
until a TTL less one answer after its last good renewal began. Since it gives up between `TTL - Margin` and
`TTL - Margin + 2 * Retry` after that renewal, what is left is `Margin - Answer` at most and `Margin - 2 * Retry - Answer` at
least: with the code's numbers, and the 30 s an answer may then take, between none and 30 s. The window it gives
itself is 60 s (`unpromoteWindow`, `promote.go:19`), so the margin alone does not keep another deploy from
beginning while it unwinds; `Promotion` has that as one of its faults.

**Abstract specifications.** `Reservation` is the lease as its holders see it: one worker at a time; a suspended deploy
resumes only while its reservation was never taken by another. `NamedLease` is the lease as other models build on it: a
token and the holds that are live, with no clocks, revisions or renewals. Who is live is who works, or whose
take or keep the store has written and who has not heard (`Owns`). A hold is taken from nobody live, a late write overwrites nobody
live, and the record of a live hold is removed only by its holder.

| run | bounds | what it shows |
| --- | --- | --- |
| `EnvironmentLease` | one deploy in two calls, two one-step runs, fair; TTL 8, renewal 3, retry 1, margin 4, answer 2: the tightest the assumption allows at that size | `TypeOK`, `HoldsWhatItWorksUnder`, `UnwindsAlone`, `ImplementsReservation`, `ImplementsLease`, `TakesEnd` |

Three holders allow an owner, one that watches it, and a late write of the third, which took the lease before or
is watching as well; the theorems cover any number. Fairness: time passes (`Tick`), a holder's own goroutine runs
(`HoldStarts`, `RenewStarts`, `LookAgain`) and calls are answered or cut off; takers need not be served in turn,
and a take may end refused. No property but `TakesEnd` rests on it.

**Proofs** (`EnvironmentLease_proofs`), for any holders and any periods that satisfy
`EnvironmentLeaseAssumption`. `IInv` adds to the types: an owner, and whoever unwinds with time left, is named by the lease (`OwnersAreNamed`); a
hold that works was renewed at most so long ago (`AgesBounded`); nobody has watched its revision for longer
than that plus one answer (`WatchesBounded`); a write in flight that is still current cannot displace either
(`WritesSafe`). `TypeCorrect`, `Exclusion`, `UnwindingIsAlone`, `Refinement` and `LeaseRefinement` follow. Exclusion is why the branch of `renew` that finds its
lease taken (`RenewRefused`) is never reached while `lose` works as it should; it is in the model as part of
`RenewReaches`.

Model-checked only: `TakesEnd` (liveness).

## 6. Removing a project

**State.** `lease` names the token of each environment's and of the project's own lease, `live` the holds whose
context is alive: the two variables of `NamedLease`, for each name. `LeaseRefinement` (section 5) shows that the lease with
its clocks does no more than `NamedLease`, and `LeasesAreNamed` that each lease here does no more either, so nothing is
assumed of a lease that its own model does not give. `project`, `metas`, `stacks` are what is on record, `up` what exists. `names`, `plan` and `torn` are
what a removal has read and done; `amid` is history, the deploys past the project's check when it read. A deploy stands for the stack it makes.

**Actions.** A deploy clears a stopped removal's lease (`ForgetStoppedProject`), takes its environment, and
then looks at the project's lease (`CheckProject`); it puts the project, its environment and each stack on record
before it makes the stack; it may park and be continued. A removal takes the project's lease, reads the stacks
once (`OpenRemoval`), lists environments from three sources at two moments, takes each, destroys stack after
stack and forgets each, and forgets the project if no stack is on record. Anyone may lose its leases, fail or
die at any step, and what a removal read goes with it (`Unreads`).

**Abstract specification.** `ProjectAccess`: who is at work, which removal runs, and the records. A deploy begins alone on
its environment and beside no removal, a removal begins alone; a stack is put on record under a project on record, made by
a deploy at work on it, destroyed and then forgotten by a removal, and a project is forgotten with no stack.

**Where the model allows more than the code.** A removal that loses one of its leases drops all at once. A
refused deploy's cleanup and a release are one action, and may be skipped. Stacks are destroyed in any order. A write that
somebody gave up on (`LandsLate`) may land at any later time, not only until the record changes. Losing a lease
and failing are one action (`Fails`): both cancel the work and end its holds.

| run | bounds | what it shows |
| --- | --- | --- |
| `ProjectRemoval` | two deploys, two removals, two previews, symmetry of each | `TypeOK`, `RemovesAlone`, `NothingOrphaned`, `ImplementsAccess`, `LeavesOnlyAmid` |
| `RemovalLeavesNothing` | one deploy, one removal | finding: `LeavesNothing` is violated |

Two previews are one that a removal knows and one it has never heard of; two deploys are one it meets and one
that begins meanwhile; two removals contend, or one continues what the other left.

**Proofs** (`ProjectRemoval_proofs`), for any environments, deploys and removals under
`ProjectRemovalAssumption`. The heart is `NamesCover`: once a removal has listed leases, a deploy that still
has its environment's is to one the removal listed, because a deploy looks at the project's lease after it
took its own, and the removal took the project's before it listed. `Alone` then follows from one live hold per
name, and with it that what either side does to the records never disturbs the other. `TypeCorrect`,
`Exclusive` and `Recorded` are the three invariants of the run.

- `AccessRefinement`: every step is one of `ProjectAccess` or changes nothing of it. A step that begins work needs
  `Alone` after it, one that makes or forgets a stack needs what the invariant says of the records before it.
- `LeasesAreNamed`: for each name, `Spec` implements `NamedLease`, with an abstract step per take, end and removal of it.
- `LeavesNothingElse`: a second invariant, `AmidReading`, inductive under the first: from the moment a removal has read until
  it ends, the stacks on record are among those it read or of deploys in `amid`, and no deploy outside `amid` is at work, since
  `CheckProject` refuses whoever comes later. When it succeeds it has destroyed all it read: `LeavesOnlyAmid`.

**Finding** (`RemovalLeavesNothing`). `openRemoval` reads the stacks when only the project's lease is held; the
environments' leases are taken after every teardown was planned. A deploy that was past its check records a
stack in between and ends before its environment is taken; the removal destroys what it read, finds a stack
left, and returns success (`projectremoval.go:637`) with the edge gone. A second removal finds the stack.
`LeavesOnlyAmid` says exactly how far the code misses: what is left is of a deploy that was under way when the stacks were read,
and of no other.

**Not modelled here.** `RemoveEnvironment`, the consent plan, edge, hostnames, values and objects; stacks whose
record is gone and that shared resources still name (`destroyUnrecordedHolders`, `projectremoval.go:389`), for here a stack
is forgotten only once it is down; writes of stack records and cloud calls that land after their caller failed or lost its lease
(`Fails` takes what it cancels to be over). The record writes under a context detached from the lease
(`deploypromote.go:57`) and the reclaim after a failed deploy are in `Promotion`.

## 7. What an environment serves

**State.** The ledger's pointer: `active`, `kept` (the recorded promotions), and of each promotion its `sequence`, what
it `displaced`, whether it was `unpromoted` and the `release` it names. `staged` and `up` are the releases with a
record and with a stack; `served` is what each router serves. `holder` and `lost` are the environment's lease and
those whose hold was lost. Of each actor: where it is (`at`), the router it is at, how many it may have to restore
(`touched`), what it read there and is about to write (`seen`, `aim`), what its change of the pointer dropped and
what it is to destroy and forget (`dropped`, `doomed`, `gone`). A promotion is named by the deploy or rollback that records
it. A pointer write is a read and a conditional write tried again while stale, so one step; a router takes a move only
over what was read there; everything else is a step of its own.

**Actions.** A deploy provisions, stages and records (`StartDeploy`, `Provision`, `Record`), a rollback records a promotion of
an older release (`StartRollback`); both then read the kept promotions and move router after router (`ReadKept`, `Aim`, `Move`,
`MoveStale`). A router that refuses (`MoveUnserved`) or breaks half way (`MoveBroken`) takes the promotion back
(`Unpromoting`) and restores those that may have moved (`RestoreAim`, `Restore`, `RestoreStale`, `RestoreNothing`). What was
dropped, and what a failed deploy provisioned, is reclaimed (`ReadUnnamed`, `ReadOwn`, `Destroy`, `Forget`); `Prune` changes the
pointer with no lease. `findFallbackChain`, which walks a chain, is its least closed set, and `Retain` a set of promotions.

**Faults.** A promoter dies (`Crash`), the answer of a record that landed is lost (`RecordUnanswered`), taking back or restoring
fails (`UnpromoteFails`, `RestoreFails`), or a promoter starts while another, whose lease it took over, still
unwinds: a holder may give up with as little as 30 s of the margin left before its lease can be taken, and unwinds
for up to 60 s (section 5). What the run and the theorems say without faults, they do not say of that overlap. A lost lease, a refusing or breaking router and a failed
reclaim are no faults: they may happen at any time.

| run | bounds | what it shows |
| --- | --- | --- |
| `Promotions` | two deploys, one rollback, one prune, two routers; two promotions kept, prunes keep none or one; one fault, one lost lease | `TypeOK`, `ActiveIsNewest`, `KeptIsUp`, `RoutersFollow`, `ServedIsUp`, `ImplementsHistory` |
| `PruneDropsLive` | three deploys, one prune, one router, three kept, one fault | finding: `ServedStaysUp` is violated |

Three promotions with two kept let one be dropped; a rollback names a release that another promotion names; two
routers let one move and the next fail. `RoutersFollow` and `ServedIsUp` are stated where no fault happened: a death
between recording and moving leaves a router behind until the next promotion, which the code knows and
repairs only then.

**Proofs** (`Promotion_proofs`), for any finite sets of deploys and rollbacks and any numbers of prunes, routers and kept promotions under
`PromotionAssumption`. `KInv` says that whoever is to destroy a release provisioned it or saw it unnamed, and that what is named and not yet
recorded is so by a deploy that has it in hand: `KeptIsUp`. `NInv` gives every recorded promotion that was taken back
a place in the order of sequences below the one that displaced it; the lemmas on chains show that the last of the chain is
then the newest that stands: `ActiveIsNewest`. `RInv` holds without faults: one promoter at most moves routers,
those it has passed serve its promotion and the others what it displaced, and what it displaced stays recorded until it is done:
`RoutersFollow`, `ServedIsUp`. All five invariants of the run are so proved.

**Abstract specification.** `PromotionHistory` is the ledger as those who read it rely on it: which release each recorded promotion
names, which was recorded before which, which were taken back, which is active, which releases are ready. A promotion joins as the
newest, a deploy's with its own release and a rollback's with that of a promotion that stands; taking one back gives way to
the newest that stands; pruning never drops the active promotion nor the next in line; a release goes only when nothing names it.
`HistoryRefinement` shows `Promotion`, with its chains of displaced promotions, its sequences, its caps and its
reclaims, to implement it, from `KInv` and `NInv`; `EarlierIs` and its kin say how the order of sequences grows and
shrinks with the kept promotions, and `NextInLine` that the fallback of the active promotion is the newest that would stand without it.

**Finding** (`PruneDropsLive`). What a router serves need not be what the ledger names, once a promoter died between
the two. A prune at a moment when a third deploy has recorded its promotion and not yet moved the router pins that
promotion and those it would fall back through, and destroys the release the router still serves.

**Not modelled here.** Tags, hosts, hostnames of single deployments, container scaling, inline bindings, several pointers,
pending removals of environments.

## 8. The switchboard of a box

**State.** `file` is the routing table on the box's disk, `table` the one the board serves, `stopped` the containers that do
not run. Of each request: whether it has read the table, counted itself and looked again (`at`), the upstream it read (`on`), whether its table
was replaced since (`stale`) and whether it was cut (`cut`). Of each rollout: where it is, what it rolls out (`target`), what its
key was routed to (`prior`); and of the cutover it asked the box for, which outlives it, where that is (`box`) and its
drain (`wait`). `told` and `unrouted` are history for the properties.

**Actions.** A request reads the table, counts itself and looks at the table again in three steps (`ReadTable`, `Take`, `Check`), and
ends. A cutover counts what it retires, loads, registers its drain, and tells it when it is quiet or its window
closes (`Retires`, `CutoverLoads`, `Quiet`, `Drained`, `Expires`), cutting what is left and unrouted; it may fail to load or be cut
short. A rollout starts a container, asks its gate, composes the file, asks for the cutover, and asks whether what
it no longer needs is idle, in three reads (`AskIdle`, `AnswerIdle`, `ReadFile`), before it stops it; when the cutover fails it
puts the file and the board back. `LoadByOthers` is a run of another environment, `LosesTouch` and `Dies` a rollout whose cutover goes on.

| run | bounds | what it shows |
| --- | --- | --- |
| `Switchboard` | one request, two rollouts, two route keys, two containers, fair | `TypeOK`, `DrainedIsOver`, `CutsOnlyReplaced`, `RoutedRuns`, `StopsDrained`, `DrainsHear`, `DrainsEnd` |

Requests do not meet but in the counter of an upstream, which the proofs cover for any number; two rollouts let one
route again what the other retired, and two keys let another key keep it routed.

**Fairness.** A request that is counted looks again and ends, and the goroutine of a drain that is quiet runs. Neither
the window of a drain nor what cuts it short is assumed: `DrainsEnd` shows that a drain ends without them.

**Proofs** (`Switchboard_proofs`), for any requests, rollouts, keys and containers. `IInv` adds to the types that a late request is
stale and one that looked is not on what was unrouted before (`Late`, `Fresh`, `UnroutedNow`), that what a rollout
asks to stop is neither routed nor what a waiting rollout composed (`Aims`, `Asks`), and that what it retired was told (`Retired`). All
six invariants of the run follow. Model-checked only: `DrainsEnd` (liveness).

**What the model shows beside its properties.** A request on a target that is rolled back is cut without a drain. A
cutover whose rollout lost touch may close its window on requests of a later cutover of the same upstream; that they
are stale by then is `CutsOnlyReplaced`.

**Not modelled here.** Several apps in one rollout, the gate (`gate.go`) and admission (`admit.go`), the pool of connections,
headers, tunnels, the shutdown of the board, a key that had no route before and is put back to none (`rollout.go:263`), and
a `docker stop` that lands after the rollout that asked for it died. One rollout at a time is an assumption: `stopRetired` and the discarding of
a new container run for up to 60 s in a context detached from the lease (`rollout.go:170`, `rollout.go:346`), so a
rollout that lost its lease may still stop what it retired when the next has begun.

## 9. What is not modelled, and why

Bootstrap parts, the variable store, live values and the dev leader keep state that several processes contend for
and are next on the plan (section 2). The hazards they have are listed in `PROJECT.json` without a property:
a bootstrap part whose claim lapses while it is made (`bootstrapparts.go:184`) and overlapping reads of live values
(`live/values.go:294`). Of the run engine, idempotency keys (`trigger.go:76`), debounce records
(`trigger.go:193`), batches of ordered topics (`deliver.go:53`) and a purge that meets a duplicate of a purged message
(`topics.go:192`) have none either.

The cloud providers, edge, build, CLI and SDKs keep no state that two processes contend for, or are pure functions
of their input. Generated code (`*.pb.go`) and the provider's translations to cloud calls are most of the repository's lines.
