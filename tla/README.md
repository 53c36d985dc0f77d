# stm32-toolkit: specification and proofs

TLA+ modules, TLC configurations and TLAPS proofs for the parts of stm32-toolkit whose
correctness depends on the order in which processes, threads and tasks do things: who owns a
debug probe, how the probe is handed to an external debugger and taken back, how evidence is
stored and collected, how hardware calls are kept apart and ended in time, how the monitor
samples and what it tells its clients, how files and directories of the user's are replaced and published, and how a
diagnosis and an acceptance attempt are recorded. Every definition is translated from the Python source; comments in the modules name
the files. Paths below are relative to `src/tools/stm32-toolkit/src/stm32_toolkit/` unless
they begin with `monitor:` (`src/tools/stm32-monitor/src/stm32_monitor/`), `skills/` or `docs/`.

Contents: 1 inventory of the system, 2 plan, 3 modules, 4 runs and bounds, 5 fairness,
6 proofs, 7 where the code and what is said of it disagree, 8 what is not modelled.

## 1. The system

stm32-toolkit is a command line and MCP server through which a developer (or a coding agent)
builds, flashes, tests, observes and debugs STM32 firmware. Several processes of it may run at
the same time on one machine: one per command, plus the monitor with its user interface.
They share files only: a data root with the probe registry, one state directory per session
and project, an evidence store per project.

### Components, their state and how they interact

| component | state it keeps | operations | talks to |
|---|---|---|---|
| probe lease (`probe/lease.py`) | per probe: a guard file whose OS lock the owner holds, a JSON record (owner, reservation ticket, tombstone) | acquire, reserve_external_handoff, consume_external_handoff, release, finalize_external_handoff, acknowledge_external_handoff, heartbeat | the record is shared by all processes |
| debug handoff (`probe/handoff.py`) | per session: a state file (`observing`, `paused-for-debug`, `externally-owned`, `reacquiring`, `observing-pending-release`), a guard | begin, end, with every crash point between their durable writes | lease, probe service, build and flash evidence |
| hardware workflows (`hardware_workflows.py`) | none of their own | a service for one command: read, flash, analyse a fault (halt, look, let run again); handoff begin/end | all of the above, probe service, authorization |
| firmware flash (`probe/flash.py`) | `flash-result.json` | withdraw the evidence, program, publish | handoff reads the evidence |
| probe service (`probe/service.py`) | requests and their tasks, backend lock, drain state, lease, stop state | handlers per level (OBSERVE, CONTROL, MODIFY), drain, heartbeat, stop | proxy of the worker, lease |
| probe worker (`probe/worker.py`) | a child process with two pipes, a call lock, request numbers, closed flag | call, abort_owned_execution, close; the child's loop | pyOCD in the child |
| control authorization (`probe/authorization.py`) | prepared and consumed records under an authority lock | prepare, consume | service |
| evidence store (`evidence/store.py`) | objects by digest, envelopes, roots, a mutation lock | put_object, put_envelope, put_root | everything that publishes results |
| evidence collection (`evidence/gc.py`) | plan digests in a ledger | plan, redeem, apply | store |
| monitor sampler (`monitor:sampler.py`, `monitor:probe_session.py`) | state told to clients, epoch, read plan, gate, producer and writer tasks, history queue, subscriber queues, drop counters | start, pause, resume, stop, close, subscribe; a cycle of the producer; the writer | group store, probe service, history |
| monitor runtime and service (`monitor:runtime.py`, `monitor:service.py`) | the probe that is bound, its epoch, the request that holds the lifecycle lock; a ring of public events, anchors of private ones, a queue and a relay per client | connect, reconnect, release, sampling commands, source catalog, live events, stop | sampler, probe service, browser tabs |
| monitor storage (`monitor:history.py`, `monitor:exports.py`, `monitor:groups.py`) | the history database and its quota, exports, groups | append, export, edit | sampler, runtime |
| configuration (`generation/configure.py`) | the generated files of a project and the manifest of what it owns; a staging directory per plan | plan, apply (stage, replace, roll back) under the project mutation lock | the user, who edits the same files; upgrade |
| project upgrade (`project_upgrade.py`) | two ledgers of consumed actions, the user's manifest | plan, apply (consume, exchange, compare, put back) | configuration, the user |
| delivery of a migrated project (`migration/delivery.py`) | a staging directory per plan | plan, apply (stage, verify, empty, rename), clean up | the destination, which others use too |
| creation (`creation_apply.py`, `creation_authorization.py`) | one-use authorizations, an activation lock per destination | consume, generate, activate, restore | the destination |
| regeneration (`regeneration.py`, `regeneration_workflows.py`) | one-use authorizations of a preview, the activation lock of creation, a backup of the project | prepare, consume, generate again, exchange, put back | the project, which the user edits; creation |
| converted copies (`skills/normalize-source-comments/scripts/normalize_comments.py`) | an output directory with a marker and a manifest | preview, copy | sources, which are edited meanwhile |
| diagnostics (`diagnostics/events.py`, `diagnostics/store.py`, `diagnostic_workflows.py`) | per session a log of events, a file each; a chain of checkpoint roots | create, begin, declare, plan, verify, complete; repair | evidence store |
| acceptance (`acceptance/recovery_workflows.py`) | a chain of eight snapshots, each a root; for an attempt that ran out of time, a proof and two revisions | authorize and record a stage, finalize, retry | builds, target tests, diagnosis, evidence store |
| build, testing | build lock and evidence, test results | run, publish | evidence store, file system |
| parsers, planners, front ends | none (pure functions of their input or presentation) | | |

`PROJECT.json` lists every component with its sources and what is modelled of it.

### What is hard, and what makes each component correct

- **lease**: processes die at any point and the OS lock dies with them while the record stays.
  Correct: one owner; an owner never finds its record replaced; a reservation and the tombstone
  of a consumed ticket survive any sequence of reclaims, failed releases and restarts; a probe
  nobody runs for can be acquired or settled by somebody.
- **handoff**: two files are written one after the other with a crash or cancellation possible
  between any two; begin, end, flash and other sessions' commands run concurrently; the
  debugger may load another image. Correct: the files agree whenever it matters, the debugger
  gets and the end accepts only a proven image, a ticket restores once, an end completes.
- **store and collection**: publication races with a collection that was planned earlier; the
  collector may die half way, manifests may be unreadable, roots may be written by somebody who does
  not take the lock. Correct: what a root reaches stays whole, only garbage is deleted, a plan
  is redeemed once.
- **worker**: threads take turns on one pipe; any thread may abort at any moment; the child may
  hang, die, or survive both signals. Correct: answers go to their requests, success means the
  request was carried out, the hardware does not act for a call that is over.
- **service**: handlers give up at deadlines while their tasks run on in threads; the lease may
  be lost at any moment. Correct: quiet after the answer, after a drain and after the release;
  control acts on the target it checked; every request is answered, stop ends.
- **hardware workflows**: answers are lost or late, the target halts by itself, the caller cancels, the lease goes.
  Correct: whoever halted a target lets it run again or tells that it could not; a workflow ends.
- **configuration and upgrade**: several files are replaced one after the other with the user
  editing the same files without a lock; there is no journal, so a process that dies leaves
  what it replaced and a staging directory. Correct: the manifest of owned files tells the truth,
  what a failure has to put back is still there, a plain failure leaves nothing, no edit of the
  user's is replaced, an upgrade action is used once.
- **delivery, creation, regeneration, copies**: a complete directory is to appear at once in a place the
  user and other tools use too; a second apply of the same plan, a leftover staging directory, a late
  failure. Correct: nothing incomplete comes to the destination unless a rollback is reported as failed,
  nothing there is overwritten by a delivery, one
  authorization makes one project, a regeneration that fails or dies loses neither the project nor what
  the user wrote in it, an incomplete set of copies says so.
- **diagnostics**: a decision is made on a session that was read under one hold of the lock and is
  appended under another; an event file is written in place and has its name before its bytes; a
  retry must find the answer that was lost. Correct: a session is a log that is appended
  to, an operation happens once, what a caller was told is recorded, checkpoints follow events.
- **acceptance**: two callers record stages of one attempt while sources, firmware, test runs and
  the diagnosis change underneath. Correct: the chain can always be loaded, a complete attempt
  means a fix that was diagnosed, authorized, built and passed, an answer is what was recorded, and an
  attempt that is finalized never completes by itself as well.
- **sampler**: five client actions and two tasks interleave at every await; queues are bounded
  and drop. Correct: no stale batch is published, a run that claims to be running runs, every
  loss is reported where it can be, stop and close end.
- **monitor runtime**: requests interleave at every await with runs that end by themselves, clients
  that come and go, and a stop; every state event reads the user's manifest, which may be unreadable at
  that moment; rings and queues lose their oldest. Correct: whatever was opened is closed, an
  answer is for the probe it was asked of, a client that comes back gets what it missed or is
  told of a gap, a stop ends.

The most important of these are rows of `hazards` in `PROJECT.json`, at the line where they
bite, with the properties that would catch them; hazards without a property say why. Section 8
lists the ones known beyond those.

## 2. Plan

1. `ProbeLease`, `ProbeOwnership` - the registry and what it promises. Done, proved.
2. `DebugHandoff` over `ProbeLease` - handoff, one-shot service, flash. Done; types, the
   handoff invariant, "restored at most once" and the implementation of the lease proved.
3. `EvidenceStore`, `EvidenceGC` - publication and collection. Done, proved.
4. `ProbeWorker` - proxy and child. Done, proved.
5. `ProbeService` over `ProbeWorker` - requests, drain, lease, stop. Done, proved. `OneShot` over it - the
   workflows of one command. Done, proved.
6. `MonitorSampler` - producer, writer, queues, client actions. Done, proved, what its queues lose included.
7. `ConfigureApply`, `ProjectUpgrade` over `ProjectTree`, composed in `ProjectCommands`. Done, proved.
8. `TreeDelivery`, `CreationApply`, `Regeneration`, `CopyPlan` over `Destination`, composed in `Publications`.
   Done, proved.
9. `DiagnosticEvents`, the abstract `DiagnosticLog`, `DiagnosticStore`. Done, proved.
10. `AcceptanceAttempt` over `DiagnosticLog`, `AcceptanceFinalization` over it. The eight stages and the
    finalization done, proved; the continuation of an attempt in another session left.
11. `MonitorLive`, `MonitorRuntime` over it. Probe, sampling, events and stop done, proved. The start and its
    rollback left.
12. Left to model: the records of a control authorization (the wall clock is read before the authority lock is
    waited for, the consumed record is made before expiry and binding are checked); the build runner; target
    and host testing; the monitor's history and exports; the call for debug metadata in `ProbeService`, the
    start handshake in `ProbeWorker`.
13. Left to prove: nothing that TLC checks but liveness, which stays with TLC.

## 3. The modules

| module | models | EXTENDS / INSTANCE |
|---|---|---|
| `ProbeOwnership` | abstract: one holder, a claim ticket that is redeemed and settled | |
| `ProbeLease` | `probe/lease.py` | INSTANCE ProbeOwnership (refinement) |
| `DebugHandoff` | `probe/handoff.py`, the one-shot service of `hardware_workflows.py`, `probe/flash.py` | EXTENDS ProbeLease |
| `EvidenceStore` | `evidence/store.py`, roots of `evidence/gc.py` | |
| `EvidenceGC` | `evidence/gc.py` | EXTENDS EvidenceStore |
| `ProbeWorker` | `probe/worker.py` | |
| `ProbeService` | `probe/service.py` | EXTENDS ProbeWorker |
| `OneShot` | the workflows of `hardware_workflows.py` that read, flash and analyse a fault | EXTENDS ProbeService |
| `MonitorSampler` | `monitor:sampler.py`, the read plan of `monitor:probe_session.py` | |
| `ProjectTree` | the files of one project, the user, `project_mutation_lock` | |
| `ConfigureApply` | `generation/configure.py` | EXTENDS ProjectTree |
| `ProjectUpgrade` | `project_upgrade.py` | EXTENDS ProjectTree |
| `ProjectCommands` | both, on one project | EXTENDS ConfigureApply, ProjectUpgrade |
| `Destination` | a directory that is to appear, the source it is made from, the user | |
| `TreeDelivery` | `migration/delivery.py` | EXTENDS Destination |
| `CreationApply` | `creation_apply.py`, `creation_authorization.py` | EXTENDS Destination |
| `Regeneration` | `regeneration_workflows.py`, the snapshot of `regeneration.py` | EXTENDS CreationApply (its activation lock) |
| `CopyPlan` | `copy_plan` of `skills/normalize-source-comments` | EXTENDS Destination |
| `Publications` | the four, on one destination and one source | EXTENDS TreeDelivery, Regeneration, CopyPlan |
| `DiagnosticEvents` | the reducer of `diagnostics/events.py` | |
| `DiagnosticLog` | abstract: logs that are appended to, every operation once | EXTENDS DiagnosticEvents |
| `DiagnosticStore` | `diagnostics/store.py`, `diagnostic_workflows.py` | EXTENDS DiagnosticEvents, INSTANCE DiagnosticLog (refinement) |
| `AcceptanceAttempt` | the stages of `acceptance/recovery_workflows.py` | EXTENDS DiagnosticLog |
| `AcceptanceFinalization` | the finalization of an attempt, from line 3453 | EXTENDS AcceptanceAttempt |
| `MonitorLive` | the live events: `live_subscribe` and `_publish_event` of `monitor:runtime.py`, `_live` of `monitor:service.py` | |
| `MonitorRuntime` | the rest of `monitor:runtime.py` that changes its state | EXTENDS MonitorLive |
| `*Proofs` | theorems about the module they are named after and those it extends; `MonitorProofs` about both of the monitor's, `ProbeServiceProofs` also about `OneShot` | EXTENDS them and TLAPS |
| `MC*` | the instance TLC checks: symmetry sets, constant functions | EXTENDS it and TLC |

Operators whose names carry a suffix after an underscore (`Acquire_Unlocked`,
`MarkEnd_Never`) stand directly before the definition they vary. They are plausible mistakes in
that code; no specification uses them. For each property one of them is listed in
`PROJECT.json`: put in the place of the original, it makes TLC find the property violated.

### ProbeLease and ProbeOwnership

`record` is the JSON file, `guard` the process that holds the guard file's OS lock, `lease` the
`ProbeLease` object in each process's memory. Every writer of the record holds the guard and
replaces the file atomically, so one critical section is one step; a process that dies inside it
dies before or after the replacement. Processes die (`Crash`: the OS lock goes, the record stays)
and come back under the same pid with another start identity (`Restart`), which is what
`OwnerLive` compares. `Admits` collects the refusals of acquire; `ReservationOf` is what a claim
must be able to put back; `Settled` is what a release leaves. `ReleaseFails` is a release whose
write fails: the service drops the object anyway, and the record keeps naming a live process.
Heartbeats rewrite timestamps and are stuttering steps. A record whose JSON is malformed or of
another version is refused before anything changes, and is not modelled.

`ProbeOwnership` says the same without records, ids or identities: `holder`, `claim`, `redeemed`,
`settling`. The refinement maps `holder` to `guard`, `claim` to the record's ticket, `redeemed` to
"the holder's lease object says consumed" and `settling` to the two handoff states.

### DebugHandoff

`handoff[s]` is the state file of session s; `sguard[s]` its guard; `job[p]` the workflow each
process runs and the step it is at; `fw`, `chip`, `flashed` the project's build, the image in
the target and what `flash-result.json` attests. Every durable write is a step of its own
(begin: `Admit`, `Prepare`, `ReserveProbe`, `StopForDebug`, `ProveReservation`; end: `StartEnd`,
`Settle`, `ClaimProbe`, `RestoreTarget`, `Resettle`, `PendRelease`, `FreeProbe`, `ResumeObserving`;
flash: `Program`, `Publish`); `Fail` is a refusal, an exception or a cancellation at a step, and
`Crash` of the lease ends the job. The debugger may load any image (`DebuggerLoads`) and the
project may be rebuilt (`Rebuild`) at any time the code allows. `issued` and `restored` are history
variables: tickets drawn, and tickets whose end returned a `HandoffRestore`.

### EvidenceStore and EvidenceGC

A publication is one step (one rename under the lock); a publisher that dies before it leaves a
temporary file (`litter`). `version` stands for the snapshot digest: it grows with every change
of the store, so that equal versions mean equal stores. `Artifacts` and `Parents` are constants:
an envelope's content is fixed by its name. Whoever does not take the lock may damage a
manifest, publish a root or drop a file under `roots/`. A collector makes a plan (version and
garbage), redeems it in the ledger once and for all, takes the lock, and deletes manifests first,
then objects, each after another look at the whole store. Copies of a plan in other processes
are further collectors with the same digest. The last look and the deletion it allows are one step:
an outsider who writes between the two, without the lock, is not modelled.

### ProbeWorker and ProbeService

The worker's threads take the call lock (`holder`), send a numbered request, and wait; the
child takes it from the pipe, acts, and answers. A caller's deadline may pass at any moment
(`TimeOut`), after which it aborts: marks the proxy `closed`, closes the pipe, terminates, kills
and joins (`Abort`, `Reap`, `Outlived`). An abort from another thread does not take the lock.
`acted` records the requests for which the hardware was touched. A child may hang for ever,
die, or outlive both signals (`survived`).

In the service each request has a `handler` (what the client sees) and a `task` (what runs in a
thread and calls the proxy), with their own lifetimes: a handler gives up at the deadline while
the task goes on. `backendLock` makes tasks take turns; a late attach is recovered by its handler
without it. Reading the target's identity and its state is one read, and an operation made of
several backend calls is one act. `runner.cleanup` is aiohttp's and external: it is taken to wait
for the handlers, which it does up to its own 60 s limit; flash requests are bounded to 30 s,
and an attach with a longer deadline is listed as a hazard. The level of a late recovery
(OBSERVE or MODIFY) is left to nondeterminism in `Recover`.

### OneShot

A workflow starts a service of its own, makes its requests one after the other, stops the service and tells
its caller. `step` is the request or decision it is at, `verdict` the worst of what it met so far (a
failure gives way to a cancellation, both to a clean-up that failed), `told` what the caller gets. `target` is
the core: running, halted because somebody asked for it, or stopped by itself; `order` is what the one request
in the proxy does to it, `seen` the state that a read brought. An authorization is the state it names
(`authorized`), and the service compares it with what it finds before it controls (`Execute`); its records and
their expiry are left out. The analysis of a fault halts the target and then, whatever became of the halt and of
the inspection, looks again, resumes and looks once more; what happens after the time for this
is over (`TooLate`) is a clean-up that failed.
The target stops by itself, the lease is lost and the caller cancels at any moment at which it makes a difference: each is a
step only where its effect is looked at next, which keeps the instance small. What an answered request
left behind is cleared once nobody looks at it again (`Forgotten`).

### MonitorSampler

One step is what a task does between two awaits. `state` is what clients are told, `epoch` counts
everything that makes a cycle under way stale, `plan` the epoch of the prepared read plan,
`gate` the event that lets the producer start a cycle. `action` is the client action that holds the
control lock and the await it is at. Setting the stop event, opening the gate and cancelling the
producer happen without an await, so they are one step, and the stop event needs no variable.
`queue` feeds `writer`; `pending` are the drops the next batch will report; `inbox[s]` is the queue of
subscriber s. `fresh` and `ledger` are history variables, read by properties only.

### ProjectTree, ConfigureApply, ProjectUpgrade, ProjectCommands

`file[i]` is what is at path i: the user's manifest (a text, whether it has the debug pair, its
schema version), the managed manifest (the paths the toolkit owns and what they were generated
from), or a generated file, which is a function of the manifest it was generated from. The user
saves, deletes, and takes the last save of a file back or makes it again, at any moment: `draft[i]` is what undo
and redo go between, as long as the file is as the user left it. So a file can be changed and changed back
between any two steps of a command, the copy and the recheck too. A new save is a new text; a deleted file
does not come back by itself. A plan is the files it saw (`plan_id` is a digest of them). An apply stages, rechecks
and replaces path by path, in the order of `portable_sort_key`; `job[p]` says how far it is,
`staging[pl]` holds the copies of the plan's directory. The failure of every step is a step: a copy, a replacement,
a sync after it, the removal of the staging directory, each restoration. A crash ends
the job and leaves everything else. An upgrade consumes its action in one of two ledgers (the first may be unusable: `ready`),
exchanges two files, and compares what it displaced; `restore` puts it back.

### Destination, TreeDelivery, CreationApply, Regeneration, CopyPlan, Publications

A directory is a set of entries: complete outputs and parts of the outputs of numbered jobs, and the user's files.
`RenameOnto` is a rename of a directory onto another: it takes an absent or empty place only. A delivery's plan
binds the source version and whether the destination was absent or empty, and names its staging
directory, whose identity is the job that made it; whoever replaces the directory gives it
another. Creation consumes its record under the record's lock, generates in directories of its own, and
activates under the destination's lock; generating and building is one step, and so is putting an
emptied destination back (`RestoreEmpty`), any part of which may fail. A deletion may stop half way (`Remnants`: of
each entry all is left, or nothing, or a part): `Purge` of a backup, whose remains `RestoreEmpty` then moves to the
destination, and the removal of a delivery's staging directory. A creation at `"lost"` is going to report
`CREATION_ACTIVATION_ROLLBACK_FAILED`, one at `"clean"` the failure that it met.

A regeneration needs a project that CubeMX made (`cubemx`) and that holds nothing else but the user's file,
which stands for App and Tests. `permit[g].saw` is everything the digests of an authorization bind, so "the
same plan", "the same preview" and "the same files of the user's" are one comparison of sets, made three
times: before it generates, after it, and under the activation lock. Then two renames exchange the project
and the candidate; `left` keeps the backups of processes that died or could not put them back.

`CopyPlan`'s files are written in order, so
`out` counts them.

### DiagnosticEvents, DiagnosticLog, DiagnosticStore

A session is the sequence of its events, and its state a function of them (`Accepts`, `StateAfter`), as the
reducer materialises it. `DiagnosticStore` has what is on disk: whole event files (`files`), an event
file that has its name and not its bytes (`torn`), directories (`made`), checkpoints (`roots`);
and who holds the lock. Each workflow reads under one hold (`Load`), looks for an accepted answer
(`Resolve`) and appends under another (`Admit`, `Prepare`, `Write`, `Fill`, `Checkpoint`); the process may stop between any two (`Stop`).
`expected` is the revision its caller last saw, at most `MaxBehind` old. `told` is the last answer of each process.
Hypotheses, assessments, observation plans and results are one type of event (`noted`): they leave the state alone.
`DiagnosticLog` says the same without files, locks and checkpoints; the refinement maps `log` to `files`.

### AcceptanceAttempt

`roots[r]` is the snapshot of revision r: when it was made and the output of every stage up to it (a
build is named by the sources it was made of). A stage reads the firmware, then the inputs (revisions 2
and 6), checks the run, the session or the declared change against what the attempt recorded, and
publishes under the lock of the evidence store, a physical attempt with another look at sources and
deadline. `Edit`, `Compile`, `TestTarget` and `Diagnose` go on around it at every step. A caller
asks for the next stage or again for the newest; others are refused without a change. A deadline of `Timeout` runs from the newest
snapshot; the clock only goes forward, and `Timeout = 0` makes a tick longer than every deadline. The read of the physical
build of revision 4 and the read of its session are one step; a replayed attempt's record of revision 7 is evaluated from
the same session. The clock stands until the first root is there: times are only compared, and a first
root is held to no deadline.

### AcceptanceFinalization

An attempt on a project from CubeMX that has revision 6 and no time left for revision 7. The callers are
those of the attempt and do one thing at a time, so their calls are in `call` too. `Bind` authenticates the
whole graph (`Graph`: the attempt ended, the diagnosis is resolved and has no newer event, runs, change and
verification agree) under the lock of the diagnosis; `LockProof` takes the lock of the evidence store too and looks again at
the chain, the deadline and the firmware; `PublishProof` publishes and gives both back. `Reopen` starts
over for the first of two revisions, `Complete` for the second; both publish by `LockFinal` and
`PublishFinal`. `Answer` is the last look, without a lock: a caller whose revision was overtaken is refused, and
asks again. `proofs` are the proofs by their contents, which is how the store names them; `final` is one
attempt of two revisions, for one id that all callers use. The firmware is read in one step with the graph
before the lock, since it is read again under it. The code looks once more for the proof under both locks; nobody can
have published it, for whoever does holds the diagnosis, and the model has no step for it.

### MonitorLive, MonitorRuntime

`log` is the kind of every event by its id, a history of the one counter both kinds of events share;
`ring` holds the ids of the last public events, `anchors` the last private ones with the public events
before them and what their stream still owes. `conn[c]` is a client's stream: the live
queue the runtime fills, and the relay from which the websocket sends. The producer
relays what a stream begins with in one step, because nothing is awaited between its items.
A client may come back with any id that was ever given out (`Resubscribe`), also one it never saw. `StatePublished` and
`StateUnreadable` are the two ends of a state event: it carries the status, which is read from the
project's manifest. What full live queues lose is only counted in the status and is left out; `lost` counts
what the relay loses, which every item tells with the next.

In `MonitorRuntime` `op` is the request that holds `_probe_lifecycle_lock` and the await it is at; `bound` is
`_observation` with its sampler; observations are numbered in the order in which they were opened (`opened`),
and `obs[b]`, `sampling[b]` say what became of each. A release drops `bound`, makes the state
event, then closes sampler and observation; where the event cannot be made the observation is
`"forgotten"`. `asked` is a request for the source catalog, `moved` a history variable that says
whether the probe was changed under it. `phase` is how far the stop is.

## 4. What TLC checks

| run | instance | question and answer |
|---|---|---|
| `debug_handoff` | 3 processes, each may restart once, 2 sessions, 2 levels, 2 tickets, 2 builds, 5 leases; symmetric; 489,276 states | state file, record and evidence agree (`FilesAgree`); the debugger gets, and the end consumes on, a proven image (`ProvenImage`); restored once; reservations and tombstones are kept (`RecordKept`), no probe is stranded (`NeverStuck`), and the registry implements `ProbeOwnership` |
| `debug_handoff_live` | 2 processes, 1 session, 1 ticket, 2 builds, 4 leases, fair; 109,344 states | an end that was started frees the probe when it is retried, also after a rebuild or a foreign image refused it for a while (`EndFreesProbe`) |
| `evidence_gc` | 2 collectors, 2 objects, 3 envelopes (two in a line of descent, one beside them; all share an object), 1 root, 6 versions, 2 plans; processes symmetric | evidence behind a root stays whole, plans are redeemed once, nothing dangles after a collection that was cut short |
| `probe_service` | 2 requests of any level (no control request beside an attach), 5 proxy threads; symmetric | quiet after answers, drain and release; control acts on what it checked; success means it was done |
| `one_shot` | 1 workflow of each kind, 6 requests, fair; 510,251 states | a workflow that halted the target lets it run again or tells that it could not (`RunsAgainOrTold`); every workflow ends with its requests answered and the service stopped (`WorkflowEnds`) |
| `service_stop_proof` | 2 requests, control or program | violated: see section 7 |
| `monitor_sampler` | 1 subscriber, both capacities 1, 5 epochs, 3 published batches, fair | freshness, losses reported, streams that end, stop ends, sampling goes on |
| `project_commands` | 2 processes of which one configures and both upgrade, 4 paths (2 manifests, a generated file, an editor file), 1 save or deletion by the user with undo and redo at will, 2 staging directories, 2 commands; 2.26 million states | records are true, copies last, failures leave nothing, edits are kept, actions are used once |
| `publications` | 2 processes that deliver, create, regenerate and copy, 2 authorizations of a creation and 1 of a regeneration, a project of CubeMX or nothing at first, 2 files to copy, 2 acts of the user, 2 jobs that write; copying not interleaved with the other tools; symmetric; 2.05 million states | nothing incomplete appears but by a rollback that is reported as failed, nothing is overwritten or lost, failures publish nothing, creations and regenerations exclude each other, incomplete copies are marked |
| `diagnostic_store` | 2 processes, 2 sessions, each new or already verifying a change, 2 operation ids asked for, logs of 7 events, views at most 1 revision old; symmetric; 1.9 million states | answers are recorded, checkpoints follow, and it implements `DiagnosticLog` |
| `acceptance` | 2 callers, 2 versions of the sources, 1 session of at most 6 events, 2 test runs, two ticks, both adapters, one finalization; symmetric; 594,571 states | the chains load, a fix is accepted once and stands for what it says, answers are recorded, an authorization is of the diagnosis as it is |
| `monitor_runtime` | 1 client, 2 probe connections, 4 events, ring, live queue and relay of 1, 2 anchors, fair; 906,618 states | a client that comes back gets what it missed, every loss is told, every connection is closed by its opener, catalog pages are of the probe that stayed bound, a stop ends |

Why the bounds are enough:

- `MaxLease` counts leases ever granted. Five (four in the live run) let an owner reserve, a claimant crash, a claimant
  consume, a successor own the probe and one more attempt be wasted. `MaxEpoch = 1` (handoff)
  lets every process die and come back once, which is what tells a start identity from a pid.
- `MaxVersion = 6` allows publishing an envelope with its objects and a root between a plan and its
  application, and still deleting; `MaxPlans = 2` two plans of different snapshots in flight.
- `MaxCalls` is never reached: the requests of the service's instance do not make 9 calls, those of a workflow not 12.
- Project commands: two commands that take the lock let one act on what the other left, one act of the
  user fall between any two steps of either; two staging directories let one be left over. One configurer
  is enough because everybody takes the same lock, and the upgrade is the second command.
- Publications: two jobs that write let a second apply meet the leftovers of the first; two acts
  of the user let a directory be made and filled, or removed and made again. One permit is enough for
  a regeneration, for two processes may ask for it, and what it exchanges with at the same time may be a creation.
  Copying shares only the source with the other tools, and only the user changes that; so its steps commute with theirs, and
  the instance interleaves it with other copying and with the user only. The proofs are about every interleaving.
- Diagnostics: a session that verifies already (`Past`) brings the retry of a completion, the longest
  path of a workflow, into reach of two operations; a session of `Limit` events is at its limit.
- Acceptance: six events is the shortest resolved diagnosis; two test runs are the failed and the passed one;
  of two ticks the first ends the attempt and the second its finalization.
- Sampler: `MaxEpoch` guards start, pause, resume and the stop of an idle sampler only, never an
  end, a failure or a change of the group, so no run is left hanging by the bound; capacity 1 makes every queue
  full at once. Safety alone was also checked once with two subscribers, capacities 2 and four
  batches (about a million states), with the same result.
- Monitor runtime: two connections let the probe that is bound be another one than it was; four events
  are a stream's hello and state and two more, which is what a ring and a relay of one need to lose something
  that was counted already. Once the ids are used up state events are unreadable, and everything else goes on.
  Safety with a relay of two and 5 events was also checked once, with the same result.
- Two sessions, tickets and builds are the least that can be confused with each other.

Symmetry is used in runs of safety properties only. `CHECK_DEADLOCK FALSE` is set where the system
really may stop: bounds of leases, versions, epochs, acts, jobs or events used up, a service that has
stopped, a sampler or a monitor that is closed, an attempt that is complete or whose deadline has passed.

### Properties, by the hazard they watch

- *Lease*: `RecordKept` (`ReservationKept` and `TombstoneKept`, over every write of the record), `NeverStuck`
  (quantified over who could be admitted), `ImplementsOwnership`, whose one holder is `LeaseCurrent`.
- *Handoff*: `FilesAgree`, which has three parts: `HandoffBacked`
  (docs/architecture.md: no access of the toolkit while the debugger owns the probe),
  `ReservationHasTicket` and `EvidenceStays` (what flash attested stays the session's
  and its build's from the ticket's issue until the end has recorded it spent); `ProvenImage`, `RestoredAtMostOnce`, `EndFreesProbe`.
- *Evidence*: `EvidenceKept`, `StoreBacked` (`ManifestsBacked` and `RootsBacked`), `RedeemedOnce`.
- *Worker and service*: `OkMeansDone`; `HardwareQuiet`, which has three parts: `ReleasedIsQuiet`,
  `DrainedIsQuiet` and `NoActAfterAnswer`; `ControlActsOnWhatItChecked`. In that run no attach stands beside a
  control request: the recovery of a late attach resumes the target without
  the backend lock, and with both TLC shows it between the check and the action. No document promises
  that case, and the workflows of `OneShot` never meet it (`WorkflowControlsSerially`).
- *Workflows*: `RunsAgainOrTold`; `WorkflowEnds`, of which the end of every call and of the stop are parts.
- *Sampler*: `OnlyFreshPublished`, `LossesAccounted` (`GapsReported`: what a subscriber was
  sent is queued, received or reported; the eviction that makes room for the end of a closed stream
  is not reported, so it excludes CLOSED; `BatchesAccounted`, `EvictionsEvidenced` and `LossEvident`: that
  the history lost batches is evident, not how many, for a batch that is lost takes the count it
  carried with it), `ClosedStreamsEnd`, `RunsProgress` (stop ends, and sampling that runs goes on).
- *Project commands*: `RecordsTrue`, `WayBack` (`CopiesKept`: a copy is what the plan saw, or a text that the user saved
  over it and took back before the recheck, see section 7; and `CopiesSurvive`), `FailureLeavesNothing`,
  `UserFilesKept`, `ActionUsedOnce`.
- *Publications*: `WholeOrMarked` (`PartsAreTold`, about each step that brings an incomplete project to the
  destination, and `IncompleteIsMarked`), `OthersKept`
  (`DeliveryOverwritesNothing`, docs/architecture.md: "a nonempty destination is never overwritten"; and
  `RegenerationKeeps`: what the user writes between the last look and the first rename goes to the backup and
  is deleted with it, so it is about what was written before), `FailurePublishesNothing`, `CreationsExclude`.
- *Diagnostics*: `ToldIsRecorded` (the retry of a completion is answered without a look at
  its checkpoint), `CheckpointsFollow`, `ImplementsLog`.
- *Acceptance*: `EveryChainLoads`, `EveryAnswerIsRecorded`, `AuthorizedAsDiagnosed`, and `FixedOnce`: what a
  complete attempt or a proof stands for is so, and there is never both. Stage 7 looks at the deadline with
  the evidence store locked, and the proof at the chain and the same deadline with the same lock; either check alone lets both in.
- *Monitor runtime*: `ReplayComplete` (for every id ever given out, in every state, not only for the client that
  asks: what is served ascends and is, as a set, what the client missed and what its stream began with), `LossTold`, `ObservationsAccounted`, `SourceAnswersCurrent`, `RuntimeStops`. `ObservationsAccounted`
  excuses one case, `"forgotten"`, described in section 7.

Some properties are proved and are no longer among the runs', because a property of a run fails whenever they
do: `LeaseCurrent` (`ImplementsOwnership`), `OneRequestAtATime`, `NoLateAct` and `AbortEndsChild` of the worker
(the properties of the service), `DeletesGarbageOnly` (`EvidenceKept`), `RunServed` (`RunsProgress`). `FreedAfterRecorded` (the
probe is freed after the record of it) is model-checked with `FilesAgree`, whose `ReservationHasTicket` fails when it does.

## 5. Fairness

- **handoff** (`HFairness`): a process that runs goes on with its workflow or fails, and one that
  died is started again (weak fairness per process); the user retries end, and a step that is
  tried again and again succeeds at some point (strong fairness of the start of an end and of its
  five durable writes). `EndFreesProbe` excuses three cases: `StaleLiveOwner`, a release that failed and
  left the probe to a process that does not exit; `Exhausted`, the bounds of the instance; and
  `EvidenceGone`, for as long as it lasts: an end refuses while what is built, flashed or on the chip is
  not what the handoff began with. The premise holds until the probe is free, so once the evidence is
  back for good the end must succeed.
- **workflows** (`FairOneShot`): what the program does by itself goes on (weak fairness of `Progress`): the event
  loop and the threads run, deadlines pass, the joins of an abort are bounded. It is one condition and not one
  per task, which suffices because a workflow awaits one request after the other and each of them takes finitely
  many steps. The child, the target, the lease and the caller promise nothing: a child may hang for
  ever in any call.
- **sampler** (`FairSpec`): the producer, the writer and the action under way are fair, that is,
  tasks are scheduled and the store and the probe answer in the end: the store's calls run in threads
  on SQLite connections with a busy timeout, the probe's over HTTP sessions with a total timeout
  (the sampler itself sets no deadline on either). No client is ever forced to ask for
  anything or to read its queue.
- **monitor runtime** (`FairRSpec`): what a request awaits (the probe, the sampler) succeeds or fails in the
  end, and the task of the stop is scheduled. No fairness is asked of clients, of the producers
  of their streams, or of runs.

The other specifications state safety only and assume nothing.

## 6. What is proved

TLAPS checks every proof for every value of the constants: any sets of processes, sessions,
tickets, threads, requests, envelopes, subscribers and clients, any ancestry of envelopes, any capacities, any
bounds. The assumptions are those the modules name, and TLC evaluates them in every run: `None` and `Absent`
are none of the values they stand beside (`NoneIsNoValue`, `NoneIsNoBuild`, `NoneNoThread`, `NoneNoRequest`,
`NoneIsNothing`, `NoneIsNobody`, `NoneIsNoResult`, `NoneIsNoSnapshot`, `NoneIsNoProof`, `AbsentIsNothing`,
`AbsentIsNoDirectory`, `AbsentIsNotNone`), bounds are naturals, levels exist and differ, envelopes name objects and
parents, capacities and ring lengths are positive, the set of subscribers is finite, every request has two
threads and stop has one, the requests of a workflow are its own and differ (`RequestsOfAWorkflow`,
`RequestsDiffer`), the logs a session starts with are logs. The ones on `None` and `Absent` are there
because distinct constants are not distinct to a prover; Python's `None` and a missing path are.

Every safety and action property that a passing run checks is a theorem.

- **DebugHandoffProofs, the lease.** `TypeOK /\ LeaseInv` is inductive. `LeaseCurrent` alone is not: that an
  owner finds its record depends on the guard being held exactly by who has a lease object, and
  `ReservationKept` depends on the owner's memory holding the reservation that the disk will get back
  (`OwnerInv`). From it: `TypeCorrect`, `LeaseIsCurrent`, `NeverStuckAlways`, `RecordIsKept`
  (from `ReservationIsKept` and `TombstoneIsKept`), and `OwnershipImplemented` (initial states map to initial states, every step
  to a step of `ProbeOwnership` or a stutter).
- **DebugHandoffProofs, the workflows.** `IInv == TypeOK /\ LeaseInv /\ HandoffTypes /\ HandoffInv`. First every step of
  the workflows is shown to be a step of the lease or to leave it alone, so that the lease's lemmas give
  its half (`WorkflowsImplementLease`); then one lemma per workflow step shows that tickets
  stay unique to their sessions and that nobody changes the state file of a session whose guard
  another process holds (`HandoffInvariance`); `RestoredOnce` follows, because an end that returns still
  finds its ticket in the state file and such a ticket was never restored.
  `FilesAlwaysAgree`, `ImageIsProven` and `FreedWhenRecorded` need to know what a workflow knows between two of its steps
  (`WorkInv` in `FilesInv`). A process that holds the lease keeps the others from the record and from
  the flash evidence, one under the guard keeps them from the state file. Between
  the release of a reserved probe and its proof (`"prove"`) nobody holds anything; there the argument is that lease ids only
  grow, so that a record that still names the lease of the state file was not acquired in between, and
  that a ticket in the record keeps out whoever would flash. For the image: who is at `"close"` has
  read the target back, and the debugger loads only while nobody holds the probe.
- **EvidenceGCProofs.** The version stands for the snapshot: while it is the one a plan was made of,
  the plan lists exactly the garbage (`PlansStayFresh`). Reachability is a set, not a recursion (the
  intersection of the sets closed under `Parents`), so the proof shows that deleting an envelope of
  the garbage neither makes another one reachable nor hides one. Then `EvidenceBacked`,
  `PlansRedeemedOnce`, `OnlyGarbageDeleted` and `WholeEvidenceKept`.
- **ProbeServiceProofs, the proxy.** `WorkerInv` has six parts: types, what the holder of the lock is doing, what a
  closed proxy implies, what is in the pipes and the child, how requests are numbered, and what was
  done for a call that reports success. Neither `OneRequestAtATime` nor `OkMeansDone` is inductive
  without the numbering: a late answer is told from the next one only by its number.
- **ProbeServiceProofs, the service.** Every step of the service is a step of the proxy or leaves the proxy alone, so
  `WorkerInv` holds in it. `ServiceInv` ties the calls of a request's two threads to where its task and its handler
  are (`CallInv`, `TaskInv`, `HandlerInv`), and says what a stop, a drain and an answer have waited for (`StopInv`,
  `DrainInv`, `AnswerInv`). From it `HardwareIsQuiet`. `ControlIsSerial` also needs `SerialInv`: while a control request
  has the backend lock the proxy numbers only its calls. Its hypothesis `ControlAlone` (no attach stands
  beside a control request) is what the run takes too, for the reason given in section 4.
- **ProbeServiceProofs, the workflows.** Every step of a workflow is a step of the service, a lost lease or a decision
  that leaves the service alone, so `WorkerInv` and `ServiceInv` hold in it. `RunsAgainOrTold` needs to know what the
  target may still be made to do: `LastInv` (what is in the pipe or in the child has the last number given out) and
  `OrderInv` (`order` is the effect of the call with that number) say that it is what the last request asks for and
  nothing else. `FaultInv` follows an analysis: the core is `Calm` (nobody halted it, nothing on its way would) until
  the halt is asked for; once the workflow is past the halt, that request is over or the proxy is closed (`HaltOver`), so a
  later read that sees the core run, which also replaces the order, makes it calm for good; and the workflow ends without
  a clean-up that failed only from a calm core. From it `RunsAgain`. `BindInv` (nothing is asked for while the binding goes
  on) puts the attach of a workflow before its controls, so `SerialInv` is inductive here without `ControlAlone`:
  `WorkflowControlsSerially`. `WorkflowIsQuiet` carries what a release and an answer promise over to a workflow.
- **MonitorProofs, the runtime.** `RuntimeInv` adds to `ObservationsAccounted` what a request holds at each of its steps
  (`OpInv`), that a bound observation is open (`BoundInv`), that no request is under way once
  the stop has waited (`StopInv`), and, for the source catalog, `AskedInv`: a binding that was dropped is not bound
  again in its epoch. From it `ObservationsAreAccounted` and `SourceAnswersAreCurrent`.
- **MonitorProofs, the live events.** `ReplayInv`: the k-th element of the ring has the public number
  `PublicSeq - Len(ring) + k`, the ring lacks only older events, and an anchor keeps the number of public events up to its id and what is
  pending after it. Ring and anchors count the same events, so the slice that an anchor takes of the ring is exactly what came after
  it: `ReplayIsComplete`. `LossesAreTold`: what a connection has lost is the sum of the counts that its relay carries, also
  when an item that carries a count is lost itself.
- **MonitorProofs, the sampler.** `ControlInv` ties the client's action, the state, the producer, the epochs
  and the plan together; its core is that a cycle of the current epoch was not interrupted and that
  an action that prepares a plan has an epoch later than any cycle under way. From it:
  `RunAlwaysServed`, `PublishedFresh`. `TypeCorrect` adds the types of queues and counters and the capacities.
  `LossesRemembered` needs the shape of a run (`RunShape`: the mark is put when the producer is gone, is the last of
  the queue, and the writer is done only once it took it) and what the queue's counts add up to. For a
  subscriber, what it was sent is queued, received or reported until its stream is closed; after that the end mark is
  the last of what it can still read, which gives `StreamsEnd`.
- **ProjectCommandsProofs.** Whoever is inside the project lock knows of every path what it holds (`ActiveInv`): what the plan
  saw, what the apply put there, or what the user has made of either since and can make of it by undo and redo (`Fits`,
  `Back`): what undo goes between differs in the user's text only (`Drafts`). The copy of a file that may have to be put
  back is something the user can make of what the plan saw (`GoodCopy`); it is not compared with the plan, but where the
  plan saw a file, a copy is a file's. Staging directories that a death left over
  (`LeftOver`) excuse the record, and only it. From it `RecordsAreTrue`, `WayBackAlways`, `FailuresLeaveNothing`,
  `UserFilesAreKept`, `ActionIsUsedOnce`.
- **PublicationsProofs.** One process is inside the activation lock and has one job (`LockInv`); a capability or permit has
  one holder (`CapInv`, `PermitInv`); one copier has the output directory, whose content follows from how far it is
  (`CopyInv`); a staging directory is one delivery's, and once verified holds the whole output or what somebody else put
  in its place (`StagingInv`). `ContentInv` is the core: at the destination, and in every backup that may come back to it, also in what a
  deletion has left of one, there is no output of a delivery that is still open. `PartsInv`: a regeneration moves aside, and
  may put back, a directory without an incomplete project, because the one step that brings such a project, the failing
  rollback of a creation, is taken under the lock the regeneration holds. `BackupInv` and `ExchangeInv` say when something is moved
  aside and that an exchange finds what it looked at as long as the user does nothing.
- **DiagnosticStoreProofs.** `LogIsReadable`: every session of `DiagnosticLog` can always be reduced from its first
  event, has no operation twice and stays within its limit, and one operation creates one session.
  `StoreInv` ties the lock, the phase of the one process that holds it, the torn file and the
  checkpoints to the log: only the holder can be past `Admit`, what it is about to write is still acceptable
  because nobody appends without the lock, and checkpoints are an initial segment of the events. From it
  `StoreIsReadable`, `StoreCheckpointsFollow`, `StoreToldIsRecorded`, and `StoreImplementsLog`:
  `Fill` is the step that adds, every other step is a stutter.
- **AcceptanceProofs.** Roots, proofs, runs and diagnoses only grow (`Grows`), so a caller loses what it found only where
  it has no lock for it (`Respects`, `Frozen`). `ChainInv`: the roots have no gap, and the outputs up to each stand for
  what they say (`Supports`). `StandsOn` says the same of the root that a call is about to publish, `ClosingInv` of a
  finalization. That an attempt with a proof never completes by itself is `EndInv`: whoever proves has seen, under the lock
  of the store, that the time of revision 6 is over, so the look at the deadline under that lock refuses revision 7.
  From it `ChainsLoad`, `FixIsReal`, `AnswersStand`, `AuthorizationIsCurrent`.

The library's induction theorems take an operator as a parameter and no installed prover instantiates them, so
what a fold or a recursive function computes is shown by hand: a claim that fails somewhere fails at a smallest
place, and the place before it contradicts that (`WFMin` of the library gives the smallest). The sum of a queue is
shown to be its last partial sum, in whatever order `SumFunction` adds; `RingAfter` and `Begin` of `MonitorLive` are local
recursive functions for this reason. No module declares a RECURSIVE operator.

Only model-checked are the liveness properties `EndFreesProbe`, `RunsProgress`, `RuntimeStops`
and `WorkflowEnds`: liveness under fairness and ENABLED are out of the prover's reach.

## 7. Where the code and what is said of it disagree

`service_stop_proof` is the run of the finding in `PROJECT.json`: `docs/architecture.md` asks clean-up
to prove the exit of the worker. A close of a proxy that is already closed returns at once, also when the
abort that closed it left the child alive, so a stop can report success with the child running.

More was seen with TLC or while modelling. Each is said at its hazard; none has a run of its own, because no
document, comment or test says otherwise in so many words, or because the run would say no more than the sentence:

- A begin that was interrupted after it reserved the probe and before it wrote
  `externally-owned` leaves `paused-for-debug`. Tests call that state retryable (`test_debug_handoff.py`:
  `test_begin_stop_failure_remains_paused_and_retryable`), but the workflow acquires the lease without a
  ticket before begin runs, and the registry refuses that for a reserved probe; end refuses the state
  as well (`probe/handoff.py:1386`).
- A begin that finishes an earlier, unfinished end takes over the ticket of the state file, although
  the registry may have consumed it already; the probe is then reserved a second time for a ticket the
  tests call one-time (`probe/handoff.py:1344`).
- An apply of a configuration whose last step, the removal of its staging directory, fails half way rolls
  back with copies that are gone, while the docstring of `_rollback` says that failures retain recoverable
  staging (`generation/configure.py:3207`).
- An apply copies what is at each path without comparing it with the plan (`generation/configure.py:3135-3137`); only the
  file is compared, later (`:3162-3164`). A text that the user saved before the copy and took back before the recheck is
  then what a rollback puts back, although a comment (`:3194-3196`) says that a rollback restores every path.
- A creation looks at an empty destination, then moves it to its backup and deletes that. A delivery takes no
  activation lock, so what it published after the look is deleted with the backup, also when the
  creation succeeds (`creation_apply.py:546-551`). If that deletion stops half way, what is left of
  the backup, possibly a part of a delivered project, is moved to the destination and only then found not to be
  empty (`:536-541`): the destination holds an incomplete project and the apply reports
  `CREATION_ACTIVATION_ROLLBACK_FAILED`. This is the only way in which an incomplete project comes there (`PartsAreTold`).
- A release of the monitor's probe drops its references, then makes a state event, then closes. The event reads
  the user's manifest, and an exception there leaves the request with the observation open, its lease held and
  nothing that refers to it: neither a reconnect nor the stop closes it (`monitor:runtime.py:1333`). The same
  exception ends the stream of a client that joins, whose websocket stays open without events (`monitor:runtime.py:1348`).
- `project_mutation_lock` says in its docstring (`project_upgrade.py:161`) that it serializes all supported publishers for a
  project's path. Creation, delivery and regeneration do not take it; an exchange of the project directory
  (`regeneration_workflows.py:730`) may therefore fall between two replacements of a configuration, which then
  writes the rest by path into the new directory.

## 8. What is not modelled, and why

- Of the modelled components: record versions and malformed files (refused before any change);
  path-safety checks, hashing and directory durability (refusals that change nothing); the companion
  cortex-debug file; the observation attachment that is shared by later observations, the debug
  metadata call, the endpoint record, the worker's start handshake and its attach progress frames;
  the sampler's deadlines and the drops counted for them, byte sizes (a batch fits the byte limits or
  does not, nondeterministically), the failure to create a task at start, and exceptions no await is
  known to raise; of the monitor's runtime the start with its workspace lock, the commands of groups,
  history and exports, and requests that only read.
- Pure functions of their input: evidence validation and rendering, message shapes, parsers of Keil
  projects, map files, DWARF and SVD, read planning, replay and analysis.
- Pure I/O: the pyOCD backend, which appears as calls that succeed, fail or never return.
- Entry points without state: command line, MCP server, user interface, release scripts, skills
  and templates.
- The migration that rewrites a Keil project in place (`migration/apply.py`): `docs/architecture.md` calls it
  a legacy engine that is kept for historical evidence, and nothing under `src/` calls it.
- Planned, see section 2: the records of control authorizations, build, testing,
  the continuation of an attempt and the record of a replayed acceptance, the monitor's storage.

Hazards known beyond those listed in `PROJECT.json`, none covered by a property: a publisher of a root that
dies leaves a file under `roots/` that makes every later plan keep everything (`evidence/store.py:332`); the
handler of a late attach acts without the backend lock (`probe/service.py:1556`) and may be cut off by
aiohttp's own limit (`:2328`); an abort whose child is being ended by another call returns at once (`:1679`); a parent that dies between request
and answer leaves a child that finishes its request (`probe/worker.py:321`); the one tombstone of a record is
overwritten by the handoff of another session (`probe/lease.py:529`); a prepared authorization is consumed before its
binding is checked (`probe/authorization.py:703`); the displaced manifest of an upgrade is deleted when it
cannot be put back (`project_upgrade.py:378`); an emptied destination that cannot be put back stays
absent (`creation_apply.py:546`); a clock that goes backward makes every later stage of an acceptance
fail (`acceptance/recovery_workflows.py:268`); a replay of more than eight events is relayed without an await and
loses all but the last eight, though it says so (`monitor:service.py:716`); rows of exports are never deleted, so their
quota is used up for good (`monitor:exports.py:630`).
