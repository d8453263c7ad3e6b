# A TLA+ model of maf-extensions

`maf-extensions` gives agents sandboxed tools: a *workload kind* (Python, Bicep, Terraform, a
shell, ...) runs a program in a *sandbox* that one of several *backends* (Docker, WSL, Azure,
Hyperlight, Bubblewrap, ...) keeps for a conversation. What makes this hard is not any single
step. It is that tool calls overlap, are cancelled, time out and leave work behind, while the
sandbox they share must not carry what one call left into the next.

This directory models that core, `packages/maf-sandbox`, with the program transport and the file
reads that tool calls rest on, the one backend that keeps its own leases and worker processes
(`maf-sandbox-hyperlight`), the MCP service that serves workloads to other hosts, and the sessions
whose compaction outlives a run (`maf-compaction`). Twelve modules are translated from the code, one
states the promise that two of them share, and eight hold proofs.

| module | models | source |
|---|---|---|
| `Admission` | what the admission table promises | abstract |
| `ExclusiveSlots` | the admission table | `maf_sandbox/_cleanup.py` |
| `DisposalLedger` | the ledger of failed cleanups, over backends, kinds and instances | `maf_sandbox/_router.py` |
| `SandboxRouter` | one key's life: acquire, adopt, clean, dispose, restart | `maf_sandbox/_router.py` |
| `ToolCall` | one tool call: acquires, admissions, cleanup passes | `maf_sandbox/maf.py` |
| `HostToolRun` | one guest program's calls of host tools | `maf_sandbox/_host_tools.py` |
| `HostToolsOverExec` | those calls carried by files: the guest's shim and the supervisor's loop | `maf_sandbox/_host_tools_over_exec.py`, `_guest/maf_host_tools.py` |
| `ProgramStop` | launching and stopping a guest program, and what is known to be gone | `maf_sandbox/_host_tools_over_exec.py`, `_processes.py` |
| `FileReads` | the inputs a call reads from a file store that changes under it | `maf_sandbox/maf.py`, `_file_provenance.py` |
| `WorkloadService` | the one active call of the MCP service, its resources and its lifespan | `maf_sandbox_mcp/workload_service.py` |
| `WorkloadHTTP` | sessions, request ids and retirement around it (extends `WorkloadService`) | `maf_sandbox_mcp/workload_http.py` |
| `HyperlightCalls` | calls on the Hyperlight backend: leases, registry, exchanges with a worker process | `maf_sandbox_hyperlight/_admission.py`, `_backend.py`, `_process.py` |
| `SessionPersistence` | requests over stored sessions: leases, compaction phases and cached stacks, streams, saves | `maf_compaction/_session.py`, `_persistence.py` |
| `*Proofs` | theorems of the module or composition each is named after | |
| `MCSandboxRouter` | `SandboxRouter` beside `DisposalLedger`, two views of one key's ledger, for TLC | |
| `MCGuestTransport` | `HostToolsOverExec` beside `ProgramStop`, the two halves of one transport, for TLC | |
| `MCHostStores` | `FileReads` beside `SessionPersistence`, what a run takes from its host's stores, for TLC | |
| `MC*` | small instances for TLC (symmetry sets, constant values) | |

`PROJECT.json` maps each definition to its lines.

## 1. Inventory

### The core

**Admission table** (`ExclusiveSlots`, `_cleanup.py`). *State*: per (key, kind) the owners, shared
or exclusive, a list of waiters with futures on their own event loops, the pending cleanup records,
a generation counter and a state (serving, draining, cleaning). *Operations*: `take` (with a bound
that restarts whenever somebody ahead leaves), `queue`, `drain`, `release`, `renew`, `complete`,
and `_wake`. *Interaction*: the router takes and releases; calls on different
event loops meet under one thread lock. *Hard*: timers racing wakes, cancelled waiters, loops that
close under a waiter, cleanup queued by several calls. *Correct when*: exclusive means alone, a
condemned instance admits nobody, folding never weakens a cleanup, nobody sleeps on a free entry,
the table does not leak.

**Disposal ledger** (`_unclean`, `_pending_disposals` in `_router.py`). *State*: keys refused, and
the targets (backend, kind, instance) whose deletion has not landed. *Operations*: mark, sweep,
retry, dispose one instance, clean up after a call. *Hard*: disposals overlap, fail on one backend
of several, and land after their timeout. *Correct when*: a mark lives until a delete of its place
has gone through, and a key is refused exactly while something is pending.

**Router lifecycle** (`SandboxRouter`). *State*: instances seen by this process, admissions, the
ledger. *Operations*: `acquire` and adoption of what the backend returns, `enter_call` and
`release_call`, the cleanup rungs (RECLAIM, RESET, DISPOSE), host disposals. *Hard*: a key closed
while a create is in flight, cancellation between cleanup targets, a reset that replaces the
instance before it fails, a restart that forgets everything. *Correct when*: no call inherits what
a departed call left.

**Tool call** (`SandboxToolSession`, `sandboxed_tool` in `maf.py`). *State*: per call the keys
touched, admissions and their locks, sandboxes acquired, acquires in flight. *Operations*: acquire,
close, the wrapper's cleanup pass, the pass of an acquire that comes back late. *Hard*: tasks the
body leaves behind, passes that overlap, outer deadlines that cancel cleanup. *Correct when*: holds
outlive what is not clean, and every hold goes in the end.

**Host-tool run** (`HostToolRun`, `BoundedHostToolPolicy` in `_host_tools.py`). *State*: the run's
counters, reservations, identity and authority. *Operations*: call, mint, run the body, deliver,
publish, expire, abandon, close. *Hard*: overlapping calls share one budget and one identity;
bodies swallow cancellation; publication may be in doubt. *Correct when*: budgets hold, the
identity is single and dies with the run, nobody is left waiting.

**Exec transport of host tools** (`_host_tools_over_exec.py` and the guest's
`maf_host_tools.py`). *State*: claim, request and response files in the guest, the exit marker; the
supervisor's frontier, window of probes, absence timer and allowance. *Operations*: claim and
publish in the guest; poll, probe, serve, answer, step over a dead claim, last look. *Hard*: the
host cannot list a directory, workers publish in any order and die between claim and publication,
every transport call may stall past the deadline, and an answer whose write was given up may land
all the same. *Correct when*: each request is answered once, in order, by a tool that ran at most
once; whoever is stepped over was dead or overtaken; one dead worker strands nobody.

**Program stop** (`_stop_recorded_processes`, `ProcessTracker`). *State*: the launcher's receipt,
what snapshots have shown and attributed, whether any was incomplete. *Operations*: four snapshots,
a signal to the group or the program, signals to descendants outside it, verdict, note. *Hard*:
descendants escape the group or are orphaned between looks, processes fork while `/proc` is read,
numbers are used again, looks are partial, stops are interrupted. *Correct when*: a sandbox that is
used again without a note holds nothing that a look had shown, and nobody else's process is signalled
where a look could tell.

**File reads** (`read_file`, `FileStoreProvenance`, `ReadWindow`). *State*: the record's entries and
count, a call's window over the paths it reads, a snapshot of each, a revision shared by the reads
of the call. *Operations*: record, forget, begin, sample, reread, compare, hand over, refuse.
*Hard*: writes land before they are recorded, a path is forgotten and written again, reads of one
call overlap. *Correct when*: a call's inputs were in the store together, no label is above what is
recorded, and other people's writes do not refuse a call (nor do the inputs of its other readers).

**MCP workload service** (`WorkloadService`, `WorkloadHTTP`). *State*: the active call, poison,
readiness, what each resource holds; per session its transport task, open requests and ids,
retirement. *Operations*: invoke, execute, clean up, time out, settle; open, notify, post, stream,
delete, expire, retire, shut down. *Hard*: a task is shielded and settles long after its request
has been answered, cancellation arrives in the middle of settlement, sessions retire under queued
calls. *Correct when*: resources have one owner, retired sessions have nothing running, ids and
slots are given up when the work has settled and not before, and everything comes to an end.

**Hyperlight backend** (`admit`, `HyperlightSandboxBackend`, `_HyperlightSandbox`, `Worker`).
*State*: leases of the (key, kind)s with lock, permit and use count, shared by every event loop and
thread of the process; the registry of instances under its gate; per instance a worker process that
may be retired or closed, and an identity that every reset replaces; per exchange a thread, its start
and the caller's withdrawal; per router its mark and the identities it knows. *Operations*: admit and
leave, acquire and prepare, adopt (reset what is not known), run code, reset, dispose, stop. *Hard*:
routers share the registry and not their marks, a thread outlives the caller that asked it, a close is not confirmed, a worker dies or hangs, a disposal from outside falls
into a call, waiters are cancelled in a poll. *Correct when*: there is one worker, no call runs in
what another left, a caller without a result knows whether its code may have run, and every call
comes to its end.

**Sessions and their compaction** (`SessionPersistence`, `SessionCompactionRegistry`). *State*: per
request the session, its snapshot of compaction and what its response came to; per process the
cached stacks and the sessions in a phase. *Operations*: lease, load, validate, phases (nested ones
too), consume, close, save, save under another id. *Hard*: a lease runs out under a request, a
request fails after its session has changed, a cached stack is of an older or a failed request, a
stream fails after it was complete. *Correct when*: what a session has decided comes from its store
and its own run, and a save is of a finished request and undoes no other.

### Around the core

| part | state | hard behaviour | status |
|---|---|---|---|
| program channels (`_program.py`) | the policy of one program | closing on every path | its close is an action of `HostToolRun` |
| outputs and transfers (`_outputs.py`, `file_transfer.py`, `paths.py`) | tallies of one collection | caps, landing races | not modelled: sequential, one task |
| other backends (docker, wslc, acas, docker-sbx, bubblewrap), Hyperlight pods | registries, pods | engines that answer late | their answers are actions of the router's models; not modelled themselves |
| compaction strategies | none | | planned as operators |
| workload kinds, adapters, TUI, telemetry, benchmark | little | | not modelled, reasons in `PROJECT.json` |

A tool call acquires through its session, which enters the router, which takes the entry in the
admission table and asks a backend for the sandbox. When the call ends, its pass reclaims its
directory or queues a stronger cleanup in the entry; the last call out runs what is queued. What
cannot be cleaned is marked in the ledger, and the key is refused until a disposal lands. Host
tools run beside this: the guest program calls back into the host, through files that the
supervisor polls, under a run whose authority closes with the program; a stop that cannot vouch for
the sandbox notes it, which sends it the way of a failed cleanup. A call's inputs come from the
agent's file store, which other tools change meanwhile. The MCP service is a host of its own, which
runs one call at a time over resources it starts and closes.

## 2. How the modules follow the code

All of them take one action to be the code between two awaits (or one section under the table's
lock). An await may end well, in an error or a timeout, or in a cancellation, wherever the code
distinguishes them. Definitions whose comment begins "A slip" are not part of the specification.
They are the mistaken variants that show each property can fail.

**`ExclusiveSlots`** follows one entry, since entries never touch each other. The waiter list is a
set with, for each waiter, those ahead of it; the generation counter, which is only ever compared
with the value last read, is the set of waiters whose reading is out of date. Owners come and go
for ever. `quiet` and `asked` are history. Time is a tick that may come at any moment until a bound
is used up.

**`Admission`** is the same promise without queues and clocks. `ExclusiveSlots` implements it
(`ImplementsAdmission`), and `SandboxRouter` is built on it: its calls enter, condemn and leave by
the actions of `Admission`.

**`DisposalLedger`** follows one key. The code compares ledger entries by identity, so that a
disposal does not retire a mark younger than itself; the model removes a new mark from the
snapshots of the disposals under way, which is the same thing. `struck` separates the moment a
delete reaches the engine from the moment its caller hears of it, so it may land after a timeout.

**`SandboxRouter`** follows one key and kind on one backend. `live` and `dirt` are the engine,
external and nondeterministic: it may lose an instance at any time, a reset may replace the
instance and then fail, and a delete may land unheard. `shun` is history: what was dirty when a
call was admitted.

**`ToolCall`** follows one call on one event loop. `cpu` names the actor that runs; it is preempted
only where it awaits, because the code relies on that between looking at `acquiring` and releasing.
Each of several acquirers stands for the body or a task it left behind. The table and the router
are seen from this call: what it holds, has queued, has marked. The rung of each key's admission is
fixed at the start: it only matters once the backend that resolves it has served. A pass that is
cancelled does not come to the call's own sandboxes that were still on its list; `NothingLeft`
says so, and deleting those is left to the backend's own reaping.

**`HostToolRun`** follows one run with overlapping calls. The caller's side (`outer`) and the task
that does the work (`pc`) are separate, as in `BoundedHostToolPolicy.call`. The body, the minter
and the transport's `publish` belong to the host: they return, fail or never end.

**`HostToolsOverExec`** has an action for every file operation the supervisor awaits, so the guest
moves between any two. A window's probes answer independently of the walk that reads them in
order. `expired` lets any of those calls run out, and `Raise` is a backend that fails, an activity
guard or a cancellation, at any point. An answer lands (`Land`) at any time from the beginning of its
write on, also after the host has given the write up, or never; a tool whose call was cancelled may
have acted. The three looks at a hole are awaits of their own, and `StepOver` comes after the last has
come back: the request may arrive in between. `late` is history, the requests that were published when
that of the next number was there already. `_answer` goes to a run that serves while its cap of calls has
room, as `HostToolRun` does; what that run does inside is left to that module. A worker is its number:
it claims the lowest free one, publishes a call, an unreadable request or an abandonment, or dies.

**`ProgramStop`** follows one program, two descendants and the process that may take its number
later. A snapshot is no photograph: the probe lists `/proc` (`List`), the guest goes on, and each
process is read at some moment after that. What ran all along is shown, or the look is reported
incomplete; what started after the listing may be shown or missed, and nothing is reported; what
ends, leaves the group or loses its parent meanwhile may be read either way. Or the whole look fails.
`shown` is history: what a snapshot held together with the program or by a line of parents from it,
computed apart from the code's own attribution, which is `known`; `before` is what had started when
the look began by which the signal, or the end, goes. A process that starts after the last look has
begun can survive a stop without a note, as the docstring of `reclaim_run` says; `UnnotedIsQuiet`
claims nothing of it. `AfterLaunch` and the loop of the
supervisor lead, whatever they end with, to the one stop, because `launcher.stopped` lets it run
once. Without a session the target of the signal is the program alone, and what the group held is not
claimed to be gone.

**`FileReads`** follows one call with its overlapping reads, two of them or three. Contents are numbers: 0 is the host's,
each write has its own. The record is this package's, or a host's subclass, which counts every
change and notifies no window; the code distinguishes them by type, and so does `builtIn`. Reads
may run in threads of their own, so a check is interleaved between any two of its samples. The
samples of the last comparison are one step: they are monotone in what they can miss. `past` is the
history of the store since the call listed.

**`WorkloadService`** and **`WorkloadHTTP`** are one state machine in two modules, as the two
sources are. A call's handler, its invocation and its task are three things with lives of their own,
because `drain` and `shield` separate them. The MCP SDK is external: it dispatches what it was
given, cancels or drops it, its session task may end by itself. `left` says whose work a resource
holds; a cleanup that does not confirm leaves it there as nobody's. Connections, bodies and
authentication are one outcome, a request that is refused.

**`HyperlightCalls`** follows the calls on one (key, kind). A lease object is named by the call whose
`setdefault` made it, since its entry leaves the table with its last user and a later call makes a new
one; an instance is named by the call whose `acquire` made it, so each call makes at most one. A call
is admitted, acquires, runs code once, is reset, and disposes where the reset failed. The calls are
those of one router or of several (`router`), and a router's mark (`unclean`) and the identities it
knows (`known`, per instance) are its own: the mark of one does not keep another from the instance,
which the backend hands out as it is. What protects that other router is that a reset gives the
instance a new identity and that its own acquire resets, before anything runs, an identity it has not
seen (`Adopt`, `Restored`); where that reset fails it disposes of the instance and acquires once more, and
where it is cancelled it marks the key. The rest of what a router does is in `SandboxRouter`. `x` is the call's
exchange: `withdrawn` and the thread's start are decided under one lock, as in `_exchange`, and
`late` is the deadline. A close ends confirmed, or in an error with the process up or gone. `dirt` is
history, the calls whose code ran in an instance since its baseline was restored. Disposals from
outside a call may fall anywhere, and one that lands retires the mark of the router that asked for it;
with file outputs configured they wait for the lease. The
sandbox's own gate is not contended, because one call has the lease and runs one thing at a time.

**`SessionPersistence`** follows requests on sessions and replicas. What a stack has decided is a set
of requests, since all that matters is whose it is. A request is one task, so its phases only nest;
phases of two requests meet where a lease with a token has run out. A response that nobody has begun to
consume may be that of `run`. The store is the host's: it replaces whole snapshots, and one with
tokens refuses a save whose lease is another's. `overtaken` is history.

## 3. Runs

Bounds are chosen so that the smallest interesting conflict fits with a bystander: two actors who
conflict, and a third wherever order among waiters or left-behind tasks matters.

| run | instance | checks |
|---|---|---|
| `slots` | 3 calls, one of whose loops may close, 2 instances, bound of 1 tick | `Exclusion`, `BoundIsPerCallAhead`, `NoLostWake`, `NoOvertaking`, `ImplementsAdmission` |
| `slots_live` | 3 calls, 1 instance, fair, clock free to stop | `ExclusiveIsServed`, `Reopens` |
| `router` | calls: 2 calls, 2 instance ids, each rung (RECLAIM and RESET with snapshots, DISPOSE without); ledger: 2 overlapping disposals, 1 backend, every shape of selector | `NoInheritance`, `ResidueIsOwed`, `RetiredMeansGone`, `ServesNoResidue`; `MarkedUntilGone` |
| `host_tools` | 2 calls, both as the user, values that may not fit together, fair timers only | `LedgerExact`, `OneIdentity`, `NothingAfterClose`, `CallersLeave` |
| `tool_call` | 2 acquirers, a conversation key and a call-scoped one, every rung | `SoleOrWholeHeldUntilClean`, `NothingLeft` |
| `tool_call_live` | 2 acquirers, 2 conversation keys, RECLAIM, fair cleanup | `CallReturns`, `HoldsReturned` |
| `transport` | serving: 3 numbers, a cap of 2 calls, a window of 2, fair supervisor; stopping: 2 descendants and a stranger | `FrontierIsExact`, `OnceAndInOrder`, `SpentIsTold`, `OnlyTheOvertakenAreSkipped`, `EveryRequestIsReached`; `UnnotedIsQuiet`, `ReplacementIsSpared` |
| `hyperlight` | 2 calls, of one router or of two, disposals from outside, fair threads | `OneWorker`, `NoResidue`, `UnansweredRetires`, `EveryCallEnds` |
| `workload` | 2 calls over 2 resources they share, 1 session, 2 request ids, fair | `OneOwner`, `RetirementIsFinal`, `IdHeldUntilSettled`, `EverythingDrains` |
| `host_stores` | files: 2 reads, 2 paths, 2 changes of the store, either record; sessions: 2 requests, 2 sessions, 1 replica, a cache of 1 | `InputsCoexisted`, `OnlyInputsRefuse`, `TrustedIsNotRecorded`; `NoForeignDecisions`, `SavesFollowOn` |
| `tool_call_two_keys` | 2 acquirers, 2 keys, RECLAIM, **violated** | `HeldUntilClean` |
| `host_reads_three` | files: 3 reads, 2 paths, nothing changes, **violated** | `OnlyMutationsRefuse` |

`router` explores its calls or its ledger, never both: `DisposalLedger` keeps the ledger's detail and
`SandboxRouter` what a call sees of it. That the answer of one backend never retires what another
holds is `MarkedUntilGone` with two backends; the theorem of section 5 has it for any number. In `MCHostToolRun`
sizes 1, 2 and 4 with one byte of framing give values that fit together, fit alone, and exceed the
limit of a file; the cap on the number of responses never binds with two calls, and the same
section has it (`WithinLimits`) for any number. A behaviour of `transport` explores one of its
halves, which share nothing but the end of the run; in the first, three numbers are a frontier, its
successor and one beyond the window, enough for a hole between two requests, for two adjacent holes
and for a request past the cap; in the second, descendants are numbered as they start, which of two
equal ones starts first being no question, and once a sandbox will be noted whatever its guest does
(`Settled`: a look was incomplete, there is no receipt, a signal was not sent) only the host is
followed. Calls and sessions of `workload` are used again once they are done, so
two of each resource stand for any number in a row. In `hyperlight` one call's lease, instance and
threads meet those of the next, of the same router or of another, and a disposal from outside is the third party.
It runs without file outputs, under which fewer disposals happen and nothing else differs; the theorems
have both. `host_stores` explores one
half at a time too: the two changes of its files may fall between any two steps of the reads, and a
path that is written may be restored; its two requests share a replica, where a cached stack can pass
from one to the other, and two sessions allow a save under another id.

Larger instances, checked once and too slow to keep, with all properties holding: three host-tool
calls with room for two responses (1.7 million states), three acquirers in `tool_call` (3.6
million), three instance ids in `router` under RESET, `HostToolsOverExec` with a cap of 2 and four numbers
(0.6 million), two sessions in `workload` (2.4 million, safety only), two replicas in
`SessionPersistence` (1.4 million), three changes in `FileReads` with reads that interleave at their awaits only (1.2 million). Type invariants (`TypeOK`,
`ServiceTypeOK`, `HTTPTypeOK`) are checked by hand when a module changes; those of section 5 are
proved.

Deadlock checking is off where the modelled thing really ends: a run, a call, a program, the
service after its shutdown. Symmetry is used in safety runs only.

### Disagreements

*`tool_call_two_keys`*. `_SandboxToolCall.acquiring` promises that "conversation acquires retain
their hold until a late result has been cleaned". They do when the call reaches one sandbox only,
and with the whole-instance rungs, because those queue without awaiting
(`SoleOrWholeHeldUntilClean` in `tool_call`). With two keys and RECLAIM: the wrapper awaits the cleanup of A; the last acquire of B comes back, leaves
`acquiring` and begins to reclaim B; the wrapper finishes A and gives back everything in `entered`
that is not in `acquiring`, B included, during B's reclaim. If that reclaim then fails, the call is
no longer admitted, `queue_cleanup` refuses, and the residue is neither queued nor marked.

*`host_reads_three`*. `read_file` says that a mutation to an input refuses the call and that
unrelated ones do not, and the comment on the check's loop that two verification passes bound hosts
whose counters never settle. With this package's record nothing of the kind has to settle, but a
check also begins again when another read of the call has added an input under it
(`_file_read_revision`). Each of two other readers, in threads of their own, adds its path and then
its snapshot; a check that loses three rounds to them refuses the call, though no file has changed.
With one other reader it cannot happen (`OnlyInputsRefuse` in `host_stores`, `RefusedForInputs` in
section 5): that reader has two inputs to add, and a check that has lost two rounds to them has one left.

### Observations

Behaviours the models show that no sentence of the repository plainly denies:

- In `HostToolRun`, two overlapping calls may pass the byte check together, the value of the first
  takes what was left, and the second body runs with no room for the smallest response, although a
  comment at `_host_tools.py:1235` wants that known before a body runs. The budget is never exceeded
  (`WithinLimits` is proved). The exec transport serves one request at a time, so this needs
  another transport.
- In `ExclusiveSlots`, a closing loop may take a wake-up with it; the waiters behind it sleep until
  the next wake or their own bound. `NoLostWake` therefore speaks of loops that live.
- `_serving_bound` allows one request more than the cap "that tells the guest the cap is gone".
  Abandoned requests and dead claims also advance the frontier and use the allowance up, so the
  supervisor may stop reading without having said so; the program then waits for its own timeout.
  `SpentIsTold` states what remains.
- Two adjacent dead claims stall a run until its deadline, as `_skip_dead_claim_hole` documents;
  `EveryRequestIsReached` excepts exactly that.
- With a host's own record, a label is compared with the one at the snapshot, and bytes with the
  snapshot's; a record whose count settles is believed. `InputsCoexisted` needs a count that moves
  with every change of the store, and the model gives it that.

## 4. Fairness

*Admission table.* A resolved future is looked at, an owed `_wake` runs, and cleanups are bounded:
weak fairness. Leaving needs strong fairness: a holder renews its waiters once for each of finitely
many targets, and each renewal interrupts `Release` being enabled. The clock is not fair, and
`ExclusiveIsServed` does not rest on timeouts. It is claimed without loops that close: with them a
call on another loop can slip in between a release and its `_wake`, again and again.

*Host-tool run.* Only timers and the event loop are fair. Nothing makes a body, a minter or a
publication end, and the caller leaves all the same.

*Exec transport.* The supervisor's loop turns, a probe is answered, the absence timer runs, and a
live worker that has claimed a number publishes under it. Nothing makes the deadline pass, a call
stall or a worker die.

*Hyperlight.* Every wait of a call is a poll under a deadline, a close within its allowance, or the end
of a thread. A thread gets to its start, and ends once its worker is gone. Nothing makes a live worker
answer or anybody dispose, and a call that left a live worker's thread behind ends all the same.

*MCP service.* What can go on does: tasks unwind when they are cancelled, cleanups answer, deadlines
pass, bodies are bounded in time. Nothing makes a client send, a workload end by itself or a session
expire. Termination of a transport needs strong fairness: it may raise any number of times, is tried
again after a pause, and succeeds if it is tried for ever.

*Tool call.* Code that runs goes on to its next await, and every await of a cleanup pass has its
own bound. Nothing makes an acquire return, which is why `HoldsReturned` speaks of the holds that
no acquire in flight still needs.

## 5. Proofs

TLAPS checks the theorems for every value of the constants, under the named assumptions of each
module. Those say that sentinel values are not members of the sets they stand beside (a path, a
snapshot, a set of requests, a set of processes), that limits are natural numbers, that there is at
least one backend, and, where users or requests are counted (`HyperlightCalls`, `WorkloadHTTP`),
that the calls in progress at one time are finitely many. Each invariant below was model-checked on
a small instance before it was proved. Where a run explores one of two halves, the theorem is of the
composition or of the half alone; a step of the composition is a step of one half or leaves it at
rest.

### The admission table

`SlotsSafety` (`ExclusiveSlotsProofs`): `TypeOK`, `Exclusion`, `CondemnedStaysShut`,
`FoldKeepsStrongest` and `ClaimIsComplete` always hold. Exclusion is not inductive alone. It needs
that a call is a holder exactly while it is inside (`HoldersAreInside`), that the entry is cleaning
exactly while one call cleans and then nobody holds it and its claim is complete (`OneCleaner`),
that somebody is inside while it drains (`DrainingIsHeld`), and that a completed record was
reported to those who asked (`DoneIsReported`).

`NeverOvertaken` proves the action property `NoOvertaking`, and `WaitersAreServed` the invariants
`NoLostWake` and `BoundIsPerCallAhead`. All three rest on the list being in order
(`LineIsOrdered`): every queued call is in it, and besides them only calls whose loop closed.
`WaitersAreServed` is the safety half of being served; that a woken waiter then runs is fairness.

`TableImplementsAdmission` proves the refinement: `Spec` implies `Admission`'s, where a step of
the table is a step of `Admission` by the same call, or a stutter of its timers and wake-ups.

### The router and its ledger

`LedgerSafety` (`SandboxRouterProofs`): `TypeOK`, `RefusedWhilePending` and `MarkedUntilGone`
always hold, for any number of overlapping disposals. The strengthening says why a landing delete
may retire what it retires: everything it read lies within what it deleted
(`RetiresWhatItDeleted`, `AgendaCoversSnapshot`, `OneRequest`), and every dirty place has a mark
that no delete already past it will retire (`SafelyMarked`).

`NothingIsInherited` (the same module): `TypeOK`, `ResidueIsOwed` and `NoInheritance`. They
follow from who may be where at once (`EntryAgrees`: whoever cleans is alone behind a shut entry,
and one call adopts at a time), from what the engine still holds (`OneLive`, `AdoptsTheOne`), from a
delete that has reached the engine having left nothing of what its attempt may retire
(`StruckIsGone`), and from whose data may be where: in a known sandbox it is that of a call inside
which has it in hand (`DirtIsHeld`, `RecordInHand`), and what was tainted at an admission stays
unknown or marked (`ShunIsOut`). The same invariant gives the action properties `ServesNoResidue`
(`ServedIsClean`) and `RetiredMeansGone` (`MarksOutliveAttempts`).

### Tool calls

`CallIsSafe` (`ToolCallProofs`): `TypeOK`, `SoleOrWholeHeldUntilClean` and `NothingLeft`. The
argument is who looks after each key at every moment. The pass of an acquirer is the only one of its
key, which nobody acquires any more (`Retiring`); the wrapper's pass has nothing to clean that an
acquire is at (`MainsOwn`); holds stay while somebody needs them (`Holds`), and each admission has
somebody who will give it back (`Covered`); a sandbox made for the call is on somebody's list or has
missed its delete (`OwnIsDeleted`). Then what is unclean is known (`UncleanIsKnown`), because a call with one
key never has two passes at work (`SoleIsQuiet`). That last part is where the disagreement of
section 3 lives: with two keys it is false.

### Host tools

`RunSafety` (`HostToolRunProofs`): `WithinLimits`, `ClosedHasNoAuthority`, `OneIdentity`,
`AbandonedIsOwned`, `TimeoutLeavesARefusal` and `DoubtRevokes` always hold. The identity is single
because the minting call holds the lock and finds none under it (`OneMinter`), and bodies were
given the one the run still holds (`HandedIsHeld`). The timeout argument needs which calls are
charged (`ChargedIsKept`) and that an expired bound sends no value (`ExpiredSendsNoValue`).
`RevocationHolds` proves the action property `NothingAfterClose`.

`TransportSafety` (`GuestTransportProofs`): `TypeOK`, `FrontierIsExact`, `OnceAndInOrder` and
`SpentIsTold`, for any cap, window and number of claims; `SkipsOnlyTheOvertaken` the invariant
`OnlyTheOvertakenAreSkipped`. `WalkFollowsFrontier` says where the walk of a window stands and what each
of its stages has seen, `HitsAreThere` that files do not go away again, `HandIsNext` that a write that
may still land is of the number just past the frontier, and `EffectsAreBehind` and
`ValuesAreEffects` how far the tools that ran may be ahead of what was answered.

`UnnotedSandboxIsQuiet` (the same module) has `UnnotedIsQuiet` for any number of descendants. What
makes it inductive is what the tracker knows: with the launcher's receipt, everything a snapshot
ever showed below the program (`ReceiptKnows`), because a line of parents from it leads through
processes the tracker has; without a receipt nothing is signalled, and the sandbox is noted. While a
probe reads on, `ScanIsPast` says what the listing it began with still tells of the guest. The
program's number has passed on only when the program is gone (`ShownIsPast`). `OnlyTheUnseenIsHit`
proves the action property `ReplacementIsSpared`: where the looks were complete and one showed the
program, a process that had its number when the last look began, and runs still, was read by that look
(`LookIsSound`), so the signal finds the number replaced. A process that takes the number later than
that is hit, and no theorem says otherwise.

### Stores of the host

Both halves of `MCHostStores`, in `HostStoresProofs`. Of the files, each theorem is for any paths,
any number of changes and any number of reads of a call (two at most where it says so), and all rest
on `ReadsInv`: what has begun is tracked by the open window, a check's round is of what was tracked
when it began, samples are of tracked paths, and a path is read again only while there is one in
doubt and a round left.

- `TrustIsEarned`, the action property `TrustedIsNotRecorded`, by `TrustInv`: bytes a write tool put
  somewhere are recorded or their call has not returned (`Landed`), and a path trusted when a read of
  it began and not noted since is not recorded (`Earned`). A read is handed over by a comparison that
  found no input noted (`HandedOver`), so `Earned` applies to every input.
- `InputsAreOneState`, the invariant `InputsCoexisted`, by `HostInv`: a snapshot of the record's count
  is of the bytes that are there (`Stands`); so is a sample of that count when nothing is in doubt
  (`Confirmed`); what is read again under an unchanged count is what the store holds (`Knows`); and a
  round that no other read has added to has left no snapshot out (`Covers`), which is what the
  revision is for. The moment the store held it all is that of the last comparison.
- `RefusedForInputs`, the invariant `OnlyInputsRefuse`, by `RefusalInv`: an answer is what it was as
  long as its path is not noted, so nothing is ever in doubt (`Told`), and a check that has lost as
  many rounds as inputs were added has as many left as the other read may still add (`RoundsLast`:
  attempts, the additions left and the one it has not seen are never more than two).

Of the sessions, for any requests, sessions and replicas, by `SessionInv`:

- `DecisionsAreOwn`, the invariant `NoForeignDecisions`: what a request decided is within what it
  loaded and itself, at each place of its course (`Course`, `Decisions`); nothing is assumed of what a
  cache holds.
- `SavesAreInOrder`, the action property `SavesFollowOn`: a request whose lease of its target is its
  own has not been overtaken there (`Lease`), and a request saves only after a complete answer.

### Hosts and backends

`CallsAreSafe` (`HyperlightCallsProofs`): `TypeOK`, `OneWorker`, `NoResidue` and
`UnansweredRetires`, for calls of one router or of any number; `ServedClean` adds that a call's code
starts only in an instance that holds nothing of any call. A
lease counts its users, and its lock is that of whoever is past it (`LeaseIsCounted`); who stops or
prepares an instance holds the gate (`GateIsHeld`); a worker that is up is the registered one
(`InstancesAreMade`); a thread that may still start is in the exchange that asked for it
(`ThreadsAreAsked`). An instance that serves a call holds at most what that call left, and no other
router knows its identity (`ServesOne`); where something is left in a live instance, the router that
knows its identity refuses the key or serves that call still (`DirtIsOwed`), and every other router
would reset it first. What ran is told (`RunsAreTold`).

`ServiceIsSafe` (`WorkloadHTTPProofs`): `TypeOK`, `OneOwner`, `RetirementIsFinal` and
`IdHeldUntilSettled` of `WorkloadService` and `WorkloadHTTP` together, for any resources, bindings
and sessions. Only the active call's task may run (`SlotIsTaken`), and only between the start and
the final cleanup (`LifeFits`); a resource that is not clean is still to be visited, or its cleanup will not
be confirmed (`WorkIsOwned`). A handler keeps its call's id to itself until the task has settled
(`Handlers`); a session that is retiring is marked, at each stage with what that stage has seen to
(`SessionFits`), and a call whose handler left before it began is of such a session (`CallFits`), so
that it is never admitted.

### Only model-checked

- Liveness under fairness: `ExclusiveIsServed`, `Reopens`, `CallersLeave`, `CallReturns`,
  `HoldsReturned`, `EveryRequestIsReached`, `EveryCallEnds`, `EverythingDrains`.
- `LedgerExact`, whose sums over all calls would need induction over data. The ledgers' being
  natural numbers rests on that sum, so `RunSafety` types them as integers.
- That a replica's cache stays within its bound, which the type invariant of `SessionPersistence`
  says and no property needs: the length of a filtered sequence would need induction over data too.

Some proved parts have no run of their own (`CondemnedStaysShut`, `FoldKeepsStrongest`,
`ClaimIsComplete`, `RefusedWhilePending`, `WithinLimits`, `ClosedHasNoAuthority`,
`AbandonedIsOwned`, `TimeoutLeavesARefusal`, `DoubtRevokes`, `ServedClean`).

## 6. Outside the models

- `FailedReclaimPolicy.KEEP`, under which a failed cleanup is deliberately not acted upon: routers
  then mark nothing and serve what they could not clean.
- Selection of a backend for a workload, invalid sandboxes, program channels and pinned kinds.
- Re-entrant takes that change between shared and exclusive; no caller does this.
- `ToolCall`: calls that never name their directory, several instances under one key, writes
  through a sandbox object after the call has closed, and the draining state of the entry (which
  `ExclusiveSlots` has).
- `HostToolRun`: one run used from two event loops, registration and signature binding, and a body
  that raises `CancelledError` on its own account, which the caller of `task.result()` then sees
  as its own cancellation.
- `HostToolsOverExec`: the program's output, the reading of requests as JSON beyond its three
  outcomes, the reclaim of the transport's files, and the guest once the loop has ended.
- `ProgramStop`: a process other than the program whose number is used again, an instance that
  changes under the run, and the batches in which descendants are signalled.
- `FileReads`: several stores in one call, spellings of a path (`store_key`), other floors than
  trusted, and reads outside a call.
- `WorkloadService`, `WorkloadHTTP`: the validation of arguments and results, authentication, header
  and connection limits, the bindings of `server.py`, and a resource whose cleanup raises a cancellation
  of its own: only an `Exception` is caught there, and nobody cancels the task the cleanup runs in.
- `HyperlightCalls`: rungs other than RESET, what `outputs.validate` rejects beyond a failed exchange, tasks that take the
  call's permit with them in a copied context and outlive it, the launchers of the worker on Linux and
  Windows, pods and their Kubernetes client.
- `SessionPersistence`: what compaction decides, the recall gate and its middleware, providers that
  run outside a request, tasks a request leaves behind after its lease (the host's contract excludes
  them), and leases that run out in a store without fencing.
- Outputs and transfers: one collection is sequential and its landing is exclusive creation by the
  operating system. The other backends: I/O with an engine.
- Guest commands, wire formats, logging and observers.

## 7. Plan

1. The recall middleware (a gate armed for one forced call, its retry and its degradation), and the
   compaction strategies as operators over short conversations.
2. The lifecycle of Hyperlight pods.
3. Selection of backends by capability and policy, the Docker registry, the retries of ACAS, the
   TUI's control protocol; outputs as operators checked against reference definitions.
4. Proofs of what those add; `LedgerExact`, once a prover with induction over data is at hand.
