# A TLA+ model of open-free-router

open-free-router is a local gateway: agents send OpenAI, Responses or
Anthropic requests to one port, and the router forwards each to one of many
free or subscribed upstream models, moving on to another when one fails.  This
directory models the parts of it that decide where a request goes, when an
upstream is left alone and when it gets another chance, what a client sees of
a streamed answer, and what the router remembers of a request.  TLC checks
them, and TLAPS proves every invariant and every action property that a passing
run checks, and three refinements, for all values of the constants.

Paths of Python files are relative to `src/open_free_router/` in the
repository, paths of documents to its root.

## 1. Inventory

| Component | State | Operations | Hard because |
|---|---|---|---|
| resilience manager (`resilience.py`) | circuit per provider, state per credential slot, lockout per model, state file | `can_attempt`, `record_failure`, `record_success`, `record_quota`, `reset`, load, persist | shared by all request threads; an admission and its report are separate calls, and anything happens in between; restarts; writes that fail silently |
| upstream executor (`executor.py`) | per request: plan, position, slot, attempts, last decision, audit pair, budget | `execute` | several loops with early exits; sleeps; a retry that skips the gate; pairing of audit rows |
| planner (`routing.py`, `costing.py`, `scoring.py`) | none of its own | `plan`, `excluded_by_cost` | asks the manager with a call that changes it |
| failover policy (`failover.py`) | none | backoff, timeouts | numeric edges |
| failover ledger, analytics (`failover_audit.py`, `analytics.py`) | SQLite tables | record, settle, backfill, purge, migrate | best effort under failure, idempotence |
| telemetry, latency (`telemetry.py`, `latency.py`) | bounded deques | record, complete, p50 | a row evicted before it completes |
| stream adapters (`responses.py`, `anthropic.py`) | open blocks, indices | feed, finish | event order over arbitrary upstream chunks |
| proxy (`proxy.py`), translation (`translate.py`) | connection | HTTP handlers | mid-stream failure |
| registry, refresh, daemon (`registry.py`, `refresh.py`, `serve.py`) | YAML file, in-memory copy | load, merge, save, reload, schedule, adopt | several threads and processes write one file |
| agent configuration sync (`sync.py`) | nine clients' files, a backup | copy, read, transform, write | the user writes the same files; a write is cut short |
| probe runner, discovery (`probe.py`, `discovery.py`) | results, running flag, two files | start, report, finish, adopt | a finish that races the next start |
| hot swap, model switch (`hot_swap.py`, `swap_consistency.py`, `model_switch.py`, `config_snapshot.py`, `auto_rollback.py`) | active swap, active model, history, one snapshot | begin, load, probe, commit, roll back, undo | failure half-way, repeated calls |
| learning proposals (`learning_confirm.py`) | proposal states, journal | register, confirm, reject, apply, roll back, expire | expiry and staleness |
| harness route (`harness_route.py`) | sessions, events, audit rows | resolve, send, stream, cancel | cancel racing completion |
| plugin gate (`plugin_gate.py`, `plugin_gate_gate.py`, `plugin_whitelist.py`) | reports, whitelist | scan, review, admit | a verdict older than the package or the whitelist |
| sandbox (`sandbox/`) | child processes, directory, audit log | call with retries, run, rotate | timeouts, children that survive |
| MCP server (`mcp_server.py`) | threads, redirected output | request, tool call, shutdown | process-wide output and several threads |
| status worker (`worker/` at the root) | KV documents | cron, visit, batch, merge | lock and clocks |

The rest of the front ends (`cli.py`, `ui.py`), the site, the scripts, the
scrapers of `refresh_sources/`, replay and the public catalog parse, project and
print; they are not modelled, but for the commands and handlers that change
the registry or start probes.

What makes the core correct: an attempt goes out only where no penalty
forbids it; one probe at a time tests a penalised circuit or slot and never
stays reserved; penalties are neither prolonged by failures already under way
nor lost by a restart; every penalty ends by itself; a request makes at most
`max_attempts` attempts, moves on only for failures another key or model may
cure, and ends; the audit ledger agrees with what was tried.

What makes a relay correct: whatever chunks arrive, the client sees blocks and
items that are opened, filled and closed in order, and a finished stream tells
what the buffered answer would have told.  What makes the stores correct: rows
repeat the last word on their request, a pair of audit rows stays a pair, and
nothing but a full queue, age or a failed write loses a row.  What makes a
service correct stands with it in section 2.

## 2. Modules

| Module | Models |
|---|---|
| `ResilienceState` | the manager's state and each of its operations as an operator, used by the two modules below |
| `Resilience` | the manager under concurrent callers, an operator's resets, restarts, a state file whose writes and reads may fail |
| `Executor` | `plan` and `execute` for concurrent requests over the manager |
| `FailoverContract` | what a client may rely on about a request's attempts; `Executor` implements it |
| `StreamEvents` | `parse_sse_events` and `render_chat_chunk` (`translate.py`): from lines to chunks |
| `ResponsesStream` | the stream adapter of `responses.py` and the answer `chat_to_response` gives |
| `MessagesStream` | the stream adapter of `anthropic.py` and the answer `chat_to_messages` gives |
| `Relay` | one streamed answer through `proxy.py` to one of the three endpoints, cut or dropped anywhere; composes the three above |
| `Ledger` | the queue of `telemetry.py`, the tables of `analytics.py` and the audit pair, under failing calls, purges and crashes |
| `Proxy` | one kept HTTP connection: every endpoint, refusals, unread bodies, routes, relays |
| `HotSwap` | the swap controller with every injected action failing as it may |
| `RouteSwitch`, `RouteChain` | switches and undos with their history; `RouteChain` is the chain of routes they implement |
| `RouteConfig` | the one snapshot, its damage, and the automatic rollback |
| `SwapFormat` | `validate_stream_chunks` against a reader's definition of a good stream |
| `SandboxCaller` | the caller's retries over models under a deadline; implements `FailoverContract` |
| `SandboxRun` | one run from its checks to its clean-up, with children that escape |
| `AuditLog` | the rotated log, one action per call of the file system |
| `Harness` | sessions, calls on both faces, cancels and the audit rows |
| `PluginGate` | packages that change, reports, reviews that run out, admission |
| `Learning` | the board of recommendations, its hashes and its journal |
| `RegistryStore` | the daemon's threads, another process and the one YAML file |
| `StatusWorker` | cron and visits, batches, the lock and the page |
| `ProbeRun` | runs of probes, their threads and two files |
| `AgentSync` | one of nine clients' files between the router and its user |
| `McpSession` | the session on stdio: loop, tool threads, redirected output |
| `Services` | the sixteen modules from `Proxy` to `McpSession` side by side, one of them in each behaviour |
| `MCResilience`, `MCExecutor`, `MCRelay`, `MCLedger`, `MCServices` | values of the constants for TLC |
| `SequenceLemmas` | lemmas about sequences that grow, and induction over the naturals |
| `ResilienceStateProofs` | lemmas about the manager's operations |
| `ResilienceProofs`, `ExecutorProofs`, `RelayProofs`, `LedgerProofs` | the theorems about those modules |
| `ServiceProofs` | those about `HotSwap`, `Learning`, `PluginGate`, `SandboxRun`, `McpSession`, `Proxy`, `SandboxCaller`, `AuditLog`, `Harness` |
| `DaemonProofs` | those about `ProbeRun`, `RouteConfig`, `AgentSync`, `RegistryStore`, `StatusWorker`, `RouteSwitch`, `SwapFormat` |

**Correspondence.**  `prov`, `cred` and `mdl` are `_providers`, `_credentials`
and `_models`; an entry that is missing behaves as the dataclass defaults do, so
they are total functions.  Every method of the manager holds its lock for its
whole body and is one action.  `calls` is the attempt a thread has in flight
between `can_attempt` and its report, with the probes it reserved (a history
component: the code does not know it).  `disk` is what `_load_state` would
make of the file now.  In `Executor`, one action per piece of `execute` between
two points where other threads can matter: an `excluded_by_cost` question, the
start of a candidate, a `can_attempt`, an answer with everything done about it
up to the next loop test, the exit of the slot loop.  `trail`, the list of
attempts with their outcomes, stands for `attempt_results`, and the locals
`last_failure`, `last_decision`, `stop_request` and `same_429_retried` are read
off it.

`StreamEvents`, `ResponsesStream` and `MessagesStream` are handlers as
operators: each takes the parser's or adapter's record and a line or a chunk and
returns the record with the events it emits.  `Relay` holds the records and has
one action per line read from the upstream, one for its end, one for its failure
and one for the finally clause; each write may find the client gone after any
part of its batch.  Every line is a member of a small set (pieces of
text, reasoning and two tool calls, finish reasons, usage, error envelopes,
`[DONE]`, comments, other fields).  `sent` is what the client has
received; `upstream` keeps what the upstream said, for the properties to compare.

In `Ledger`, `items` is the deque, `conn` the database as this process's
connection sees it and `disk` what is committed: they differ while a
transaction is open, because a failed call swallows its exception without a
rollback.  Every call of a store holds its lock and is one action; a call of
the database may fail at a statement, at the commit, or after it, when the
permissions of the files are set.  `reqs` says where a request stands and keeps,
for the properties only, what the stores were told.

**Time.**  The code stores absolute deadlines; the modules of the request path
store the ticks left to them, and `Tick` counts down.  Clock changes are outside
the model.

**Data.**  Models, providers and slots are small sets; an upstream answer is
its failure kind (the result of `classify_failure`) with a declared delay;
scores are an arbitrary reordering of the candidates; quota observations are
an arbitrary order among equally available slots; latencies, bodies and the
wording of reasons are left out.  In the relay, text is the sequence of its
pieces; ids, names, signatures and sequence numbers are left out, and so are the
usage's numbers, of which only the presence matters; a chunk's content is absent or a
piece of text, so that an empty one and `null` are not told apart
(`responses.py:218`-`224`, `anthropic.py:216`-`220`).  In the ledger, a row is
its request, its time and what the properties compare.

### The services

Each is a module of its own, because they share no state that matters here.
`Services` makes an instance of each, with names of its own where two would
clash (`Learn == INSTANCE Learning WITH now <- ticks`), and one variable,
`focus`, that says which of them this behaviour is about.

| Module | State in the code | Actions |
|---|---|---|
| `Proxy` | the connection of a `_ProxyHandler`: `close_connection`, the bytes left on the socket, the open upstream response | `Ask` (`do_GET`, `do_POST`, `reset`, the four forwards up to the route), `Stray` (http.server on left-over bytes), `RouteFails`, `RouteOpens`, `Buffered`, `Headers`, `StreamEnds`, `StreamBreaks`, `Leave` |
| `HotSwap` | `_swaps`, `_active_swap_id`, `current_model`, `loaded_model`, and the runtime behind the callbacks | `Submit`, the checks (`Reject`, `Admit`, `CheckRaises`), `Load`, `Healthy`, `Unwell`, `RollBack`: one action per injected call, because others run meanwhile |
| `RouteSwitch` | the route, what was shown for confirmation, `SwitchHistory.stack`, the observatory's traces | `Echo`, `Confirm`, `Switch`, `Undo` |
| `RouteConfig` | the routes, `_active_snapshot`, its events | `Apply` (snapshot, then change), `Tamper`, `Unhealthy` (check, verify, restore) |
| `SwapFormat` | the frames sent so far | `Send`, `Force` (the finish frame a switch puts in) |
| `SandboxCaller` | index, attempts, what is left of the deadline | `Begin`, `Answer`, `Abort`, `ListExhausted`, `GoOn` (the pause) |
| `SandboxRun` | phase of the run, its directory, its processes with group and pipes, the audit row | `RejectCode`, `MakeWorkdir`, `RejectInWorkdir`, `Break`, `Start`, `Timeout`, `Collect`; `Spawn`, `LeaveGroup`, `Exit`, `LeaderExit` are the code under test |
| `AuditLog` | the log and its rotated files, where each writer stands | `Begin`, `Unlink`, `Move`, `AppendRecord`, `Fail` |
| `Harness` | `_last_route`, `switch_events`, `request_events`, ids to refuse | `Call` (resolve, then send or stream), `Cancel`, `Expire` |
| `PluginGate` | a plugin's package, its report on file, the whitelist | `Scan`, `Review`, `Admit`; `Repackage` and `Tick` are the world |
| `Learning` | status, evidence, confirmed hash, journal | `Register`, `Confirm`, `Decide`, `Apply`, `ApplyRefused`; `Regenerate` and `Tick` are the world |
| `RegistryStore` | the daemon's registry, the file, where its three threads and the command line stand | `Start`, refresh (`BeginRefresh` ... `EndRefresh`), `Put`, `Adopt`, `CliLoad`, `CliChange`, save (`Truncate`, `BeginCopy`, `Copy`, `EndCopy`, `CopyBreaks`, `Dump`, `SaveFails`), `Crash` |
| `StatusWorker` | the KV snapshot, the lock, the runs under way | `Cron`, `Visit`, `TakeLock`, `Put`, `Fail`, `Tick` |
| `ProbeRun` | `state`, both files, the threads that hand a snapshot over | `Start`, `StartBreaks`, `Probed`, `RunEnds`, `Take`, `WriteStatus`, `WriteEvidence`, `WriteFails`, `Change`, `Restart` |
| `AgentSync` | a client's file and its backup, the registry, the router's address | `Read` (backup and transformation, one operator per client), `Open` (which empties the file), `Write`, `CutShort`; `ChangeRegistry`, `ChangeAddress`, `UserAdds` and `UserRestores` are the world |
| `McpSession` | the loop, each call, `sys.stdout`, the output | `Garbage`, `Direct`, `ParamsOfNoObject`, `ToolCall`, `Redirect`, `Progress`, `PutBack`, `Answer`, `Close`, `End` |

What makes each correct is the property its module ends with.  Two are
refinements: `RouteSwitch` implements `RouteChain`, in which an undo takes the
last link off a chain of routes, and `SandboxCaller`, which may not import the
gateway's failover and repeats its rules, implements the same
`FailoverContract` as `Executor`.  `SwapFormat` compares the validator's index
arithmetic with a definition of a readable stream.  The others relate what one party was told to what another holds:
rows to calls, files to memory, a verdict to the present package, an
application to its confirmation.

## 3. Runs

| Run | Question | States | Bounds |
|---|---|---|---|
| `penalties` | shapes, owners of probes, restart, no prolongation | 112k | two callers, one provider, two models, evidence thresholds of 2: every circuit and slot state, two escalation steps |
| `file_faults` | with failing writes and unreadable files, a way back always comes | 35k | two callers, one model |
| `request` | `Executor` implements `FailoverContract`; audit rows agree with attempts | 1.3M | one request at a time over a scored plan of three, one candidate without keys, two on a provider with two keys; budget of two ticks |
| `requests_live` | reservations, way back and termination for concurrent requests | 162k | two requests, one target, two attempts |
| `relay` | blocks and items in order, the stream agrees with the buffered answer, usage reaches the store | 3.4M | four data lines, with stray lines anywhere between, to each of three endpoints |
| `ledger` | rows repeat the last word, only eviction loses one, audit pairs stay pairs | 4.1M | two requests, a queue of one, rows kept one tick of two, one failing call, one crash |
| `services` | what a user of each service relies on | 760k | below |
| `stalled_probe`, `planner_probe`, `interleaved_tools`, `byos_saved`, `user_providers` | where code and documents disagree, see below | | smallest instance that shows it |

A bound is enough when the case it limits has happened: thresholds of 1 or 2
let every record reach every state and the counters reach their cap; two
callers give every interleaving of one probe with one other attempt; a budget of
two or three ticks runs out before, during and after a backoff, a retry's sleep
and an attempt.  A penalty that ran out stays 0, so the state space is finite
without a bound on time.  The trail is bounded by `MaxAttempts`, which is the
program's own bound.  Four data lines (`MaxData`) hold a block of each kind with
a return to an earlier one, an error envelope or a usage before or after the
finish, and the end of the stream.  A queue of one (`MaxEntries`) makes every
second request an eviction; three points in time (`MaxTime`) against a retention
of one tick purge every kind of row while its request is under way or after;
`MaxFaults` lets any call fail with every later call good, and `MaxCrashes` puts
a crash anywhere.

`services` checks sixteen modules in one run: `focus` picks one per behaviour
and the rest stand still, so that its states are the sum of theirs.  Two swaps
over two models with two probes each meet, fail and roll back in every order.
Five switches and undos (`MaxSwitches`) hold an undo after an undo after a
switch; three changes (`MaxChanges`) overwrite the snapshot twice.  Four frames
(`MaxFrames`) hold a role, content, a finish and `[DONE]`, each out of place.
Four attempts against a deadline of three end by list, cap and deadline.
Eight records in files of two, with two files kept (`Keep`), rotate three
times and lose a file; two crashes break a rotation at any two points.  One writer holds the log: with two processes and
`Keep = 1` the property fails (see below).  Two children give one that stays in
the group and one that leaves.  Two calls of the harness, each on either face,
route and backend.  Two plugins move between two packages with two reviews
(`MaxReviews`), and a review made at the first point in time has run out at the
second.  Two providers in the file and one that the page adds or discovery
finds; three jobs, failures or crashes together (`MaxWork`) give every overlap
of two or three savers, of a save with a refresh that changes what is being
read, and of two savers with a crash or a failed write, and a third save that
makes good what two that met left.  A save reads the registry one provider at
a time, so that two providers are needed for a snapshot of which a part is old.
Two good cron runs are what the worker's property speaks of.  Two probe runs
(`MaxRuns`) overlap by their tails; the second one heals what a restart or a
failed write after the first left.  A sync starts from any registry and any
address; two changes (`MaxEdits`) then hold a move of the address or a change
of the registry with a user's entry or a restored backup, of three addresses,
two of them on loopback and one elsewhere.  Two MCP calls redirect the output
around each other.  Two requests (`MaxAsked`) follow each other on a
connection, GETs with a body and without, small bodies, bodies over either cap, and
lengths that say nothing; `Big` is one unit over `BodyCap`.

Each module also has a `TypeOK`.  Those of the manager, the executor, the relay
and the ledger are proved (section 4); those of the services document the
variables, and the invariants proved about them contain what they need of them.

**Fairness.**  `LiveSpec` of `Resilience` and `Executor` assumes that time
passes, that a thread that can go on does, and that every attempt is answered:
connecting, the first byte and the body each have a timeout in
`TimeoutPolicy`.  Nobody is assumed to send a request, to reset or to restart.
`HotSwap` assumes that a load and a probe return, one way or another: the
controller has no timeout, so that nothing follows without it.  `McpSession`
assumes that a tool's thread goes on; nobody is assumed to call.

**Mutants.**  Each property of a passing run has a definition that changes
the code the way a bug would (a probe that is not given back, a lockout that a
late failure prolongs, a retry flag that is not set, ...); they stand before the
definition they would replace, marked "Mutant".

### Where code and documents disagree

- `stalled_probe`: an attempt whose error body stalls is not reported
  (`executor.py:759`), so its half-open reservation outlives it (against
  `resilience.py:446`).  The provider stays busy until a reset or a restart.
- `planner_probe`: `excluded_by_cost` asks `can_attempt`, which reserves the
  half-open probe; the executor's own question is then refused, as is every
  later one (against `costing.py:13` and the policy's rule of the way back).
  This needs no failure but the one that opened the circuit.
- `interleaved_tools`: a further piece of a tool call whose block was closed by
  a later block is sent to the closed block (`anthropic.py:413`, against
  `tests/test_anthropic.py:246` and the docstring at line 315).
- `byos_saved`: the daemon's registry holds what the adapters resolved from the
  environment, and every save writes the whole of it (`serve.py:64`, against
  `byos/wiring.py:53` and `serve.py:36`).
- `user_providers`: a sync of Pi replaces a user's provider that has the name of
  one of the router's, wherever it points (`sync.py:147`, against line 109).

Seen while modelling, without a run of their own:

*Request path.*
The retry after a 429 skips the whole gate, not only the cooldown that 429 set
(`executor.py:591`, against `docs/plans/failover-routing-policy.md:262`).
After a context overflow the next candidate may be smaller, if a larger one
stands further behind (`executor.py:954`, against line 266 of the same
document).
A 429 or 401 replaces a credential's record and with it its 403 evidence over
several models (`resilience.py:502`).
Deadlines are wall-clock times: a clock set back prolongs every penalty
(`resilience.py:354`).
Each request builds its own `LatencyStore` (`executor.py:297`), which therefore
never holds more than that request's samples.
A decision whose commit or permissions fail is reported as not written although
it may be in the file, and is then never settled (`analytics.py:484`).

*Streams.*
A stream that ends in an error envelope, or just ends, is completed towards the
client like any other (`proxy.py:672`, against `docs/plans/protocol-unify.md:84`).
Text that follows a tool call shares output index 0 with it
(`responses.py:327`); an answer with both reasoning and content mixes them when
streamed and drops the reasoning when buffered; an `id:` or `retry:` line
between a data line and its blank spoils that event (`translate.py:586`), which
is why the agreement of stream and buffered answer is claimed for clean streams
of one kind of text.

*Connection.*
No GET reads a body that its client declares, and none closes
(`proxy.py:320`-`415`, HTTP/1.1 by line 86).  After such a GET, after a 411, after
the 413 of the reset endpoint (`proxy.py:509`) and after a 404 with a body of
over 25 MB the connection is kept with the body unread, and its bytes are taken
for the next request (against the comment at line 500).  `AnswersInTurn` says
that there are no other such requests (`Leaves`), and that one error to the
leftovers is all that comes of it: every request before and with them is
answered at most once and in its turn, and the connection ends.  A negative
length blocks the thread until the client leaves.  A JSON body that is no
object, or a garbled length on an unknown path, ends the connection without an
answer.  A stream that breaks after its headers gets no last chunk and keeps
the connection, so that the client waits for the rest (`proxy.py:682`).

*Registry and agents.*
A save empties the file, then goes over the shared registry, then writes what
it read, all without a lock (`registry.py:290`-`291`).  So two threads of the
daemon that save at once may leave an older copy over the newer one, whole and
without an error, or a mixture of both, until the next save that runs alone:
`QuietDaemonIsSaved` therefore speaks of a daemon whose last save met no other,
and `behind` remembers whether it did.  A provider added while a save goes over
the registry makes it raise ("dictionary changed size during iteration") with
the file empty; in the scheduler that ends the thread.
Two saves in one second share a backup.  A command that reads the file between
a save's steps finds it empty, and saves that.  A command and the daemon
overwrite each other's changes.  A refresh that raises ends the scheduler's
thread for ever.  `config.py:48` calls discovery review-only, `auto_adopt`
adopts.  OMP, OpenCode, OpenClaw and WorkBuddy lose every entry that points to
this machine, another local server's too.  On a host that is not loopback
(`proxy_host` is free, `serve.py:67`) the writers of OMP and OpenCode do not know
the router's entries and keep those of providers that are gone, and WorkBuddy's
keeps those of an earlier address (against the comment at `sync.py:351`, which has
stale entries not accumulate); `Overlooked` says exactly which stay.  The backup is one directory for
the life of a process: a second sync copies a torn file over a good one, and
Pi's file is not copied at all.  Pi and Hermes keep the entries of an old address.
An edit between the reading and the writing of a file is lost.

*Other services.*
An exception that is not a `HotSwapError`, out of a loader or a check, leaves the
swap active and every later one refused (`hot_swap.py:118`), which `SwapsEnd`
excepts.  The validator accepts content after the finish when `[DONE]` is not
last (`swap_consistency.py:272`).  A run that cannot start leaks its directory
and writes no row; a process that left the group with the pipes holds the second
`communicate` up; a background child without pipes survives a run that ended
by itself.  Two processes that rotate one audit log at once lose a file too many.
A stream with a failed envelope but no failed chunk is audited as good
(`harness_route.py:407`).  `confirm` does not ask whether a recommendation has
expired (`apply` does); an applier that raises after it wrote leaves no journal
entry.  A registration let in by a review is not asked again when the review
ends.  Two writing tools at once put progress into the MCP stream or leave the
output turned away (`mcp_server.py:488`, against line 486).  A probe run whose
thread cannot start stays announced for ever.  A probe that raises outside its
`try` (`probe.py:71`, an address no request can be made of) ends its run with
models unanswered.  A thread still writing its files when the next run has ended
may leave the older snapshot, or one of each, until a run ends alone.

Because of `planner_probe` and `stalled_probe`, `requests_live` uses explicit
requests and no broken bodies: the two paths that lose a reservation have runs
of their own, and this run shows that there is no third.  For the same reason
`services` has no adapter's providers in its registry.

## 4. Proofs

Every theorem holds for all values of the constants that the assumptions at the
end of this section allow: any number of requests, providers, models, clients
and any length of a stream, where the runs have two or four.  Each has the same
shape: an inductive invariant that holds at first and that every step keeps, one
step of the proof per action, and the property as its consequence.

### The manager

| Theorem of `ResilienceProofs` | Establishes |
|---|---|
| `TypeCorrect` | `Spec => []TypeOK` |
| `CircuitsKeepShape` | `Spec => []CircuitShape` |
| `SlotsKeepShape` | `Spec => []SlotShape` |
| `ReservationsHaveOwners` | `Spec => []ReservationHasOwner` |
| `FileKeepsPenalties` | `~FileFaults /\ Spec => []RestartKeepsPenalties` |
| `PenaltiesAreNotExtended` | `~FileFaults /\ Spec => NoPenaltyExtension` |

The inductive invariant `IInv` is type correctness, `Sound` of the memory
(types and both shapes), `Sound` of the file, no reservation in the file, and
that every reservation in memory has an attempt in flight that holds it.  The
file's part is needed for `Restart`, which copies it into memory; the shapes
are needed for the types (a counter is capped only because the record is in
the right state) and for ownership (a probe is taken only where none is out).
`ResilienceStateProofs` shows operation by operation that `Sound` is kept;
`ResilienceProofs` has one step per action.  The last two theorems assume that
writes succeed: with `FileFaults` a restart brings back an older file.  The first
four hold with failing files too, which is why `file_faults` only asks for the
way back.

### The executor

| Theorem of `ExecutorProofs` | Establishes |
|---|---|
| `TypeCorrect` | `Spec => []TypeOK` |
| `AuditIsTrue` | `Spec => []AuditTellsTruth` |
| `MovesAreAnnounced` | `Spec => []EveryMoveIsAnnounced` |
| `ImplementsContract` | `Spec => KeepsContract`: `Executor` implements `FailoverContract` |
| `ReservationsAreOwned` | `~BodyFaults /\ Routes = {} /\ Spec => []ReservationHasOwner` |

`IInv` is `Sound` of the shared manager, the types, and `Good` of each
request's own values: where it stands in the plan (`Placed`), that the slots left
were not tried at this candidate (`KeysFresh`), that the trail runs along the
plan (`TrailFits`), that a request goes on only after a failure that allows it
(`MayGoOn`), and what settled and pending audit rows and announced moves say of
the trail (`RowsHold`, `PendingHolds`, `MovesAnnounced`).  `Good` takes those values as
arguments, so that a step of one request is a lemma about values, and another
request's `Good` is untouched by it.  The refinement needs the first four: that no
slot is tried twice at a candidate, but for the one retry, follows from slots
without duplicates and the trail's order, which no action checks.  `ReservationsAreOwned` has two
hypotheses because without either it is false: `stalled_probe` and
`planner_probe` show how.

### The relay

| Theorem of `RelayProofs` | Establishes |
|---|---|
| `TypeCorrect` | `Spec => []TypeOK` |
| `TurnsAreTaken` | `Spec => []BlocksTakeTurns` |
| `DeltasAreAtHome` | `Spec => []DeltasFindTheirBlock` |
| `PromisesAreKept` | `Spec => []ItemsKeepTheirPromise` |
| `MessageIsTheAnswer` | `Spec => []MessageTellsTheAnswer` |
| `ResponseIsTheAnswer` | `Spec => []ResponseTellsTheAnswer` |
| `UsageIsTold` | `Spec => []UsageReachesTheStore` |

`RelayInv` has a part common to the three endpoints and one for each.  For the
order of blocks and items, `Fits` (Messages) and `Carries` (Responses) relate
the adapter's fields to what was sent: the open block is the last one started,
the index to come is the number of starts, each open item was announced and its
deltas add up to its buffer.  A client may leave after any part of a batch, so
every lemma about an adapter's operation shows the promise for every prefix of
what it emits (`AllPrefixes`).  For the agreement with the buffered answer the
invariant is `Told`: what was streamed, followed by what the events still to be
written and the lines still in the parser will give, is the answer so far.  Each
line adds the same piece to both sides, and at the end nothing is left to come.

### The ledger

| Theorem of `LedgerProofs` | Establishes |
|---|---|
| `TypeCorrect` | `Spec => []TypeOK` |
| `RowsAreTrue` | `Spec => []RowsTellTheLastWord` |
| `NothingElseLosesRows` | `Spec => []OnlyEvictionLoses` |
| `SettledOnce` | `Spec => []OutcomesSettleDecisions` |
| `PairsAreNeverSplit` | `Spec => PairsStayTogether` |

`IInv` says what is known of a request (`GoodRequests`), that its item in the
queue repeats it and stands as far from the end as requests came after it
(`GoodQueue`), and what each of its rows must say (`GoodView`), of the connection's
view and of the disk's: a failed call leaves the two different, and a later commit or
a rollback makes one of them the other.  `Kept` compares the two: an outcome on
disk whose decision the connection still sees is seen by the connection.
Without it a commit after a purge that failed half-way could split a pair.

### The services

The theorems of `ServiceProofs` and `DaemonProofs` are about `Services`.  A step of
`Services` is a step of the one module in focus and leaves the others alone, or
a stutter of every module: one lemma per module says so (`LogSteps`, `SwapSteps`, ...),
and the rest of each proof is about that module only.

| Theorem | Property | What its invariant adds |
|---|---|---|
| `SwapServesWhatIsLoaded` | `ServedModelIsLoaded` | what the runtime holds at each stage of the active swap, and which model a rollback would restore |
| `LearnAppliesWhatWasConfirmed` | `AppliedAsConfirmed` | what was not applied has no journal entry; a confirmed hash is of evidence confirmed within its time |
| `GateOpensForThePresent` | `OpensForThePresentPackage` | a report on file has the findings of the package it names |
| `RunLeavesNoTrace` | `RunLeavesNothing` | per phase: which directory, processes and rows there may be |
| `McpOneWriterIsQuiet` | `OneWriterStaysQuiet` | with one writer: while it redirects, the pipe is what it has saved; else the pipe is in place |
| `ProxyAnswersInTurn` | `AnswersInTurn` | how many answers each stage has seen, and that what is unread on a kept connection was left by the last request, one that `Leaves` its body |
| `CallerKeepsTheContract` | `CallerKeepsContract` | the trail runs along the list; every call but the last failed in a way another model may cure |
| `LogDropsTheOldest` | `OnlyTheOldestGoes` | an older file holds older records; above a file about to move there is room |
| `HarnessAuditTells` | `AuditTellsTheCalls` | each row tells the story of its answer; the switches end at the last route and visit each that answered |
| `WorkerTwoRoundsShowAll` | `TwoGoodRunsShowAll` | which batch each run is at, what it has read (`BoardRunsInv`), and how old each batch's verdicts may be after one good round and after two (`StreakInv`) |
| `ProbeFilesAgree` | `FilesTellTheResults` | while the last run ends alone: no other thread has files to write, its snapshot, once taken, is the results, and the first file may have it already; nothing is asked of what came before, restarts included |
| `ConfigRollsBack` | `RollbackRestores` | the fingerprint on the snapshot is that of the routes before the last change |
| `SyncIsCurrent` | `RouterEntriesAreCurrent` | what was read and transformed tells of the registry and the address it was read with, but for what its client's writer overlooks; from a sync on the file does |
| `QuietDaemonHasSaved` | `QuietDaemonIsSaved` | since a save that met none: what the file does not hold is some thread's to save yet, or the one thread that saves has read, one provider after the other, what the registry holds now (`Fresh`), with the file to itself |
| `UndoGoesBack` | `UndoWalksBack` | the types, and that the traces tell the route; lemmas say what each push or pop does to the routes left behind |
| `FormatGateIsExact` | `StreamGateIsExact` | the types, and that a cut stream ends as the switch wrote it; lemmas relate the validator's indices to what a reader sees, for any sequence of frames |

Two theorems have a hypothesis of their own.  `LogDropsTheOldest` takes one
writing process (`WritesAlone`): two lose a file too many, as section 3 says.
`HarnessAuditTells` takes envelopes whose class says "cancelled" when their chunks do
(`CancelsAreClassed`), which is the contract of the adapters
(`harness_route.py:238`-`262`); the envelopes themselves are external.

### How induction over data is done

The library's induction theorems take an operator as a parameter, which the
provers cannot instantiate.  `SequenceLemmas` has induction over the naturals as
a lemma about a set (`NatSetInduction`), from the well-foundedness of `<`, and
derives from it what `FlattenSeq`, a mapped sequence, the last place with a
property and `Front` do when a sequence grows.  So the text that a stream's deltas add
up to, the routes an undo left and the data of a swapped stream are reasoned about for every
length.

### Assumptions

All are on constants and named in the module that declares them; the runs
evaluate them.

- `LimitsAssumption`, `TimesAssumption` of the manager: the bounds `__init__`
  enforces.  `ModelsAssumption`: finitely many models.  `FileFaultsAssumption`: a
  flag.
- `PolicyAssumption`: the policy's bounds, at least one attempt and a positive
  budget.
- `CatalogAssumption`: a route names no target twice, which the planner's `seen` set
  sees to (`routing.py:400`); a provider's slots are the indices of its keys and so
  distinct (`executor.py:118`); `transport_error` is an exception and no answer.
- `LimitsAssumption` of the ledger: the queue holds at least one decision.
- `ClientsAssumption`, `PayloadsAssumption`, `NoiseAssumption`, `BoundsAssumption` of the
  relay: the three endpoints, and the shapes of lines a chunk can have.  The
  bounds may be any naturals, so nothing depends on their values.
- Of `Services`: the first model is one of the models; retries, lifetimes, places, delays and
  timeouts are natural numbers; `sandbox/caller.py:224`-`227` refuses a cap or a budget
  that is not positive; `sandbox/config.py:152` lets `audit_keep` be 0, which turns rotation
  off; finitely many calls of MCP; and the names the modules use for "nobody"
  (`"none"`, `"theirs"`, `"cron"`, `"stalled"`) are nobody's name.
- `~FileFaults`, `~BodyFaults`, `Routes = {}`, `WritesAlone` and `CancelsAreClassed`
  are hypotheses of single theorems, explained above.

### Only model-checked

The liveness properties `WayBack` (in `requests_live`, and under failing files in
`file_faults`), `RequestEnds`, `SwapsEnd` and `CallsAreAnswered`: they need fairness
and `ENABLED`, which TLAPS does not reason about here.  The five runs that expect a
violation are counterexamples of small instances and need no proof.

## 5. Not modelled

An audit hook that raises (its rows are then missing), clock changes, the
parsing of headers, policies and YAML, the scores themselves, the model index
and model list of the proxy, the conversion of requests, the migration of the
store, its doctor runs and exports, the limits the kernel puts on a sandbox,
the wording, ids and timestamps of every record, how recommendations are
computed, the rules' patterns of the plugin gate, the scrapers and candidate
searches (any answer may come), the adapters of BYOS, replay and evaluation, the
public catalog, packaging, site and scripts.  Handlers of the page
(`ui.py` serves each request on a thread) change the registry one after the other, as
one thread; `AuditTellsTheCalls` does not compare the status written in a row.  Of `cli.py` and `ui.py` only what
changes the registry or starts probes is there, as another process or thread.

## 6. Plan

Done: the core, the relay, the ledger, the services, and a theorem for every
safety property of theirs.  What would come next: the migration of the store by
two processes (`analytics.py:281`), the conversion of requests as operators with
their round trips, and the retry after a 429 with a gate to compare it with.
