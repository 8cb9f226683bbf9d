# JMS-MCP in TLA+

A formal model of `src/JMS-MCP/jumpserver_mcp_server`, an MCP server that lets
agents run shell commands on hosts behind a JumpServer bastion. The server is
one asyncio process. It opens logical sessions, gates every command (policy,
human approval, concurrency cap), executes it as a JumpServer *ops job* over
HTTP, reassembles the output, audits what it did, and runs batches of hosts in
parallel.

Nothing here preempts: a coroutine gives way only at `await`. A coroutine is
therefore cut into steps at its awaits, and what lies between two awaits is one
action. `AuditStore`'s and `SessionManager`'s locks never span an await and add
no steps.

## 1. Inventory

Paths are below `src/JMS-MCP/jumpserver_mcp_server/`.

| component | code | state | operations | modules |
|---|---|---|---|---|
| approval registry | `approval.py` | pending requests, decision, event of each | `request_approval`, `resolve`, `list_pending`, auto-decider, timer | `Approval`, `OneDecision`, `ApprovalRefinement`, `GatedSessions`, `ApprovalProofs` |
| security policy | `security_policy.py` | the loaded configuration | load, `evaluate` | `SecurityPolicy`, `PolicySession`, `SecurityPolicyProofs`, `PolicyProofs` |
| session manager | `sessions.py` | sessions, in-flight counter | `open_session`, `execute`, `run`, `close_session`, idle sweep | `Sessions`, `SlotPool`, `GatedSessions`, `SessionsProofs` |
| ops job executor | `ops_executor.py` | one run: attempt, task, polls | `dispatch`, `poll`, retries | `OpsJob`, `JobRun`, `OpsJobProofs` |
| command runner | `command_execution.py` | one run: directory, parts, pieces | dispatch, fetch parts, decode, clean up | `CommandRun`, `CommandOutput`, `CommandRunProofs` |
| data handling | `data_handling.py` | none | sniff binaries, decode text | `Output` |
| batch executor | `batch.py` | handle: results, completed, cancelled; emitter | `run_batch`, `cancel`, progress | `Batch`, `BatchInFlight`, `SlotPool`, `BatchProofs` |
| host discovery, user connection | `host_discovery.py`, `user_connection.py` | a cache with expiry | cached lookups, search, `resolve` | `HostDiscovery`, `HostSearch`, `HostDiscoveryProofs` |
| audit store | `audit.py` | append-only table | `record`, `recent` | the trail in `Sessions` |
| tool dispatch | `tools.py` | none but the objects it wires | routing, formatting | `discover_hosts` in `HostSearch` |
| large-log tool | `server.py`, `readonly_tools.py` | one call: task, rounds | one job and its polling loop | `LargeLog`, `OpsJobProofs` |
| HTTP server, generated tools | `server.py` | none beyond a request | start-up, signing, pass-through | not modelled |
| errors, configuration | `errors.py`, `config.py`, ... | none | settings | as result values and constants |

How they interact: `tools.py` calls the session manager, the batch executor and
its own discovery. `SessionManager.run/execute` calls its *own* discovery, the
policy, the approval registry (a wait of minutes), then `CommandRunner`, which
calls `OpsJobExecutor` once per job. `BatchExecutor` calls
`SessionManager.run` once per host. JumpServer, the network, the hosts and the
approvers are external and may do anything their interface allows.

The hard behaviours, and where they are:

- decisions racing timeouts and cancellation (`approval.py`);
- a session used after a long wait in which it may have been closed
  (`sessions.py`);
- the slot counter over all exits of a call (`sessions.py`), shared by a batch;
- requests lost after they took effect, and retried (`ops_executor.py`);
- one of several jobs of a run failing (`command_execution.py`);
- cancellation, a progress task and per-host tasks interleaving (`batch.py`);
- the exit code and the output recovered from one stream that the command
  itself writes to, in parts that may be missing (`command_execution.py`);
- old cache answers used or written late, also by a search that makes one lookup
  after the other (`host_discovery.py`).

`PROJECT.json` lists these at their lines, with the properties on each.

## 2. Modules and their correspondence to the code

**`Approval`** follows `request_approval()` through registration, the optional
auto-decider, `wait_for`, and resumption by event or by timeout.
`TimerFires` is `wait_for`'s deadline; the coroutine resumes later
(`ResumeTimeout`), so an approver can answer in between, which is the race
approval.py:118-126 is about. `Fail` is an exception or cancellation at an
await. `resolve()` is one step. **`OneDecision`** is what the registry promises:
a request gets at most one decision, and its caller gets that one.
**`ApprovalRefinement`** maps the registry to it (a request is *asked* while its
caller waits, *answered* once it returned; the decision is the request's state,
seen as soon as it is settled).

**`SecurityPolicy`** is a constant-level module: `Config`, how a file or the
environment gives one, and `Evaluate`. A regular expression is a model value
with two relations, `Hits` (it matches a command) and `Covers` (a caller's
pre-approved pattern matches the text of another one): all that the code asks of
regular expressions. **`PolicySession`** adds the state that evaluation depends
on: the exemptions a session gathers.

**`Sessions`** has every client call as a process: `Run`/`RunOpened`/`RunRefused`
(lookups), `Execute`, `Judge` (policy; block, ask or dispatch), `GateReturns`
(a decision arrives and `AfterGate` acts on it: audit, exemption, dispatch),
`GateFails`, `Dispatch` (the cap), `RunnerReturns`/`RunnerFails` (the `finally` that gives the
slot back, touch, audit, and for `run()` the closing of the session). The policy
is `SecurityPolicy!Evaluate`; the approval registry is `OneDecision`, which
`Approval` is shown to implement; the command runner is external.

**`GatedSessions`** is that manager on the registry itself. The two meet at
`request_approval()`: a step of `Sessions` is the manager's part (`Submit`,
`SubmitOpened`, `AfterGate`, `LeaveGate`) and what it does to `OneDecision`
(`AskIfGated`, `DecisionArrives`, `Approvals!GiveUp`). `GatedSessions` takes the
manager's parts unchanged and puts `Request`, `Resume` and `Fail` of `Approval`
beside them; approvers, auto-decider and timers are steps of the registry alone.
A call acts on the state of its request, as `_gate_command()` does. That this is
still the manager of `Sessions` (`ImplementsSessions`) is claimed, not built in.

**`SlotPool`** is what the cap promises its callers: a slot while one is free, a
refusal only when none is, and whoever left stays away. `Sessions` implements it
with its counter; `Batch`, which sees the manager from outside, implements the
same pool with its tasks as callers. That is the contract on which the two
modules meet.

**`OpsJob`** is one `OpsJobExecutor.run()`. The server has a job per POST that
reached it; a POST stays on the wire until the server acts on it, also after the
client gave up waiting. **`JobRun`** is the contract it implements (`Place`,
`Performed`, `Answered` are the mapping): posts are carried out at any time, and
a result is the work of the last post made. **`LargeLog`** puts the large-log
tool beside it: one POST and a loop of its own, against the same server actions.

**`CommandRun`** is one `CommandRunner.run()`; its dispatch job is an instance of
`JobRun`, so what `OpsJob` allows (duplicates, posts carried out late, a job that
runs although `run()` raised) is what the host does here. A part is its number
and `Hole` is anything else a fetch job may give. **`Output`** is the bytes: the
wrapper's stream, its parts, the marker decoding, the cap, binary detection and
decoding, over an alphabet in which a marker and a character can be cut in two.
**`CommandOutput`** runs `CommandRun` with them: the host stages the parts of a
command's stream, and what the pieces decode to is compared with what
`CommandRun` takes the exit code for (`ExitCodes`), which so is checked and not
assumed.

**`Batch`** has a task per listed host; `SessionManager.run()` is its outcomes
and the slot it takes, `others` the slots of calls outside the batch. The
progress emitter is a task of its own. `gather()` starts all tasks in one pass,
so `Launch` is one action; `Abandon` and `AbandonEarly` are the cancellation of
the caller after and before that pass. **`BatchInFlight`** adds a history
variable, the tasks that were executing when `cancel()` came.

**`HostDiscovery`** cuts a cached lookup at its GET. The accounts of an asset
and the page of a search (`Reply`) are keys of the cache; `Resolve` is what
callers make of an answer. The process has two such objects, which share
nothing: one is modelled, and `NeverGuesses` quantifies over every choice that
accounts of another age may have suggested. **`HostSearch`** is `discover_hosts`:
`search_hosts_with_accounts()` as a chain of these lookups beside other callers'.
Its steps between two awaits have priority (`Resuming`), as on the event loop.
`hosts` and `found` are functions on the places of the page: the hosts that the
filters left, and the accounts of those among them that the loop has been at;
`Place` is where the loop stands.

Modules named `MC...` give TLC the values of structured constants.

## 3. Runs

`CHECK_DEADLOCK FALSE` is set where all calls may simply be over.

| run | asks | bounds |
|---|---|---|
| `policy` | layered evaluation against its declarative statement | 5 commands, 4 patterns, every file and mode |
| `sessions` | clearance, exemptions, audit, closing; the cap is a `SlotPool` | 2 sessions, 2 calls, cap 1, clock 0..2, idle limit 1 |
| `gated_sessions` | manager and registry together: one decision per request, delivered (`OneDecision`); they implement `Sessions`, answers are obeyed, every call ends; module `MCGatedSessions` | 1 session, 2 calls of one risky command with a request each, 2 approvers, auto-decider, whitelist, cap 1, clock 0..1, idle limit 0 |
| `ops_job` | what results mean, which posts they come from, termination; module `LargeLog` | 3 attempts, 3 polls, 2 rounds of the log tool |
| `command_run` | exit code, output and cleanup with holes and duplicates; module `MCCommandOutput` | 2 posts, up to 6 parts of 2 bytes, 5 names, cap 4, window 2, every output of up to 2 bytes and 9 longer ones |
| `batch` | slots, counts, report, independence, termination | 3 tasks on 2 distinct hosts, cap 2 |
| `host_discovery` | freshness, no guessing, a search that belongs together; module `MCHostDiscovery` | 2 lookups (one the search's) used over and over, a page of 4 of 5 hosts, ttl 1, latency 1, clock 0..4 |

Why the bounds are enough for the cases that matter: two sessions and two calls
let a call lose its session, or an exemption appear between another call's
question and its answer; a cap of one or two with one more call than slots reaches the full house; in
`gated_sessions` two approvers, the auto-decider and a fired timer meet at one
request while the other call waits, is settled, takes the slot or asks for the
same pattern; three attempts have a first, a middle and a last one; two rounds have a last one that
finds the job still running. Parts of two bytes cut markers, exit codes and
characters. With the wrapper's marker an output longer than the cap of four bytes
has five parts or more: five are fetched and the output is truncated, inside a
character too, and six are more than there are names. Outputs longer than the
sniffing window and ones that print the marker themselves are among the nine. A
host listed twice collapses in the results while its tasks count. The page of a
search has hosts that are filtered out, skipped, changing and cut off, and the
second lookup fills and overwrites the cache between the search's own; the clock
runs past ttl + latency.

Clock bounds (`MaxTime`) stop time, never a call. `MaxParts`, `Posts`,
`Latency` and the finite sets of sessions and calls are the only other bounds.
`Latency` stands for the client's timeout of a GET; the freshness bound is
relative to it.

Symmetry is used in the safety run `sessions` only.

### Statements of the repository that the code does not keep

Five runs expect a counterexample; `PROJECT.json` quotes the statement.

| run | what happens |
|---|---|
| `sessions_discarded` | a command approved after its session was closed still runs in it |
| `sessions_logged` | a command whose runner raised is on no record, though it may have been executed |
| `ops_job_twice` | a repeated POST executes the command twice |
| `command_run_complete` | a missing part is reported as a complete ok output |
| `batch_in_flight` | a host that executes when the batch is cancelled is reported as succeeded |

The actions also reach the following, which are modelled as the code does them
and have no run of their own:

- a cancelled or failing caller leaves its request pending for ever
  (`Approval!Fail` keeps the registry entry);
- "queued" is an answer, not a queue (`Sessions!Dispatch`), so hosts of a batch
  beyond the cap fail instead of waiting (`Batch`);
- when the connection drops while a job runs, so that reading it fails for good,
  the caller is told `jumpserver_unreachable`; command-execution/spec.md:84-89 and
  errors.py:15-16 ask for `connection_interrupted`, which the code keeps for a
  spent poll budget (`OpsJob!GetFails`, `PollRefused`);
- a POST whose answer was lost, to the last attempt, is `jumpserver_unreachable`
  too, though the job may be running (`OpsJob!PostFails`);
- in whitelist mode a listed command that hits a tier-2 pattern waits for
  approval; security-controls/spec.md:235-237 lets it run
  (`SecurityPolicy!EvaluateWhitelist`);
- a caller's pre-approved pattern is looked for in the text of the tier-2 pattern
  that matched, not in the command, and its use is not logged, against
  security-controls/spec.md:178-180 (`SecurityPolicy!Preapproved`);
- a denial is returned as the output of a command
  (`CommandRun!DispatchWithoutMeta`), and, with a part missing, a marker that the
  command printed passes for its exit code (`CommandRun!ExitCodes`);
- the newline at the end of an output is dropped, the command's own, and an
  output that the cap cuts inside a character is decoded as something else than
  UTF-8 (`Output!Shorn`, `Output!Finalize`), against data-handling/spec.md:20-22
  ("returns it unchanged");
- Latin-1 takes every byte, so no output counts as binary because it could not
  be decoded (`Output!DecodeText`);
- the large-log tool reports `is_success: true` also of a job that has not
  finished, and of an answer without a task (`LargeLog!LogUnfinished`,
  `LogNoTask`);
- a search filters the page it got, so a page may come back shorter than its
  limit although more hosts match (`HostSearch!Listed`);
- hosts that wait for an approval or a lookup are dispatched after the batch was
  cancelled, against batch-operations/spec.md:103-105, and a host with several
  users counts as succeeded though nothing was executed (`Batch`);
- an account just shown by one discovery is refused by the other
  (`HostDiscovery!Resolve` on an older answer).

### Seeded defects

Every property of a passing run is known to fail on a plausible defect. These
stand in the modules under comments that begin `Seeded defect`, right before the
definition they would replace; no specification uses them.

## 4. Fairness

- `GatedSessions`: the event loop runs ready coroutines and fires due timers; the
  auto-decider is assumed to come back; lookups and the runner end, each by a
  timeout or budget of the code. Approvers owe nothing, and nothing is assumed of
  an approval wait: that it ends is what `EveryCallEnds` shows.
- `OpsJob`, `LargeLog`: each request of the client ends by an answer or by httpx's timeout,
  and sleeps end. The server owes nothing.
- `Batch`: the loop runs what is ready; each task's wait ends, as
  `GatedSessions` shows.

All are weak fairness: the steps stay enabled until taken.

## 5. Proofs

The TLA+ proof system checks the following for every value of the constants that
satisfies the named assumptions of the modules (`OpsJobAssumption`,
`BatchAssumption`, `CommandRunAssumption`, `HostDiscoveryAssumption`, ...). They
say what the constants are (numbers of attempts, lists of hosts, lists of
patterns, ids of accounts) and, where the model bounds something the code does
not, that the bound is large enough (`CommandOutputAssumption`). Each `...Proofs`
module states an inductive invariant, proves that it holds initially, that each
action preserves it, and what follows from it. Every safety invariant, action
property and refinement that a passing run checks is also the statement of a theorem;
`PROJECT.json` pairs them.

- **Approval.** `IInv` ties each request's decision to the verdict that
  `resolve()` accepted for it and to its event (`Carried`), and its place in the
  registry to its caller's control point (`Placed`). The safety properties alone
  are not inductive: that a timeout does not overrule an approver needs the
  event to be set exactly when a verdict was accepted. From it: the invariants
  of the run, `RefusalIsTruthful`, `DecisionIsFinal`, and the refinement of
  `OneDecision`, one lemma per way a request can change (`MapRequest`,
  `MapAnswer`, `MapResume`, `MapFail`).
- **Security policy.** `FirstMatch` returns a pattern at the least position that
  matches, and nothing exactly if none matches (`FirstMatchFinds`,
  `FirstMatchType`); the least position comes from the well-foundedness of <.
  From this `EvaluateDecides`, one statement of what `evaluate()` decides for any
  lists. `FloorHolds` adds that every way to load a configuration keeps the
  built-in floor as the beginning of the tier-1 list; `ApprovalIsNarrow` that an
  exemption can change the verdict of a command only through its first risky
  pattern (`ExemptionIsNarrow`).
- **Sessions.** `IInv` says what a call holds by where its coroutine stands
  (`CallStands`), what a waiting call waits for (`CallWaits`: the policy let it
  pass so far, and its pattern is the first risky one), and that the counter is
  the number of calls that hold a slot (`SlotsAccounted`). Every step is one of
  four moves on the slots (`SlotMoves`: taken, refused, a call leaves, nothing),
  which gives both the counter and the refinement of `SlotPool`. On top of `IInv`
  stand separate layers, each inductive with the ones below it: `Trails` (the
  exact records of a call by its control point and decision), `ExemptionsEarned`, then `AllCleared` (what runs or has run
  passed the policy of its session; it needs that approvals are never taken back,
  `ApprovalsGrow`; from it `OnlyClearedCommandsRun`), `Obeyed` (what a call does
  after its decision; from it and `Trails`, `AuditAgrees`), and `OneShotClosed`.
  `SessionLifecycle` follows from `IInv` action by action.
- **GatedSessions** (in `ApprovalProofs`). Every joint step is a step of the
  registry (`GatedSteps`), so `IInv` of `Approval` holds; with it, the same
  lemmas that map the registry to `OneDecision` map a joint step to a step of
  `Sessions` (`AsksMap`, `AnswersMap`, `ReturnsMap`). `ReturnsMap` is where it
  matters that the manager reads the request's state after its wait. Hence
  `GatedRefinement`, and with it all that is proved of `Sessions`
  (`GatedKeepsManager`), taken from an instance of `SessionsProofs`
  (`GatedManager`). `AnswerIsObeyed` and `RiskIsAnswered` join the layers: the
  accepted answer and the request's state (`Carried`, `Placed`), the state and
  the manager's decision (`RequestOutcome`), the decision and the call (`Trails`,
  `Obeyed`), the call and the policy (`AllCleared`). No invariant of the
  composition is needed beyond those of its parts.
- **OpsJob.** `IInv` says what may be on the wire or at the server per attempt
  (`Posted`), what the last answer proves about the server (`LastReply`), and
  which task is followed (`Followed`). From it the refinement of `JobRun`: a
  result is the last post's because a known task is never posted again; and
  `ResultIsHonest`, which leaves open what is said of a job whose reading failed.
  `ToolsIInv` adds the large-log tool's own control points (`Logged`): its report
  is honest, and a call of either tool refines `JobRun`, where the large-log
  tool's post begins a run and ends it as a failure, never with a result.
- **CommandRun.** `IInv` says what the host can have done by each control point,
  given `JobRun` (`Hosted`), and how many jobs and pieces that took (`Fetched`).
  With the bytes: `CommandOutput` refines `CommandRun` step by step
  (`OutputRefinesRun`), what is staged and announced are the parts of the
  command's stream (`StreamKnown`), and the parts of any stream, joined, are the
  stream (`PartsJoin`). Hence `OutputSurvives`, by following the stream through
  the marker search, the cap, the newline (the statement allows that one is
  missing) and the decoders, and `DecodeAgrees`.
  The join is a recursive function, and the library's induction theorems take an
  operator that the provers here cannot instantiate; the induction is done on the
  least element of the set of numbers at which a statement fails (`Induct`).
- **Batch.** `IInv` relates results, tasks and the phase (`Recorded`, `Phases`,
  `Dispatched`). Counting uses the library's cardinality theorems. The number of
  distinct hosts is the sum of the four counts because the statuses partition
  the hosts. The refinement of `SlotPool` uses `Phases` (nothing holds a slot
  before the tasks are launched) and treats every way a task can end as one
  departure, a cancellation as the departure of all of them at once.
- **HostDiscovery.** `IInv` bounds how late a lookup can be (`InTime`) and says
  that what lookups and entries hold was read from JumpServer, and when
  (`Answered`, `Cached`). Freshness follows in two steps: an entry expires at
  most ttl + latency after its answer was read, whatever it overwrote.
  `NeverGuesses` is a fact about `resolve()` alone (`ResolveIsExact`), applied to
  what `Answered` says a lookup holds.
- **HostSearch.** A search is one more caller of the lookups
  (`SearchRefinesLookups`), so what holds of them holds while it searches. Its own
  invariant `Search` says what its lookup is for at each step (`Purpose`), that
  the accounts found belong to the places before the present one (`Collection`),
  and how old each part can be by the number of requests since (`Aged`): at most
  ttl + latency when it is collected, one latency more per request, and none for
  a host without accounts. `SearchIsSound` is `Search` where the loop ends. The
  sum of the latencies is what makes the bound grow with the page; a bound of
  ttl + latency for the whole result would be false.

Only model-checked, because the prover handles neither fairness nor ENABLED, are
the liveness properties: `EveryCallEnds` (`GatedSessions`), `RunEnds` (`OpsJob`)
and `BatchSettles` (`Batch`). No module declares a RECURSIVE operator.

Some invariants are proved and not among the runs' properties, since a theorem
for every instance leaves a run little to add: `ReturnedIsSettled`,
`RefusalIsTruthful` and `DecisionIsFinal` (`Approval`), `DuplicatesAreRetries` and
`KnownTaskIsNotRepeated` (`OpsJob`), `OutputIsInOrder` and `JobsPerRun`
(`CommandRun`), `CapHolds` (`Batch`), `AnswersItsOwnKey` (`HostDiscovery`),
`SlotsAccounted` (`Sessions`).

## 6. Not modelled

- `server.py` beside the large-log tool: start-up, request signing, the
  conversion of an OpenAPI schema to tools, one-shot pass-through calls and the
  API key check keep no state beyond a request.
- `readonly_tools.py`: argument checks, a command template and a line parser,
  functions on strings. The regular expressions of the policy, base64 and JSON
  as such.
- Which of the decoders for other encodings takes a text (`_try_chardet`, GBK,
  Big5, ...): library code, one outcome here. `annotate_truncation()` and
  `clear_cache()` have no caller.
- SQLite below `AuditStore.record()`, and `recent()`.
- The single host filters (a predicate in `HostSearch`), the host summaries and
  `get_host()`, one uncached GET.
- In `Batch`, an empty host list, which raises before any state exists.
- `tools.py` beside `discover_hosts`: each tool is one call of a modelled
  component and its formatting.

## 7. Plan

Done: `Approval` with its abstract specification, `SecurityPolicy` and
`PolicySession`, `Sessions`, `GatedSessions`, `OpsJob`, `CommandRun`, `Batch`,
`HostDiscovery`; the contracts `SlotPool` and `JobRun` on which they compose; the bytes of an
output, the search, the large-log tool; and the proofs of section 5.

Next module: `SlotsAndJobs`, composing `Sessions`' slots with `OpsJob`'s server:
jobs that outlive their run (cancelled, interrupted, duplicated) against the cap
that `config.py` states of in-flight ops jobs.

Next theorems: what `SlotsAndJobs` can still say of the jobs in flight.
