# A TLA+ model of JarvisCore's durable execution

JarvisCore runs goals as graphs of steps over a mesh of nodes that share a
Redis store. This directory models the part of it that decides who runs what
and when: how goals are submitted, by callers and by schedules, and planned once;
the records of a workflow and the calls that change them, the nodes that work a
workflow off, the engine that runs one in its own process, the pool of instances of an agent on a node, the requests agents
make of each other, the actions that wait for a person, the model calls
that share a provider's slots and a budget of tokens, and the rooms in which
people and agents change files together.

## The system's parts

Paths are under `src/jarviscore/`.

| Part | State | Operations | Hard behaviour |
|---|---|---|---|
| Step ledger (`storage/redis_store.py`) | step records, claim locks with a TTL, obligation projection, plan revision, settlements, tombstone, active index | publish, claim, renew, recover, finish, continue, resume, block, requeue, amend, settle, cancel | every call comes from any node at any time; leases run out; two calls read and write without a transaction |
| Distributed workers (`core/mesh.py`) | dispatcher per agent, executor per claim, waiting callers | scan, claim, execute, heartbeat, release dependents, close, replan | stale scans, crashes between two calls, executors that outlive their lease |
| Agent pool (`core/pool.py`, `core/mesh.py`) | members, idle members, members being set up, waiters | lease, release, grow, warm, retire | awaits between check and use, cancelled waiters, nested leases, failing setups |
| Capability needs (`storage/redis_store.py`) | mandates, locks, index of workflows | publish, claim, renew, fulfil, fail, recover, cancel | index removed behind a concurrent publication |
| Goal lifecycle (`core/mesh.py`, `planning/`) | goal records, planning status and lease | submit, claim planning, publish, fail, replan | a planning lease that runs out during a model call |
| Budgets (`storage/redis_store.py`, `orchestration/budget.py`, `auth/spending.py`) | usage, reservations with leases | reserve, settle, release | reservations that outlive their lease, concurrent reservations at the limit |
| Model calls (`execution/llm.py`) | a call's reservations and slot | reserve, charge, admit, send, retry, settle, release | cancelled at any await, with a slot or tokens in hand |
| Human decisions (`kernel/approval.py`, `storage/redis_store.py`, `hitl/`, `kernel/hitl.py`) | requests, decisions, execution marks, outcomes | ask, decide, reopen, claim execution, settle, reconcile | competing answers, a crash between claim and settlement, requests replaced while somebody decides |
| Provider governor (`execution/governor.py`) | calls in flight, adaptive limit, waiters | admit, release, give back | slots handed over between event loops while waiters are cancelled |
| Workflow engine (`orchestration/engine.py`) | processed, failed, waiting and running steps of one run, the results in memory, a checkpoint | execute, launch, wait for a remote node, record, resume | crashes between the records it writes one by one; shares them with the workers, without claims |
| Schedules (`orchestration/schedules.py`) | schedules, due times | add, cancel, claim, fire | two nodes at one due moment |
| Rooms (`room/room.py`, `room/work.py`) | versions of the files, proposals, lines of work, work under way | propose, revise, accept, reject, release, ask, finish, resume | competing versions, merges that race, a lease a slow call outlives, work finished by another process |
| Leases (`storage/redis_store.py`) | holder and expiry of each name | take, release | held by a room's calls across awaits, never renewed |
| Peers, kernel, memory, credentials, browser, sandboxes, evidence, command line | their own | their own | see `PROJECT.json` |

The parts meet in the store. The workers call the ledger for everything they
do; a pool hands the workers members to run steps with; callers, people and
planners call the ledger through the mesh. Correctness means: work is done by
one executor at a time and its result is written once; two steps that act on
one external system never overlap; a cancellation is final; an amended plan is
judged by its own results; work that can be done is done; an instance never
runs two pieces of work and is never lost; a goal is planned or fails, and an
occurrence of a schedule starts it once; a call that is over holds neither a
slot nor tokens, and limits hold; of the versions of one piece of work one
lands, and no accepted change is lost.

## Modules

| Module | What it is |
|---|---|
| `StepLedger` | the store's calls on one workflow, each a step; the state is the record, lock, lease, output, obligation attempts, revision, settlements, tombstone and index |
| `ExclusiveWork` | what the ledger promises, in pieces of work that are offered, running, paused and ended: one writer on a system, and what ended stays ended; `StepLedger` implements it (`WorkIsExclusive`) |
| `StepLedgerProofs` | the ledger's inductive invariant and theorems, and those of the nodes that work on it |
| `StepWorkers` | extends `StepLedger` with dispatchers, executors, a waiting caller, a replanning caller and crashes; splits the two calls that are no transactions |
| `WorkflowEngine` | extends `StepLedger` with one process that runs the workflow, its tasks, its checkpoint and its crashes |
| `WorkflowEngineProofs` | its inductive invariants and theorems |
| `AgentPool` | one pool and its dispatcher on one event loop |
| `AgentPoolProofs` | its inductive invariant and theorems |
| `CapabilityNeeds` | the mandates of one workflow between requesters and peers |
| `CapabilityNeedsProofs` | its inductive invariant and theorems |
| `HumanDecision` | one consequential action of a step: its record, the runs that propose and perform it, and the people who decide and reconcile it |
| `HumanDecisionProofs` | its inductive invariants and theorems |
| `ProviderGovernor` | the slots of one deployment in one process: two lanes, a queue, an adaptive limit, slots handed from one event loop to another |
| `TokenBudget` | the reservations of calls with a workflow's epoch and with a person |
| `CallSet` | the set of calls those two share |
| `ModelCalls` | extends both: the life of a call between its reservation and its settlement |
| `ModelCallsProofs` | the inductive invariants and theorems of the governor and of the budgets, that `ModelCalls` implements both, so that these hold of it, and what a call leaves behind |
| `GoalPlanning` | goals between submission and their first plan: callers, planner workers, the planning lease and the index of pending goals |
| `Schedules` | extends it with the book of schedules and the scheduler of each node, which submit goals |
| `SchedulesProofs` | the inductive invariant and theorems of both |
| `Room` | the files of one room, their proposals and the work asked of the agents, with the leases that calls of `accept` and `finish` take |
| `RoomProofs` | its inductive invariant and theorems |
| `MCRoom`, `MCStepLedger`, `MCStepWorkers`, `MCAgentPool`, `MCCapabilityNeeds`, `MCHumanDecision`, `MCModelCalls`, `MCSchedules`, `MCWorkflowEngine` | the instances that are checked |

`MutantX`, beside an operator `X`, is `X` with a bug that a property must detect;
no specification uses it.

**StepLedger.** A call that retries on `WatchError` until its transaction goes
through is one step, which is what WATCH/MULTI gives. `step[s]` keeps the
fields of a record that a later call reads: `status`, `claim_id`,
`completed_by`, `resume_agent_id`, `execution_epochs` and `blocked_by`. The
locks' expiry is a step of its own (`Tick`) that any number of calls may
follow, so an executor may be arbitrarily slow. `claim_expires_at` is not
kept: it is written together with the lock, and the call that recovers a
claim looks at the lock. Steps of all revisions are constants; a revision's
steps are in the graph from the amendment that publishes them.
An interpretation is reduced to a verdict and a finding for each obligation
the step covers. The final-response rules are there: it reads evidence of
steps that did not succeed, waits for open semantic gaps to be settled, and is
reopened when a step it describes resumes. The settlement of a response's gaps
is judged by a model in between, so deciding it and saving it are two steps
(`DecideSettlement`, `SaveSettlement`); any number may be on their way.

**StepWorkers.** A dispatcher goes through `visit[a].at`, one phase per round
trip to the store: recover or requeue, read again, look for blockers, block,
claim. It scans in a thread, so it interleaves with the executors of its own
node, while claims, commits and the release of dependents run on the node's
event loop and exclude each other (`LoopFree`). `requeue_blocked_step`
reads the record, then the dependencies, and then writes; `block_step` reads in
one step and writes in another; everything else is a step of `StepLedger`. The
dependencies are read one after another in the code and together here. An executor that finds its step pending claims it again, as
the code does. `Crash` loses a node's dispatcher and executors and nothing
else, since the rest is in Redis. What comes back depends on the agent's id: one
that is configured (`Named`) is the same after a restart, and its dispatcher
starts over; one that is not gets a generated id (`core/agent.py:83`), so the old
one is gone for good (`"gone"`) and the new process would be another agent.
`Mortal` are the agents whose node may die.

**WorkflowEngine.** One process works a workflow off; the ledger's calls of
other nodes go on beside it, as steps of `StepLedger`. `phase` is where the
loop is: it records the tasks that ended (`Record`, then `SaveOutput`), decides
what may start (`Decide`), starts it step by step (`Launch`), saves its
checkpoint (`Persist`), looks for a deadlock (`Detect`) and waits (`Turn`).
Tasks advance while it waits (phase `pace`), because the loop awaits nothing
else. The engine writes statuses whatever they are and takes no lock
(`WriteStatus`). A step without a local agent is put back to pending for the
dispatchers of other nodes (`Handover`) and polled for (`Poll`, `TimeOut`). The
poll classifies the output's own status, which may differ from the record's (the
agent wrote "completed" instead of "success", or the output was too large and
was replaced by a note that says so), so a completed step may count as failed;
of the engine's own outputs the replacement is left out (`SaveOutput`).
`saved` is the checkpoint: how steps ended, and which ran; `memory` says whose
results the process can hand to a dependent. `ProcessDies` loses everything but
the store. The reads of one decision, of a step's dependencies one after another,
are one step; so are those of one poll, and the read and the write of
`update_step_status`, between which another node's write would be undone. Left out: amendments and cancellations
of the workflow, workflows without a store, plans with cycles (the constants
exclude them), and two engines on one workflow. An output is `NoClaim` as long
as none is saved; `Engine` stands for the engine as its author.

**AgentPool.** Everything runs on one event loop, so a step is what happens
between two awaits: a member's setup and teardown, a waiter's future, and the
dispatcher's scans. Chains are call chains that hold members while they ask
for more. A future that is resolved is not yet received (`given`), and
cancelling its task then gives the member on. The store may raise when the
dispatcher claims for a member it leased (`Grown`, `Dispatch`); the dispatcher
catches that and goes on, and nobody gives the member back. Such a chain is
"lost", and keeps its member; `MaxRaises` bounds how often.

**CapabilityNeeds.** `status[n]`, `claim[n]` and `lock[n]` are a mandate's
record and lock; `asker[n]` is how far `request_capability` is with it,
`visit[a][n]` how far a scan of `a`'s dispatcher is, and `job[c]` what a claim's
executor works on. A scan of all mandates is one visit per mandate, which
allows every order of the calls a scan makes. An agent's own calls block its
event loop (`LoopFree`), so only other agents and its scanning thread get
between the end of a mandate and the look at the index (`SweepLook`,
`SweepRemove`). `Publish` does not look at the tombstone and `Fulfil` does not
either, as in the code. A workflow's mandates interact with its steps only by
`cancel_workflow`, whose other half is `StepLedger`'s `Cancel`, so the two
modules are checked apart.

**HumanDecision.** `file` is the hash of the action's request, field by field;
it equals `NoFile` when Redis has no such key. `run[r].at` names the next call
a run of the step makes, and each action makes at most one, so that a run may
die, or be overtaken, between the deletion and the writing of a request
(`AskDelete`, `AskWrite`, `AskList`), between the two calls of
`reopen_hitl_action`, and between the outcome and the end of the claim
(`Settle`, `Release`). `claim_hitl_execution` and `_close_hitl` are
transactions and thus one step. A run may start at any time: after a pause,
after a crash, or beside a run that has outlived its lease. `kernel` never
changes; `early` marks a run that acts on earlier decisions before its first
turn, which goes on to that turn when a person is needed, while a turn pauses
the step (`Pauses`). The browser and the coder kernels differ in what they do before and
after they act (`Apply`, `Prior`, `Save`, `BreakOff`) and in what they require
of an approver (`Accepts`). A form is what `HITLAction.binding` covers. The
action is one that needs a person under every policy; the preview that may
refuse it before anybody is asked, and the text of what a run reports, are left
out, and so is a record's TTL. Whether a person is truthful does not matter:
`reconcile` believes what it is told. `leaves`, `approved` and `overlapped` are
history: how often each form may still be performed, the forms somebody
approved, and whether a run or a reconciliation began during another.

**ProviderGovernor, TokenBudget, ModelCalls.** Each governor step is what
happens under its lock, or between two awaits of a call. `slot[c]` says where
a slot is: on its way to a waiter's loop (`handed`, or `refused` if its task was
cancelled meanwhile), delivered, held until the rate window admits the call,
sent. `ahead` is the order of the queue as a relation, because a call leaves it
from anywhere. `raise_to` reads and writes the limit in two steps. The 60 second
window of requests and tokens only delays a call and is one step (`Resume`,
`Send`). A reservation counts while its lease holds; the next reservation
removes (`Pruned`) those that lapsed, and settling a removed one changes
nothing. A call uses no more tokens than it reserved, which is what the reserve
is an estimate for; what it overruns is outside the bound. `spent`, `uncounted`
and `late` are history. A call makes one step of `ModelCalls` between two
awaits; `attempts` counts rate limits against `llm_max_retries_429`; any other
error and a cancellation take the path that releases. One provider, one
period, and calls that are each made once; the semaphore of
`LLM_MAX_CONCURRENT`, the clipping to a workflow's headroom, and caps in USD are
left out. `execution/decisions.py` reserves and settles the same way.

**GoalPlanning, Schedules.** A planner worker reads the index of pending goals
and works through that list (`todo`), so it may hold a goal that was planned or
failed since. `planner[n].at` names its next call of the store: it reads the
definition, takes the lease, writes the status, compiles, publishes or records
a failure in two calls, and gives the lease back. `plan[g]` is who made the
plan, a node or a caller whose template is the plan. A caller submits, reads,
and polls status and definition in turn; it may give up, time out or be
cancelled (`CancelCaller`), which cancels a workflow only if there is a graph.
Nodes drain, stop and crash. `lapsed` is history: the lease ran out, or a
cancellation took it. A schedule has a due time, an interval, or neither if it
is a trigger; time passes in units of the interval. A scheduler lists what is
due (`Poll`), takes one schedule after another out of the book in a transaction
that compares with the time of its list (`ClaimDue`), and then submits a goal
for each (`Fire`), which a draining node refuses, ending the pass. The goal is
named for its occurrence, a schedule and its moment or an event's id. A node is
at one pass or one delivery at a time, and an id names one schedule ever.
A firing that wakes a waiting step is `StepLedger`'s `Resume` and is left out
here. What becomes of a plan is `StepLedger`; the two modules meet in the
publication and are checked apart.

**Room.** The text of a file is the set of the edits it holds, so a lost edit
is a missing member; the original is one of them, and a file that does not
exist holds none. `versions` are the manifests, `proposals[p].line` is what
`lineage` walks to: the proposal, what it revises, and so on. `revises` is
fixed when a proposal is filed, so the chain is kept instead of walked.
`room_transition`, a WATCH/MULTI transaction, is one step, which compares the
head and the proposal's status. Everything `accept` awaits may be overtaken: it reads the
head (`ReadHead`), merges, and tries the transition (`Land`, `Conflict`,
`TransitionFails`), and afterwards closes what was replaced, proposal by
proposal. Taking the lease and the look at `overtaken_by` are one step, since
nothing is awaited between; the last call of a routine and its `finally`
likewise. Two edits of one text may merge or conflict: which, is the text's.
`finishers` are processes that follow work: the one that asked, or one that
resumed the room after a restart. `outlived` is history.

## Runs

| Run | Checks | Result |
|---|---|---|
| `amended_purchase` | types, fencing, cancellation, completed steps, one writer on a system, that replaced attempts settle nothing, and the refinement of `ExclusiveWork`; 3 steps in 2 revisions, 2 agents, lease of 1, 2 epochs | holds |
| `answered_and_replanned` | responses composed while a person answers, cancellation against unfenced blocking and requeueing, and a planned amendment; 4 steps in 2 revisions, 1 node, 1 claim, 1 epoch | holds |
| `no_step_stays_idle` | liveness of dispatching and recovery; 2 agents with generated ids and a member each, one of which may die for good; 2 steps | holds |
| `nested_leases` | the pool's safety and liveness while chains hold members and ask for more, with warmed members and failing setups; 2 chains of depth 2, at least 2 and at most 3 members, a store that raises once | holds |
| `capability_needs` | fencing of claims, late answers, timeouts, cancellation; 2 mandates, 2 agents, 3 claims, lease of 2, a crash | holds |
| `decided_actions` | nothing unapproved, one performance for each approval or release; 2 runs at once, 2 forms, a person, both kernels | holds |
| `model_calls` | slots and tokens accounted for, limits, nothing left behind, every call ends; 3 calls of which one is bulk, at most 2 slots, one retry, 2 disturbances | holds |
| `scheduled_goals` | occurrences taken once, cancelled schedules stay away, planners exclude each other, no pending goal forgotten, every one planned or failed; 2 nodes, a caller, a schedule, an event, 1 disturbance | holds |
| `engine_run` | types, checkpoints and results agree, an ended step is not started again, every run ends; 4 steps, of which other nodes run one, 2 starts, crashes | holds |
| `room_decisions` | types, merged acceptances lose nothing, one version of a line lands, work is finished once, every decision stays; a work and two drafts over two files, 2 calls of `accept`, 2 processes, a death or a lapse | holds |
| `completed_again` | `p2p.md`: a completed step is not claimed again | fails: a stale requeue |
| `unknown_outcome` | `approval.py`: a claim with no outcome is reconciled, never retried blindly | fails: the record is replaced or settled by the next run |

`PROJECT.json` quotes the line of the repository behind each of the failures.

The types of the pool, the mandates, the decisions and the schedules are
proved below and not checked again by their runs.

The models also show, without a run of its own:

- a caller that waits on another node may see everything ended between a commit
  and the release of its dependents, and then closes the workflow while a step
  the commit unblocked has yet to run, against `_release_dependents`, where
  the release is there so that it cannot (`Commit`, `ReleaseRead`, `Watch`);
- the stale requeue of `completed_again` can as well turn a running step back
  to pending, and a second writer on its system is then claimed beside it;
- `claim_step` does not look at `resume_agent_id`, so a dispatcher that listed
  a step while it was fresh can claim it after another agent paused it;
- a step that was paused or continued is kept for the `agent_id` that ran it
  (`mesh.py:2201`). If that id was generated and its process is dead, every scan
  of an agent that could run the step passes it by, and it stays pending until
  somebody cancels the workflow (`Crash`, `Resume`, `ForAgent`). `NoStepStaysIdle` names the
  exception; without it the run finds such a step;
- with two nodes the stale block does the same to a step that waits: a node
  that read it while it was pending writes it back as blocked after another
  node ran it and it paused for a person. A response that read it as waiting
  may then commit over a step that will run again (`VisitBlock`,
  `VisitOverwrite`), so `answered_and_replanned` has one node; with more
  the property is proved where no record is written back late;
- a response may run while work it reads is waiting or blocked, and that work
  may run on after it (`Resume` reopens the responses it finds composed);
- an amendment, unlike a publication, counts a final response that covers an
  obligation among the obligation's attempts (`Amend`, `Init`);
- warming compares `min` with the members that exist, not with those being set
  up, so a pool can come to have up to `min - 1` members more than `max`, which is
  what `WithinMax` allows;
- a chain that holds every member and asks for one while another is being set
  up is queued, not told, and waits on itself if that setup fails
  (`WaitsOnItself`), against `guides/production.md`, where "the call raises";
- `fulfill_capability_need` and `fail_capability_need` take the workflow off
  the index in a call of their own, so a mandate published in between is open
  but never found, and its request times out (`SweepLook`, `SweepRemove`);
- `claim_capability_need` does not read the tombstone: a dispatcher that
  checked it before a cancellation claims a mandate published after it;
- a request whose task is cancelled leaves its mandate open for peers to answer
  (`Abandon`), and one that times out reports so even if the mandate was
  fulfilled since its last poll (`TimeOut`, `GiveUp`);
- the dispatcher asks the pool once which members to retire, and awaits the
  teardown of each, so a later one may be at work when it is retired, against
  `pool.py`, where "an idle member above ``min`` is retired" (`PickRetiring`,
  `Retire`);
- a member whose claim raises is never given back: the dispatcher logs the error
  (`mesh.py:2288`), and the chains that the pool has no other member for wait for
  good (`Dispatch`, "lost");
- a member that is retired at its work is never handed on, so a chain that
  waited for it may be left holding every other member (`Retire`, `GiveBack`);
- a run that is only slow looks like one that stopped: when a person frees its
  action (`reconcile`, `performed=False`) another run performs it too, and when
  its request is replaced and approved anew as well, against
  `guides/hitl.md`, where "The action runs at most once"; this is why
  `OncePerLeave` speaks of runs that follow one another;
- a person who settles an unknown outcome may take the claim off a later one:
  the second call of `settle_hitl_action` finds what then bears that key;
- a decision recorded between the two calls of `reopen_hitl_action` is wiped,
  and the request is then resolved with no decision for ever (`ReopenClear`);
- an approval is recorded for the form on record when it is written, which
  another run may have put there after the person looked (`Hear`, `Decide`);
- a request whose run died before it was indexed is found by no `resolve_hitl`,
  and later runs wait for it (`AskWrite`, `AskList`);
- a replan takes its targets before its model call, and `amend_workflow` is
  fenced by the revision only, so an obligation that was satisfied meanwhile is
  open again, against `docs/reference/agent-api.md`, where satisfied obligations
  are preserved (`Plan`, `Amend`);
- the workers look at a goal's definition before they take the planning lease,
  and the lease is not renewed during a compilation: two planners may plan one
  goal, and `publish_workflow` then replaces the plan a caller already follows,
  against `docs/concepts/contracts.md`, where "The source objective and
  obligation IDs are immutable" (`Look`, `Claim`, `Publish`); neither a crash nor
  a lapsed lease is needed;
- for the same reason a planner may plan a goal again after its failure was
  recorded and its caller told; if its node then dies, the goal stays
  "planning", outside the index, and a new caller waits for ever
  (`NoGoalIsForgotten` says when); and a late "failed" may stand beside a plan
  (`FailStatus`);
- a goal that is cancelled before it is planned is planned and run
  all the same: `cancel_workflow` returns when there is no graph, against
  `docs/guides/goal-execution.md`, where a cancelled caller's work is cancelled
  (`CancelCaller`);
- a node that drains, stops or dies between taking occurrences out of the book
  and submitting their goals loses them (`Fire`, `Stop`, `Crash`); a draining
  node still plans pending goals (`Scan`);
- a reservation that outlived its lease and was removed by a later one is
  settled without effect, so its tokens count for no limit (`SettleTokens`); this
  is why `BudgetHolds`, a part of `AccountsHold`, has `uncounted`;
- a call of `accept` that takes longer than its lease of 60 seconds, which nobody
  renews, does not look again at its line: two versions land, against
  `guides/rooms.md`, where "Only one version of a line of work (a proposal and
  its revisions) lands" (`LapseHeld`, `Unmoved`); `OneVersionLands` names the
  exception;
- work that looked at its line before the winner landed files after it: the
  sweep has missed the proposal, which stays open and can never be accepted
  (`StartFinish`, `File`);
- a process that stops waiting notes "ask.failed" while another finishes the
  same work: it may then be failed, finished and filed as a proposal, against
  `ask`, which stops it "rather than let it change things later" (`TimeOut`,
  `NoteFailed`, `File`);
- `finish` is called outside the `try` of `ask`, so when agents disagree about a
  file nothing is noted and the work never ends, against `room/agent.py`, where
  "The room recorded ask.failed with the reason" (`Disagree`);
- accepting a proposal that is itself a revision also cancels running work that
  revises it, not only what revises its losers (`StopWork`);
- an engine that dies after it recorded a completion and before its next
  checkpoint runs the step again when it resumes, against
  `docs/guides/autoagent.md`, where "completed steps are not re-run"; and it
  starts the step's dependents beside it, with nothing for its result, since
  they read the status in the store (`Record`, `Resumed`, `DepsMet`). The same page
  says a dependency map is built "from every step listed in `depends_on`". A
  dependent of a step another node completed is started without its result in
  the same way, if the engine decides before it polled for that step;
- a checkpoint in which every step ended, also one whose steps wait for a
  person, makes the next `execute` publish and run everything anew
  (`IsComplete`, `PublishAgain`);
- the dependents of a step that waits for a person are failed as a deadlock
  (`Stuck`), and their failure is not written to the store;
- a step another node runs and pauses for a person is polled until its time
  runs out and its status then overwritten as failed, so the answer finds no
  waiting step, against `docs/guides/hitl.md` (`TimeOut`, `Record`);
- a step the engine runs is in progress without a lock, which is what a
  dispatcher takes for an expired claim: it recovers and runs the step too
  (`Launch`, `Recover`); and a remote step completed between its launch and
  `Handover` is put back to pending and run once more.

**Bounds.** `MaxEpochs` is the code's own budget. `LeaseTicks`, the length of
a lease, is 1 or 2: one tick is enough for a lease to run out at any moment,
two for it to be renewed in time. Two steps on one system make a conflict, a
chain of two steps and a response make every dependency rule apply, and two
revisions one amendment. Two agents suffice for everything that happens
between a stale reader and a writer. In `no_step_stays_idle` the agent that
may die can only order and the other does both, so that a step may lose every
agent that could take it, or be found by the other one.
In the runs that fail the smallest instance that shows the failure is
kept. `answered_and_replanned` puts a response, an answer and an amendment together
and therefore has one node that does not die; crashes, a lost lease and a second
agent are in the other runs of its modules. For the engine, four steps make a chain with a remote
and a local branch that meet in a report; two starts are a run and the one that
resumes or repeats it, and a crash may happen at any moment of either; one claim
of another node suffices, since the engine competes with any.
In the pool, two chains that each hold a member and ask for a second one
wait for each other's; one failed claim (`MaxRaises`) loses one member; with at least two and at most three members, growing,
warming and retiring all happen, and so does one member too many.
For calls, one slot can become two and one again, so that a queue of both lanes
forms, hands over and is overtaken by a raise; epoch and cap admit the
reservations of some calls and refuse others. `MaxTroubles` bounds rate limits,
lapses, new periods and crashes there, and drains, crashes, lost leases and callers that
give up in `scheduled_goals`. In the latter, `MaxTime = 1` makes two occurrences of
an interval and `MaxGoals = 1` lets one of the goals be registered, be it the caller's, an
occurrence's or an event's: the occurrences themselves are taken in any number,
and goals do not share state.
In a room, two drafts and a work make two competing versions of a line, a
revision of a revision, and a merge; two deciders race; `AcceptAttempts` is 2
instead of 20, which leaves one retry; one trouble is a process that dies or a
lease that runs out under a live one. Drafts, deciders and processes are
symmetric; no liveness is checked there.
For mandates, two agents that ask each other and two claims of one of them
make a late answer, a takeover, and an end beside a publication.
For decisions, two runs are a late one and its successor, two forms are the
approved one and another, and one person may both approve and decline, or be
slow; `MaxLeaves` bounds how often a person frees an action that was not
performed.
The instances of `StepWorkers` differ in what they leave out so that each
stays small: the run about cancellation has no second revision, and so on.
Deadlock is not checked for workflows, which end.

**Fairness.** `FairWorkersSpec`: the dispatcher polls for ever and every scan
looks at every step (strong fairness of each look, because whether a step is
worth a look changes), every visit goes on, an executor's work ends because
budgets end it, and leases run out. Of a node that dies it is assumed only that
an agent whose id is configured comes back and scans again, as a supervised process
does; in the run no id is, so nothing comes back, and what is left
rests on the other node. Nothing is assumed of the caller or of people. `FairSpec` of the pool: setups end, resolved futures wake
their tasks, and each chain releases what it holds again and again
(strong fairness, because it may lease more in between); the pool is larger
than what the chains hold while both wait, or one does and the other was lost, without which they could wait for
each other for ever. `FairEngineSpec`: the loop goes on, because nothing in it
blocks but its own wait; an agent's run ends within the kernel's budgets and a
poll within the step's timeout, each while the loop waits (strong fairness,
because it leaves and enters the wait again and again); nothing is assumed of
other nodes, of people, of crashes or of further starts. `FairSpec` of
`ModelCalls`: as long as some call can go on, some call does, since a provider
answers or the request times out, the window makes room and Redis answers;
nothing is assumed of cancellations. `FairSpec` of `Schedules`: planner workers go
on, a compilation ends because the model call does, and leases run out; nothing
is assumed of callers, schedulers, drains and crashes, and the property excuses
a system in which no node is up.

## Theorems

`StepLedgerProofs` proves, for every plan with acyclic dependencies, every set
of agents and claims, and every lease and epoch bound:

- `TypeCorrect`: the type invariant;
- `LocksFence`: `HolderIsRunning`;
- `WritersExclude`: `OneWriterPerSystem`;
- `CancellationFences`: `CancelledIsFenced`;
- `CompletedDomainStepsStay`: `CompletedStays`;
- `ReplacedAttemptsDoNotCount`: `NewestAttemptsCount`;
- `LedgerIsExclusive`: `WorkIsExclusive`, the refinement of `ExclusiveWork`.

The argument is the inductive invariant `Inv`. To `TypeOK` and the three
invariants it adds that a step outside the graph neither runs nor waits
(`EngagedArePublished`), since otherwise an amendment could publish a step that
is running already. All but `CancelledIsFenced` is `WorkInvariant`, which is
inductive under `OrderlyCall`: the calls of the store, and any write of a pending or
blocked record over a pending or blocked one (`TimelyWrite`), of which `Block`
and `Requeue` are cases. So the same lemmas serve the nodes. `StatusStep` lists
every change of status a call can make; the exclusion of writers needs only
that a step enters `in_progress` by a claim, which looks for other writers,
and `waiting` from `in_progress`. `HolderIsRunning` is what makes the fence
sound: finishing does not look at the status, so it must follow from the lock.
The assumptions are the named ones of `StepLedger`: the plan's constants have
their types, dependencies are acyclic and never on a later revision, claim ids
name agents.

`ReplacedAttemptsDoNotCount` needs no strengthening beyond types: an amendment
replaces the attempts of the obligations its steps cover in the transaction
that publishes them, and a commit only changes attempts that still count.

`AgentPoolProofs` proves, for every set of instances, finite set of chains,
and every `min`, `max` and depth of nesting:

- `PoolTypeCorrect`: the type invariant;
- `OneWorkEach`: `OneWorkPerMember`;
- `NoneIsLost`: `NoMemberIsLost`;
- `NoneWaitsForIdle`: `NobodyWaitsForIdle`;
- `LimitHolds`: `WithinMax`.

None of the four invariants is inductive by itself. `Inv` adds that a chain in
the queue is waiting and is there once (else `release` could resolve a future
twice and overwrite a member), that a future is resolved exactly when its chain
has yet to receive (so that a cancelled one has a member to give back), and
that `growing` is the number of chains setting a member up (so that it is
never negative). What `release` does is proved once: `Loose` says that a member
is nobody's and everything else in order, and `OfferStep` that `Offer` makes the
invariant true again; `Release`, `CancelGiven` and `WarmedUp` only have to
show that the member they pass is loose. `LimitHolds` counts members and those being set up: a chain grows the pool only
below `max`, and warming begins only while fewer than `min` members exist.
Chains are finite in number
since a process runs finitely many tasks.

`CapabilityNeedsProofs` proves, for every set of mandates, agents and claims,
every lease and any number of crashes, `NeedsTypeCorrect` and

- `LocksFence`: `LockFences`;
- `NothingLeftBehind`: `RequestersLeaveNothing`;
- `EndsForGood`: `EndedStays`;
- `LateAnswersAreDropped`: `OnlyTheClaimantAnswers`.

`Moves` lists all a step may do to one mandate (published, ended, reopened,
claimed, or only its lock and requester); `NextMoves` proves that of every
action, and the invariants follow from it alone. The strengthening is that a
mandate is in the store exactly when its request has begun. The assumption is
that a requester lacks what it asks for and somebody owns it, which
`request_capability` checks first.

`HumanDecisionProofs` proves, for any number of runs at once, people and forms,
`DecisionTypeCorrect` and

- `NothingPerformedUnapproved`: `NothingUnapproved`;
- `PerformedOncePerLeave`: `OncePerLeave`.

The first rests on `ApprovedForms`: the form on a record that is approved is
one somebody approved, and a run between its gate and its claim, or after its
claim, goes on with such a form. This holds although the record may be replaced
in between, since `approved` only grows. The second rests on `Alone`, which is
claimed only while nothing overlapped: at most one run or reconciliation is
under way (`OneAtWork`), a record that may be claimed has a leave left
(`FreeLeave`), so has a run that claimed it and did not perform yet
(`RunLeave`), and a reconciliation takes a claim off only after it wrote the
outcome (`Settled`). The order of `Settle` and `Release` matters: swapped, a
run that dies between them would leave a performed action free to claim.

For the nodes, `StepLedgerProofs` proves, for any number of agents, claims and
crashes, and whichever ids come back:

- `WorkersTypeCorrect`: `WorkersTypeOK`;
- `CancelledWorkStaysFenced`: `CancelledStaysFenced`;
- if writes come in time (`WritesAreTimely`): `NodesLocksFence` (`HolderIsRunning`),
  `NodesWritersExclude` (`OneWriterPerSystem`), `NodesKeepCompletedSteps`
  (`CompletedStays`), `NodesAreExclusive` (`WorkIsExclusive`) and
  `ResponsesAreCurrent` (`ResponseIsCurrent`);
- `FreePlansAreTimely`: they do if no step can be blocked (`NothingIsBlocked`: each is
  a report that reads whatever there is, or depends on nothing), so that such plans
  have all five with no hypothesis on the nodes (`FreePlansAreSafe`).

`WritesAreTimely` is what the code leaves to luck. A node that runs `block_step` or
`requeue_blocked_step` reads a record and writes it back later; the write is
timely if the step is then pending or blocked still, or the write changes nothing.
Otherwise it moves a step that was taken up, ended or replaced in between, and
`completed_again` shows what follows. The theorems say that this is the only way to it: whatever else the nodes interleave, deaths,
expired leases, late commits, resumes, replans and cancellations included, they
implement `ExclusiveWork`.

`WorkersCall` sorts every step of the nodes: it leaves the ledger alone, is a call
of the store, or writes a record back (`StaleWrite`). Timely, those are
`OrderlyCall`s (`NodesInOrder`), under which `WorkInvariant` is inductive. Untimely, a
write takes a lock's step out of progress, and what remains is that
after a cancellation no step is locked, in progress or waiting, since the record
written is pending or blocked; inductive with it is `EngagedArePublished`, since
published steps are those a cancellation ends. `ResponsesAreCurrent` rests on
`PausesHold`: as long as a response holds its claim, what it read as waiting
waits still, was cancelled or replaced; a `Resume` in between takes the
claim away. `FreePlansAreTimely` rests on `Unblockable`: nobody is about to write
back a step that no dependency can block.

`WorkflowEngineProofs` proves, for every plan, any number of runs, and whatever
other nodes do with the same records:

- `EngineTypeCorrect`: `EngineTypeOK`;
- `NothingEndedIsStarted`: `EndedStaysEnded`;
- `DoneStepsHaveResults`: `ResultsAreKept`, for workflows without final responses
  (`NoResponses`).

`EngineInvariant` adds to the types where the loop can be (`LoopPlaces`: tasks
run only while there is a run, and nothing that ended is up for launch). The second
theorem needs `SavedKnown`, that a run that has begun knows every end its
checkpoint names, and that only `Launch` starts a task. For the third,
`ProcessedHaveOutputs` says of memory what the property says of the checkpoint:
every step processed has its output in the store, but for the one recorded just
now, whose output the next call saves. Only the resumption of a step takes an
output away, from a final response it reopens. Responses are appended to goal
plans (`planning/mesh_planner.py:744`), which the dispatchers run;
`engine.execute` is called for the workflows handed to `mesh.workflow` alone
(`core/mesh.py:678`), which have none. So does the instance of `engine_run`.

`ModelCallsProofs` proves, for any calls, ceiling, initial limit and bulk
capacity, `SlotsAreAccounted` (`SlotsAccounted`), `RoomIsGiven`
(`NobodyWaitsForRoom`) and `LimitKept` (`AdmittedWithinLimit`) of the governor.
The count of calls in
flight is proved to be the number of calls whose slot is counted, step by step;
that an admission keeps to the limit however many slots one step hands over
needs `InLine`, that the queue is an order: the last call woken found room
beside all the others. Of the budgets it proves, for any calls,
amounts, limit and cap, `AccountsAreKept` (`AccountsHold`: what is reserved is what
the calls hold, and neither the epoch's limit nor the person's cap is
exceeded), from `EpochLimitKept`, `ReservedAgrees` and `CapIsKept`, lemmas on
sums of reservations and from `Accounts`: nothing is counted before the
epoch is opened, and what the calls used is counted in it or in `uncounted`.
Every step of `ModelCalls` is a step of the governor or leaves it alone, and
likewise of the budgets (`PacedByTheGovernor`, `BudgetsAreKept`), which carries the theorems
over, as `CallsArePaced` and `CallsStayWithin`. These two refinements are left to
the proof: checking them in `model_calls` as well would only lengthen it.
Of the calls themselves it proves `CallsTypeCorrect` (`TypeOK`) and
`NothingStaysBehind` (`NothingIsLeft`). That a call that is over holds nothing
is not inductive; `HeldAtStage` is: it says for every stage of a call what it
may hold there (a slot only between asking for one and giving it back, tokens
only between reserving and settling), so each way out of a stage has to drop
what that stage holds.

`RoomProofs` proves, for any drafts, works, paths, deciders, processes and
attempts:

- `RoomTypeCorrect`: `TypeOK`;
- `LeasesGuardTheirLines`: the inductive invariant `RoomInvariant`;
- `OneVersionOfALineLands`: `OneVersionLands`;
- `WorkIsFinishedOnce`: `FinishedOnce`;
- `AcceptedChangesAreKept`: `NoChangeIsLost`;
- `DecisionsAreFinal`: `DecidedOnce`.

A version that landed changes nothing by itself; what makes it the only one of
its line is what calls know while they hold the lease. `LineHeld` says that a
call past its look holds its line's lease or the lease lapsed, and `Unrivalled`
that nothing else has landed then except what it revises; `WorkHeld` says the
same of `finish` and its note. For these, `Lines` says how lineages are
nested and `LandedCounted` that versions and accepted proposals correspond one to
one. `NoChangeIsLost` follows from what `Land` merges and from the
head's comparison in `room_transition`.

`SchedulesProofs` proves, for all nodes, callers, goals, schedules and bounds:
`TypeIsKept` (`TypeOK`), `LeaseHolds` (`LeaseIsKept`), `GoalsAreFound`
(`NoGoalIsForgotten`), `OccurrencesOnce` (`TakenOnce`) and
`CancelledSchedulesStay` (`RemovedStays`). `LeaseIsKept` is inductive with the
types. `TakenOnce` needs `Past`: an occurrence that was taken lies before the next
due time of its schedule, so a scheduler with an old list finds it not due.
`NoGoalIsForgotten` needs three parts (`IndexInv`): undisturbed, a planner past
its claim holds the lease; a goal a planner took up has a status; and a goal
that left the index has a plan, a recorded failure, or a planner at work on it.

Some theorems are about properties that no run checks besides. `EndsForGood`,
`LimitKept` and `CancelledSchedulesStay`: other properties of the same run say
more. `PoolTypeCorrect`, `NeedsTypeCorrect`, `DecisionTypeCorrect` and
`TypeIsKept`: the types hold for all constants, and the runs spend their time
on the rest.

Every safety property of the runs is stated by a theorem. Only model-checked are
the liveness properties (`NoStepStaysIdle`, `WaitersAreServed`, `EveryCallEnds`,
`EveryGoalIsPlanned`, `EveryRunEnds`), since fairness and ENABLED are beyond the
prover, that `answered_and_replanned` keeps `ResponseIsCurrent` with one node without
the hypothesis, and
`ResultsAreKept` beside final responses, if somebody were to run them so.

## Plan

1. Peer requests: replies, timeouts and idempotency keys over a lossy transport.
2. Firings that wake a step, by composing `Schedules` with `StepLedger`.

## Not modelled

Model output (plans, verdicts, results) is chosen freely. Text, workspaces,
ledger streams and telemetry are left out, since no decision reads them.
Redis expiry of whole workflows after their TTL, and a Redis that loses data,
are outside the model. Providers' fallbacks and streaming, what a plan contains
and how a result is judged are left out. The parts listed as `not_modelled` in `PROJECT.json`
are left out for the reasons given there.
