# sv-playbook in TLA+

sv-playbook coordinates AI agents over one SQLite store: humans define *work
packets*, agent sessions take them under a lease, submit them for review, and a
promotion closes them once the reviewed commit is in its branch. Around that, a
workflow engine queues effects for workers, a gateway runs agents at a provider,
catalogues of roles, contracts and context say what an agent is and is given, and a
daemon and a set of backups keep the store. This directory models the parts of it
whose correctness depends on the order of things: which command runs between two
others, what a crash leaves behind, what was read before an await and used after it.
TLC checks the models on small instances; TLAPS proves their safety, every invariant,
action property and refinement of a run that finds no error, for every value of the
constants.

    tlc -workers 2 -config TaskLifecycle.cfg MCTaskLifecycle   # every run: see "Runs"
    tlapm TaskBoardProofs.tla                                  # every *Proofs.tla: see "Proofs"

## The system

| part | state it keeps | operations | interacts with |
|---|---|---|---|
| `tasks` | packets (8 statuses), versioned definitions, dependencies, leases, transitions | create, amend, import, start, move, release, takeover, note | sprints (WIP limit), decisions (checkpoint), review (candidate), promotion (the only way to done) |
| `tasks/write-set` | none | `overlaps(left, right)` | conflict gate at `move ready`, changed files at review and promotion |
| decisions (`cli/commands/decision`) | questions linked to packets, answered against a version | ask, answer | the complexity checkpoint |
| `sprints` | sprints, membership, limits | create, add, remove, close | counts packets by status |
| `review` | review candidates and their artifacts | assemble, persist, resolve a reviewer's input | tasks, gateway, promotion |
| `promotion` | candidates, state events, verdicts, attempts, outcomes, receipts | `promotion run` | git refs, verification, reviewer runs, packets |
| `orchestration` | versions of workflow definitions, runs, effects and their claims, events, failure policies | register, start, claim, renew, complete, fail, recover, answer of a person | gateway, contracts, promotion |
| `gateway` | run specs, dispatch intents, sessions, turns, run state, attempts | prepare, dispatch, observe, cancel, recover, retry, project roles | agent providers, roles, orchestration |
| `daemon` | lock and token files, the open store, bindings of workspaces, requests in hand | start, serve, bind, drain, stop | every command |
| `db` | the SQLite file, backups and their metadata | open, migrate, backup, trim, restore, rebuild | everything |
| `contracts` | shared vocabularies, artifact contracts, packets of protocol work, proposals, batches, reviews, reconciliations | register, propose, assemble, correct, review, activate, reconcile, evolve | roles, gateway |
| `roles` | role contracts, policies, execution profiles, versions of the catalogue, evidence, projections | edit, activate, bootstrap, evaluate, select, project | gateway, context, contracts |
| `context` | context items in versions, their precedence, packs | add, supersede, retire, rank, compile | run specs, roles |
| `reconcile`, `workspace` | none of their own | compute and apply a table of actions; classify dirty files | GitHub, git, tasks |
| `check`, `verification`, `enforcement`, `redteam`, `adopt`, `packets`, `schema`, `constitution`, `status`, `serve`, `cli` | none that outlives a command | checks, parsers, views | |

What is hard here:

* **One writer, many sessions.** A command's store accesses run in one synchronous
  section (SQLite is opened in exclusive mode, the daemon runs one event loop), so
  commands interleave only where one awaits: the review move, the promotion, a
  dispatch, an evaluation, a coordinator's effect. Each goes on with what it had read.
* **Leases.** Sessions and workers die, come back late and share worktrees. A lease
  has a TTL; a packet's frees nothing when it passes, an effect's is recovered.
* **Moving definitions.** Packets, workflow definitions, role data, vocabularies and
  context items may change at any time, and gates looked at an older version.
* **Effects outside the store.** A branch update, a provider's session or turn, a file
  cannot be in the transaction that records it, and others use them too.
* **Processes and files.** Who owns the store is decided by a lock file, a token file
  and an exclusive open, written one after another by processes that may die anywhere;
  a restore, a migration or a rebuild replaces the file under them.

PROJECT.json lists the hazards met, at their lines, with the properties about them.

## Modules

| module | what it is |
|---|---|
| `TaskLifecycle` | the task store: every command that changes a packet, the two halves of the review move, decisions, expiry |
| `PacketClaim` | the abstract promise of the store to its sessions: one owner from claim to submission |
| `SprintBoard` | sprints, composed with `TaskLifecycle` (it EXTENDS it and adds the WIP guard to the start) |
| `TaskBoardProofs` | the theorems about `TaskLifecycle`, `SprintBoard` and `GlobOverlap` |
| `Promotion` | `promotion run`, one action per write, with other commands, pushes and crashes |
| `ReviewedIntegration` | the abstract promise of the promotion: judged once, closed once, only when approved and landed |
| `PromotionProofs` | the theorems about `Promotion` |
| `WorkflowEngine` | workflow definitions and their validation, runs, effects, coordinators, people's answers |
| `WorkflowPath` | the abstract promise of the engine: a run walks along the routes of the version it started with |
| `WorkflowEngineProofs` | the theorems about `WorkflowEngine` |
| `GatewayRun` | run specs, dispatches, observation, cancellation, retry and recovery against a provider |
| `DaemonLifecycle`, `DaemonLifecycleProofs` | starts, forwarded commands, bindings, shutdown and drain, crashes between any two steps |
| `StateBackup`, `StateBackupProofs` | backups, retention, restore, migration and rebuild of the store beside a daemon |
| `RoleData` | the tables of roles and contracts that the next two modules share, and the facts read from them |
| `ProtocolContracts`, `ProtocolContractsProofs` | proposals of contracts, their reviews and activation, the evolution of a vocabulary |
| `RoleCatalog`, `RoleCatalogProofs` | the role catalogue: bootstrap, edits, activation, evaluation, admission of runs, projection |
| `ContextCatalog` | versioned context items and the packs compiled from them |
| `AgentRunProofs` | the theorems about `GatewayRun` and `ContextCatalog`, whose packs a run is given |
| `GlobOverlap` | `overlaps()` as an operator, against the set of files the two globs permit |
| `MC...` | the instances TLC checks; `MCPureFunctions` puts `GlobOverlap` and `ContextCatalog` in one run |

### TaskLifecycle and the code

`status`, `history`, `deps`, `holder`, `candidates`, `decision` are the tables
`packets`, `packet_definitions`, `packet_deps`, `leases`, `review_candidates` and
`decisions`. A definition is what the gates read of it: write set, dependencies, and
`body` for everything else; a version is its index in `history`. `fresh` is the set
of packets whose lease is younger than the TTL: `expire` is the clock. `call` holds
what a review move has read before its await. Each command is one action whose guard
is the conjunction of its checks; a refused command is a heartbeat (`refreshHeartbeat`
runs first and stays). `movePacketToReview` is `BeginReview`, then `FinishReview` or
`AbortReview`. `importPackets` is a sequence of `upsertPacketFile` steps.

Left out: the event and transition logs, gate evidence, the legacy review evidence,
priorities, costs, the texts of a packet, the creation of sessions. The git gates and
the preflight appear as a move that may not be taken or may abort. The takeover's
`--force` is a free choice.

### SprintBoard and GlobOverlap

`openSprintsOf` keeps that the query behind the WIP check returns one of the packet's
open sprints and not all of them, so the choice is an existential. A limit of 0
passed on purpose is not modelled (0 is "no limit" here).

A glob is a sequence of segments; `t*` represents the segments that mix text and
wildcard. `overlaps` makes a regular expression of its left operand and escapes only `.`
and `*` in it, so a name with another character that expressions interpret (`[id].ts`,
`a+b`) is live: a glob that holds a member of `LiveSegments` matches the texts `Expression`
gives for it, any texts at all, and a glob for which it gives none `throws`, unless the
prefixes have decided. The reference is the set of files up to the same depth that
`gateReview` lets a packet with that glob change; their names may be live names as well.

In `TaskLifecycle`, `Overlaps` is the relation the gate computes, in the order of its
operands: no symmetry is assumed of it, and a pair for which `overlaps` throws is in it,
because the exception refuses the move as a match does.

### Promotion and the code

A call goes through `promote` (creates the candidate, pins the configuration),
`completeChecks`, `recordValidatedVerdict`, `judge` or `resume`, the awaited
verification (`verified`), `ensureIntegrationAttempt`, `startIntegration`, `forward`
(the `git update-ref`), `recordIntegrationOutcome`, `requireSuccessfulIntegration` and
`closePromotedTask`. Each is one write of the code; `abort` may follow any of them and
stands for an error as well as for the death of the process. `stage` is the latest of
`promotion_state_events`; `pinned`, `verdict`, `attempt`, `outcome` and `receipt` are
the other promotion tables, whose rows are immutable.

A commit is the sequence of the changes it contains, so that *ancestor* is *prefix*:
change *k* belongs to candidate *k*, and 0 stands for whatever others push. Candidates
start from any prefix of the main branch, from the packet's earlier work, resubmit an
earlier commit, or are main itself (work that is already integrated). `storeIsFree`
says that no other command writes between two writes of a call, except during the
verification, for which the code closes the store. Pushes happen at any time.

Left out: digests, check receipts (the failing ones only end the call), the diff's
write-set check, the check that the worktree's HEAD is the candidate (a call that
fails it aborts), self-review (whether the two name spaces of sessions it compares
meet is decided elsewhere), forced pushes (a branch that others rewrite keeps nothing).

### WorkflowEngine and the code

`versions`, `runs`, `effects`, `events`, `policy` are the workflow tables; `worker` is
the memory of each coordinator process and `resolving` the answer of a person between
its two transactions. Registration makes every check of `service.ts` on contracts,
executors, routes and reachability and stores a new version; a run keeps the one it
started with. A coordinator starts (the bindings of every active definition must be
registered), recovers the expired effects, claims the next effect, executes it,
and stores its answer through routes, the next effect and the run's status in one
transaction. A lease is fresh or not; `leaseExpires` is the clock, `renewFails` what a
late heartbeat does, and a failure is retried or ends the run as the policy says.
What an effect computes is the class of its output that routes look at. `WorkflowPath`
sees of each run its place: the version it was started with, the step it stands at and
whether it is open.

Left out: the coordinator's timing, observability views, the launch catalogue.

### GatewayRun and the code

`specs`, `intents`, `session`, `turns`, `row` are the gateway tables; `created` and
`messages` are the provider. A dispatch verifies the profile, ensures its session and
its turn (an intent is committed before the adapter is called and consumed with the
row of what it did), and observes until the run ends, the policy is violated or the
ceiling on its duration passes; then it cancels and awaits the end. Each await is the
border of a step. The reconciliation after a restart goes through the runs without an
observer. An observation reads messages and statuses by two requests.

The run of a workflow effect lives as long as `active` says; `EffectEnds` stands for
`WorkflowEngine`, which sees the gateway as the execution of an effect.

### DaemonLifecycle and StateBackup

`lock`, `token` are the two files, `holder` who has the store open, `port` who
listens; a process is at a step of the start, of a command or of a shutdown, and
`handler` is the request a daemon has in hand for each command. A command of the main
checkout opens the store itself when it finds no daemon, one of a linked worktree is
forwarded or fails. `activeHandlers` is the count the drain waits for.

A state of the store is a number of changes and the schema's condition. `backups` is
the directory, oldest first; `op` the command of each actor, which goes through
`snapshot`, `rename`, `metadata`, `verify`, `trim` for every backup and then through
the swap of a restore, a migration or a rebuild. With a daemon, commands run inside
it one at a time; without one, two interleave. The loop of a trim is
said by rank: a backup beyond the retention is kept when it is verified and at most
`Floor` verified ones are left, counting it, the older ones and the recent ones.

Left out: leases (a guard on them may refuse), what a migration does to the tables
(`rebuild` inserts packets without definition rows, `rebuild.ts:91`), the count of
failed cycles, which is only reported.

### RoleData, ProtocolContracts, RoleCatalog

`RoleData` holds the tables both modules use: responsibilities, contexts, role
contracts, handoffs, escalation classes, required roles, artifact contracts.

In `ProtocolContracts` a schema is the references and classes it names, a fragment
what its validation finds, a proposal the contracts and sessions it came from;
commands run synchronously in the daemon, so each is one step. In `RoleCatalog` a
digest is the content it stands for; a bootstrap is a step per transaction, an
evaluation and a projection are steps per await and per file. Commands that do not
await run between the steps of those that do.

Left out: prompts, texts of charters, capability classes, prohibitions and stop
conditions; expired evidence is removed evidence. Of the role policies `ProtocolContracts`
has the roles whose self-correction is bounded, `Bounded`, as a constant: a contract they
write gets a scaffolded property for its corrections.

Tables are functions from references to rows; `over(new, old)` is a table with rows added
or replaced and `one(key, row)` a table of one row.

### ContextCatalog and the code

Items are immutable rows whose status alone changes; `compileContext` is the compiler
of packs as a function of catalogue and request: selection, dependencies, conflicts of
meaning, capabilities. `addDependencies` is the set its walk reaches; each walk starts
from the same selection, not from what the ones before it added, because none adds
anything (`WalksAddNothing`). Left out: tags, strength, provenance, the order of items in a
pack, the receipt.

## Runs

| run | instance | shows |
|---|---|---|
| `task_lifecycle` | 2 packets of two kinds of definition, one of which matches the other and not the reverse, or waits for it, 2 sessions, 1 decision, 1 review move, 2 versions, checkpoint on | legal transitions; candidates come from the lease holder and were cleared at the version they name; work starts on closed dependencies; globs in flight come to match only what came later or was redefined; refinement of `PacketClaim` |
| `sprint_board` | 2 packets, 2 sprints, with and without a limit of 1 | closing a sprint is final; the limit is exceeded by membership only |
| `pure_functions` | all pairs of globs of up to 3 segments over 8 segments (one name that is an expression of another text, one that breaks it); 2 items in up to 3 versions, 2 charters, 3 precedences | the conflict check answers for plain globs and is exact between them; a pack is whole or refused, and what it grants is backed |
| `promotion` | 2 tasks, 2 candidates, 2 reviewer runs, 2 calls, 1 branch | done means approved and landed, once; stage and rows agree after any crash; no change leaves the branch; only the approved commit lands, and only on its base |
| `promotion_retry` | 1 task, 1 candidate, 1 reviewer run, 2 calls, 2 definitions, 2 configurations, 1 push | a landed candidate is closed in the end; refinement of `ReviewedIntegration` |
| `workflow` | 1 workflow, 2 versions of its definition and 2 that are refused, 3 steps (agent with 2 attempts, person, operation), 2 workers, 1 person, 2 faults | an open run has exactly its effect; only the current claim answers; refinement of `WorkflowPath`; runs end or wait for a person |
| `gateway_run` | 2 callers, 1 work or effect, 2 attempts, 2 turns, 2 calls, 1 crash | the trail of a run is whole; a completed run is clean; a run stopped for time or policy was stopped; a retry chain completes once; calls end |
| `daemon` | 2 daemons, 2 commands (one of a worktree), 2 sessions, 1 workspace, 1 crash, 1 client timeout | a command keeps its store; files that agree name a process with the store; commands, starts and shutdowns end |
| `backup` | 2 actors and a daemon, retention 2 (default 3), floor 2, 4 backups, 1 change | the floor of restorable backups; what is overwritten is saved; nothing unusable is put in place |
| `protocol` | 2 roles, 2 contracts, 2 sessions, 1 vocabulary, 3 stored rows, 1 edit | what is activated was reviewed by somebody else and came in force whole; one version in force; what a reconciliation settled stays settled |
| `role_catalog` | 2 bundled roles over an empty store and one made by hand, 3 edits, 2 releases, 1 run spec | runs are admitted on a checked catalogue; no bootstrap writes over edits; evidence is of what ran; artifacts keep their schema; receipts prove projections |
| `vocabulary_evolution` | as `protocol`, with fragments that pass validation | ends in a violation: see the next section |

**Why the bounds are enough.** Conflicts, dependencies and takeovers are between two
packets or two sessions; a third one adds no gate that reads all three. One review
move in flight meets every other command in its await, and two moves of one packet
exclude each other by the same recheck a takeover meets. Two versions make a
candidate or an answer stale. Two promotions meet at the verification; two candidates
give the branch two competitors and a task a superseded candidate. Two workers are
the one whose lease expired and the one that claimed again; two attempts are a retry
and the last one; two versions are the one a run keeps and the one registered since.
Two callers race for one session and one turn; two turns are a submission and its
repetition; runs of different works or effects share no row (`MaxBases = 1`). Two
daemons compete for the files and two commands are one on each side of them; one crash
leaves every combination of lock, token and store. Retention and floor of 2 with 4
backups trim below, at and above both, beside a restorable and a damaged backup that
are there from the start. Two roles hand work to each other, and a proposal of each
contract meets a reconciliation in 3 rows; one edit makes stored work stale, three edit,
activate and put back a catalogue. Properties that look at the last pack need one pack
(`MaxPacks = 1`). The theorems do not depend on the bounds.

**Symmetry** is used over sessions, actors, and over tasks, calls and runs of the
promotion, in runs that check no liveness property.

**Deadlock** is checked for the packets, where a session can always send a heartbeat,
and for the workflows. It is off where the bounds end everything there is to do: the
promotion (every task done), the gateway (calls), the daemon (all commands ended and
nobody need start a daemon), the backups, the catalogues and the pure functions.

**Fairness.** `RetriedSpec` (promotion): a call does not hang: its next write, or its
error, happens (`WF` of `Advance \/ abort`; every step is synchronous code or a
command with a timeout). A candidate that landed without its task being closed is
promoted again, with a completed review and the branch its attempt names, again and
again (`SF` of `repeated`): that is what the recovery documented in `docs/anatomy.md`
asks of the operator. `LandedWorkIsClosed` assumes further that calls eventually stop
dying and that the task stays in review with its definition and configuration.
`WorkflowEngine`: the steps of each worker, its restart included, the clock of the
leases, and the second transaction of an answer; nobody need answer, and faults are
bounded by `MaxFaults`. `GatewayRun`: the steps of each caller (its HTTP calls end, one
way or the other), strongly the ceiling on the duration of a run (it is measured from
the stored turn, so it passes however observation goes), and the reconciliation; the
provider need do nothing. `DaemonLifecycle`: steps of processes and of requests in hand,
and the worker that is told to stop; nobody need start or stop a daemon. Commands of
the task store, of the backups and of the catalogues are typed by people and agents:
nothing there is fair, and no liveness is claimed.

**Premises.** `OverwrittenStateIsSaved` and `InstalledStateIsUsable` speak of a command
that no other process crossed between its steps (`alone`), and
`StoppedBeforeItSaysSo` of runs whose turn was submitted once: what happens otherwise
is in the next section.

## Proofs

Eight modules hold the theorems. Each proves, for all values of its constants under the
assumptions named beside them, what the runs check on an instance. The shape is the same
everywhere: an inductive invariant (checked by TLC on the run's instance before it was
proved), a lemma per action that it is preserved, lemmas for what an action leaves alone,
and a theorem per property, from the invariant or from one step taken in it.

### Packets, sprints, globs (`TaskBoardProofs`)

| theorem | property | argument |
|---|---|---|
| `TypeCorrect` | `TypeOK` | inductive by itself; `RecordRowsOK` isolates what `recordWorkDefinition` does to a history |
| `LeaseSafety` | `LeaseOnlyWhileClaimed` | inductive with `TypeOK`; the step lemma goes action by action, with `Bystander` for those that touch neither status nor lease |
| `StatusSafety` | `StatusFollowsAllowed` | `StepsAreLegal`: every step that changes a status is one of those the table lists |
| `CandidateSafety` | `CandidateComesFromHolder` | needs `ProducerIsCaller`: the lease holder a move read before its await is the session that moves |
| `DependencySafety` | `ActiveStandsOnClosedWork` | done and dropped are final, so closed dependencies stay closed |
| `WriteSetSafety` | `MatchesOnlyLaterWork` | for any relation `Overlaps`: one packet at a time comes into flight (`ComesIntoFlight`), by a move to ready whose gate compared its globs with all work in flight |
| `CheckpointSafety` | `CandidateWasCleared` | needs `ReviewsCleared`, the same fact for a move in its await; definitions are only appended and answers never change, so what was cleared stays cleared |
| `PacketClaimImplemented` | `ImplementsPacketClaim` | `StepImplements`: every step is a step of `PacketClaim` or a stutter |
| `BoardKeepsTheLifecycle` | (all of the above) | a step of the board is a step of `TaskLifecycle` or leaves the packets alone |
| `ClosedSprintSafety` | `ClosedSprintHasNoOpenWork` | inductive with the types: closed packets stay closed, a closed sprint gets no members |
| `WipLimitSafety` | `OverLimitOnlyByMembership` | a start adds one to the count of the only open sprint that was below its limit |
| `PlainGlobsSafety` | `PlainGlobsExact` | for any `LiveSegments` and `Expression`: a plain glob overlaps a spelled one when one prefix contains the other (`PlainOverlap`: comparing the patterns decides nothing more), and permits the files below its prefix (`SpelledPermits`), so the longer prefix is a file both permit |
| `PlainWriteSetSafety` | (both directions of `MatchesOnlyLaterWork`) | where all write sets are plain and `Overlaps` is `overlaps`, matching is symmetric (`PlainMatchesSymmetric`), so that the packets in flight share ground only by a redefinition |

A glob is plain if it consists of names without a live character and may end in a
wildcard: `src/a.ts`, `src/a/**`. That is a premise of the properties and not of the code,
which takes any string for a write set. For globs with inner wildcards or live names
`overlaps` is neither exact nor symmetric, and nothing is claimed but `WriteSetSafety`.

### Promotion (`PromotionProofs`)

| theorem | property | argument |
|---|---|---|
| `TypeCorrect` | `TypeOK` | inductive with `CallsOK`: a call in flight works on a candidate that has a stage |
| `EvidenceMatches` | `StageMatchesEvidence` | a part of `Inv` |
| `DoneSafety` | `DoneWasApprovedAndLanded` | from `Inv` |
| `NoChangeLost` | `NoChangeIsLost` | a part of `Grows` |
| `ApprovedLands` | `OnlyApprovedWorkLands` | only `forward` moves a branch in a call, and `Inv` says from where |
| `ReviewedIntegrationImplemented` | `ImplementsReviewedIntegration` | submit maps to `Propose`, `push` and `forward` to `Merge`, `judge` to `Judge`, the closing to `Close`, the rest to a stutter |

The properties are not inductive. `Inv` adds what a step relies on and an earlier one
established: `OneWriter` (one call at most is between two of its writes), `CallOK` (what
each step of a call may count on, such as the recorded verdict being the call's own
when it is judged), and in `RowOK` that the recorded verdict is a completed review of
the candidate, that the attempt starts from the candidate's base, and that this base is
an ancestor of its commit. Nothing keeps the rows of an idle candidate right but that
what they speak of does not go back: that is `Grows` (submissions and completed reviews
are immutable, branches only grow, done is final), proved of every step from `Inv`,
where the compare-and-swap and the base make the update-ref a fast-forward. The lemmas
on prefixes at the top of the module are what a commit's ancestry needs. Assumed: `Main`
is a branch, there is at least one version and one configuration, `None` is no other value.

### Workflows (`WorkflowEngineProofs`)

| theorem | property | argument |
|---|---|---|
| `EngineInvariant` | `IInv` | by action |
| `NoRunIsLostOrForks` | `OpenRunHasItsEffect` | from `OneEffectEach` |
| `EventsAreNumbered` | `RevisionNumbersEvents` | a part of `IInv` |
| `LateAnswersChangeNothing` | `AnswerOfCurrentClaim` | from `HoldersOK` |
| `EngineImplementsPath` | `FollowsPath` | the start of a run maps to `Begin`, `completeOne` and `completeHuman` to `Take`, a failure that is not retried to `GiveUp`, the rest to a stutter |

`OneEffectEach` is the property effect by effect, where a step that closes one effect and
opens the next can be followed; it needs that an effect points at a step of the version its
run keeps (`PointersOK`), because that is where the routes come from. `HoldersOK` counts
claims: no two processes remember the same claim, none one still to come, and the owner
remembers the last. A worker whose lease was recovered and claimed again remembers an
earlier number, which is why its answer changes nothing.

### Agents' runs and their context (`AgentRunProofs`)

| theorem | property | argument |
|---|---|---|
| `GatewayInvariant` | `IInv` | by action; `Grows` says what no step takes back, and carries the facts about runs a step does not touch |
| `TrailIsDurable` | `DurableTrail` | intents are committed before the adapter is called, so a session, a turn or a message has one (`RunOK`) |
| `CompletionIsClean` | `CompletedRunIsClean` | a part of `RunOK` |
| `StopsAreTrue` | `StoppedBeforeItSaysSo` | a caller that cancels saw its turn begun if no other was submitted, and a turn never begins again (`Moves`) |
| `WorkCompletesOnce` | `OneCompletionPerWork` | `ChainOK`: a next attempt is prepared only after all the earlier ones ended without completing, and an ended run stays as it ended |
| `PackWholeness` | `PackIsWhole` | `WalksAddNothing`, then `CandidatesAreClosed`: what a candidate depends on is a candidate; `OneItemOfAMeaning`: of these one remains and ranks above the others |
| `GrantSafety` | `GrantIsBacked` | of finitely many ranked items one ranks highest (`SomeRankIsHighest`, by counting those above), and effects of the highest rank agree |

`IInv` says what is stored of a run agrees with what the provider did (`RunOK`), that an
operation's key is taken once (`KeysOK`, from which the next key is free), and what each
caller between two awaits may count on (`CallerOK`, `NoSharedCall`: a committed intent
belongs to one caller, so nothing happens under it twice). The invariant of the catalogue
is small: finitely many items, and ranks that are numbers. It assumes `MaxAttempts > 0`,
works apart from effects, and precedences that are sequences.

### Daemon and store (`DaemonLifecycleProofs`, `StateBackupProofs`)

| theorem | property | argument |
|---|---|---|
| `DaemonInvariant` | `IInv` | by action |
| `StoreIsKept` | `CommandKeepsItsStore` | the exclusive open for a command's own store; for a daemon's, the drain waits for requests in hand, so what is read or executed is at a daemon that still serves (`HandlersOK`) |
| `IdentityMeansStore` | `IdentifiedDaemonHasStore` | a token is written once the store is open (`TokenOK`) and a lock unlinked before the token (`LockOK`) |
| `BackupInvariant` | `IInv` | by actor: `OwnOK` for the one that moves, `Aside` for the others (`StepOfOne`) |
| `RestorableFloorHolds` | `RestorableFloor` | only a trim removes a verified backup, and it keeps the floor (counted by rank); nothing but the writer of an unverified name writes it (`NamesApart`) |
| `OverwrittenIsSaved` | `OverwrittenStateIsSaved` | `SavedOK`: step by step, where the state a command is to overwrite already is |
| `InstalledIsUsable` | `InstalledStateIsUsable` | `TargetOK`: the target was validated and is still there |

The last two speak of a command that is still alone, and so do `SavedOK` and `TargetOK` of
each of its steps; no step of another makes a command alone again (`Watches`).

### Contracts and roles (`ProtocolContractsProofs`, `RoleCatalogProofs`)

| theorem | property | argument |
|---|---|---|
| `ContractsInvariant` | `IInv` | by action |
| `ActivatedContractsWereReviewed` | `ActivatedWasReviewed` | `ProposalsOK` (a passing review of somebody else stands behind each approval) and `ActivationsOK` (an activation comes whole and is retired by nothing) |
| `OneVocabularyVersion` | `OneVersionInForce` | `VocabulariesOK`: every earlier version keeps its row, so no version is added twice |
| `SettledStaysSupported` | `SettledEscalationsStaySupported` | `RetiredOK`: what is retired had only classes still allowed, so a version in force has all of them |
| `CatalogInvariant` | `IInv` | by action; a bootstrap and a projection exclude one another and every edit |
| `RunsAreAdmitted` | `DispatchedOnCheckedCatalog` | versions are well formed when stored and never change (`VersionsOK`) |
| `EvaluationsAreOfWhatRan` | `EvidenceOfWhatRan` | a part of `IInv`: the only evidence an evaluation writes is of the model it ran, and with what that model did |
| `ReceiptsAreProof` | `ReceiptsProveProjection` | what was promoted so far is on disk (`ProjectingOK`), and the version it is of stays in force until the receipt |
| `ArtifactSchemasAreKept` | `ArtifactsKeepTheirSchema` | a contract an artifact stands on has a row, and rows are repaired where no artifact stands |
| `EditsAreKept` | `EditsSurviveBootstrap` | a bootstrap that is to seed found no receipt and another profile (`BootOK`) |

`ProtocolContracts` assumes nothing of its constants. `CatalogAssumption` says that the
bundled profile starts at one of its roles, and that a store before its first bootstrap
holds whole rows and a profile of a role it has: the tables' foreign keys.

### What is only checked

`LandedWorkIsClosed`, `RunsSettle`, `EverythingEnds` and `CallsEnd` are liveness under
fairness and out of the prover's reach; TLC checks them on the instances above. The two
type invariants of the packets and the promotion and `LeaseOnlyWhileClaimed` are proved and
are in no run, as are the inductive invariants. What the library proves by induction over
an operator cannot be used; where a set of numbers has to have a least element, the proofs
cite that `<` is well-founded on the naturals. That is why retention is said by the rank of
a position, and what a context item needs by the set its walk reaches, and neither by a
recursive operator.


## Where the code and its documents differ

`vocabulary_evolution` ends in a violation, and TLC prints the trace: a reconciliation
that extends the shared vocabulary retires the schema of the earlier version, and the
active role contracts that refer to it are not pointed at the new one, although
`contracts/protocol-evolution.ts:105-111` says that everything that referred to the old
one is; from then on they cannot be resolved (`protocol-evolution.ts:112`).

The rest was met while modelling. The models contain the behaviour, and no property
denies it. Paths are under `src/src/`, documents under `src/docs/`.

*Tasks and promotion.*
An amend of a ready or active packet is not checked for conflicts, so two packets in
flight come to share files (`tasks/amend.ts:99`, against `how-it-works.md:350`), and
`import` can shrink the write set of active work (`tasks/service.ts:90` against
`REORG.md:29`). A draft cannot be amended back to an earlier definition: the digest is
unique over all versions (`tasks/work-definitions.ts:78`). One decision answered against
an older version blocks the packet for good (`tasks/checkpoint-gate.ts:45`). A packet
amended during the verification of its review move enters review with a definition no
decision cleared, though its candidate names the cleared one (`review-transition.ts:56`
against `superpowers/specs/2026-07-16-complexity-checkpoint-design.md:227-233`). An amend
records a dependency that does not exist and nothing enforces (`tasks/amend.ts:66`). The
transition review to active of the table is never taken (`tasks/service.ts:297` against
`how-it-works.md:139`). An expired lease frees nothing by itself (`tasks/service.ts:177`
against `anatomy.md:108`). The gate asks whether the mover's globs match
those in flight and not the reverse (`tasks/service.ts:209`), so a packet for `src/a.ts`
joins one for `src/*.ts` that is under way, against `how-it-works.md:350` and the comment
at `tasks/service.ts:211-214`; `MatchesOnlyLaterWork` says what the gate does keep. Of a
left glob only `.` and `*` are escaped (`tasks/write-set.ts:15`): `src/[id].ts` matches
`src/i.ts` and not the reverse, so that work on `src/i.ts` in flight refuses a packet for
`src/[id].ts` that arrives later and the other order admits both; and a glob with an
unbalanced `(` or `[` makes the move or the review gate throw. Active work that joins a sprint takes it over its
limit (`sprints/service.ts:50`). The receipt names the review and the branch of the call
that closes, not those on record (`promotion/promotion.controller.ts:168` against
`anatomy.md:233`). A push on top of the candidate before its observation, or a failed
observation, blocks it for good although it landed (`promotion.integration.ts:86` against
`anatomy.md:240-241`). A definition changed during the verification lands all the same,
while one changed after landing keeps its task open for good
(`promotion.controller.ts:96`). A superseded candidate of the current version may still
be promoted. `reconcile --apply` lists the closing of a packet with a merged pull request
as safe, but moves it to done, which the table forbids: the command stops there and the
rows after it are not applied (`cli/commands/reconcile.ts:128`).

*Workflows.*
A definition whose routes loop is accepted, but the second visit of a step repeats
(run, step, attempt), which is unique: completing throws, the rejection ends the daemon
and the effect comes back after every restart (the instance is loop-free). A process that
was suspended finds its lease gone when it renews, and the workflow fails as
EFFECT_NOT_OWNED unless a policy retries it, while the abandoned execution goes on.
Registration does not check that operations are registered, so a definition with an
unknown one keeps the coordinator from starting.

*Gateway.*
A turn is submitted twice after a crash between the provider's answer and the row, a lost
answer, or two dispatches at once, against the comments at `gateway.ts:37-39` and
`gateway-repository.ts:50-55`; the latest turn is then not the one the run's row names,
the run cannot be resumed, and the second turn may start after the run was stored as
timed out. A session whose creation failed or crashed uses up its operation key: the run
is never dispatched, nor retried. A profile whose digest changes leaves an observing run
without a way on. Of two observers the late one returns a completion although the row
says timed out. Any transient error of an observation fails the run, and so does a
pending message seen while the session is idle, although the provider works on it later.

*Daemon.*
Until the token is written, any command takes the lock of a starting daemon for stale and
unlinks it, so a daemon may serve without a lock file; cleaning up, a daemon unlinks
another one's lock. A command of a worktree may open the store itself in a race, though
`db/store.ts:259-264` says there is none. After a crash with both files in place and the
process id reused, starts are refused until the files are deleted by hand. A session
without a row can be bound to several workspaces (`db/store.ts:189-191`). A client that
times out fails while its command is executed.

*Backups.*
A restore inside the daemon renames the file under its open connection: it reports
success while the daemon serves the old file, whose log may later be replayed into the
restored one (`cli/commands/restore.ts:34`). The trim of the backup made before a restore
may delete the one being restored, and validating it then creates an empty file that is
the newest "backup"; two restores of one file at once may install it. When the store is
locked, the guard on leases sees none and the copy leaves out the log. A rebuild goes on
when its backup fails, and a crash between the removal of the live files and the rename
leaves no store. A missing store read by a backup becomes an empty, unusable file.
Migrations, rebuilds and reconciliations trim to the default retention, not the
configured one.

*Contracts.*
Content first stored as invalid stays so (`INSERT OR IGNORE`) and is never reviewed, even
if it would be valid later. A second shared family makes every addition to a vocabulary
ambiguous. The author of a batch that somebody else corrected is hidden, and may review
the corrected one (`protocol-proposal-review.ts:92-98`); an approved reconciliation is
applied without checking its packet again. In a bundled store every role refers to the
bundled contract, so activating a proposal always meets its primary key.

*Roles.*
Contexts, artifact contracts and evidence are not in the digest of a catalogue. With the
same role ids, an own profile and no receipt, a bootstrap overwrites a hand-made
catalogue, although `bundled-profile-bootstrap.ts:123-129` says that reconciling needs
explicit logic. A review that heals the catalogue is still refused, for the fresh one has
no projection; after a crash between seed and activation `role check` no longer heals. A
retired bundled context makes every bootstrap fail at its activation. An evaluation stops
at the first profile whose role needs another capability. A preference survives the move
of its profile to another role and makes every selection for the old one fail. The active
catalogue is checked before the profile is verified at the provider, the session is
created after it. A crash between the files and the receipts of a projection, followed by
putting an earlier catalogue back, leaves receipts in force with other files on disk.

*Context.*
Every active applicable item is selected already, so `addDependencies` adds nothing, its
reason and DEPENDENCY_CYCLE cannot arise, although `context/compiler.ts` and `codebase-guide/flows/flow-05-context-coldstart.md` describe
them. The precedence may be replaced by one that leaves kinds of stored items without a
rank, and two active versions may be added: every compilation fails until that is undone
(`context/repository.ts:91-92` says intake fails closed). Superseding an item breaks the
active ones that depend on its version. An item asked for by name, or a charter, may give
way to a higher-ranked item of the same meaning.

## Not modelled

Static checks (`check`, `enforcement`, `redteam`, `constitution`), verification commands,
parsers and templates (`adopt`, `content`, `docs`, `packets`, `schema`), views (`status`,
`serve`, `workspace`) and the parsing and printing of the command line keep no state that
outlives a command; where a gate depends on them the models let it pass or fail.
`reconcile` applies commands the other modules have (a move, a backup) and calls to
GitHub. Within modelled parts: the rows a rebuild or a migration writes, the coordinator's
timing and views, prompts and the event history of the gateway, the instruction files
rendered from the context and its import from markdown, the content of review evidence.

## Plan

1. `TaskLifecycle`, `PacketClaim`, `SprintBoard`, `GlobOverlap` and the task proofs;
   `Promotion`, `ReviewedIntegration` and the promotion proofs: done.
2. `WorkflowEngine`, `GatewayRun`, `DaemonLifecycle`, `StateBackup`,
   `ProtocolContracts`, `RoleCatalog`, `ContextCatalog`: modelled and checked.
3. Proofs of everything the runs check but liveness, `GlobOverlap` and `ContextCatalog`
   included: done.
4. Next: the composition of `GatewayRun` with `WorkflowEngine` on the effect they share,
   and of `TaskLifecycle` with `Promotion` on the status of a packet, each as a theorem
   that what one assumes of the other (`EffectEnds`, who may close a packet) is what the
   other does; the hazards that have no property yet.
