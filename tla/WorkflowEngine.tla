--------------------------- MODULE WorkflowEngine ---------------------------
(***************************************************************************)
(* The durable workflow engine of src/orchestration: versioned workflow    *)
(* definitions, the runs started from them, the queue of effects the       *)
(* coordinators claim under a lease, and the answers of people.            *)
(*                                                                         *)
(* One action is one SQLite transaction, or one turn of a coordinator      *)
(* between two awaits.  What an effect computes is abstracted to the class *)
(* of its output (the value the routes look at), artifacts to their        *)
(* contract, and a lease to whether it is still fresh.                     *)
(***************************************************************************)
EXTENDS Naturals, Sequences, FiniteSets, SequencesExt

CONSTANTS
    Ids,            \* identifiers of workflow definitions
    Candidates,     \* the definitions somebody may try to register
    Contracts,      \* references of the active artifact contracts
    RoleContract,   \* role -> [in, out], its input and output contracts
    Registered,     \* operations registered, and roles with an adapter registered
    Projectable,    \* contracts human intake knows how to fill in
    Workers,        \* coordinator processes, each with a workerId of its own
    Humans,         \* people who answer human effects
    Outputs,        \* classes of outputs
    Invalid,        \* the class of an output that fails its contract
    Otherwise,            \* "no outputPointer": the predicate of a default route
    None,           \* SQL NULL
    MaxRuns,        \* bound on the workflows started
    MaxVersions,    \* bound on the versions of one definition
    MaxFaults       \* bound on crashes, stops, late renewals and failures

ASSUME EngineAssumption ==
    /\ Invalid \in Outputs /\ Otherwise \notin Outputs /\ None \notin Workers \cup Humans
    /\ Projectable \subseteq Contracts /\ Workers \cap Humans = {}
    /\ MaxRuns \in Nat /\ MaxVersions \in Nat /\ MaxFaults \in Nat

VARIABLES
    versions,   \* id -> the sequence of its stored versions
    runs,       \* workflow_runs, in the order they were started:
                \* [def, ver, status, step, revision]
    effects,    \* workflow_effects, in the order they were created:
                \* [run, step, attempt, status, owner, fresh, claims]
    events,     \* run -> its workflow_events, in the order of their revision
    policy,     \* error code -> retryable (a missing row means FALSE)
    worker,     \* the memory of each coordinator process:
                \* [phase, stopping, effect, claim]
    resolving,  \* human -> the answer being stored
    faults      \* faults so far

vars == <<versions, runs, effects, events, policy, worker, resolving, faults>>
stored == <<runs, effects, events>>

ErrorCodes == {"EXECUTION", "EFFECT_NOT_OWNED"}

\* The memory of a coordinator: where its loop is (down, starting, idle, recovered,
\* executing), the effect it executes, and (for the properties only) which claim of
\* the effect that was.
Down == [phase |-> "down", stopping |-> FALSE, effect |-> 0, claim |-> 0]
NoAnswer == [effect |-> 0, output |-> Otherwise, claim |-> 0]

-----------------------------------------------------------------------------
(* Registering a definition: every check of service.ts.                    *)

validateExecutor(s) ==
    \/ s.executor = "agent" /\ s.role # None /\ s.operation = None
    \/ s.executor = "runtime" /\ s.role = None /\ s.operation # None
    \/ s.executor = "human" /\ s.role = None /\ s.operation = None

validateAgentRole(s) ==
    s.executor = "agent" =>
        /\ s.role \in DOMAIN RoleContract
        /\ RoleContract[s.role] = [in |-> s.in, out |-> s.out]

validateStep(s) ==
    /\ s.max >= 1
    /\ validateExecutor(s)
    /\ {s.in, s.out} \subseteq Contracts
    /\ validateAgentRole(s)

StepKeys(d) == {s.key : s \in Range(d.steps)}

\* The step of a definition with this key.
step(d, key) == CHOOSE s \in Range(d.steps) : s.key = key

indexSteps(d) ==
    /\ \A s \in Range(d.steps) : validateStep(s)
    /\ Cardinality(StepKeys(d)) = Len(d.steps)

validateRouteEndpoints(d, r) ==
    r.from \in StepKeys(d) /\ (r.target = None \/ r.target \in StepKeys(d))

validateRouteContracts(d, r) ==
    r.target # None => step(d, r.from).out = step(d, r.target).in

validateRoute(d, r) ==
    /\ validateRouteEndpoints(d, r)
    /\ r.priority \in Nat
    /\ validateRouteContracts(d, r)

validateRoutes(d) ==
    /\ \A r \in Range(d.routes) : validateRoute(d, r)
    /\ \A i, j \in DOMAIN d.routes :
           /\ d.routes[i].from = d.routes[j].from
           /\ \/ d.routes[i].priority = d.routes[j].priority
              \/ d.routes[i].when = Otherwise /\ d.routes[j].when = Otherwise
           => i = j
    /\ \A key \in StepKeys(d) :
           \E r \in Range(d.routes) : r.from = key /\ r.when = Otherwise

validateDefinition(d) ==
    indexSteps(d) /\ d.start \in StepKeys(d) /\ validateRoutes(d)

nextDefinitionVersion(id) == Len(versions[id]) + 1

\* Variant: the stored version is overwritten.
saveDefinition_inPlace(d) ==
    versions' = [versions EXCEPT ![d.id] = <<[status |-> "ACTIVE", body |-> d]>>]

\* In one transaction the ACTIVE version is retired and the new one stored.
saveDefinition(d) ==
    versions' = [versions EXCEPT ![d.id] =
        Append([i \in DOMAIN @ |-> [@[i] EXCEPT !.status = "RETIRED"]],
               [status |-> "ACTIVE", body |-> d])]

registerWorkflowDefinition(d) ==
    /\ nextDefinitionVersion(d.id) <= MaxVersions
    /\ validateDefinition(d)
    /\ saveDefinition(d)
    /\ UNCHANGED <<stored, policy, worker, resolving, faults>>

-----------------------------------------------------------------------------
(* Starting a workflow.                                                    *)

\* The versions definition(id, version?) can answer: the ACTIVE one, or the one
\* asked for, whatever its status.
definition(id, asked) ==
    {v \in DOMAIN versions[id] :
        IF asked = None THEN versions[id][v].status = "ACTIVE" ELSE v = asked}

pinned(r) == versions[runs[r].def][runs[r].ver].body
stepOf(e) == step(pinned(effects[e].run), effects[e].step)

statusFor(executor) == IF executor = "human" THEN "WAITING" ELSE "RUNNING"

newEffect(r, key, n) ==
    [run |-> r, step |-> key, attempt |-> n, status |-> "PENDING",
     owner |-> None, fresh |-> FALSE, claims |-> 0]

\* One transaction stores the run, its first effect and its first event.
insertRun(id, v) ==
    LET d == versions[id][v].body
    IN  /\ runs' = Append(runs, [def |-> id, ver |-> v, step |-> d.start,
               status |-> statusFor(step(d, d.start).executor), revision |-> 1])
        /\ effects' = Append(effects, newEffect(Len(runs) + 1, d.start, 1))
        /\ events' = Append(events, <<"started">>)

startWorkflow(id, asked, contract) ==
    /\ Len(runs) < MaxRuns
    /\ \E v \in definition(id, asked) :
         /\ step(versions[id][v].body, versions[id][v].body.start).in = contract
         /\ insertRun(id, v)
    /\ UNCHANGED <<versions, policy, worker, resolving, faults>>

\* human-intake.ts: the message of a person starts the only active workflow
\* whose first step is an agent's and takes a contract the intake can fill in;
\* with none, or with several, the message is refused.
intakeTargets ==
    {id \in Ids : \E v \in definition(id, None) :
        LET s == step(versions[id][v].body, versions[id][v].body.start)
        IN  s.executor = "agent" /\ s.in \in Projectable}

startHumanIntake ==
    /\ Cardinality(intakeTargets) = 1
    /\ \E id \in intakeTargets, contract \in Projectable : startWorkflow(id, None, contract)

-----------------------------------------------------------------------------
(* The store: one operator per write of the repository.                    *)

\* Variant: the compare-and-swap without the owner.
claimed_byAnyone(e, owner) == effects[e].status = "CLAIMED"

claimed(e, owner) ==
    effects[e].status = "CLAIMED" /\ effects[e].owner = owner

\* effectQuery: an effect is seen only while its run stands at its step.
effectQuery(e) == runs[effects[e].run].step = effects[e].step

closed(e, status) ==
    [effects[e] EXCEPT !.status = status, !.owner = None, !.fresh = FALSE]

\* The run r at another status and step, with the event of that revision.
advance(r, status, key, type) ==
    /\ runs' = [runs EXCEPT ![r].status = status, ![r].step = key, ![r].revision = @ + 1]
    /\ events' = [events EXCEPT ![r] = Append(@, type)]

\* UNIQUE (workflow_id, step_key, attempt) of workflow_effects.
effectIsNew(r, key, n) ==
    \A e \in DOMAIN effects :
        <<effects[e].run, effects[e].step, effects[e].attempt>> # <<r, key, n>>

\* persistClaim: the row must still be PENDING.
persistClaim(e, owner) ==
    /\ effects[e].status = "PENDING"
    /\ effects' = [effects EXCEPT ![e] = [@ EXCEPT !.status = "CLAIMED",
           !.owner = owner, !.fresh = TRUE, !.claims = effects[e].claims + 1]]
    /\ LET r == effects[e].run
       IN  advance(r, runs[r].status, runs[r].step, "effect_claimed")

claimable(e) ==
    /\ effects[e].status = "PENDING"
    /\ effectQuery(e)
    /\ runs[effects[e].run].status = "RUNNING"
    /\ stepOf(e).executor # "human"

\* Variant: the claims of people are not recovered.
expired_workersOnly ==
    {e \in DOMAIN effects : effects[e].owner \in Workers /\ ~effects[e].fresh}

\* The claims whose lease ran out, and their runs after recoverExpired: one new
\* revision per recovered effect (a run has one at most, see OpenRunHasItsEffect).
expired == {e \in DOMAIN effects : effects[e].status = "CLAIMED" /\ ~effects[e].fresh}

recoverExpired ==
    LET hit == {effects[e].run : e \in expired}
        executor(r) == stepOf(CHOOSE e \in expired : effects[e].run = r).executor
    IN  /\ effects' = [e \in DOMAIN effects |->
               IF e \in expired THEN closed(e, "PENDING") ELSE effects[e]]
        /\ runs' = [r \in DOMAIN runs |->
               IF r \in hit THEN [runs[r] EXCEPT !.status = statusFor(executor(r)),
                                                 !.revision = @ + 1]
               ELSE runs[r]]
        /\ events' = [r \in DOMAIN events |->
               IF r \in hit THEN Append(events[r], "effect_recovered") ELSE events[r]]

\* The routes of a step that match an output; the one of lowest priority wins.
matching(e, output) ==
    {r \in Range(pinned(effects[e].run).routes) :
        r.from = effects[e].step /\ r.when \in {Otherwise, output}}

routeTarget(e, output) ==
    (CHOOSE r \in matching(e, output) :
        \A q \in matching(e, output) : r.priority <= q.priority).target

\* The answer can be stored: it is valid, a route matches it, the claim is still
\* the caller's, and the effect of the next step is not there yet.
completable(e, owner, output) ==
    /\ output # Invalid
    /\ matching(e, output) # {}
    /\ claimed(e, owner)
    /\ routeTarget(e, output) # None =>
           effectIsNew(effects[e].run, routeTarget(e, output), 1)

complete(e, output) ==
    LET r == effects[e].run
        target == routeTarget(e, output)
        done == [effects EXCEPT ![e] = closed(e, "COMPLETED")]
    IN  \/ /\ target = None
           /\ effects' = done
           /\ advance(r, "COMPLETED", None, "completed")
        \/ /\ target # None
           /\ effects' = Append(done, newEffect(r, target, 1))
           /\ advance(r, statusFor(step(pinned(r), target).executor), target, "step_advanced")

\* failEffect: the claim is closed; then a retry, or the whole run fails.
scheduleRetry(e) ==
    LET r == effects[e].run
    IN  /\ effects' = Append([effects EXCEPT ![e] = closed(e, "FAILED")],
                             newEffect(r, effects[e].step, effects[e].attempt + 1))
        /\ advance(r, "RUNNING", runs[r].step, "effect_retry_scheduled")

\* Variant: a failure that is not retried leaves its run as it is.
failWorkflow_onlyTheEffect(e) ==
    /\ effects' = [effects EXCEPT ![e] = closed(e, "FAILED")]
    /\ UNCHANGED <<runs, events>>

failWorkflow(e) ==
    LET r == effects[e].run
    IN  /\ effects' = [effects EXCEPT ![e] = closed(e, "FAILED")]
        /\ advance(r, "FAILED", runs[r].step, "failed")

failEffect(e, retryable) ==
    IF retryable /\ effects[e].attempt < stepOf(e).max
    THEN scheduleRetry(e) ELSE failWorkflow(e)

-----------------------------------------------------------------------------
(* The coordinator process.                                                *)

\* A fault is counted, and refused beyond the bound.
fault == faults < MaxFaults /\ faults' = faults + 1

goto(w, phase) == worker' = [worker EXCEPT ![w] = [@ EXCEPT !.phase = phase,
                                                   !.effect = 0, !.claim = 0]]
\* The loop's promise rejects, nobody handles it, and the process ends.
die(w) == worker' = [worker EXCEPT ![w] = Down]

\* Every step of an ACTIVE version can be executed by this process.
validateBinding(s) ==
    /\ s.executor = "agent" => s.role \in Registered
    /\ s.executor = "runtime" => s.operation \in Registered

validateWorkflowRuntimeBindings ==
    \A id \in Ids : \A v \in definition(id, None) :
        \A s \in Range(versions[id][v].body.steps) : validateBinding(s)

\* createWorkflowRuntime and start: gateway orphans are reconciled first, and
\* only then does the loop run.
start(w) ==
    /\ worker[w].phase = "down"
    /\ validateWorkflowRuntimeBindings
    /\ goto(w, "starting")
    /\ UNCHANGED <<versions, stored, policy, resolving, faults>>

recovered(w) ==
    /\ worker[w].phase = "starting"
    /\ goto(w, "idle")
    /\ UNCHANGED <<versions, stored, policy, resolving, faults>>

recoverFails(w) ==
    /\ worker[w].phase = "starting" /\ fault
    /\ die(w)
    /\ UNCHANGED <<versions, stored, policy, resolving>>

\* runOne, first transaction.
recoverOne(w) ==
    /\ worker[w].phase = "idle" /\ ~worker[w].stopping
    /\ recoverExpired
    /\ goto(w, "recovered")
    /\ UNCHANGED <<versions, policy, resolving, faults>>

\* runOne, second transaction: the oldest claimable effect, or another poll.
claimNextEffect(w) ==
    /\ worker[w].phase = "recovered"
    /\ \/ \E e \in DOMAIN effects :
            /\ claimable(e)
            /\ \A f \in 1..(e - 1) : ~claimable(f)
            /\ persistClaim(e, w)
            /\ worker' = [worker EXCEPT ![w] = [@ EXCEPT !.phase = "executing",
                              !.effect = e, !.claim = effects[e].claims + 1]]
       \/ /\ \A e \in DOMAIN effects : ~claimable(e)
          /\ goto(w, "idle")
          /\ UNCHANGED stored
    /\ UNCHANGED <<versions, policy, resolving, faults>>

\* An agent's answer has been checked against its contract by the gateway.
answers(e) == IF stepOf(e).executor = "agent" THEN Outputs \ {Invalid} ELSE Outputs

\* The executor answered and the answer is stored.
completeOne(w, output) ==
    LET e == worker[w].effect
    IN  /\ worker[w].phase = "executing" /\ output \in answers(e)
        /\ effectQuery(e) /\ completable(e, w, output)
        /\ complete(e, output)
        /\ goto(w, "idle")
        /\ UNCHANGED <<versions, policy, resolving, faults>>

\* The executor answered, queue.complete throws out of runOne, and the process
\* ends with the effect still claimed, or claimed by somebody else.
completeThrows(w, output) ==
    LET e == worker[w].effect
    IN  /\ worker[w].phase = "executing" /\ output \in answers(e) /\ fault
        /\ ~(effectQuery(e) /\ completable(e, w, output))
        /\ die(w)
        /\ UNCHANGED <<versions, stored, policy, resolving>>

\* The executor failed, or a renewal came after the lease had expired: the
\* failure is stored by the policy of its code.
failOne(w, code) ==
    LET e == worker[w].effect
    IN  /\ worker[w].phase = "executing"
        /\ code = "EFFECT_NOT_OWNED" => ~(claimed(e, w) /\ effects[e].fresh)
        /\ \/ /\ effectQuery(e) /\ claimed(e, w)
              /\ failEffect(e, policy[code])
              /\ goto(w, "idle")
           \/ /\ ~(effectQuery(e) /\ claimed(e, w))
              /\ die(w)
              /\ UNCHANGED stored
        /\ UNCHANGED <<versions, policy, resolving>>

executionFails(w) == failOne(w, "EXECUTION") /\ fault
renewFails(w) == failOne(w, "EFFECT_NOT_OWNED") /\ UNCHANGED faults

\* stop sets a flag; the loop reads it before its next runOne.
stop(w) ==
    /\ worker[w].phase # "down" /\ ~worker[w].stopping /\ fault
    /\ worker' = [worker EXCEPT ![w].stopping = TRUE]
    /\ UNCHANGED <<versions, stored, policy, resolving>>

stopped(w) ==
    /\ worker[w].phase = "idle" /\ worker[w].stopping
    /\ die(w)
    /\ UNCHANGED <<versions, stored, policy, resolving, faults>>

crash(w) ==
    /\ worker[w].phase # "down" /\ fault
    /\ die(w)
    /\ UNCHANGED <<versions, stored, policy, resolving>>

\* A lease runs out.  While its owner works on it that is a fault (the process
\* was suspended, or its event loop blocked); after its death it is certain.
holders(e) == {w \in Workers : worker[w].phase = "executing" /\ worker[w].effect = e}
              \cup {h \in Humans : resolving[h].effect = e}

leaseExpires(e) ==
    /\ effects[e].status = "CLAIMED" /\ effects[e].fresh
    /\ effects[e].owner \notin holders(e)
    /\ effects' = [effects EXCEPT ![e].fresh = FALSE]
    /\ UNCHANGED <<versions, runs, events, policy, worker, resolving, faults>>

leaseExpiresEarly(e) ==
    /\ effects[e].status = "CLAIMED" /\ effects[e].fresh
    /\ effects[e].owner \in holders(e) /\ fault
    /\ effects' = [effects EXCEPT ![e].fresh = FALSE]
    /\ UNCHANGED <<versions, runs, events, policy, worker, resolving>>

-----------------------------------------------------------------------------
(* Human effects: claimed by id under "human:<name>", then completed.      *)

pendingHumanEffect(e) ==
    /\ effects[e].status = "PENDING" /\ effectQuery(e)
    /\ runs[effects[e].run].status = "WAITING"
    /\ stepOf(e).executor = "human"

claimHuman(h, e, output) ==
    /\ resolving[h] = NoAnswer
    /\ pendingHumanEffect(e) /\ output \in Outputs \ {Invalid}
    /\ persistClaim(e, h)
    /\ resolving' = [resolving EXCEPT ![h] =
           [effect |-> e, output |-> output, claim |-> effects[e].claims + 1]]
    /\ UNCHANGED <<versions, policy, worker, faults>>

\* The second transaction of resolveHumanWorkflowEffect, or its refusal.
completeHuman(h) ==
    LET e == resolving[h].effect
    IN  /\ resolving[h] # NoAnswer
        /\ IF completable(e, h, resolving[h].output)
           THEN complete(e, resolving[h].output) ELSE UNCHANGED stored
        /\ resolving' = [resolving EXCEPT ![h] = NoAnswer]
        /\ UNCHANGED <<versions, policy, worker, faults>>

humanCrash(h) ==
    /\ resolving[h] # NoAnswer /\ fault
    /\ resolving' = [resolving EXCEPT ![h] = NoAnswer]
    /\ UNCHANGED <<versions, stored, policy, worker>>

-----------------------------------------------------------------------------
setWorkflowFailurePolicy(code, retryable) ==
    /\ policy' = [policy EXCEPT ![code] = retryable]
    /\ UNCHANGED <<versions, stored, worker, resolving, faults>>

Init ==
    /\ versions = [id \in Ids |-> <<>>]
    /\ runs = <<>> /\ effects = <<>> /\ events = <<>>
    /\ policy = [c \in ErrorCodes |-> FALSE]
    /\ worker = [w \in Workers |-> Down]
    /\ resolving = [h \in Humans |-> NoAnswer]
    /\ faults = 0

Work(w) ==
    \/ start(w) \/ recovered(w) \/ recoverOne(w) \/ claimNextEffect(w)
    \/ \E o \in Outputs : completeOne(w, o)
    \/ renewFails(w) \/ stopped(w)

Harm(w) ==
    \/ recoverFails(w) \/ executionFails(w) \/ stop(w) \/ crash(w)
    \/ \E o \in Outputs : completeThrows(w, o)

Next ==
    \/ \E d \in Candidates : registerWorkflowDefinition(d)
    \/ \E id \in Ids, v \in 1..MaxVersions \cup {None}, c \in Contracts : startWorkflow(id, v, c)
    \/ startHumanIntake
    \/ \E w \in Workers : Work(w) \/ Harm(w)
    \/ \E e \in DOMAIN effects : leaseExpires(e) \/ leaseExpiresEarly(e)
    \/ \E h \in Humans, e \in DOMAIN effects, o \in Outputs : claimHuman(h, e, o)
    \/ \E h \in Humans : completeHuman(h) \/ humanCrash(h)
    \/ \E c \in ErrorCodes, b \in BOOLEAN : setWorkflowFailurePolicy(c, b)

\* The coordinator's own steps, the clock, and a person's stored answer.
Fairness ==
    /\ \A w \in Workers : WF_vars(Work(w))
    /\ \A h \in Humans : WF_vars(completeHuman(h))
    /\ WF_vars(\E e \in DOMAIN effects : leaseExpires(e))

Spec == Init /\ [][Next]_vars /\ Fairness

-----------------------------------------------------------------------------
(* Correctness.                                                            *)

Open(r) == runs[r].status \in {"RUNNING", "WAITING"}
OpenEffects(r) ==
    {e \in DOMAIN effects : effects[e].run = r /\ effects[e].status \in {"PENDING", "CLAIMED"}}

\* No run is lost and none forks: whatever crashes, expires or is answered
\* late, an open run has exactly one effect to be done, at the step it stands
\* at and waiting for a person only if that step is a person's; a finished run
\* has none, so nobody works for it.
OpenRunHasItsEffect ==
    \A r \in DOMAIN runs :
        IF Open(r)
        THEN \E e \in DOMAIN effects :
                /\ OpenEffects(r) = {e}
                /\ effects[e].step = runs[r].step
                /\ runs[r].status = statusFor(stepOf(e).executor)
        ELSE OpenEffects(r) = {}

\* The holder of the current claim of an effect, the one recorded when it was
\* claimed for the last time.
holdsClaim(e) ==
    \/ \E w \in Workers : worker[w].effect = e /\ worker[w].claim = effects[e].claims
    \/ \E h \in Humans : resolving[h].effect = e /\ resolving[h].claim = effects[e].claims

\* Only the process that holds the current claim closes an effect: the answer
\* of a worker whose lease expired, and whose effect was recovered and claimed
\* again, changes nothing.
AnswerOfCurrentClaim ==
    [][\A e \in DOMAIN effects :
          effects[e].status = "CLAIMED" /\ effects'[e].status \in {"COMPLETED", "FAILED"} =>
              holdsClaim(e) /\ ~holdsClaim(e)']_vars

\* Where each run stands in the version it is pinned to.
Place == [r \in DOMAIN runs |-> [of |-> pinned(r), at |-> runs[r].step,
             state |-> IF Open(r) THEN "OPEN" ELSE runs[r].status]]

\* The engine implements WorkflowPath: runs walk the routes of the version
\* they were started with, also when other versions are registered meanwhile.
Path == INSTANCE WorkflowPath WITH place <- Place
FollowsPath == Path!PathSpec

\* Once the faults are over no run hangs: again and again each run is over or
\* waits for a person.
Settled(r) ==
    r \in DOMAIN runs => \/ ~Open(r)
                         \/ \E e \in OpenEffects(r) : pendingHumanEffect(e)
RunsSettle == \A r \in 1..MaxRuns : []<>Settled(r)
=============================================================================
