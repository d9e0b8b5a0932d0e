------------------------------ MODULE GatewayRun ------------------------------
(***************************************************************************)
(* The gateway: a run spec is prepared for a work definition or a workflow *)
(* effect, dispatched to an external agent through an adapter (session,    *)
(* turn), observed until it ends, retried or, after a restart, taken over  *)
(* (src/src/gateway).                                                      *)
(*                                                                         *)
(* Callers are `dispatch run` processes and coordinator loops: each takes  *)
(* one step per await of the code, several may dispatch the same run, and  *)
(* any of them may die between two steps.  The provider (an OpenCode       *)
(* server) is outside the repository: it works on the messages it holds in *)
(* its own time and answers what the adapter asks.                         *)
(***************************************************************************)
EXTENDS Integers, FiniteSets, FiniteSetsExt

CONSTANTS
    Callers,      \* processes and coordinator loops that dispatch runs
    Works,        \* work definitions dispatched by hand
    Effects,      \* workflow effects dispatched by the coordinator
    MaxAttempts,  \* bound: runs of one retry chain
    MaxTurns,     \* bound: SUBMIT_TURN operations of one run
    MaxCalls,     \* bound: dispatches
    MaxBases,     \* bound: works and effects that get a run (they share no row)
    MaxCrashes    \* bound: crashes and restarts

ASSUME GatewayAssumption ==
    /\ Works \cap Effects = {}
    /\ MaxAttempts \in Nat \ {0}
    /\ {MaxTurns, MaxCalls, MaxBases, MaxCrashes} \subseteq Nat

-----------------------------------------------------------------------------
(***************************************************************************)
(* What is stored.  A run is named by its dispatch identity, base and      *)
(* attempt: run_dispatches has one run spec for each.                      *)
(***************************************************************************)
Runs == (Works \X (1..MaxAttempts)) \cup (Effects \X {1})
Manual(r) == r[1] \in Works
None == 0
NoRun == << >>
Turns == 1..MaxTurns

TerminalStatus == {"completed", "failed", "cancelled", "timedOut",
                   "policyBlocked", "outputInvalid"}
\* "none": no output, or one that does not satisfy the contract.
Outputs == {"none", "valid"}

VARIABLES
    specs,      \* run_specs and run_dispatches
    intents,    \* dispatch_intents: [run, op, seq, status], op "createSession",
                \* "submitTurn" or "cancelOrphan", status "committed", "consumed"
                \* or "blocked"
    session,    \* gateway_sessions: whether the run has a row
    turns,      \* gateway_turns: the sequences accepted
    row,        \* gateway_run_state: [status, msg, tool, out] or NoRow
    created,    \* provider: sessions created for a run
    messages,   \* provider: the messages it was sent, [state, tool, out]
    active,     \* the effects whose workflow runs and that are PENDING or CLAIMED
    caller,     \* the dispatches in progress: [pc, run, seq, seen, why]
    recovery,   \* the reconciliation in progress
    calls, crashes

stored == <<specs, intents, session, turns, row>>
provider == <<created, messages>>
vars == <<stored, provider, active, caller, recovery, calls, crashes>>

\* A message is absent, pending, running, completed, cancelled or "unknown": the
\* session went idle without an answer or with an error; both end the run as failed.
NoMessage == [state |-> "absent", tool |-> FALSE, out |-> "none"]

NoRow == [status |-> "none", msg |-> None, tool |-> FALSE, out |-> "none"]

\* What one read of the session's messages tells of those after a given one: the
\* state of the last, whether a tool was used, the answer and its validation.
NoReading == [last |-> "unknown", tool |-> FALSE, candidate |-> "none", output |-> "none"]

Idle == [pc |-> "idle", run |-> NoRun, seq |-> None,
         seen |-> NoReading, why |-> "none"]

NoRecovery == [todo |-> {}, run |-> NoRun, seq |-> None]

Init ==
    /\ specs = {} /\ intents = {}
    /\ session = [r \in Runs |-> FALSE]
    /\ turns = [r \in Runs |-> {}]
    /\ row = [r \in Runs |-> NoRow]
    /\ created = [r \in Runs |-> 0]
    /\ messages = [r \in Runs |-> [i \in Turns |-> NoMessage]]
    /\ active = Effects
    /\ caller = [c \in Callers |-> Idle]
    /\ recovery = NoRecovery
    /\ calls = 0 /\ crashes = 0

-----------------------------------------------------------------------------
(***************************************************************************)
(* Intents: written before the adapter is called, closed afterwards.       *)
(***************************************************************************)
operationsOf(r, op) == {i \in intents : i.run = r /\ i.op = op}

nextOperationSequence(op, r) == Cardinality(operationsOf(r, op)) + 1
nextTurnSequence(r) == nextOperationSequence("submitTurn", r)

operationKeyTaken(r, op, seq) == \E i \in operationsOf(r, op) : i.seq = seq

commitIntent(r, op, seq) ==
    intents' = intents \cup {[run |-> r, op |-> op, seq |-> seq, status |-> "committed"]}

closed(r, op, seq, status) ==
    {IF i.run = r /\ i.op = op /\ i.seq = seq /\ i.status = "committed"
       THEN [i EXCEPT !.status = status] ELSE i : i \in intents}
consumeIntent(r, op, seq) == intents' = closed(r, op, seq, "consumed")
blockIntent(r, op, seq) == intents' = closed(r, op, seq, "blocked")

acceptSession_open(r) ==
    /\ session' = [session EXCEPT ![r] = TRUE] /\ UNCHANGED intents
acceptSession(r) ==
    /\ session' = [session EXCEPT ![r] = TRUE]
    /\ consumeIntent(r, "createSession", None)

acceptTurn(r, seq) ==
    /\ turns' = [turns EXCEPT ![r] = @ \cup {seq}]
    /\ consumeIntent(r, "submitTurn", seq)

loadLatestTurn(r) == IF turns[r] = {} THEN None ELSE Max(turns[r])

-----------------------------------------------------------------------------
(***************************************************************************)
(* The run row: created by the first observer, written only while it says  *)
(* observing.                                                              *)
(***************************************************************************)
isRunObserving(r) == row[r].status = "observing"
terminal(r) == row[r].status \in TerminalStatus

runStatusScope(r) == isRunObserving(r)

createObservingGatewayRun(r, seq) ==
    row' = [row EXCEPT ![r] = [status |-> "observing", msg |-> seq, tool |-> FALSE, out |-> "none"]]

recordGatewayObservation(r, observation) ==
    row' = IF runStatusScope(r) THEN [row EXCEPT ![r].tool = observation.tool] ELSE row

finishGatewayRun(r, status, observation) ==
    row' = IF runStatusScope(r)
             THEN [row EXCEPT ![r] = [@ EXCEPT !.status = status, !.tool = observation.tool,
                          !.out = IF status = "completed" THEN observation.out ELSE "none"]]
             ELSE row

failGatewayRun(r) ==
    row' = IF runStatusScope(r) THEN [row EXCEPT ![r].status = "failed"] ELSE row

finalizeOrphanedRun(r, status) ==
    row' = IF isRunObserving(r) THEN [row EXCEPT ![r].status = status] ELSE row

\* A run that ended is answered from its rows alone.
terminalDispatchReceipt(r) ==
    /\ session[r] /\ turns[r] # {}
    /\ row[r].status = "completed" => row[r].out # "none"

-----------------------------------------------------------------------------
(***************************************************************************)
(* The provider.  The messages of a session are worked on in order; a      *)
(* running one may use a tool the profile does not allow, and may hold an  *)
(* answer before the session goes idle.                                    *)
(***************************************************************************)
busy(r) == \E i \in Turns : messages[r][i].state = "running"

ProviderStarts(r, i) ==
    /\ messages[r][i].state = "pending" /\ ~busy(r)
    /\ \A j \in 1..(i - 1) : messages[r][j].state # "pending"
    /\ messages' = [messages EXCEPT ![r][i].state = "running"]

ProviderUsesTool(r, i) ==
    /\ messages[r][i].state = "running" /\ ~messages[r][i].tool
    /\ messages' = [messages EXCEPT ![r][i].tool = TRUE]

ProviderAnswers(r, i) ==
    /\ messages[r][i].state = "running" /\ messages[r][i].out = "none"
    /\ messages' = [messages EXCEPT ![r][i].out = "valid"]

ProviderEnds(r, i) ==
    /\ messages[r][i].state = "running"
    /\ \/ \E out \in Outputs :
            messages' = [messages EXCEPT ![r][i].state = "completed", ![r][i].out = out]
       \/ messages' = [messages EXCEPT ![r][i].state = "unknown", ![r][i].out = "none"]

\* Nothing depends on what it does with a run that ended and nobody observes.
ProviderStep ==
    /\ \E r \in Runs, i \in Turns :
         /\ row[r].status \in TerminalStatus => \E c \in Callers : caller[c].run = r
         /\ ProviderStarts(r, i) \/ ProviderUsesTool(r, i)
              \/ ProviderAnswers(r, i) \/ ProviderEnds(r, i)
    /\ UNCHANGED <<stored, created, active, caller, recovery, calls, crashes>>

\* POST session/abort: the session stops now, later, or not at all.
abortSession(r) ==
    \E stops \in BOOLEAN :
      messages' = IF stops
        THEN [messages EXCEPT ![r] = [i \in Turns |->
                IF @[i].state = "running" THEN [@[i] EXCEPT !.state = "cancelled", !.out = "none"] ELSE @[i]]]
        ELSE messages

\* The adapter's reading of the messages from the dispatched one on.
finalState(m) ==
    CASE m.state = "running" /\ m.out = "none" -> "unknown"
      [] m.state = "running" /\ m.out # "none" -> "completed"
      [] OTHER -> m.state

messagesAfterParent(r, seq) ==
    {i \in seq..MaxTurns : messages[r][i].state \notin {"absent", "pending"}}

candidateOutput(r, relevant) ==
    LET answered == {i \in relevant : messages[r][i].out # "none"
                                       /\ messages[r][i].state \in {"running", "completed"}}
    IN  IF answered = {} THEN "none" ELSE messages[r][Min(answered)].out

read(r, seq) ==
    LET relevant == messagesAfterParent(r, seq)
    IN  IF messages[r][seq].state \in {"absent", "pending"} THEN NoReading
        ELSE LET last == messages[r][Max(relevant)]
             IN  [last |-> finalState(last),
                  tool |-> \E i \in relevant : messages[r][i].tool,
                  candidate |-> candidateOutput(r, relevant),
                  output |-> last.out]

\* The statuses are read after the messages: the two need not agree.
observationState(isBusy, reading) == IF isBusy THEN "running" ELSE reading.last

toObservation(isBusy, reading) ==
    LET state == observationState(isBusy, reading)
    IN  [state |-> state, tool |-> reading.tool,
         out |-> CASE state = "running"   -> reading.candidate
                   [] state = "completed" -> reading.output
                   [] OTHER               -> "none"]

-----------------------------------------------------------------------------
(***************************************************************************)
(* Preparing a run.                                                        *)
(***************************************************************************)
existingDispatch(r) == r \in specs

\* The same dispatch identity gives the run it already has.
prepareResolved(r) ==
    /\ Cardinality({s[1] : s \in specs \cup {r}}) <= MaxBases
    /\ specs' = IF existingDispatch(r) THEN specs ELSE specs \cup {r}

prepareRunSpec(w) ==
    /\ ~existingDispatch(<<w, 1>>)
    /\ prepareResolved(<<w, 1>>)
    /\ UNCHANGED <<intents, session, turns, row, provider, active, caller, recovery, calls, crashes>>

successorDispatchRef(r) == <<r[1], r[2] + 1>>

assertRetryable_anyEnd(r) == Manual(r) /\ terminal(r)
assertRetryable(r) == Manual(r) /\ terminal(r) /\ row[r].status # "completed"

retryRunSpec(r) ==
    /\ r \in specs /\ assertRetryable(r)
    /\ successorDispatchRef(r) \in Runs \ specs
    /\ prepareResolved(successorDispatchRef(r))
    /\ UNCHANGED <<intents, session, turns, row, provider, active, caller, recovery, calls, crashes>>

-----------------------------------------------------------------------------
(***************************************************************************)
(* dispatchRun, one step per await.                                        *)
(***************************************************************************)
at(c, pc) == caller[c].pc = pc
run(c) == caller[c].run
goto(c, pc) == caller' = [caller EXCEPT ![c].pc = pc]
return(c) == caller' = [caller EXCEPT ![c] = Idle]
throw(c) == return(c)

\* A coordinator loop dispatches an effect it has claimed, once the runtime's
\* reconciliation is over; it prepares the run itself.
dispatchRun(c, r) ==
    /\ at(c, "idle") /\ calls < MaxCalls
    /\ IF Manual(r) THEN r \in specs
                    ELSE r[1] \in active /\ recovery = NoRecovery
    /\ ~terminal(r)
    /\ prepareResolved(r)
    /\ caller' = [caller EXCEPT ![c] = [Idle EXCEPT !.pc = "verifying", !.run = r]]
    /\ calls' = calls + 1
    /\ UNCHANGED <<intents, session, turns, row, provider, active, recovery, crashes>>

\* The durable row decides first: a run another caller ended is answered from
\* it, and only a turn that is not yet watched gets a row.
durableCompletion(r) == terminal(r)

beginOrResumeObservation(c, r, seq) ==
    CASE row[r] = NoRow ->
           /\ createObservingGatewayRun(r, seq)
           /\ caller' = [caller EXCEPT ![c].pc = "observing", ![c].seq = seq]
      [] row[r] # NoRow /\ row[r].msg = seq ->
           /\ caller' = [caller EXCEPT ![c].pc = "observing", ![c].seq = seq]
           /\ UNCHANGED row
      [] row[r] # NoRow /\ row[r].msg # seq -> throw(c) /\ UNCHANGED row

observeTurnToCompletion(c, r, seq) ==
    IF durableCompletion(r) THEN return(c) /\ UNCHANGED row
                            ELSE beginOrResumeObservation(c, r, seq)

\* ensureTurn up to the adapter's call: a turn already accepted is observed.
ensureTurn(c, r) ==
    IF turns[r] # {}
      THEN observeTurnToCompletion(c, r, loadLatestTurn(r)) /\ UNCHANGED intents
      ELSE LET seq == nextTurnSequence(r)
           IN  /\ seq \in Turns  \* bound
               /\ commitIntent(r, "submitTurn", seq)
               /\ caller' = [caller EXCEPT ![c].pc = "submitting", ![c].seq = seq]
               /\ UNCHANGED row

\* verifyProfile answered: ensureSession up to the adapter's call.  The profile
\* may have changed since the stored session was created with it.
ensureSession(c) ==
    /\ at(c, "verifying")
    /\ LET r == run(c) IN
       \E profileChanged \in BOOLEAN :
         CASE session[r] /\ ~profileChanged -> ensureTurn(c, r)
           [] session[r] /\ profileChanged -> throw(c) /\ UNCHANGED <<intents, row>>
           [] ~session[r] /\ operationKeyTaken(r, "createSession", None) ->
                throw(c) /\ UNCHANGED <<intents, row>>
           [] ~session[r] /\ ~operationKeyTaken(r, "createSession", None) ->
                /\ commitIntent(r, "createSession", None)
                /\ goto(c, "creating") /\ UNCHANGED row
    /\ UNCHANGED <<specs, session, turns, provider, active, recovery, calls, crashes>>

\* The profile cannot be verified: nothing was written yet.
verifyProfileFails(c) ==
    /\ at(c, "verifying") /\ throw(c)
    /\ UNCHANGED <<stored, provider, active, recovery, calls, crashes>>

createOpenCodeSession(c) ==
    /\ at(c, "creating")
    /\ created' = [created EXCEPT ![run(c)] = @ + 1]
    /\ goto(c, "created")
    /\ UNCHANGED <<stored, messages, active, recovery, calls, crashes>>

sessionCreated(c) ==
    /\ at(c, "created")
    /\ acceptSession(run(c))
    /\ goto(c, "resumed")
    /\ UNCHANGED <<specs, turns, row, provider, active, recovery, calls, crashes>>

sessionResumed(c) ==
    /\ at(c, "resumed") /\ ensureTurn(c, run(c))
    /\ UNCHANGED <<specs, session, turns, provider, active, recovery, calls, crashes>>

submitPrompt(c) ==
    /\ at(c, "submitting")
    /\ messages' = [messages EXCEPT ![run(c)][caller[c].seq].state = "pending"]
    /\ goto(c, "submitted")
    /\ UNCHANGED <<stored, created, active, recovery, calls, crashes>>

turnSubmitted(c) ==
    /\ at(c, "submitted")
    /\ acceptTurn(run(c), caller[c].seq)
    /\ observeTurnToCompletion(c, run(c), caller[c].seq)
    /\ UNCHANGED <<specs, session, provider, active, recovery, calls, crashes>>

\* The adapter's call failed, before or after it reached the provider, or its
\* receipt is not for what was asked.
adapterCallFails(c) ==
    /\ caller[c].pc \in {"creating", "created", "submitting", "submitted"}
    /\ IF caller[c].pc \in {"creating", "created"}
         THEN blockIntent(run(c), "createSession", None)
         ELSE blockIntent(run(c), "submitTurn", caller[c].seq)
    /\ throw(c)
    /\ UNCHANGED <<specs, session, turns, row, provider, active, recovery, calls, crashes>>

-----------------------------------------------------------------------------
(***************************************************************************)
(* The observation loop.                                                   *)
(***************************************************************************)
finishRun(c, status, observation) == finishGatewayRun(run(c), status, observation)

observeRun(c) ==
    /\ at(c, "observing")
    /\ caller' = [caller EXCEPT ![c].pc = "reading", ![c].seen = read(run(c), caller[c].seq)]
    /\ UNCHANGED <<stored, provider, active, recovery, calls, crashes>>

Observation(c) == toObservation(busy(run(c)), caller[c].seen)

prohibited(observation) == observation.tool
stopFor(c, why) == caller' = [caller EXCEPT ![c].pc = "cancelling", ![c].why = why,
                                             ![c].seen = NoReading]

enforceToolPolicy(c, observation) ==
    /\ prohibited(observation)
    /\ recordGatewayObservation(run(c), observation) /\ stopFor(c, "policy")

validateCompletion(c, observation) ==
    finishRun(c, IF observation.out = "valid" THEN "completed" ELSE "outputInvalid", observation)

terminalStatusOf(state) == IF state = "unknown" THEN "failed" ELSE state

handleTerminal(c, observation) ==
    /\ observation.state # "running"
    /\ IF observation.state = "completed"
         THEN validateCompletion(c, observation)
         ELSE finishRun(c, terminalStatusOf(observation.state), observation)
    /\ return(c)

\* A valid answer in flight completes the run; stopping the session afterwards
\* is best effort.
completeFromCandidate(c, observation) ==
    /\ observation.state = "running" /\ observation.out = "valid"
    /\ finishRun(c, "completed", observation)
    /\ goto(c, "hygiene")

stillRunning(observation) == observation.state = "running" /\ observation.out # "valid"

enforceProgressTimeout(c, observation) ==
    /\ stillRunning(observation)
    /\ recordGatewayObservation(run(c), observation) /\ stopFor(c, "timeout")

enforceRunDurationCeiling_none(c, observation) == FALSE
enforceRunDurationCeiling(c, observation) ==
    /\ stillRunning(observation)
    /\ recordGatewayObservation(run(c), observation) /\ stopFor(c, "timeout")

sleep(c, observation) ==
    /\ stillRunning(observation)
    /\ recordGatewayObservation(run(c), observation)
    /\ caller' = [caller EXCEPT ![c].pc = "observing", ![c].seen = NoReading]

\* What the loop does with an observation, in the order of the code.
observed_toolsLast(c, observation) ==
    \/ handleTerminal(c, observation)
    \/ completeFromCandidate(c, observation)
    \/ stillRunning(observation) /\ enforceToolPolicy(c, observation)
    \/ ~prohibited(observation) /\ ( \/ enforceProgressTimeout(c, observation)
                                     \/ sleep(c, observation) )
observed(c, observation) ==
    \/ enforceToolPolicy(c, observation)
    \/ ~prohibited(observation) /\ ( \/ handleTerminal(c, observation)
                                     \/ completeFromCandidate(c, observation)
                                     \/ enforceProgressTimeout(c, observation)
                                     \/ sleep(c, observation) )

runObservationLoop(c) ==
    /\ at(c, "reading") /\ observed(c, Observation(c))
    /\ UNCHANGED <<specs, intents, session, turns, provider, active, recovery, calls, crashes>>

\* The duration since the durable turn row passed the ceiling.
ceilingPassed(c) ==
    /\ at(c, "reading") /\ ~prohibited(Observation(c))
    /\ enforceRunDurationCeiling(c, Observation(c))
    /\ UNCHANGED <<specs, intents, session, turns, provider, active, recovery, calls, crashes>>

cancelRun(c) ==
    /\ at(c, "cancelling")
    /\ abortSession(run(c)) /\ goto(c, "awaiting")
    /\ UNCHANGED <<stored, created, active, recovery, calls, crashes>>

confirmed_byReceipt(observation) == TRUE
confirmed(observation) == observation.state # "running"

stoppedStatus(c, observation) ==
    IF ~confirmed(observation) THEN "failed"
    ELSE IF caller[c].why = "policy" THEN "policyBlocked" ELSE "timedOut"

\* The poll that ends the wait: the session went idle, or the grace is over.
cancelAndAwait(c) ==
    /\ at(c, "awaiting")
    /\ LET observation == toObservation(busy(run(c)), read(run(c), caller[c].seq))
       IN  finishRun(c, stoppedStatus(c, observation), observation)
    /\ throw(c)
    /\ UNCHANGED <<specs, intents, session, turns, provider, active, recovery, calls, crashes>>

completedHygiene(c) ==
    /\ at(c, "hygiene") /\ abortSession(run(c)) /\ return(c)
    /\ UNCHANGED <<stored, created, active, recovery, calls, crashes>>

\* Whatever the adapter throws while the turn is observed fails the run.
failObservingRun(c) ==
    /\ caller[c].pc \in {"observing", "reading", "cancelling", "awaiting"}
    /\ failGatewayRun(run(c)) /\ throw(c)
    /\ UNCHANGED <<specs, intents, session, turns, provider, active, recovery, calls, crashes>>

CallerStep(c) ==
    \/ ensureSession(c) \/ verifyProfileFails(c)
    \/ createOpenCodeSession(c) \/ sessionCreated(c) \/ sessionResumed(c)
    \/ submitPrompt(c) \/ turnSubmitted(c) \/ adapterCallFails(c)
    \/ observeRun(c) \/ runObservationLoop(c) \/ cancelRun(c)
    \/ cancelAndAwait(c) \/ completedHygiene(c) \/ failObservingRun(c)

-----------------------------------------------------------------------------
(***************************************************************************)
(* Crashes, and the reconciliation a starting runtime makes before its     *)
(* coordinator claims anything.                                            *)
(***************************************************************************)
orphanedTargets == {r \in Runs : ~Manual(r) /\ isRunObserving(r) /\ r[1] \notin active}

Crash(c) ==
    /\ crashes < MaxCrashes /\ ~at(c, "idle") /\ Manual(run(c))
    /\ crashes' = crashes + 1
    /\ caller' = [caller EXCEPT ![c] = Idle]
    /\ UNCHANGED <<stored, provider, active, recovery, calls>>

RuntimeRestart ==
    /\ crashes < MaxCrashes
    /\ crashes' = crashes + 1
    /\ caller' = [c \in Callers |-> IF ~at(c, "idle") /\ ~Manual(run(c)) THEN Idle ELSE caller[c]]
    /\ recovery' = [NoRecovery EXCEPT !.todo = orphanedTargets]
    /\ UNCHANGED <<stored, provider, active, calls>>

cancelTarget(r) ==
    /\ recovery.run = NoRun /\ r \in recovery.todo
    /\ LET seq == nextOperationSequence("cancelOrphan", r) IN
       \E adapterKnown \in BOOLEAN :
         IF adapterKnown /\ loadLatestTurn(r) # None
           THEN /\ commitIntent(r, "cancelOrphan", seq)
                /\ recovery' = [recovery EXCEPT !.run = r, !.seq = seq]
                /\ UNCHANGED row
           ELSE /\ finalizeOrphanedRun(r, "failed")
                /\ recovery' = [recovery EXCEPT !.todo = @ \ {r}]
                /\ UNCHANGED intents
    /\ UNCHANGED <<specs, session, turns, provider, active, caller, calls, crashes>>

orphanCancelled(acknowledged) ==
    /\ recovery.run # NoRun
    /\ LET r == recovery.run IN
       IF acknowledged
         THEN /\ abortSession(r) /\ consumeIntent(r, "cancelOrphan", recovery.seq)
              /\ finalizeOrphanedRun(r, "cancelled")
         ELSE /\ blockIntent(r, "cancelOrphan", recovery.seq)
              /\ finalizeOrphanedRun(r, "failed") /\ UNCHANGED messages
    /\ recovery' = [NoRecovery EXCEPT !.todo = recovery.todo \ {recovery.run}]
    /\ UNCHANGED <<specs, session, turns, created, active, caller, calls, crashes>>

reconcileOrphanedGatewayRuns ==
    \/ \E r \in Runs : cancelTarget(r)
    \/ \E acknowledged \in BOOLEAN : orphanCancelled(acknowledged)

\* The workflow engine ends an effect (WorkflowEngine): lease expired, workflow
\* failed, or answered.  One that has no run concerns nobody here.
EffectEnds(e) ==
    /\ e \in active /\ <<e, 1>> \in specs
    /\ active' = active \ {e}
    /\ UNCHANGED <<stored, provider, caller, recovery, calls, crashes>>

Next ==
    \/ \E w \in Works : prepareRunSpec(w)
    \/ \E r \in Runs : retryRunSpec(r)
    \/ \E c \in Callers, r \in Runs : dispatchRun(c, r)
    \/ \E c \in Callers : CallerStep(c) \/ ceilingPassed(c) \/ Crash(c)
    \/ ProviderStep
    \/ RuntimeRestart
    \/ reconcileOrphanedGatewayRuns
    \/ \E e \in Effects : EffectEnds(e)

\* A call to the provider ends, one way or the other, and the clock passes the
\* ceiling; the provider itself need never finish anything.
Fairness ==
    /\ \A c \in Callers : WF_vars(CallerStep(c)) /\ SF_vars(ceilingPassed(c))
    /\ WF_vars(reconcileOrphanedGatewayRuns)

Spec == Init /\ [][Next]_vars /\ Fairness

-----------------------------------------------------------------------------
(***************************************************************************)
(* Properties.                                                             *)
(***************************************************************************)

\* However callers crash and race, a run has at most one session at the
\* provider, and a run that has a row has the trail a later dispatch answers
\* from: its session, the turn it watches, the consumed intents of both, and
\* when it completed an output (gateway.ts ensureSession, terminalDispatchReceipt).
DurableTrail ==
    \A r \in Runs :
      /\ created[r] <= 1
      /\ session[r] =>
           /\ created[r] = 1
           /\ [run |-> r, op |-> "createSession", seq |-> None, status |-> "consumed"] \in intents
      /\ row[r] # NoRow =>
           /\ row[r].msg \in turns[r]
           /\ [run |-> r, op |-> "submitTurn", seq |-> row[r].msg, status |-> "consumed"] \in intents
           /\ terminal(r) => terminalDispatchReceipt(r)

\* A run is stored as completed only with an answer that satisfies its
\* contract, from an observation that shows no prohibited tool
\* (gateway-lifecycle.ts runObservationLoop).
CompletedRunIsClean ==
    \A r \in Runs : row[r].status = "completed" => row[r].out = "valid" /\ ~row[r].tool

\* A run whose turn was submitted once is stored as timed out or blocked by
\* policy only when that turn no longer runs at the provider (cancelAndAwait).
StoppedBeforeItSaysSo ==
    \A r \in Runs :
      /\ row[r].status \in {"timedOut", "policyBlocked"}
      /\ Cardinality(operationsOf(r, "submitTurn")) = 1
      => messages[r][row[r].msg].state # "running"

\* A retry chain never completes twice: only a run that ended badly gets a
\* successor, whatever its observers still do (run-retry.ts assertRetryable).
OneCompletionPerWork ==
    \A w \in Works : Cardinality({n \in 1..MaxAttempts : row[<<w, n>>].status = "completed"}) <= 1

\* A dispatch ends even if the provider never does, since the ceiling on the
\* run's duration cuts it, and so does the reconciliation: again and again
\* nothing is in progress (with finitely many calls: each of them ends)
\* (gateway-lifecycle.ts enforceRunDurationCeiling, gateway-recovery.ts).
CallsEnd == []<>(recovery = NoRecovery /\ \A c \in Callers : at(c, "idle"))
=============================================================================
