----------------------------- MODULE Promotion -----------------------------
(***************************************************************************)
(* `promotion run`: the only way a task becomes done. A call checks the    *)
(* candidate and the reviewer's verdict, awaits a clean verification,      *)
(* fast-forwards the target branch and closes the task, and each of its    *)
(* writes is a row of its own: a call may die after any of them and be     *)
(* repeated, with the same or with other arguments.                        *)
(*                                                                         *)
(* The store has one writer: between two writes of a call no other command *)
(* touches it, except during the verification, which closes the store. The *)
(* branches of the repository belong to everybody at all times.            *)
(*                                                                         *)
(* A commit is the sequence of the changes it contains, so that an         *)
(* ancestor is a prefix: change k is made for candidate k, and 0 stands    *)
(* for the changes that others push.                                       *)
(***************************************************************************)
EXTENDS Naturals, Sequences, FiniteSets, SequencesExt

CONSTANTS
  Tasks,
  Calls,          \* `promotion run` commands that may be in flight
  Branches,
  Main,           \* the branch candidates are compared with when submitted
  Runs,           \* run specs of the reviewer
  MaxCandidates,  \* bound: review candidates, numbered as they are created
  MaxVersion,     \* bound: versions of a task's definition
  MaxConfig,      \* bound: contents of playbook.config.json
  MaxPushes,      \* bound: changes pushed by others to a branch
  None            \* a row that does not exist

Candidates == 1..MaxCandidates

VARIABLES
  task,       \* packets: status and version of each task's definition
  config,     \* the content of the configuration
  ref,        \* the commit of each branch
  candidate,  \* review_candidates
  run,        \* run_specs and gateway_run_state of the reviewer's runs
  stage,      \* promotion_state_events: the latest status of each candidate
  pinned,     \* promotion_candidates: the configuration it was created with
  verdict,    \* promotion_review_verdicts: the run that is recorded
  attempt,    \* promotion_integration_attempts: target and before
  outcome,    \* promotion_integration_outcomes
  receipt,    \* promotion_receipts
  call        \* the calls and the step each one is at

world == <<task, config, ref, candidate, run>>
rows == <<stage, pinned, verdict, attempt, outcome, receipt>>
vars == <<world, rows, call>>

TaskStatus == {"open", "review", "done"}
Verdict == {"approve", "request-changes"}
Stage == {"none", "created", "checks-completed", "approved", "rejected",
          "integration-pending", "integrated", "blocked", "closed"}
Outcome == {"succeeded", "failed", "unknown"}
Step == {"started", "checked", "judged", "verifying", "integrating",
         "attempted", "forwarding", "forwarded", "observed", "closing"}
Commit == Seq(0..MaxCandidates)
Submission == [task: Tasks, version: 1..MaxVersion, sha: Commit, base: Commit]
Review == [candidate: Candidates, output: Verdict \cup {None}]
Intent == [target: Branches, before: Commit]
Receipt == [run: Runs, target: Branches]
Promoting == [step: Step, candidate: Candidates, run: Runs, target: Branches]
Idle == [step |-> "idle"]

ASSUME MainAssumption == Main \in Branches
ASSUME BoundsAssumption ==
  {MaxCandidates, MaxPushes} \subseteq Nat /\ {MaxVersion, MaxConfig} \subseteq Nat \ {0}
ASSUME NoneAssumption ==
  /\ None \notin Runs /\ None \notin 1..MaxConfig /\ None \notin Verdict /\ None \notin Outcome
  /\ None \notin Submission /\ None \notin Review /\ None \notin Intent /\ None \notin Receipt

submitted(k) == candidate[k] # None
sha(k) == candidate[k].sha
taskOf(k) == candidate[k].task
\* Between two of its writes a call holds the store.
storeIsFree == \A c \in Calls : call[c].step \in {"idle", "verifying"}
at(c, step) == call[c].step = step
goTo(c, step) == call' = [call EXCEPT ![c].step = step]
return(c) == call' = [call EXCEPT ![c] = Idle]
----------------------------------------------------------------------------
Init ==
  /\ task = [t \in Tasks |-> [status |-> "open", version |-> 1]]
  /\ config = 1
  /\ ref = [b \in Branches |-> <<>>]
  /\ candidate = [k \in Candidates |-> None]
  /\ run = [r \in Runs |-> None]
  /\ stage = [k \in Candidates |-> "none"]
  /\ pinned = [k \in Candidates |-> None]
  /\ verdict = [k \in Candidates |-> None]
  /\ attempt = [k \in Candidates |-> None]
  /\ outcome = [k \in Candidates |-> None]
  /\ receipt = [k \in Candidates |-> None]
  /\ call = [c \in Calls |-> Idle]
----------------------------------------------------------------------------
(* The other commands, and everybody else's git. *)

mergeBase(x, y) == LongestCommonPrefix({x, y})

\* What a worktree of the task may have at its head when it is submitted: a new
\* change on main as it was when the work began or on the task's earlier work,
\* the commit of an earlier candidate again, or main itself.
startingPoints(t) ==
  Prefixes(ref[Main]) \cup {sha(k) : k \in {j \in Candidates : submitted(j) /\ taskOf(j) = t}}

\* `task move review`: one candidate per task, version and commit.
submit(t, k, s) ==
  /\ storeIsFree
  /\ task[t].status = "open"
  /\ \A j \in Candidates : submitted(j) <=> j < k
  /\ ~\E j \in Candidates : submitted(j) /\ taskOf(j) = t
                            /\ candidate[j].version = task[t].version /\ sha(j) = s
  /\ candidate' = [candidate EXCEPT ![k] =
       [task |-> t, version |-> task[t].version, sha |-> s, base |-> mergeBase(s, ref[Main])]]
  /\ task' = [task EXCEPT ![t].status = "review"]
  /\ UNCHANGED <<config, ref, run, rows, call>>

resubmit(t) ==
  /\ storeIsFree
  /\ task[t].status = "open"
  /\ \E j \in Candidates :
       submitted(j) /\ taskOf(j) = t /\ candidate[j].version = task[t].version
  /\ task' = [task EXCEPT ![t].status = "review"]
  /\ UNCHANGED <<config, ref, candidate, run, rows, call>>

\* `task move ready` of a task under review.
reopen(t) ==
  /\ storeIsFree
  /\ task[t].status = "review"
  /\ task' = [task EXCEPT ![t].status = "open"]
  /\ UNCHANGED <<config, ref, candidate, run, rows, call>>

\* `task amend` of an open task, or `import` of its file whatever its status.
redefine(t) ==
  /\ storeIsFree
  /\ task[t].version < MaxVersion
  /\ task' = [task EXCEPT ![t].version = @ + 1]
  /\ UNCHANGED <<config, ref, candidate, run, rows, call>>

\* A reviewer is dispatched to a task under review: its input is the latest
\* candidate of the current version.
dispatchReview(r, k) ==
  /\ storeIsFree
  /\ run[r] = None
  /\ submitted(k)
  /\ task[taskOf(k)].status = "review"
  /\ candidate[k].version = task[taskOf(k)].version
  /\ ~\E j \in Candidates : j > k /\ submitted(j) /\ taskOf(j) = taskOf(k)
                            /\ candidate[j].version = candidate[k].version
  /\ run' = [run EXCEPT ![r] = [candidate |-> k, output |-> None]]
  /\ UNCHANGED <<task, config, ref, candidate, rows, call>>

completeReview(r, v) ==
  /\ storeIsFree
  /\ run[r] # None
  /\ run[r].output = None
  /\ run' = [run EXCEPT ![r].output = v]
  /\ UNCHANGED <<task, config, ref, candidate, rows, call>>

editConfig ==
  /\ config < MaxConfig
  /\ config' = config + 1
  /\ UNCHANGED <<task, ref, candidate, run, rows, call>>

\* Somebody pushes a change, or merges a candidate by hand.
push(b) ==
  /\ \/ /\ Cardinality({n \in 1..Len(ref[b]) : ref[b][n] = 0}) < MaxPushes
        /\ ref' = [ref EXCEPT ![b] = Append(@, 0)]
     \/ \E k \in Candidates :
          /\ submitted(k)
          /\ IsStrictPrefix(ref[b], sha(k))
          /\ ref' = [ref EXCEPT ![b] = sha(k)]
  /\ UNCHANGED <<task, config, candidate, run, rows, call>>
----------------------------------------------------------------------------
(* The promotion. A step that cannot be taken is an error: the call aborts. *)

\* The definition is the one the candidate was made for.
assertWorkDefinition(k) == candidate[k].version = task[taskOf(k)].version
assertCurrentIdentity(k) == assertWorkDefinition(k) /\ pinned[k] = config
\* The run is a completed review of this candidate.
validateReviewerRun(k, r) == run[r] # None /\ run[r].candidate = k /\ run[r].output # None

\* ensurePromotionCandidate; a candidate that has its receipt is returned as is.
promote(c, k, r, b) ==
  /\ storeIsFree
  /\ call[c] = Idle
  /\ submitted(k)
  /\ assertWorkDefinition(k)
  /\ receipt[k] = None
  /\ call' = [call EXCEPT ![c] = [step |-> "started", candidate |-> k, run |-> r, target |-> b]]
  /\ IF stage[k] = "none"
     THEN /\ stage' = [stage EXCEPT ![k] = "created"]
          /\ pinned' = [pinned EXCEPT ![k] = config]
     ELSE UNCHANGED <<stage, pinned>>
  /\ UNCHANGED <<world, verdict, attempt, outcome, receipt>>

completeChecks(c) ==
  /\ at(c, "started")
  /\ LET k == call[c].candidate IN
       /\ assertCurrentIdentity(k)
       /\ validateReviewerRun(k, call[c].run)
       /\ stage' = [stage EXCEPT ![k] = IF @ = "created" THEN "checks-completed" ELSE @]
  /\ goTo(c, "checked")
  /\ UNCHANGED <<world, pinned, verdict, attempt, outcome, receipt>>

\* The verdict of a candidate is recorded once, before it is acted on.
recordValidatedVerdict(c) ==
  /\ at(c, "checked")
  /\ LET k == call[c].candidate IN
       /\ stage[k] = "checks-completed"
       /\ verdict[k] \in {None, call[c].run}
       /\ verdict' = [verdict EXCEPT ![k] = call[c].run]
  /\ goTo(c, "judged")
  /\ UNCHANGED <<world, stage, pinned, attempt, outcome, receipt>>

\* A request for changes ends the call.
judge(c) ==
  /\ at(c, "judged")
  /\ LET k == call[c].candidate IN
       IF run[call[c].run].output = "approve"
       THEN /\ stage' = [stage EXCEPT ![k] = "approved"]
            /\ goTo(c, "verifying")
       ELSE /\ stage' = [stage EXCEPT ![k] = "rejected"]
            /\ return(c)
  /\ UNCHANGED <<world, pinned, verdict, attempt, outcome, receipt>>

resume_notIntegrated(c) ==   \* mutant: a closing that was cut off is not resumed
  /\ at(c, "checked")
  /\ stage[call[c].candidate] \in {"approved", "integration-pending"}
  /\ goTo(c, "verifying")
  /\ UNCHANGED <<world, rows>>
\* A candidate judged by an earlier call resumes where that call left it.
resume(c) ==
  /\ at(c, "checked")
  /\ stage[call[c].candidate] \in {"approved", "integration-pending", "integrated"}
  /\ goTo(c, "verifying")
  /\ UNCHANGED <<world, rows>>

\* The clean verification passed; the stage is read again after the await.
verified(c) ==
  /\ at(c, "verifying")
  /\ storeIsFree
  /\ LET s == stage[call[c].candidate] IN
       \/ s \in {"approved", "integration-pending"} /\ goTo(c, "integrating")
       \/ s = "integrated" /\ goTo(c, "closing")
  /\ UNCHANGED <<world, rows>>

ensureIntegrationAttempt_anyBase(c) ==   \* mutant: takes the branch as it is
  /\ at(c, "integrating")
  /\ LET k == call[c].candidate
         b == call[c].target IN
       IF attempt[k] = None
       THEN attempt' = [attempt EXCEPT ![k] = [target |-> b, before |-> ref[b]]]
       ELSE attempt[k].target = b /\ UNCHANGED attempt
  /\ goTo(c, "attempted")
  /\ UNCHANGED <<world, stage, pinned, verdict, outcome, receipt>>
\* The intent is stored before the effect; the effect key is unique.
ensureIntegrationAttempt(c) ==
  /\ at(c, "integrating")
  /\ LET k == call[c].candidate
         b == call[c].target
         intent == [target |-> b, before |-> ref[b]] IN
       IF attempt[k] = None
       THEN /\ ref[b] = candidate[k].base
            /\ ~\E j \in Candidates :
                 attempt[j] = intent /\ sha(j) = sha(k) /\ taskOf(j) = taskOf(k)
            /\ attempt' = [attempt EXCEPT ![k] = intent]
       ELSE /\ attempt[k].target = b
            /\ UNCHANGED attempt
  /\ goTo(c, "attempted")
  /\ UNCHANGED <<world, stage, pinned, verdict, outcome, receipt>>

startIntegration(c) ==
  /\ at(c, "attempted")
  /\ LET k == call[c].candidate IN
       /\ stage' = [stage EXCEPT ![k] = "integration-pending"]
       /\ goTo(c, IF outcome[k] = None THEN "forwarding" ELSE "observed")
  /\ UNCHANGED <<world, pinned, verdict, attempt, outcome, receipt>>

fastForwardRef_notConditional(k) ==   \* mutant: update-ref without the old value
  ref' = [ref EXCEPT ![attempt[k].target] = sha(k)]
\* git update-ref <ref> <new> <old>: a compare-and-swap, which may also fail.
fastForwardRef(k) ==
  \/ /\ ref[attempt[k].target] = attempt[k].before
     /\ ref' = [ref EXCEPT ![attempt[k].target] = sha(k)]
  \/ UNCHANGED ref

forward(c) ==
  /\ at(c, "forwarding")
  /\ fastForwardRef(call[c].candidate)
  /\ goTo(c, "forwarded")
  /\ UNCHANGED <<task, config, candidate, run, rows>>

integrationObservation_moved(k) ==   \* mutant: a branch that moved is a success
  IF ref[attempt[k].target] = attempt[k].before THEN "failed" ELSE "succeeded"
\* The outcome is what the branch shows, whatever the update-ref reported.
integrationObservation(k) ==
  LET seen == ref[attempt[k].target] IN
  IF seen = sha(k) THEN "succeeded"
  ELSE IF seen = attempt[k].before THEN "failed" ELSE "unknown"

\* A branch that cannot be read is unknown too.
recordIntegrationOutcome(c) ==
  /\ at(c, "forwarded")
  /\ LET k == call[c].candidate IN
       \E o \in {integrationObservation(k), "unknown"} : outcome' = [outcome EXCEPT ![k] = o]
  /\ goTo(c, "observed")
  /\ UNCHANGED <<world, stage, pinned, verdict, attempt, receipt>>

requireSuccessfulIntegration(c) ==
  /\ at(c, "observed")
  /\ LET k == call[c].candidate IN
       IF outcome[k] = "succeeded"
       THEN stage' = [stage EXCEPT ![k] = "integrated"] /\ goTo(c, "closing")
       ELSE stage' = [stage EXCEPT ![k] = "blocked"] /\ return(c)
  /\ UNCHANGED <<world, pinned, verdict, attempt, outcome, receipt>>

closePromotedTask_anyStatus(c) ==   \* mutant: the update does not ask for review
  /\ at(c, "closing")
  /\ LET k == call[c].candidate IN
       /\ stage[k] = "integrated"
       /\ task' = [task EXCEPT ![taskOf(k)].status = "done"]
       /\ receipt' = [receipt EXCEPT ![k] = [run |-> call[c].run, target |-> call[c].target]]
       /\ stage' = [stage EXCEPT ![k] = "closed"]
  /\ return(c)
  /\ UNCHANGED <<config, ref, candidate, run, pinned, verdict, attempt, outcome>>
\* One transaction: the task, the receipt with the call's arguments, the stage.
closePromotedTask(c) ==
  /\ at(c, "closing")
  /\ LET k == call[c].candidate IN
       /\ stage[k] = "integrated"
       /\ task[taskOf(k)].status = "review"
       /\ task' = [task EXCEPT ![taskOf(k)].status = "done"]
       /\ receipt' = [receipt EXCEPT ![k] = [run |-> call[c].run, target |-> call[c].target]]
       /\ stage' = [stage EXCEPT ![k] = "closed"]
  /\ return(c)
  /\ UNCHANGED <<config, ref, candidate, run, pinned, verdict, attempt, outcome>>

\* A check refuses, the verification fails, or the process dies.
abort(c) ==
  /\ call[c] # Idle
  /\ return(c)
  /\ UNCHANGED <<world, rows>>
----------------------------------------------------------------------------
Others ==
  \/ \E t \in Tasks : resubmit(t) \/ reopen(t) \/ redefine(t)
  \/ \E t \in Tasks, k \in Candidates : \E s \in startingPoints(t) :
       submit(t, k, s) \/ submit(t, k, Append(s, k))
  \/ \E r \in Runs : \/ \E k \in Candidates : dispatchReview(r, k)
                     \/ \E v \in Verdict : completeReview(r, v)
  \/ editConfig
  \/ \E b \in Branches : push(b)

Advance(c) ==
  \/ completeChecks(c) \/ recordValidatedVerdict(c) \/ judge(c) \/ resume(c)
  \/ verified(c) \/ ensureIntegrationAttempt(c) \/ startIntegration(c) \/ forward(c)
  \/ recordIntegrationOutcome(c) \/ requireSuccessfulIntegration(c) \/ closePromotedTask(c)

Next ==
  \/ Others
  \/ \E c \in Calls, k \in Candidates, r \in Runs, b \in Branches : promote(c, k, r, b)
  \/ \E c \in Calls : Advance(c) \/ abort(c)

Spec == Init /\ [][Next]_vars
----------------------------------------------------------------------------
TypeOK ==
  /\ task \in [Tasks -> [status: TaskStatus, version: 1..MaxVersion]]
  /\ config \in 1..MaxConfig
  /\ ref \in [Branches -> Commit]
  /\ candidate \in [Candidates -> Submission \cup {None}]
  /\ run \in [Runs -> Review \cup {None}]
  /\ stage \in [Candidates -> Stage]
  /\ pinned \in [Candidates -> 1..MaxConfig \cup {None}]
  /\ verdict \in [Candidates -> Runs \cup {None}]
  /\ attempt \in [Candidates -> Intent \cup {None}]
  /\ outcome \in [Candidates -> Outcome \cup {None}]
  /\ receipt \in [Candidates -> Receipt \cup {None}]
  /\ \A k \in Candidates : /\ pinned[k] = None <=> stage[k] = "none"
                           /\ ~submitted(k) => stage[k] = "none"
  /\ call \in [Calls -> Promoting \cup {Idle}]

contains(b, k) == IsPrefix(sha(k), ref[b])
approved(k) == verdict[k] # None /\ validateReviewerRun(k, verdict[k])
                                 /\ run[verdict[k]].output = "approve"

\* A task is done exactly when one of its candidates has a receipt, one only, and
\* that candidate was approved by the review on record and is in the branch its
\* attempt names: no crash, retry or concurrent call closes anything else.
DoneWasApprovedAndLanded ==
  /\ \A k \in Candidates : receipt[k] # None =>
       /\ task[taskOf(k)].status = "done"
       /\ approved(k)
       /\ attempt[k] # None /\ contains(attempt[k].target, k)
  /\ \A t \in Tasks : task[t].status = "done" =>
       \E k \in Candidates : \A j \in Candidates :
         receipt[j] # None /\ taskOf(j) = t <=> j = k

\* The stage of a candidate and the rows written on the way agree after a crash
\* at any point: a rejected candidate has no attempt, an integrated one has a
\* success on record and is in its branch, a blocked one has none.
evidenceOf(k) ==
  /\ stage[k] \in {"approved", "integration-pending", "integrated", "blocked", "closed"} => approved(k)
  /\ stage[k] = "rejected" => verdict[k] # None /\ ~approved(k)
  /\ attempt[k] # None => approved(k)
  /\ outcome[k] # None => attempt[k] # None
  /\ stage[k] \in {"integrated", "closed"} => outcome[k] = "succeeded"
  /\ stage[k] = "blocked" => outcome[k] \in {"failed", "unknown"}
  /\ outcome[k] = "succeeded" => contains(attempt[k].target, k)
StageMatchesEvidence == \A k \in Candidates : evidenceOf(k)

\* A promotion never takes a change out of a branch, whatever is pushed between
\* its reads and its update-ref.
NoChangeIsLost == [][\A b \in Branches : IsPrefix(ref[b], ref'[b])]_vars

\* A promotion moves a branch only from the base of a candidate that its recorded
\* review approved to that candidate's commit.
OnlyApprovedWorkLands ==
  [][\A b \in Branches : ref'[b] # ref[b] /\ call' # call =>
       \E k \in Candidates : submitted(k) /\ approved(k)
                              /\ ref[b] = candidate[k].base /\ ref'[b] = sha(k)]_vars

\* The promise of the promotion, by the mapping of the stages to judgements.
work == [k \in Candidates |->
  IF ~submitted(k) THEN "unknown"
  ELSE IF stage[k] \in {"none", "created", "checks-completed"} THEN "proposed"
  ELSE IF stage[k] \in {"rejected", "closed"} THEN stage[k]
  ELSE "approved"]
owner == [k \in Candidates |-> IF submitted(k) THEN taskOf(k) ELSE None]
merged == [b \in Branches |-> {k \in Candidates : submitted(k) /\ contains(b, k)}]
done == {t \in Tasks : task[t].status = "done"}
Reviewed == INSTANCE ReviewedIntegration
ImplementsReviewedIntegration == Reviewed!Spec

\* A crash at any point of a promotion that has landed is recovered by repeating
\* it: once calls stop dying, a landed candidate is closed, unless its task leaves
\* review, its definition, the configuration or the branch changes meanwhile, or
\* the branch cannot be read.
landed(k) ==
  \/ stage[k] = "integrated"
  \/ attempt[k] # None /\ outcome[k] = None /\ ref[attempt[k].target] = sha(k)
undisturbed(k) == task[taskOf(k)].status = "review" /\ assertCurrentIdentity(k)
repeated(k) == \E c \in Calls, r \in Runs :
  validateReviewerRun(k, r) /\ landed(k) /\ promote(c, k, r, attempt[k].target)
RetriedSpec ==
  /\ Spec
  /\ \A c \in Calls : WF_vars(Advance(c) \/ abort(c))
  /\ \A k \in Candidates : SF_vars(repeated(k))
nobodyDies == <>[][\A c \in Calls :
  abort(c) => ~ENABLED Advance(c) /\ (at(c, "verifying") => storeIsFree)]_vars
LandedWorkIsClosed ==
  nobodyDies =>
    \A k \in Candidates :
      landed(k) /\ undisturbed(k) ~> stage[k] = "closed" \/ ~(landed(k) /\ undisturbed(k))
=============================================================================
